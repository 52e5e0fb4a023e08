--------------------------- MODULE Reception_proof ---------------------------
(***************************************************************************)
(* Proofs about the receptionist, for any number of groups and tables.     *)
(* What it keeps in its private record, in the shared table of who sits    *)
(* where and in its request slot always says the same.  A group's copy of  *)
(* its table is current until it posts its bill; the receipts at each      *)
(* table balance the bills, and one comes where each payer sleeps; and the *)
(* receptionist does not end before all have paid.                         *)
(***************************************************************************)
EXTENDS Restaurant_proof

-----------------------------------------------------------------------------
(* The stages of a visit, as the receptionist sees it                       *)

Arriving == {"goToRestaurant", "atReception", "requestTable"}
AtTable  == {"orderFood", "foodRequest", "requestFood", "postFoodRequest",
             "waitForWaiter", "waitFood", "waitingForFood", "foodArrives",
             "startEating", "eating", "eat", "checkOut", "checkingOut",
             "requestBill"}
Leaving  == {"waitForReceipt", "leave", "leaving", "exit"}

TableRequest(g) == MakeRequest("TABLEREQ", g)
BillRequest(g)  == MakeRequest("BILLREQ", g)

HasTable(g) == assignedTable[g] # NoTable

\* g has asked for a table and waits for one.
Awaits(g) == groupAt[g] = "waitForTable" /\ ~HasTable(g)

\* g has asked for the bill, and its payment is not received yet.
Owes(g) == groupAt[g] \in Leaving /\ HasTable(g)

\* The table of g is being decided; its payment is being received.
Deciding(g) ==
  /\ receptionistAt \in {"provideTable", "assigningTable", "decideTable"}
  /\ guest = g
PaymentOf(g) ==
  /\ receptionistAt \in {"receivePayment", "receivingPayment", "freeTable"}
  /\ guest = g

\* g has ever been put into the waiting room; it is still there.
Listed(g)  == \E i \in 0 .. listEnd - 1 : waitlist[i] = g
Waiting(g) == \E i \in listBegin .. listEnd - 1 : waitlist[i] = g

\* r is a request of a group that nothing has been done about.
Fresh(r) ==
  \E g \in Groups :
    \/ r = TableRequest(g) /\ Awaits(g) /\ ~Deciding(g) /\ ~Listed(g)
    \/ r = BillRequest(g) /\ Owes(g) /\ ~PaymentOf(g)

-----------------------------------------------------------------------------
(* The inductive invariant                                                  *)

\* What is in the slot, or has just been copied from it, is a fresh request.
SlotFresh ==
  /\ \A g \in Groups :
       /\ groupAt[g] = "postTableRequest" =>
            receptionistRequest = TableRequest(g)
       /\ groupAt[g] = "postBillRequest" => receptionistRequest = BillRequest(g)
  /\ sem["receptionistReq"] > 0 => Fresh(receptionistRequest)
  /\ receptionistAt = "readRequest" => Fresh(req)
  /\ receptionistAt # "readRequest" => req = NoRequest

\* A handler works for a group that waits for a table, or owes a payment.
GuestFits ==
  \A g \in Groups :
    /\ Deciding(g) => Awaits(g) /\ ~Waiting(g)
    /\ PaymentOf(g) => Owes(g)
GuestIsGroup ==
  receptionistAt \in {"provideTable", "assigningTable", "decideTable",
                      "receivePayment", "receivingPayment", "freeTable"}
    => guest \in Groups

\* A group is told of its table once, and has one while it is at it.
SeatsFit ==
  \A g \in Groups :
    /\ waitForTable[g] = Bit(groupAt[g] = "waitForTable" /\ HasTable(g))
    /\ groupAt[g] \in Arriving \cup {"postTableRequest"} => ~HasTable(g)
    /\ groupAt[g] \in AtTable \cup {"postBillRequest"} => HasTable(g)

\* Whoever waits for a table is known to the receptionist, and so is every
\* bill: in the slot, in its hand, or in its list.
NobodyForgotten ==
  \A g \in Groups :
    /\ Awaits(g) =>
         \/ sem["receptionistReq"] > 0 /\ receptionistRequest = TableRequest(g)
         \/ req = TableRequest(g) \/ Deciding(g) \/ Waiting(g)
    /\ Owes(g) =>
         \/ sem["receptionistReq"] > 0 /\ receptionistRequest = BillRequest(g)
         \/ req = BillRequest(g) \/ PaymentOf(g)

\* The list never wraps around: it has an entry for each group ever put into
\* the waiting room, once, those before listBegin called already.
ListFits ==
  /\ listBegin + groupsWaiting = listEnd
  /\ \A i \in 0 .. listEnd - 1 : waitlist[i] \in Groups
  /\ \A i, j \in 0 .. listEnd - 1 : waitlist[i] = waitlist[j] => i = j
  /\ \A i \in listBegin .. listEnd - 1 : Awaits(waitlist[i])
  /\ \A i \in 0 .. listBegin - 1 :
       \/ Deciding(waitlist[i])
       \/ HasTable(waitlist[i]) \/ groupAt[waitlist[i]] \in Leaving

\* The groups that were given a table right when they asked for it.
SeatedAtOnce ==
  {g \in Groups : /\ HasTable(g) \/ groupAt[g] \in Leaving
                  /\ ~Listed(g)}

\* There is a list only because so many of these came first.
ListNeeded == listEnd > 0 => Cardinality(SeatedAtOnce) >= NUMTABLES

\* A group that comes while others wait finds every table occupied; one that
\* was called finds a free table, and the last one if others still wait.
TablesInUse ==
  /\ groupsWaiting > 0 /\ receptionistAt # "nextGroup"
       /\ ~(\E g \in Groups : Deciding(g) /\ Listed(g))
       => nOccupied = NUMTABLES
  /\ receptionistAt = "nextGroup" \/ (\E g \in Groups : Deciding(g) /\ Listed(g))
       => /\ nOccupied < NUMTABLES
          /\ groupsWaiting > 0 => nOccupied = NUMTABLES - 1

ReceptionInv ==
  /\ SlotFresh /\ GuestFits /\ GuestIsGroup /\ SeatsFit /\ NobodyForgotten
  /\ TablesConsistent
  /\ ListFits /\ ListNeeded /\ TablesInUse

-----------------------------------------------------------------------------
(* Facts about single operators                                             *)

\* No request is both of one group and of another, or of two types.
LEMMA RequestsDiffer ==
  \A g, h : /\ TableRequest(g) = TableRequest(h) => g = h
            /\ BillRequest(g) = BillRequest(h) => g = h
            /\ TableRequest(g) # BillRequest(h)
            /\ TableRequest(g) # NoRequest /\ BillRequest(g) # NoRequest
<1>1. \A g, h : /\ TableRequest(g).reqGroup = g /\ BillRequest(h).reqGroup = h
                /\ TableRequest(g).reqType = "TABLEREQ"
                /\ BillRequest(h).reqType = "BILLREQ"
                /\ NoRequest.reqType = "none"
  BY DEF TableRequest, BillRequest, MakeRequest, NoRequest
<1> QED
  BY <1>1

\* The search of decideTableOrWait meets every table.
LEMMA SearchMeetsAll ==
  ASSUME nextTable \in Tables, NEW t \in Tables
  PROVE  \E i \in Tables : (i + nextTable) % NUMTABLES = t
<1>1. NUMTABLES \in Nat \ {0} /\ t \in 0 .. NUMTABLES - 1
      /\ nextTable \in 0 .. NUMTABLES - 1
  BY ConstantTypes DEF Tables
<1>2. CASE t >= nextTable
  <2>1. t - nextTable \in Tables /\ (t - nextTable) + nextTable = NUMTABLES * 0 + t
    BY <1>1, <1>2 DEF Tables
  <2>2. ((t - nextTable) + nextTable) % NUMTABLES = t
    BY <1>1, <2>1, ModUnique
  <2> QED
    BY <2>1, <2>2
<1>3. CASE t < nextTable
  <2> DEFINE i == t - nextTable + NUMTABLES
  <2>1. i \in Tables /\ i + nextTable = NUMTABLES * 1 + t /\ i + nextTable \in Nat
    BY <1>1, <1>3 DEF Tables
  <2>2. (i + nextTable) % NUMTABLES = t
    BY <1>1, <2>1, ModUnique
  <2> QED
    BY <2>1, <2>2
<1> QED
  BY <1>1, <1>2, <1>3

LEMMA TablesCount ==
  /\ IsFiniteSet(Tables) /\ Cardinality(Tables) = NUMTABLES
  /\ \A S \in SUBSET Tables :
       /\ IsFiniteSet(S) /\ Cardinality(S) \in 0 .. NUMTABLES
       /\ Cardinality(S) = NUMTABLES => S = Tables
<1>1. IsFiniteSet(Tables) /\ Cardinality(Tables) = NUMTABLES
  BY ConstantTypes, FS_Interval DEF Tables
<1>2. ASSUME NEW S \in SUBSET Tables
      PROVE  /\ IsFiniteSet(S) /\ Cardinality(S) \in 0 .. NUMTABLES
             /\ Cardinality(S) = NUMTABLES => S = Tables
  BY <1>1, ConstantTypes, FS_Subset, FS_CardinalityType
<1> QED
  BY <1>1, <1>2

\* It finds no table only when none is free.
LEMMA DecidesToWait ==
  ASSUME ReceptionistTypeOK, nOccupied = Cardinality(occupied),
         decideTableOrWait = NoTable
  PROVE  occupied = Tables /\ nOccupied = NUMTABLES
<1>1. occupied \subseteq Tables /\ nextTable \in Tables
  BY DEF ReceptionistTypeOK
<1>2. CASE nOccupied = NUMTABLES
  BY <1>1, <1>2, TablesCount
<1>3. CASE nOccupied # NUMTABLES
  <2> DEFINE after(i) == (i + nextTable) % NUMTABLES
             free == {i \in Tables : after(i) \notin occupied}
             least == CHOOSE i \in free : \A j \in free : i <= j
  <2>1. free = {} \/ after(least) = NoTable
    BY <1>3 DEF decideTableOrWait
  <2>2. \A i \in Tables : after(i) # NoTable
    BY <1>1, ConstantTypes DEF Tables, NoTable
  <2>3. free # {} => least \in Tables
    <3>1. free \subseteq Nat
      BY ConstantTypes DEF Tables
    <3> QED
      BY <3>1, LeastNatural
  <2>4. free = {}
    BY <2>1, <2>2, <2>3
  <2>5. \A i \in Tables : after(i) \in occupied
    BY <2>4
  <2>6. Tables \subseteq occupied
    BY <1>1, <2>5, SearchMeetsAll
  <2> QED
    BY <1>1, <2>6, TablesCount
<1> QED
  BY <1>2, <1>3

\* A table that is given out is free, and there is one.
LEMMA DecidesToSeat ==
  ASSUME ReceptionistTypeOK, decideTableOrWait # NoTable
  PROVE  /\ decideTableOrWait \in Tables \ occupied
         /\ nOccupied # NUMTABLES
<1>1. nextTable \in Tables
  BY DEF ReceptionistTypeOK
<1> QED
  BY <1>1, DecidesFreeTable DEF decideTableOrWait

-----------------------------------------------------------------------------
(* What a step of a group means to the receptionist                         *)

\* A group files a request, announces it, sits down, or stays at its stage.
Files(g) ==
  /\ sem["receptionistRequestPossible"] > 0
  /\ sem'["receptionistReq"] = sem["receptionistReq"]
  /\ UNCHANGED waitForTable
  /\ \/ /\ groupAt[g] \in Arriving /\ groupAt'[g] = "postTableRequest"
        /\ receptionistRequest' = TableRequest(g)
     \/ /\ groupAt[g] \in AtTable /\ groupAt'[g] = "postBillRequest"
        /\ receptionistRequest' = BillRequest(g)
Announces(g) ==
  /\ sem'["receptionistReq"] = sem["receptionistReq"] + 1
  /\ UNCHANGED <<waitForTable, receptionistRequest>>
  /\ \/ groupAt[g] = "postTableRequest" /\ groupAt'[g] = "waitForTable"
     \/ groupAt[g] = "postBillRequest" /\ groupAt'[g] = "waitForReceipt"
SitsDown(g) ==
  /\ sem'["receptionistReq"] = sem["receptionistReq"]
  /\ UNCHANGED receptionistRequest
  /\ groupAt[g] = "waitForTable" /\ groupAt'[g] \in AtTable
  /\ waitForTable[g] > 0
  /\ waitForTable' = [waitForTable EXCEPT ![g] = @ - 1]
StaysAtStage(g) ==
  /\ sem'["receptionistReq"] = sem["receptionistReq"]
  /\ UNCHANGED <<waitForTable, receptionistRequest>>
  /\ \/ groupAt[g] \in Arriving /\ groupAt'[g] \in Arriving
     \/ groupAt[g] \in AtTable /\ groupAt'[g] \in AtTable
     \/ groupAt[g] \in Leaving /\ groupAt'[g] \in Leaving

AtReception(g) ==
  Files(g) \/ Announces(g) \/ SitsDown(g) \/ StaysAtStage(g)

LEMMA GroupAtReception ==
  ASSUME TypeOK, NEW g \in Groups, GroupNext(g)
  PROVE  AtReception(g)
<1>1. groupAt \in [Groups -> GroupLocations] /\ SemTypeOK
  BY DEF TypeOK, SharedTypeOK, GroupTypeOK
<1>2. ASSUME NEW from, NEW to, goesTo(g, from, to)
      PROVE  groupAt[g] = from /\ groupAt'[g] = to
  BY <1>1, <1>2 DEF goesTo
<1>3. ASSUME NEW s \in SemNames \ {"receptionistReq"}, semDown(s) \/ semUp(s)
      PROVE  /\ sem'["receptionistReq"] = sem["receptionistReq"]
             /\ UNCHANGED waitForTable
  BY <1>1, <1>3, DownMoves, UpMoves DEF semDown, semUp, SemNames
<1> DEFINE SameStage(from, to) ==
             \/ from \in Arriving /\ to \in Arriving
             \/ from \in AtTable /\ to \in AtTable
             \/ from \in Leaving /\ to \in Leaving
<1>4. ASSUME NEW from, NEW to, SameStage(from, to),
             \/ lockState(g, from, to)
             \/ \E state : saveGroupState(g, from, state, to)
      PROVE  StaysAtStage(g)
  <2>1. "mutex" \in SemNames \ {"receptionistReq"}
    BY DEF SemNames
  <2>2. /\ UNCHANGED requestVars
        /\ semDown("mutex") \/ semUp("mutex")
        /\ goesTo(g, from, to)
    BY <1>4 DEF lockState, saveGroupState
  <2> QED
    BY <1>2, <1>3, <1>4, <2>1, <2>2 DEF StaysAtStage, requestVars
<1>5. ASSUME NEW from, NEW to, SameStage(from, to),
             goesTo(g, from, to), UNCHANGED receptionistRequest,
             UNCHANGED waitForTable,
             sem'["receptionistReq"] = sem["receptionistReq"]
      PROVE  StaysAtStage(g)
  BY <1>2, <1>5 DEF StaysAtStage
<1>6. ASSUME NEW from, NEW to, NEW type,
             fillReceptionistRequest(g, from, type, to)
      PROVE  /\ groupAt[g] = from /\ groupAt'[g] = to
             /\ sem["receptionistRequestPossible"] > 0
             /\ sem'["receptionistReq"] = sem["receptionistReq"]
             /\ UNCHANGED waitForTable
             /\ receptionistRequest' = MakeRequest(type, g)
  BY <1>2, <1>3, <1>6 DEF fillReceptionistRequest, semDown, SemNames
<1>7. ASSUME NEW from, NEW to, postReceptionistRequest(g, from, to)
      PROVE  /\ groupAt[g] = from /\ groupAt'[g] = to
             /\ sem'["receptionistReq"] = sem["receptionistReq"] + 1
             /\ UNCHANGED <<waitForTable, receptionistRequest>>
  BY <1>1, <1>2, <1>7, UpMoves DEF postReceptionistRequest, semUp, SemNames,
     requestVars
<1>8. checkInAtReception(g) => AtReception(g)
  <2>1. CheckInLock(g) \/ CheckInSave(g) => StaysAtStage(g)
    BY <1>4 DEF CheckInLock, CheckInSave, Arriving
  <2>2. CheckInRequest(g) => Files(g)
    BY <1>6 DEF CheckInRequest, Files, Arriving, TableRequest
  <2>3. CheckInPost(g) => Announces(g)
    BY <1>7 DEF CheckInPost, Announces
  <2>4. CheckInSit(g) => SitsDown(g)
    BY <1>2 DEF CheckInSit, SitsDown, AtTable, requestVars
  <2> QED
    BY <2>1, <2>2, <2>3, <2>4 DEF checkInAtReception, AtReception
<1>9. orderFood(g) => StaysAtStage(g)
  <2>1. OrderLock(g) \/ OrderSave(g) => StaysAtStage(g)
    BY <1>4 DEF OrderLock, OrderSave, AtTable
  <2>2. OrderRequest(g) \/ OrderPost(g) => StaysAtStage(g)
    BY <1>3, <1>5 DEF OrderRequest, OrderPost, AtTable, SemNames, requestVars
  <2>3. OrderTaken(g) => StaysAtStage(g)
    BY <1>5 DEF OrderTaken, AtTable, requestVars
  <2> QED
    BY <2>1, <2>2, <2>3 DEF orderFood
<1>10. waitFood(g) => StaysAtStage(g)
  <2>1. WaitFoodLock(g) \/ WaitFoodSave(g) \/ EatLock(g) \/ EatSave(g)
          => StaysAtStage(g)
    BY <1>4 DEF WaitFoodLock, WaitFoodSave, EatLock, EatSave, AtTable
  <2>2. FoodServed(g) => StaysAtStage(g)
    BY <1>5 DEF FoodServed, AtTable, requestVars
  <2> QED
    BY <2>1, <2>2 DEF waitFood
<1>11. checkOutAtReception(g) => AtReception(g)
  <2>1. CheckOutLock(g) \/ CheckOutSave(g) => StaysAtStage(g)
    BY <1>4 DEF CheckOutLock, CheckOutSave, AtTable
  <2>2. LeaveLock(g) \/ LeaveSave(g) => StaysAtStage(g)
    BY <1>4 DEF LeaveLock, LeaveSave, Leaving
  <2>3. FinishMeal(g) => StaysAtStage(g)
    BY <1>5 DEF FinishMeal, AtTable, requestVars, semVars
  <2>4. CheckOutDone(g) => StaysAtStage(g)
    BY <1>5 DEF CheckOutDone, Leaving, requestVars
  <2>5. CheckOutRequest(g) => Files(g)
    BY <1>6 DEF CheckOutRequest, Files, AtTable, BillRequest
  <2>6. CheckOutPost(g) => Announces(g)
    BY <1>7 DEF CheckOutPost, Announces
  <2> QED
    BY <2>1, <2>2, <2>3, <2>4, <2>5, <2>6 DEF checkOutAtReception, AtReception
<1> QED
  BY <1>8, <1>9, <1>10, <1>11 DEF GroupNext, AtReception

\* Whoever waits for a table without having one stays where it is, and so does
\* whoever has left its table, and a group has a table when it leaves.
LEMMA GroupsWait ==
  ASSUME TypeOK, NEW g \in Groups, GroupStep(g), SeatsFit
  PROVE  \A h \in Groups :
           /\ HasTable(h)' = HasTable(h)
           /\ Awaits(h) => Awaits(h)'
           /\ groupAt[h] \in Leaving => groupAt'[h] \in Leaving
           /\ groupAt'[h] \in Leaving => HasTable(h) \/ groupAt[h] \in Leaving
           /\ Awaits(h)' => Awaits(h) \/ (h = g /\ groupAt[g] = "postTableRequest")
           /\ Owes(h)' => Owes(h) \/ (h = g /\ groupAt[g] = "postBillRequest")
<1>1. AtReception(g)
  BY GroupAtReception DEF GroupStep
<1>2. \A h \in Groups \ {g} : groupAt'[h] = groupAt[h]
  BY GroupMovesAlone DEF GroupStep, TypeOK
<1>3. assignedTable' = assignedTable
  BY DEF GroupStep, GroupNext, tableVars
<1>4. \A h \in Groups : HasTable(h)' = HasTable(h)
  BY <1>3 DEF HasTable
<1>5. groupAt[g] = "waitForTable" /\ ~HasTable(g) => groupAt'[g] = "waitForTable"
  BY <1>1 DEF AtReception, Files, Announces, SitsDown, StaysAtStage, SeatsFit,
     Arriving, AtTable, Leaving, Bit
<1>6. groupAt[g] \in Leaving => groupAt'[g] \in Leaving
  BY <1>1 DEF AtReception, Files, Announces, SitsDown, StaysAtStage,
     Arriving, AtTable, Leaving
<1>7. groupAt'[g] \in Leaving =>
        groupAt[g] = "postBillRequest" \/ groupAt[g] \in Leaving
  BY <1>1 DEF AtReception, Files, Announces, SitsDown, StaysAtStage,
     Arriving, AtTable, Leaving
<1>8. groupAt'[g] = "waitForTable" =>
        groupAt[g] = "postTableRequest" \/ groupAt[g] = "waitForTable"
  BY <1>1 DEF AtReception, Files, Announces, SitsDown, StaysAtStage,
     Arriving, AtTable, Leaving
<1>9. groupAt[g] = "postBillRequest" => HasTable(g)
  BY DEF SeatsFit
<1>10. SUFFICES ASSUME NEW h \in Groups
       PROVE  /\ Awaits(h) => Awaits(h)'
              /\ groupAt[h] \in Leaving => groupAt'[h] \in Leaving
              /\ groupAt'[h] \in Leaving => HasTable(h) \/ groupAt[h] \in Leaving
              /\ Awaits(h)' => Awaits(h) \/ (h = g /\ groupAt[g] = "postTableRequest")
              /\ Owes(h)' => Owes(h) \/ (h = g /\ groupAt[g] = "postBillRequest")
  BY <1>4
<1>11. HasTable(h)' = HasTable(h)
  BY <1>4
<1>12. CASE h = g
  BY <1>12, <1>11, <1>5, <1>6, <1>7, <1>8, <1>9 DEF Awaits, Owes
<1>13. CASE h # g
  BY <1>13, <1>2, <1>11 DEF Awaits, Owes
<1> QED
  BY <1>12, <1>13

-----------------------------------------------------------------------------
(* Every step keeps the invariant: a step of a group                        *)

\* A group that has not announced its request is not in the list.
LEMMA PostingIsNew ==
  ASSUME ReceptionistTypeOK, SeatsFit, GuestFits, ListFits, NEW g \in Groups,
         groupAt[g] = "postTableRequest"
  PROVE  ~Listed(g) /\ ~Deciding(g) /\ ~HasTable(g)
<1>1. ~HasTable(g) /\ ~Awaits(g) /\ groupAt[g] \notin Leaving
  BY DEF SeatsFit, Awaits, Leaving
<1>2. ~Deciding(g)
  BY <1>1 DEF GuestFits
<1>3. ASSUME NEW i \in 0 .. listEnd - 1, waitlist[i] = g PROVE FALSE
  <2>1. i \in listBegin .. listEnd - 1 \/ i \in 0 .. listBegin - 1
    BY DEF ReceptionistTypeOK
  <2> QED
    BY <1>1, <1>2, <1>3, <2>1 DEF ListFits
<1> QED
  BY <1>1, <1>2, <1>3 DEF Listed

LEMMA GroupKeepsReception ==
  ASSUME TypeOK, RequestSlotsExclusive, ReceptionInv, NEW g \in Groups,
         GroupStep(g)
  PROVE  ReceptionInv'
<1>1. AtReception(g)
  BY GroupAtReception DEF GroupStep
<1>2. /\ UNCHANGED <<receptionistAt, receptionistReqs, req, guest, occupied,
                     nOccupied, nextTable, waitlist, listBegin, listEnd,
                     assignedTable, groupsWaiting>>
      /\ \A h \in Groups \ {g} : groupAt'[h] = groupAt[h]
  BY GroupMovesAlone DEF GroupStep, GroupNext, receptionistVars, recordVars,
     tableVars, TypeOK
<1>3. \A h \in Groups :
        /\ HasTable(h)' = HasTable(h) /\ Deciding(h)' = Deciding(h)
        /\ PaymentOf(h)' = PaymentOf(h) /\ Listed(h)' = Listed(h)
        /\ Waiting(h)' = Waiting(h)
  BY <1>2 DEF HasTable, Deciding, PaymentOf, Listed, Waiting
<1>4. \A h \in Groups :
        /\ Awaits(h) => Awaits(h)'
        /\ groupAt[h] \in Leaving => groupAt'[h] \in Leaving
        /\ groupAt'[h] \in Leaving => HasTable(h) \/ groupAt[h] \in Leaving
        /\ Awaits(h)' =>
             Awaits(h) \/ (h = g /\ groupAt[g] = "postTableRequest")
        /\ Owes(h)' => Owes(h) \/ (h = g /\ groupAt[g] = "postBillRequest")
  BY GroupsWait DEF ReceptionInv
<1>5. \A h \in Groups : Owes(h) => Owes(h)'
  BY <1>3, <1>4 DEF Owes
<1>6. receptionistToken = 1
  BY DEF RequestSlotsExclusive, receptionistToken
<1>7. ASSUME Files(g)
      PROVE  /\ sem'["receptionistReq"] = 0 /\ receptionistAt # "readRequest"
             /\ \A h \in Groups : groupAt[h] \notin {"postTableRequest",
                                                     "postBillRequest"}
  BY <1>6, <1>7, ReceptionistSlotHolder DEF Files, PostingToReceptionist, at
<1>8. ASSUME Announces(g)
      PROVE  sem["receptionistReq"] = 0 /\ receptionistAt # "readRequest"
             /\ PostingToReceptionist = {g}
  <2>1. g \in PostingToReceptionist
    BY <1>8 DEF Announces, PostingToReceptionist, at
  <2> QED
    BY <1>6, <2>1, ReceptionistSlotHolder
<1>9. \A r : Fresh(r) => Fresh(r)'
  BY <1>3, <1>4, <1>5 DEF Fresh, TableRequest, BillRequest
<1>10. SlotFresh'
  <2>1. SlotFresh /\ sem["receptionistReq"] \in Nat
    BY SlotTypes DEF ReceptionInv
  <2>2. ASSUME NEW h \in Groups
        PROVE  /\ groupAt'[h] = "postTableRequest" =>
                    receptionistRequest' = TableRequest(h)
               /\ groupAt'[h] = "postBillRequest" =>
                    receptionistRequest' = BillRequest(h)
    <3>1. CASE Files(g)
      BY <1>2, <1>7, <3>1 DEF Files
    <3>2. CASE ~Files(g)
      <4>1. /\ receptionistRequest' = receptionistRequest
            /\ groupAt'[g] \notin {"postTableRequest", "postBillRequest"}
        BY <1>1, <3>2 DEF AtReception, Announces, SitsDown, StaysAtStage,
           Arriving, AtTable, Leaving
      <4> QED
        BY <1>2, <2>1, <4>1 DEF SlotFresh
    <3> QED
      BY <3>1, <3>2
  <2>3. sem'["receptionistReq"] > 0 => Fresh(receptionistRequest)'
    <3>1. CASE Files(g)
      BY <1>7, <3>1
    <3>2. CASE Announces(g)
      <4>1. CASE groupAt[g] = "postTableRequest"
        <5>1. receptionistRequest' = TableRequest(g)
          BY <2>1, <3>2, <4>1 DEF Announces, SlotFresh
        <5>2. ~Listed(g) /\ ~Deciding(g) /\ ~HasTable(g)
          BY <4>1, PostingIsNew DEF ReceptionInv, TypeOK
        <5>3. Awaits(g)'
          BY <1>3, <3>2, <4>1, <5>2 DEF Announces, Awaits
        <5> QED
          BY <1>3, <5>1, <5>2, <5>3 DEF Fresh, TableRequest
      <4>2. CASE groupAt[g] = "postBillRequest"
        <5>1. receptionistRequest' = BillRequest(g)
          BY <2>1, <3>2, <4>2 DEF Announces, SlotFresh
        <5>2. HasTable(g) /\ ~PaymentOf(g)
          BY <4>2 DEF ReceptionInv, SeatsFit, GuestFits, Owes, Leaving
        <5>3. Owes(g)'
          BY <1>3, <3>2, <4>2, <5>2 DEF Announces, Owes, Leaving
        <5> QED
          BY <1>3, <5>1, <5>2, <5>3 DEF Fresh, BillRequest
      <4> QED
        BY <3>2, <4>1, <4>2 DEF Announces
    <3>3. CASE SitsDown(g) \/ StaysAtStage(g)
      <4>1. /\ sem'["receptionistReq"] = sem["receptionistReq"]
            /\ receptionistRequest' = receptionistRequest
        BY <3>3 DEF SitsDown, StaysAtStage
      <4> QED
        BY <1>9, <2>1, <4>1 DEF SlotFresh, Fresh
    <3> QED
      BY <1>1, <3>1, <3>2, <3>3 DEF AtReception
  <2>4. /\ receptionistAt' = "readRequest" => Fresh(req)'
        /\ receptionistAt' # "readRequest" => req' = NoRequest
    BY <1>2, <1>9, <2>1 DEF SlotFresh, Fresh
  <2> QED
    BY <2>2, <2>3, <2>4 DEF SlotFresh, TableRequest, BillRequest
<1>11. GuestFits' /\ GuestIsGroup'
  BY <1>2, <1>3, <1>4, <1>5 DEF ReceptionInv, GuestFits, GuestIsGroup
<1>12. SeatsFit'
  <2>1. SeatsFit /\ waitForTable \in [Groups -> Nat]
    BY DEF ReceptionInv, TypeOK, SharedTypeOK, SemTypeOK
  <2>2. ASSUME NEW h \in Groups \ {g}
        PROVE  waitForTable'[h] = waitForTable[h] /\ groupAt'[h] = groupAt[h]
    BY <1>1, <1>2, <2>1 DEF AtReception, Files, Announces, SitsDown, StaysAtStage
  <2>3. /\ waitForTable'[g] = Bit(groupAt'[g] = "waitForTable" /\ HasTable(g))
        /\ groupAt'[g] \in Arriving \cup {"postTableRequest"} => ~HasTable(g)
        /\ groupAt'[g] \in AtTable \cup {"postBillRequest"} => HasTable(g)
    <3>1. CASE Files(g)
      BY <2>1, <3>1 DEF Files, SeatsFit, Arriving, AtTable, Bit
    <3>2. CASE Announces(g)
      BY <2>1, <3>2 DEF Announces, SeatsFit, Arriving, AtTable, Bit
    <3>3. CASE SitsDown(g)
      BY <2>1, <3>3 DEF SitsDown, SeatsFit, Arriving, AtTable, Bit
    <3>4. CASE StaysAtStage(g)
      BY <2>1, <3>4 DEF StaysAtStage, SeatsFit, Arriving, AtTable, Leaving, Bit
    <3> QED
      BY <1>1, <3>1, <3>2, <3>3, <3>4 DEF AtReception
  <2> QED
    BY <1>3, <2>1, <2>2, <2>3 DEF SeatsFit, Arriving, AtTable, Bit
<1>13. NobodyForgotten'
  <2>1. /\ NobodyForgotten /\ SlotFresh /\ sem["receptionistReq"] \in Nat
    BY SlotTypes DEF ReceptionInv
  <2>2. ASSUME NEW r, sem["receptionistReq"] > 0, receptionistRequest = r
        PROVE  sem'["receptionistReq"] > 0 /\ receptionistRequest' = r
    <3>1. ~Files(g)
      BY <1>6, <2>2, ReceptionistSlotHolder DEF Files
    <3> QED
      BY <1>1, <2>1, <2>2, <3>1 DEF AtReception, Announces, SitsDown, StaysAtStage
  <2>3. ASSUME groupAt[g] = "postTableRequest" \/ groupAt[g] = "postBillRequest"
        PROVE  /\ sem'["receptionistReq"] > 0
               /\ receptionistRequest' = receptionistRequest
    BY <1>1, <2>1, <2>3 DEF AtReception, Files, Announces, SitsDown,
       StaysAtStage, Arriving, AtTable, Leaving
  <2>4. ASSUME NEW h \in Groups, Awaits(h)'
        PROVE  \/ /\ sem'["receptionistReq"] > 0
                  /\ receptionistRequest' = TableRequest(h)
               \/ req' = TableRequest(h) \/ Deciding(h)' \/ Waiting(h)'
    <3>1. CASE Awaits(h)
      BY <1>2, <1>3, <2>1, <2>2, <3>1 DEF NobodyForgotten
    <3>2. CASE h = g /\ groupAt[g] = "postTableRequest"
      BY <2>1, <2>3, <3>2 DEF SlotFresh
    <3> QED
      BY <1>4, <2>4, <3>1, <3>2
  <2>5. ASSUME NEW h \in Groups, Owes(h)'
        PROVE  \/ /\ sem'["receptionistReq"] > 0
                  /\ receptionistRequest' = BillRequest(h)
               \/ req' = BillRequest(h) \/ PaymentOf(h)'
    <3>1. CASE Owes(h)
      BY <1>2, <1>3, <2>1, <2>2, <3>1 DEF NobodyForgotten
    <3>2. CASE h = g /\ groupAt[g] = "postBillRequest"
      BY <2>1, <2>3, <3>2 DEF SlotFresh
    <3> QED
      BY <1>4, <2>5, <3>1, <3>2
  <2> QED
    BY <2>4, <2>5 DEF NobodyForgotten, TableRequest, BillRequest
<1>14. TablesConsistent'
  BY <1>2 DEF ReceptionInv, TablesConsistent
<1>15. ListFits'
  <2>1. ListFits /\ listBegin \in Nat /\ listEnd \in Nat
    BY DEF ReceptionInv, TypeOK, ReceptionistTypeOK
  <2>2. \A i \in 0 .. listEnd - 1 : waitlist[i] \in Groups
    BY <2>1 DEF ListFits
  <2>3. \A i \in listBegin .. listEnd - 1 : Awaits(waitlist[i])'
    BY <1>2, <1>4, <2>1, <2>2 DEF ListFits
  <2>4. listBegin <= listEnd
    <3>1. groupsWaiting \in Nat
      BY DEF TypeOK, SharedTypeOK, TableTypeOK
    <3> QED
      BY <2>1, <3>1 DEF ListFits
  <2>5. ASSUME NEW i \in 0 .. listBegin - 1
        PROVE  \/ Deciding(waitlist[i])' \/ HasTable(waitlist[i])'
               \/ groupAt'[waitlist[i]] \in Leaving
    <3>1. waitlist[i] \in Groups
      BY <2>1, <2>2, <2>4
    <3> QED
      BY <1>2, <1>3, <1>4, <2>1, <3>1 DEF ListFits
  <2> QED
    BY <1>2, <2>1, <2>3, <2>5 DEF ListFits
<1>16. ListNeeded'
  <2>1. SeatedAtOnce' = SeatedAtOnce
    BY <1>3, <1>4 DEF SeatedAtOnce
  <2> QED
    BY <1>2, <2>1 DEF ReceptionInv, ListNeeded
<1>17. TablesInUse'
  BY <1>2, <1>3 DEF ReceptionInv, TablesInUse
<1> QED
  BY <1>10, <1>11, <1>12, <1>13, <1>14, <1>15, <1>16, <1>17 DEF ReceptionInv

-----------------------------------------------------------------------------
(* A step that changes nothing the invariant is about                       *)

receptionView == <<sem["receptionistReq"], waitForTable, receptionistRequest,
                   groupAt, assignedTable, groupsWaiting, req, guest,
                   recordVars>>

\* The receptionist enters or leaves the critical region in which it changes
\* its state.
SavesState ==
  \/ /\ receptionistAt \in {"waitForGroup", "waitingForGroup"}
     /\ receptionistAt' \in {"waitingForGroup", "takeRequest"}
  \/ /\ receptionistAt \in {"provideTable", "assigningTable"}
     /\ receptionistAt' \in {"assigningTable", "decideTable"}
  \/ /\ receptionistAt \in {"receivePayment", "receivingPayment"}
     /\ receptionistAt' \in {"receivingPayment", "freeTable"}

LEMMA ReceptionUndisturbed ==
  ASSUME ReceptionInv, UNCHANGED receptionView,
         UNCHANGED receptionistAt \/ SavesState
  PROVE  ReceptionInv'
<1>1. /\ UNCHANGED <<waitForTable, receptionistRequest, groupAt, assignedTable,
                     groupsWaiting, req, guest, occupied,
                     nOccupied, waitlist, listBegin, listEnd>>
      /\ sem'["receptionistReq"] = sem["receptionistReq"]
  BY DEF receptionView, recordVars
<1>2. /\ receptionistAt' = "readRequest" <=> receptionistAt = "readRequest"
      /\ receptionistAt' = "nextGroup" <=> receptionistAt = "nextGroup"
  BY DEF SavesState
<1>3. \A h : /\ HasTable(h)' = HasTable(h)
             /\ Listed(h)' = Listed(h) /\ Waiting(h)' = Waiting(h)
             /\ Awaits(h)' = Awaits(h) /\ Owes(h)' = Owes(h)
  BY <1>1 DEF HasTable, Listed, Waiting, Awaits, Owes
<1>4. \A h : Deciding(h)' = Deciding(h) /\ PaymentOf(h)' = PaymentOf(h)
  BY <1>1 DEF Deciding, PaymentOf, SavesState
<1>5. SlotFresh'
  BY <1>1, <1>2, <1>3, <1>4 DEF ReceptionInv, SlotFresh, Fresh, TableRequest,
     BillRequest
<1>6. GuestFits' /\ GuestIsGroup' /\ SeatsFit'
  BY <1>1, <1>3, <1>4 DEF ReceptionInv, GuestFits, GuestIsGroup, SeatsFit, Bit,
     Arriving, AtTable, SavesState
<1>7. NobodyForgotten'
  BY <1>1, <1>3, <1>4 DEF ReceptionInv, NobodyForgotten, TableRequest,
     BillRequest
<1>8. TablesConsistent' /\ ListFits' /\ TablesInUse'
  BY <1>1, <1>2, <1>3, <1>4 DEF ReceptionInv, TablesConsistent, ListFits,
     TablesInUse, Leaving
<1>9. ListNeeded'
  <2>1. SeatedAtOnce' = SeatedAtOnce
    BY <1>1, <1>3 DEF SeatedAtOnce, Leaving
  <2> QED
    BY <1>1, <2>1 DEF ReceptionInv, ListNeeded
<1> QED
  BY <1>5, <1>6, <1>7, <1>8, <1>9 DEF ReceptionInv

LEMMA ServersKeepReception ==
  ASSUME TypeOK, ReceptionInv, WaiterStep \/ ChefStep \/ UNCHANGED vars
  PROVE  ReceptionInv'
<1>1. CASE WaiterStep
  <2>1. WaiterOnSlots
    BY <1>1, WaiterUsesSlot DEF WaiterStep
  <2>2. sem'["receptionistReq"] = sem["receptionistReq"]
    BY <2>1, DownMoves, UpMoves DEF WaiterOnSlots, SemNames, TypeOK, SharedTypeOK
  <2>3. UNCHANGED waitForTable
    BY <1>1 DEF WaiterStep, WaiterNext, waitForClientOrChef, TakeQueued,
       IdleLock, IdleSave, TakeRequest, ReadRequest, informChef, InformLock,
       InformSave, PostOrder, WaitForChef, InformGroup, takeFoodToTable,
       TakeFoodLock, TakeFoodSave, ServeFood, semDown, semUp, semVars
  <2>4. UNCHANGED receptionView /\ UNCHANGED receptionistAt
    BY <1>1, <2>2, <2>3 DEF receptionView, WaiterStep, WaiterNext, groupVars,
       tableVars, requestVars, receptionistVars
  <2> QED
    BY <2>4, ReceptionUndisturbed
<1>2. CASE ChefStep
  <2>1. ChefOnSlots
    BY <1>2, ChefUsesSlot DEF ChefStep
  <2>2. sem'["receptionistReq"] = sem["receptionistReq"]
    BY <2>1, DownMoves, UpMoves DEF ChefOnSlots, SemNames, TypeOK, SharedTypeOK
  <2>3. UNCHANGED waitForTable
    BY <2>1 DEF ChefOnSlots, semDown, semUp
  <2>4. UNCHANGED receptionView /\ UNCHANGED receptionistAt
    BY <1>2, <2>2, <2>3 DEF receptionView, ChefStep, ChefNext, groupVars,
       tableVars, receptionistVars
  <2> QED
    BY <2>4, ReceptionUndisturbed
<1>3. CASE UNCHANGED vars
  BY <1>3, ReceptionUndisturbed DEF receptionView, vars, sharedVars, semVars,
     requestVars, tableVars, groupVars, receptionistVars
<1> QED
  BY <1>1, <1>2, <1>3

-----------------------------------------------------------------------------
(* A step of the receptionist                                               *)

LEMMA ReceptionistSteps ==
  ASSUME TypeOK, ReceptionistStep
  PROVE  \/ SavesState /\ UNCHANGED receptionView
         \/ TakeGroupRequest \/ ReadGroupRequest \/ SeatGroup
         \/ PutInWaitingRoom \/ FreeTable \/ CallNextGroup \/ NobodyWaits
<1> UNCHANGED groupAt /\ UNCHANGED requestVars
  BY DEF ReceptionistStep, ReceptionistNext, groupVars
<1>1. ASSUME NEW from, NEW to,
             \/ lockReceptionistState(from, to)
             \/ \E state : saveReceptionistState(from, state, to)
      PROVE  /\ UNCHANGED receptionView
             /\ receptionistAt = from /\ receptionistAt' = to
  <2>1. semDown("mutex") \/ semUp("mutex")
    BY <1>1 DEF lockReceptionistState, saveReceptionistState
  <2>2. /\ sem'["receptionistReq"] = sem["receptionistReq"]
        /\ UNCHANGED waitForTable
    BY <2>1, DownMoves, UpMoves DEF semDown, semUp, SemNames, TypeOK, SharedTypeOK
  <2> QED
    BY <1>1, <2>2 DEF lockReceptionistState, saveReceptionistState,
       receptionistGoesTo, receptionView, tableVars, requestVars
<1>2. WaitGroupLock \/ WaitGroupSave => SavesState /\ UNCHANGED receptionView
  BY <1>1 DEF WaitGroupLock, WaitGroupSave, SavesState
<1>3. ProvideLock \/ ProvideSave => SavesState /\ UNCHANGED receptionView
  BY <1>1 DEF ProvideLock, ProvideSave, SavesState
<1>4. PaymentLock \/ PaymentSave => SavesState /\ UNCHANGED receptionView
  BY <1>1 DEF PaymentLock, PaymentSave, SavesState
<1> QED
  BY <1>2, <1>3, <1>4 DEF ReceptionistStep, ReceptionistNext, waitForGroup,
     provideTableOrWaitingRoom, receivePayment

\* The loop of main goes on outside of every handler.
LEMMA BackInLoop ==
  ASSUME requestDone
  PROVE  /\ receptionistAt' \in {"waitForGroup", "exit"}
         /\ \A h : ~Deciding(h)' /\ ~PaymentOf(h)'
BY DEF requestDone, receptionistLoop, Deciding, PaymentOf

LEMMA TakingKeepsReception ==
  ASSUME TypeOK, RequestSlotsExclusive, ReceptionInv, TakeGroupRequest,
         UNCHANGED <<groupAt, receptionistRequest>>
  PROVE  ReceptionInv'
<1>1. /\ UNCHANGED <<waitForTable, receptionistRequest, groupAt, assignedTable,
                     groupsWaiting, guest, occupied, nOccupied, waitlist,
                     listBegin, listEnd>>
      /\ receptionistAt = "takeRequest" /\ receptionistAt' = "readRequest"
      /\ req' = receptionistRequest
  BY DEF TakeGroupRequest, receptionistGoesTo, recordVars, tableVars, semDown
<1>2. sem["receptionistReq"] > 0 /\ sem'["receptionistReq"] = 0
  <2>1. receptionistToken = 1
    BY DEF RequestSlotsExclusive, receptionistToken
  <2>2. /\ sem["receptionistReq"] > 0
        /\ sem'["receptionistReq"] = sem["receptionistReq"] - 1
    BY DownMoves DEF TakeGroupRequest, SemNames, TypeOK, SharedTypeOK
  <2> QED
    BY <2>1, <2>2, ReceptionistSlotHolder
<1>3. \A h : /\ HasTable(h)' = HasTable(h) /\ Deciding(h)' = Deciding(h)
             /\ PaymentOf(h)' = PaymentOf(h) /\ Listed(h)' = Listed(h)
             /\ Waiting(h)' = Waiting(h)
             /\ Awaits(h)' = Awaits(h) /\ Owes(h)' = Owes(h)
  BY <1>1 DEF HasTable, Deciding, PaymentOf, Listed, Waiting, Awaits, Owes
<1>4. SlotFresh'
  BY <1>1, <1>2, <1>3 DEF ReceptionInv, SlotFresh, Fresh, TableRequest,
     BillRequest
<1>5. GuestFits' /\ GuestIsGroup' /\ SeatsFit'
  BY <1>1, <1>3 DEF ReceptionInv, GuestFits, GuestIsGroup, SeatsFit, Bit,
     Arriving, AtTable
<1>6. NobodyForgotten'
  <2>1. \A h : req # TableRequest(h) /\ req # BillRequest(h)
    BY <1>1, RequestsDiffer DEF ReceptionInv, SlotFresh
  <2> QED
    BY <1>1, <1>3, <2>1 DEF ReceptionInv, NobodyForgotten, TableRequest,
       BillRequest
<1>7. TablesConsistent' /\ ListFits' /\ TablesInUse'
  BY <1>1, <1>3 DEF ReceptionInv, TablesConsistent, ListFits, TablesInUse,
     Leaving
<1>8. ListNeeded'
  <2>1. SeatedAtOnce' = SeatedAtOnce
    BY <1>1, <1>3 DEF SeatedAtOnce, Leaving
  <2> QED
    BY <1>1, <2>1 DEF ReceptionInv, ListNeeded
<1> QED
  BY <1>4, <1>5, <1>6, <1>7, <1>8 DEF ReceptionInv

\* What the receptionist reads is a request for a table or for the bill.
LEMMA ReadsFresh ==
  ASSUME SlotFresh, ReadGroupRequest
  PROVE  \E g \in Groups :
           /\ guest' = g
           /\ \/ /\ req = TableRequest(g) /\ receptionistAt' = "provideTable"
                 /\ Awaits(g) /\ ~Deciding(g) /\ ~Listed(g)
              \/ /\ req = BillRequest(g) /\ receptionistAt' = "receivePayment"
                 /\ Owes(g) /\ ~PaymentOf(g)
<1>1. Fresh(req)
  BY DEF SlotFresh, ReadGroupRequest
<1>2. ASSUME NEW g \in Groups, req = TableRequest(g)
      PROVE  guest' = g /\ receptionistAt' = "provideTable"
  <2>1. req.reqType = "TABLEREQ" /\ req.reqGroup = g
    BY <1>2 DEF TableRequest, MakeRequest
  <2> QED
    BY <2>1 DEF ReadGroupRequest
<1>3. ASSUME NEW g \in Groups, req = BillRequest(g)
      PROVE  guest' = g /\ receptionistAt' = "receivePayment"
  <2>1. req.reqType = "BILLREQ" /\ req.reqGroup = g
    BY <1>3 DEF BillRequest, MakeRequest
  <2> QED
    BY <2>1 DEF ReadGroupRequest
<1> QED
  BY <1>1, <1>2, <1>3 DEF Fresh

LEMMA ReadingKeepsReception ==
  ASSUME TypeOK, RequestSlotsExclusive, ReceptionInv, ReadGroupRequest,
         UNCHANGED <<groupAt, receptionistRequest>>
  PROVE  ReceptionInv'
<1>1. /\ UNCHANGED <<waitForTable, receptionistRequest, groupAt, assignedTable,
                     groupsWaiting, occupied, nOccupied, waitlist,
                     listBegin, listEnd>>
      /\ receptionistAt = "readRequest" /\ req' = NoRequest
  BY DEF ReadGroupRequest, recordVars, tableVars, semUp
<1>2. sem["receptionistReq"] = 0 /\ sem'["receptionistReq"] = 0
  <2>1. receptionistToken = 1
    BY DEF RequestSlotsExclusive, receptionistToken
  <2>2. sem'["receptionistReq"] = sem["receptionistReq"]
    BY UpMoves DEF ReadGroupRequest, SemNames, TypeOK, SharedTypeOK
  <2> QED
    BY <1>1, <2>1, <2>2, ReceptionistSlotHolder
<1>3. PICK g \in Groups :
        /\ guest' = g
        /\ \/ /\ req = TableRequest(g) /\ receptionistAt' = "provideTable"
              /\ Awaits(g) /\ ~Deciding(g) /\ ~Listed(g)
           \/ /\ req = BillRequest(g) /\ receptionistAt' = "receivePayment"
              /\ Owes(g) /\ ~PaymentOf(g)
  BY ReadsFresh DEF ReceptionInv
<1>4. \A h : /\ HasTable(h)' = HasTable(h) /\ Listed(h)' = Listed(h)
             /\ Waiting(h)' = Waiting(h)
             /\ Awaits(h)' = Awaits(h) /\ Owes(h)' = Owes(h)
             /\ ~Deciding(h) /\ ~PaymentOf(h)
  BY <1>1 DEF HasTable, Deciding, PaymentOf, Listed, Waiting, Awaits, Owes
<1>5. \A h : /\ Deciding(h)' <=> h = g /\ req = TableRequest(g)
             /\ PaymentOf(h)' <=> h = g /\ req = BillRequest(g)
  BY <1>3, RequestsDiffer DEF Deciding, PaymentOf
<1>6. ~Listed(g) => ~Waiting(g)
  BY DEF Listed, Waiting, TypeOK, ReceptionistTypeOK
<1>7. SlotFresh'
  BY <1>1, <1>2, <1>3 DEF ReceptionInv, SlotFresh, TableRequest, BillRequest
<1>8. GuestFits'
  BY <1>3, <1>4, <1>5, <1>6, RequestsDiffer DEF GuestFits
<1>9. GuestIsGroup' /\ SeatsFit'
  BY <1>1, <1>3, <1>4 DEF ReceptionInv, GuestIsGroup, SeatsFit, Bit,
     Arriving, AtTable
<1>10. NobodyForgotten'
  BY <1>2, <1>3, <1>4, <1>5, RequestsDiffer DEF ReceptionInv, NobodyForgotten
<1>11. TablesConsistent'
  BY <1>1 DEF ReceptionInv, TablesConsistent
<1>12. ListFits'
  BY <1>1, <1>4 DEF ReceptionInv, ListFits, Leaving
<1>13. TablesInUse'
  <2>1. \A h \in Groups : ~(Deciding(h)' /\ Listed(h)')
    BY <1>3, <1>4, <1>5, RequestsDiffer
  <2>2. receptionistAt' # "nextGroup" /\ receptionistAt # "nextGroup"
    BY <1>1, <1>3
  <2> QED
    BY <1>1, <1>4, <2>1, <2>2 DEF ReceptionInv, TablesInUse
<1>14. ListNeeded'
  <2>1. SeatedAtOnce' = SeatedAtOnce
    BY <1>1, <1>4 DEF SeatedAtOnce, Leaving
  <2> QED
    BY <1>1, <2>1 DEF ReceptionInv, ListNeeded
<1> QED
  BY <1>7, <1>8, <1>9, <1>10, <1>11, <1>12, <1>13, <1>14 DEF ReceptionInv

LEMMA SeatingKeepsReception ==
  ASSUME TypeOK, ReceptionInv, SeatGroup,
         UNCHANGED <<groupAt, receptionistRequest>>
  PROVE  ReceptionInv'
<1> DEFINE t == decideTableOrWait
<1>1. /\ UNCHANGED <<receptionistRequest, groupAt, groupsWaiting, req, waitlist,
                     listBegin, listEnd, sem>>
      /\ receptionistAt = "decideTable"
      /\ occupied' = occupied \cup {t} /\ nOccupied' = nOccupied + 1
      /\ assignedTable' = [assignedTable EXCEPT ![guest] = t]
      /\ waitForTable' = [waitForTable EXCEPT ![guest] = @ + 1]
      /\ requestDone
  BY DEF SeatGroup, occupyTable
<1>2. t \in Tables \ occupied /\ nOccupied # NUMTABLES /\ t # NoTable
  BY DecidesToSeat DEF SeatGroup, TypeOK
<1> HIDE DEF t
<1>3. /\ guest \in Groups /\ Deciding(guest) /\ Awaits(guest) /\ ~Waiting(guest)
      /\ ~HasTable(guest) /\ groupAt[guest] = "waitForTable"
  BY <1>1 DEF ReceptionInv, GuestIsGroup, GuestFits, Deciding, Awaits
<1>4. /\ receptionistAt' \in {"waitForGroup", "exit"}
      /\ \A h : ~Deciding(h)' /\ ~PaymentOf(h)' /\ ~PaymentOf(h)
      /\ \A h : Deciding(h) => h = guest
  BY <1>1, BackInLoop DEF PaymentOf, Deciding
<1>5. /\ assignedTable \in [Groups -> Tables \cup {NoTable}]
      /\ waitForTable \in [Groups -> Nat]
  BY DEF TypeOK, SharedTypeOK, TableTypeOK, SemTypeOK
<1>6. \A h \in Groups :
        /\ HasTable(h)' <=> HasTable(h) \/ h = guest
        /\ Listed(h)' = Listed(h) /\ Waiting(h)' = Waiting(h)
        /\ Awaits(h)' <=> Awaits(h) /\ h # guest
        /\ Owes(h)' <=> Owes(h)
  <2>1. ASSUME NEW h \in Groups PROVE HasTable(h)' <=> HasTable(h) \/ h = guest
    BY <1>1, <1>2, <1>3, <1>5 DEF HasTable
  <2>2. "waitForTable" \notin Leaving
    BY DEF Leaving
  <2> QED
    BY <1>1, <1>3, <2>1, <2>2 DEF Listed, Waiting, Awaits, Owes
<1>7. SlotFresh'
  BY <1>1, <1>3, <1>4, <1>6 DEF ReceptionInv, SlotFresh, Fresh, TableRequest,
     BillRequest
<1>8. GuestFits' /\ GuestIsGroup'
  BY <1>4 DEF GuestFits, GuestIsGroup
<1>9. SeatsFit'
  <2>1. ASSUME NEW h \in Groups, h # guest
        PROVE  waitForTable'[h] = waitForTable[h] /\ (HasTable(h)' <=> HasTable(h))
    BY <1>1, <1>5, <1>6, <2>1
  <2>2. ASSUME NEW h \in Groups, h = guest
        PROVE  waitForTable'[h] = 1 /\ HasTable(h)'
    <3>1. waitForTable[h] = 0
      BY <1>3, <2>2 DEF ReceptionInv, SeatsFit, Bit
    <3>2. waitForTable'[h] = waitForTable[h] + 1
      BY <1>1, <1>3, <1>5, <2>2
    <3> QED
      BY <1>6, <2>2, <3>1, <3>2
  <2>3. ASSUME NEW h \in Groups
        PROVE  /\ waitForTable'[h] = Bit(groupAt[h] = "waitForTable" /\ HasTable(h)')
               /\ groupAt[h] \in Arriving \cup {"postTableRequest"} => ~HasTable(h)'
               /\ groupAt[h] \in AtTable \cup {"postBillRequest"} => HasTable(h)'
    <3>1. CASE h = guest
      BY <1>3, <2>2, <3>1 DEF Bit, Arriving, AtTable
    <3>2. CASE h # guest
      BY <2>1, <3>2 DEF ReceptionInv, SeatsFit, Bit
    <3> QED
      BY <3>1, <3>2
  <2> QED
    BY <1>1, <2>3 DEF SeatsFit, Bit, Arriving, AtTable
<1>10. NobodyForgotten'
  BY <1>1, <1>4, <1>6 DEF ReceptionInv, NobodyForgotten, TableRequest,
     BillRequest
<1>11. TablesConsistent'
  <2>1. /\ occupied = {assignedTable[h] : h \in Groups} \ {NoTable}
        /\ nOccupied = Cardinality(occupied)
        /\ \A g, h \in Groups :
             assignedTable[g] = assignedTable[h] /\ assignedTable[g] # NoTable
               => g = h
    BY DEF ReceptionInv, TablesConsistent
  <2>2. /\ assignedTable'[guest] = t
        /\ \A h \in Groups \ {guest} : assignedTable'[h] = assignedTable[h]
    BY <1>1, <1>3, <1>5
  <2>3. occupied' = {assignedTable'[h] : h \in Groups} \ {NoTable}
    BY <1>1, <1>2, <1>3, <2>1, <2>2 DEF HasTable
  <2>4. nOccupied' = Cardinality(occupied')
    <3>1. IsFiniteSet(occupied) /\ t \notin occupied
      BY <1>2, TablesCount DEF TypeOK, ReceptionistTypeOK
    <3> QED
      BY <1>1, <2>1, <3>1, FS_AddElement
  <2>5. \A h \in Groups : assignedTable[h] # t
    BY <1>2, <2>1
  <2>6. ASSUME NEW g \in Groups, NEW h \in Groups,
               assignedTable'[g] = assignedTable'[h], assignedTable'[g] # NoTable
        PROVE  g = h
    BY <2>1, <2>2, <2>5, <2>6
  <2> QED
    BY <2>3, <2>4, <2>6 DEF TablesConsistent
<1>12. ListFits'
  <2>1. ListFits /\ listBegin \in Nat /\ listEnd \in Nat /\ groupsWaiting \in Nat
    BY DEF ReceptionInv, TypeOK, SharedTypeOK, ReceptionistTypeOK, TableTypeOK
  <2>2. \A i \in 0 .. listEnd - 1 : waitlist[i] \in Groups
    BY <2>1 DEF ListFits
  <2>3. ASSUME NEW i \in listBegin .. listEnd - 1
        PROVE  Awaits(waitlist[i])'
    <3>1. Awaits(waitlist[i]) /\ waitlist[i] # guest /\ waitlist[i] \in Groups
      BY <1>3, <2>1, <2>2 DEF ListFits, Waiting
    <3> QED
      BY <1>1, <1>6, <3>1
  <2>4. ASSUME NEW i \in 0 .. listBegin - 1
        PROVE  \/ HasTable(waitlist[i])'
               \/ groupAt'[waitlist[i]] \in Leaving
    <3>1. waitlist[i] \in Groups
      BY <2>1, <2>2 DEF ListFits
    <3> QED
      BY <1>1, <1>4, <1>6, <2>1, <3>1 DEF ListFits
  <2> QED
    BY <1>1, <2>1, <2>3, <2>4 DEF ListFits, Leaving
<1>13. ListNeeded'
  <2>1. SeatedAtOnce \subseteq SeatedAtOnce'
    BY <1>1, <1>6 DEF SeatedAtOnce, Leaving
  <2>2. SeatedAtOnce' \subseteq Groups
    BY DEF SeatedAtOnce
  <2>3. IsFiniteSet(SeatedAtOnce') /\ IsFiniteSet(SeatedAtOnce)
    BY <2>1, <2>2, GroupsAssumption, FS_Subset
  <2>4. /\ Cardinality(SeatedAtOnce) <= Cardinality(SeatedAtOnce')
        /\ Cardinality(SeatedAtOnce) \in Nat /\ Cardinality(SeatedAtOnce') \in Nat
    BY <2>1, <2>3, FS_Subset, FS_CardinalityType
  <2> QED
    BY <1>1, <2>4, ConstantTypes DEF ReceptionInv, ListNeeded
<1>14. TablesInUse'
  <2>1. /\ nOccupied \in Int /\ groupsWaiting \in Nat
        /\ groupsWaiting > 0 => nOccupied = NUMTABLES - 1
    <3>1. CASE Listed(guest)
      BY <1>3, <3>1 DEF ReceptionInv, TablesInUse, TypeOK, ReceptionistTypeOK,
         SharedTypeOK, TableTypeOK
    <3>2. CASE ~Listed(guest)
      <4>1. ~(\E g \in Groups : Deciding(g) /\ Listed(g))
        BY <1>4, <3>2
      <4>2. groupsWaiting > 0 => nOccupied = NUMTABLES
        BY <1>1, <4>1 DEF ReceptionInv, TablesInUse
      <4> QED
        BY <1>2, <4>2 DEF TypeOK, ReceptionistTypeOK, SharedTypeOK, TableTypeOK
    <3> QED
      BY <3>1, <3>2
  <2> QED
    BY <1>1, <1>4, <2>1, ConstantTypes DEF TablesInUse
<1> QED
  BY <1>7, <1>8, <1>9, <1>10, <1>11, <1>12, <1>13, <1>14 DEF ReceptionInv

-----------------------------------------------------------------------------
(* Counting the groups: the list is never full                              *)

\* The list has as many entries as there are groups in it.
LEMMA ListedCount ==
  ASSUME ReceptionistTypeOK, ListFits
  PROVE  LET S == {g \in Groups : Listed(g)}
         IN  IsFiniteSet(S) /\ Cardinality(S) = listEnd
<1> DEFINE S == {g \in Groups : Listed(g)}
           I == 0 .. listEnd - 1
           f == [i \in I |-> waitlist[i]]
<1>1. listEnd \in Nat
  BY ConstantTypes DEF ReceptionistTypeOK
<1>2. f \in Bijection(I, S)
  <2>1. \A i \in I : f[i] \in S
    BY DEF ListFits, Listed
  <2>2. \A i, j \in I : f[i] = f[j] => i = j
    BY DEF ListFits
  <2>3. \A g \in S : \E i \in I : f[i] = g
    BY DEF Listed
  <2> HIDE DEF f, S, I
  <2>4. f \in [I -> S]
    BY <2>1 DEF f
  <2> QED
    BY <2>2, <2>3, <2>4 DEF Bijection, Injection, Surjection, IsInjective
<1>3. IsFiniteSet(I) /\ Cardinality(I) = listEnd
  BY <1>1, FS_Interval
<1> HIDE DEF f, S, I
<1>4. ExistsBijection(I, S)
  BY <1>2 DEF ExistsBijection
<1> QED
  BY <1>3, <1>4, FS_Bijection DEF S

\* When all tables are occupied, at least as many groups as there are tables
\* were given one at once.
LEMMA ManySeatedAtOnce ==
  ASSUME TypeOK, ListNeeded, TablesConsistent, occupied = Tables
  PROVE  /\ IsFiniteSet(SeatedAtOnce)
         /\ Cardinality(SeatedAtOnce) \in Nat
         /\ Cardinality(SeatedAtOnce) >= NUMTABLES
<1>1. SeatedAtOnce \subseteq Groups
  BY DEF SeatedAtOnce
<1>2. IsFiniteSet(SeatedAtOnce) /\ Cardinality(SeatedAtOnce) \in Nat
  BY <1>1, GroupsAssumption, FS_Subset, FS_CardinalityType
<1>3. CASE listEnd > 0
  BY <1>2, <1>3 DEF ListNeeded
<1>4. CASE ~(listEnd > 0)
  <2> DEFINE S == {g \in Groups : HasTable(g)}
             f == [g \in S |-> assignedTable[g]]
  <2>1. \A g : ~Listed(g)
    BY <1>4 DEF Listed, TypeOK, ReceptionistTypeOK
  <2>2. S \subseteq SeatedAtOnce
    BY <2>1 DEF SeatedAtOnce
  <2>3. f \in Surjection(S, Tables)
    <3>1. \A g \in S : f[g] \in Tables
      BY DEF TypeOK, SharedTypeOK, TableTypeOK, HasTable
    <3>2. \A t \in Tables : \E g \in S : f[g] = t
      BY DEF TablesConsistent, HasTable
    <3> HIDE DEF S
    <3>3. f \in [S -> Tables]
      BY <3>1
    <3> QED
      BY <3>2, <3>3 DEF Surjection
  <2> HIDE DEF S, f
  <2>4. IsFiniteSet(S)
    BY <1>2, <2>2, FS_Subset
  <2>5. NUMTABLES <= Cardinality(S)
    BY <2>3, <2>4, FS_Surjection, TablesCount
  <2>6. Cardinality(S) <= Cardinality(SeatedAtOnce) /\ Cardinality(S) \in Nat
    BY <1>2, <2>2, <2>4, FS_Subset, FS_CardinalityType
  <2> QED
    BY <1>2, <2>5, <2>6, ConstantTypes
<1> QED
  BY <1>3, <1>4

\* Nobody is in the list and seated at once, or counted twice: with X groups
\* that are neither, all these are no more than there are groups.
LEMMA ListedAndSeated ==
  ASSUME ReceptionistTypeOK, ListFits, NEW X \in SUBSET Groups,
         \A g \in X : ~Listed(g) /\ g \notin SeatedAtOnce
  PROVE  /\ Cardinality(SeatedAtOnce) \in Nat /\ Cardinality(X) \in Nat
         /\ listEnd + Cardinality(SeatedAtOnce) + Cardinality(X) <= nGroups
<1> DEFINE S == {h \in Groups : Listed(h)}
           A == SeatedAtOnce
<1>1. /\ S \cap A = {} /\ (S \cup A) \cap X = {} /\ A \subseteq Groups
      /\ (S \cup A) \cup X \subseteq Groups
  BY DEF SeatedAtOnce
<1>2. /\ IsFiniteSet(S) /\ Cardinality(S) = listEnd /\ listEnd \in Nat
      /\ IsFiniteSet(A) /\ Cardinality(A) \in Nat
      /\ IsFiniteSet(X) /\ Cardinality(X) \in Nat
  BY <1>1, ListedCount, GroupsAssumption, FS_Subset, FS_CardinalityType
     DEF ReceptionistTypeOK
<1> HIDE DEF S, A
<1>3. Cardinality({}) = 0
  BY FS_EmptySet
<1>4. IsFiniteSet(S \cup A) /\ Cardinality(S \cup A) = listEnd + Cardinality(A)
  BY <1>1, <1>2, <1>3, FS_Union
<1>5. Cardinality((S \cup A) \cup X) = listEnd + Cardinality(A) + Cardinality(X)
  <2>1. Cardinality((S \cup A) \cap X) = 0
    BY <1>1, <1>3
  <2>2. Cardinality((S \cup A) \cup X)
          = Cardinality(S \cup A) + Cardinality(X) - Cardinality((S \cup A) \cap X)
    BY <1>2, <1>4, FS_Union
  <2> QED
    BY <1>2, <1>4, <2>1, <2>2
<1>6. Cardinality((S \cup A) \cup X) <= nGroups
  BY <1>1, GroupsAssumption, FS_Subset DEF nGroups
<1> QED
  BY <1>2, <1>5, <1>6 DEF A

\* There is room in the list for one group more, when all tables are occupied.
LEMMA RoomForOneMore ==
  ASSUME TypeOK, ListFits, ListNeeded, TablesConsistent, occupied = Tables,
         NEW g \in Groups, Awaits(g), ~Listed(g)
  PROVE  listEnd + 1 < WAITLIST_LENGTH
<1>1. /\ Cardinality(SeatedAtOnce) \in Nat
      /\ Cardinality(SeatedAtOnce) >= NUMTABLES
  BY ManySeatedAtOnce
<1>2. g \notin SeatedAtOnce
  BY DEF SeatedAtOnce, Awaits, Leaving
<1>3. listEnd + Cardinality(SeatedAtOnce) + 1 <= nGroups
  <2>1. {g} \in SUBSET Groups /\ Cardinality({g}) = 1
    BY FS_Singleton
  <2>2. \A h \in {g} : ~Listed(h) /\ h \notin SeatedAtOnce
    BY <1>2
  <2>3. listEnd + Cardinality(SeatedAtOnce) + Cardinality({g}) <= nGroups
    BY <2>1, <2>2, ListedAndSeated DEF TypeOK
  <2> QED
    BY <2>1, <2>3
<1>4. listEnd \in Nat /\ nGroups \in Nat /\ nGroups <= WAITLIST_LENGTH
  BY ConstantTypes, WaitlistAssumption DEF TypeOK, ReceptionistTypeOK
<1> QED
  BY <1>1, <1>3, <1>4, ConstantTypes

\* An index of the list that has not reached its end goes on without wrapping.
LEMMA NoWrap ==
  ASSUME NEW i \in Nat, i + 1 < WAITLIST_LENGTH
  PROVE  (i + 1) % WAITLIST_LENGTH = i + 1
<1>1. i + 1 = WAITLIST_LENGTH * 0 + (i + 1) /\ i + 1 \in 0 .. WAITLIST_LENGTH - 1
  BY ConstantTypes
<1> QED
  BY <1>1, ConstantTypes, ModUnique

-----------------------------------------------------------------------------
(* A step of the receptionist, continued                                    *)

LEMMA ListingKeepsReception ==
  ASSUME TypeOK, ReceptionInv, PutInWaitingRoom,
         UNCHANGED <<groupAt, receptionistRequest>>
  PROVE  ReceptionInv'
<1>1. /\ UNCHANGED <<waitForTable, receptionistRequest, groupAt, assignedTable,
                     req, occupied, nOccupied, listBegin, sem>>
      /\ receptionistAt = "decideTable"
      /\ waitlist' = [waitlist EXCEPT ![listEnd] = guest]
      /\ listEnd' = (listEnd + 1) % WAITLIST_LENGTH
      /\ groupsWaiting' = groupsWaiting + 1
      /\ requestDone
  BY DEF PutInWaitingRoom, semVars
<1>2. /\ ReceptionistTypeOK /\ TablesConsistent /\ ListFits /\ ListNeeded
      /\ listEnd \in Nat /\ listBegin \in Nat /\ groupsWaiting \in Nat
      /\ nOccupied \in Int
  BY DEF ReceptionInv, TypeOK, SharedTypeOK, TableTypeOK, ReceptionistTypeOK
<1>3. occupied = Tables /\ nOccupied = NUMTABLES
  BY <1>2, DecidesToWait DEF PutInWaitingRoom, TablesConsistent
<1>4. /\ guest \in Groups /\ Deciding(guest) /\ Awaits(guest) /\ ~Waiting(guest)
      /\ ~HasTable(guest) /\ groupAt[guest] \notin Leaving
      /\ ~Listed(guest)
  <2>1. guest \in Groups /\ Deciding(guest)
    BY <1>1 DEF ReceptionInv, GuestIsGroup, Deciding
  <2>2. Awaits(guest) /\ ~Waiting(guest)
    BY <2>1 DEF ReceptionInv, GuestFits
  <2>3. ~Listed(guest)
    BY <1>2, <1>3, <2>1, ConstantTypes DEF ReceptionInv, TablesInUse
  <2> QED
    BY <2>1, <2>2, <2>3 DEF Awaits, Leaving
<1>5. listEnd + 1 < WAITLIST_LENGTH
  BY <1>2, <1>3, <1>4, RoomForOneMore
<1>6. listEnd' = listEnd + 1
  BY <1>1, <1>2, <1>5, NoWrap
<1>7. /\ waitlist'[listEnd] = guest
      /\ \A i \in 0 .. listEnd - 1 : waitlist'[i] = waitlist[i]
  BY <1>1, <1>2, <1>5, ConstantTypes DEF ReceptionistTypeOK
<1>8. listBegin <= listEnd /\ listBegin + groupsWaiting = listEnd
  BY <1>2 DEF ListFits
<1>9. /\ receptionistAt' \in {"waitForGroup", "exit"}
      /\ \A h : ~Deciding(h)' /\ ~PaymentOf(h)'
      /\ \A h : Deciding(h) => h = guest
  BY <1>1, BackInLoop DEF Deciding
<1>10. \A h : /\ HasTable(h)' = HasTable(h) /\ Awaits(h)' = Awaits(h)
              /\ Owes(h)' = Owes(h)
  BY <1>1 DEF HasTable, Awaits, Owes
<1>11. ASSUME NEW h
       PROVE  /\ Listed(h)' <=> Listed(h) \/ h = guest
              /\ Waiting(h)' <=> Waiting(h) \/ h = guest
  <2>1. /\ 0 .. listEnd' - 1 = (0 .. listEnd - 1) \cup {listEnd}
        /\ listBegin .. listEnd' - 1 = (listBegin .. listEnd - 1) \cup {listEnd}
        /\ listBegin .. listEnd - 1 \subseteq 0 .. listEnd - 1
    BY <1>2, <1>6, <1>8
  <2> QED
    BY <1>1, <1>7, <2>1 DEF Listed, Waiting
<1>12. SlotFresh'
  BY <1>1, <1>4, <1>9, <1>10, <1>11 DEF ReceptionInv, SlotFresh, Fresh,
     TableRequest, BillRequest
<1>13. GuestFits' /\ GuestIsGroup' /\ SeatsFit'
  BY <1>1, <1>9, <1>10 DEF ReceptionInv, GuestFits, GuestIsGroup, SeatsFit, Bit,
     Arriving, AtTable
<1>14. NobodyForgotten'
  <2>1. \A h : ~PaymentOf(h)
    BY <1>1 DEF PaymentOf
  <2> QED
    BY <1>1, <1>9, <1>10, <1>11, <2>1 DEF ReceptionInv, NobodyForgotten,
       TableRequest, BillRequest
<1>15. TablesConsistent'
  BY <1>1 DEF ReceptionInv, TablesConsistent
<1>16. ListFits'
  <2>1. listBegin' + groupsWaiting' = listEnd'
    BY <1>1, <1>2, <1>6, <1>8
  <2>2. ASSUME NEW i \in 0 .. listEnd' - 1
        PROVE  /\ waitlist'[i] \in Groups
               /\ waitlist'[i] = guest <=> i = listEnd
               /\ i # listEnd => i \in 0 .. listEnd - 1 /\ waitlist'[i] = waitlist[i]
    <3>1. i # listEnd => i \in 0 .. listEnd - 1
      BY <1>2, <1>6
    <3>2. i # listEnd => waitlist'[i] = waitlist[i] /\ waitlist[i] \in Groups
      BY <1>2, <1>7, <3>1 DEF ListFits
    <3>3. i # listEnd => waitlist[i] # guest
      BY <1>4, <3>1 DEF Listed
    <3> QED
      BY <1>4, <1>7, <3>1, <3>2, <3>3
  <2>3. ASSUME NEW i \in 0 .. listEnd' - 1, NEW j \in 0 .. listEnd' - 1,
               waitlist'[i] = waitlist'[j]
        PROVE  i = j
    <3>1. i = listEnd \/ j = listEnd => i = j
      BY <2>2, <2>3
    <3>2. i # listEnd /\ j # listEnd => i = j
      BY <1>2, <2>2, <2>3 DEF ListFits
    <3> QED
      BY <3>1, <3>2
  <2>4. ASSUME NEW i \in listBegin' .. listEnd' - 1
        PROVE  Awaits(waitlist[i])'
    <3>1. i \in 0 .. listEnd' - 1
      BY <1>1, <1>2
    <3>2. CASE i = listEnd
      BY <1>4, <1>7, <1>10, <3>2 DEF Awaits
    <3>3. CASE i # listEnd
      <4>1. i \in listBegin .. listEnd - 1 /\ waitlist'[i] = waitlist[i]
        BY <1>1, <1>2, <2>2, <3>1, <3>3
      <4> QED
        BY <1>1, <1>2, <1>10, <4>1 DEF ListFits
    <3> QED
      BY <3>2, <3>3
  <2>5. ASSUME NEW i \in 0 .. listBegin' - 1
        PROVE  \/ HasTable(waitlist[i])'
               \/ groupAt'[waitlist'[i]] \in Leaving
    <3>1. i \in 0 .. listBegin - 1 /\ i \in 0 .. listEnd - 1
      BY <1>1, <1>2, <1>8
    <3>2. waitlist'[i] = waitlist[i] /\ waitlist[i] # guest
      BY <1>4, <1>7, <3>1 DEF Listed
    <3>3. ~Deciding(waitlist[i])
      BY <1>9, <3>2
    <3> QED
      BY <1>1, <1>2, <1>10, <3>1, <3>2, <3>3 DEF ListFits
  <2> QED
    BY <2>1, <2>2, <2>3, <2>4, <2>5 DEF ListFits, Leaving
<1>17. ListNeeded'
  <2>1. SeatedAtOnce' = SeatedAtOnce
    <3>1. guest \notin SeatedAtOnce
      BY <1>4 DEF SeatedAtOnce
    <3> QED
      BY <1>1, <1>4, <1>10, <1>11, <3>1 DEF SeatedAtOnce, Leaving
  <2> QED
    BY <1>2, <1>3, <2>1, ManySeatedAtOnce DEF ListNeeded
<1>18. TablesInUse'
  BY <1>1, <1>3, <1>9 DEF TablesInUse
<1> QED
  BY <1>12, <1>13, <1>14, <1>15, <1>16, <1>17, <1>18 DEF ReceptionInv

LEMMA FreeingKeepsReception ==
  ASSUME TypeOK, ReceptionInv, FreeTable,
         UNCHANGED <<groupAt, receptionistRequest>>
  PROVE  ReceptionInv'
<1> DEFINE t == assignedTable[guest]
<1>1. /\ guest \in Groups /\ PaymentOf(guest) /\ Owes(guest)
      /\ HasTable(guest) /\ groupAt[guest] \in Leaving /\ t \in Tables
      /\ receptionistAt = "freeTable" /\ t # NoTable
  <2>1. receptionistAt = "freeTable" /\ guest \in Groups /\ PaymentOf(guest)
    BY DEF FreeTable, ReceptionInv, GuestIsGroup, PaymentOf
  <2>2. Owes(guest)
    BY <2>1 DEF ReceptionInv, GuestFits
  <2> QED
    BY <2>1, <2>2 DEF Owes, HasTable, TypeOK, SharedTypeOK, TableTypeOK
<1>2. /\ UNCHANGED <<waitForTable, receptionistRequest, groupAt, groupsWaiting,
                     req, guest, waitlist, listBegin, listEnd, sem>>
      /\ receptionistAt' = "nextGroup"
      /\ assignedTable' = [assignedTable EXCEPT ![guest] = NoTable]
      /\ occupied' = occupied \ {t} /\ nOccupied' = nOccupied - 1
  BY <1>1 DEF FreeTable, vacateTable
<1> HIDE DEF t
<1>3. assignedTable \in [Groups -> Tables \cup {NoTable}]
  BY DEF TypeOK, SharedTypeOK, TableTypeOK
<1>4. \A h : /\ ~Deciding(h)' /\ ~Deciding(h) /\ ~PaymentOf(h)'
             /\ PaymentOf(h) <=> h = guest
  BY <1>1, <1>2 DEF Deciding, PaymentOf
<1>5. \A h \in Groups :
        /\ HasTable(h)' <=> HasTable(h) /\ h # guest
        /\ Listed(h)' = Listed(h) /\ Waiting(h)' = Waiting(h)
        /\ Awaits(h)' <=> Awaits(h)
        /\ Owes(h)' <=> Owes(h) /\ h # guest
  <2>1. ASSUME NEW h \in Groups PROVE HasTable(h)' <=> HasTable(h) /\ h # guest
    BY <1>1, <1>2, <1>3 DEF HasTable
  <2>2. "waitForTable" \notin Leaving
    BY DEF Leaving
  <2> QED
    BY <1>1, <1>2, <2>1, <2>2 DEF Listed, Waiting, Awaits, Owes
<1>6. SlotFresh'
  BY <1>1, <1>2, <1>4, <1>5 DEF ReceptionInv, SlotFresh, Fresh, TableRequest,
     BillRequest
<1>7. GuestFits' /\ GuestIsGroup'
  BY <1>2, <1>4 DEF GuestFits, GuestIsGroup
<1>8. SeatsFit'
  <2>1. ASSUME NEW h \in Groups
        PROVE  /\ waitForTable[h] = Bit(groupAt[h] = "waitForTable" /\ HasTable(h)')
               /\ groupAt[h] \in Arriving \cup {"postTableRequest"} => ~HasTable(h)'
               /\ groupAt[h] \in AtTable \cup {"postBillRequest"} => HasTable(h)'
    <3>1. CASE h = guest
      BY <1>1, <1>5, <3>1 DEF ReceptionInv, SeatsFit, Bit, Arriving, AtTable,
         Leaving
    <3>2. CASE h # guest
      BY <1>5, <3>2 DEF ReceptionInv, SeatsFit, Bit
    <3> QED
      BY <3>1, <3>2
  <2> QED
    BY <1>2, <2>1 DEF SeatsFit, Bit, Arriving, AtTable
<1>9. NobodyForgotten'
  BY <1>2, <1>4, <1>5 DEF ReceptionInv, NobodyForgotten, TableRequest,
     BillRequest
<1>10. /\ occupied = {assignedTable[h] : h \in Groups} \ {NoTable}
       /\ nOccupied = Cardinality(occupied)
       /\ \A g, h \in Groups :
            assignedTable[g] = assignedTable[h] /\ assignedTable[g] # NoTable
              => g = h
       /\ IsFiniteSet(occupied) /\ nOccupied \in 0 .. NUMTABLES
  BY TablesCount DEF ReceptionInv, TablesConsistent, TypeOK, ReceptionistTypeOK
<1>11. TablesConsistent'
  <2>1. /\ assignedTable'[guest] = NoTable
        /\ \A h \in Groups \ {guest} : assignedTable'[h] = assignedTable[h]
    BY <1>1, <1>2, <1>3
  <2>2. \A h \in Groups \ {guest} : assignedTable[h] # t
    BY <1>1, <1>10 DEF t
  <2>3. occupied' = {assignedTable'[h] : h \in Groups} \ {NoTable}
    BY <1>1, <1>2, <1>10, <2>1, <2>2 DEF t
  <2>4. nOccupied' = Cardinality(occupied')
    <3>1. t \in occupied
      BY <1>1, <1>10 DEF t
    <3> QED
      BY <1>2, <1>10, <3>1, FS_RemoveElement
  <2>5. ASSUME NEW g \in Groups, NEW h \in Groups,
               assignedTable'[g] = assignedTable'[h], assignedTable'[g] # NoTable
        PROVE  g = h
    BY <1>10, <2>1, <2>5
  <2> QED
    BY <2>3, <2>4, <2>5 DEF TablesConsistent
<1>12. ListFits'
  <2>1. ListFits /\ listBegin \in Nat /\ listEnd \in Nat /\ groupsWaiting \in Nat
    BY DEF ReceptionInv, TypeOK, SharedTypeOK, ReceptionistTypeOK, TableTypeOK
  <2>2. \A i \in 0 .. listEnd - 1 : waitlist[i] \in Groups
    BY <2>1 DEF ListFits
  <2>3. ASSUME NEW i \in listBegin .. listEnd - 1
        PROVE  Awaits(waitlist[i])'
    BY <1>2, <1>5, <2>1, <2>2 DEF ListFits
  <2>4. ASSUME NEW i \in 0 .. listBegin - 1
        PROVE  \/ HasTable(waitlist[i])'
               \/ groupAt'[waitlist'[i]] \in Leaving
    <3>1. waitlist[i] \in Groups
      BY <2>1, <2>2 DEF ListFits
    <3>2. HasTable(waitlist[i]) \/ groupAt[waitlist[i]] \in Leaving
      BY <1>4, <2>1 DEF ListFits
    <3> QED
      BY <1>1, <1>2, <1>5, <3>1, <3>2
  <2> QED
    BY <1>2, <2>1, <2>3, <2>4 DEF ListFits, Leaving
<1>13. ListNeeded'
  <2>1. SeatedAtOnce' = SeatedAtOnce
    BY <1>1, <1>2, <1>5 DEF SeatedAtOnce, Leaving
  <2> QED
    BY <1>2, <2>1 DEF ReceptionInv, ListNeeded
<1>14. TablesInUse'
  <2>1. groupsWaiting > 0 => nOccupied = NUMTABLES
    BY <1>1, <1>4 DEF ReceptionInv, TablesInUse
  <2> QED
    BY <1>2, <1>4, <1>10, <2>1, ConstantTypes DEF TablesInUse
<1> QED
  BY <1>6, <1>7, <1>8, <1>9, <1>11, <1>12, <1>13, <1>14 DEF ReceptionInv

LEMMA CallingKeepsReception ==
  ASSUME TypeOK, ReceptionInv, CallNextGroup,
         UNCHANGED <<groupAt, receptionistRequest>>
  PROVE  ReceptionInv'
<1>1. /\ UNCHANGED <<waitForTable, receptionistRequest, groupAt, assignedTable,
                     req, occupied, nOccupied, waitlist, listEnd, sem>>
      /\ receptionistAt = "nextGroup" /\ receptionistAt' = "provideTable"
      /\ groupsWaiting > 0 /\ groupsWaiting' = groupsWaiting - 1
      /\ guest' = waitlist[listBegin]
      /\ listBegin' = (listBegin + 1) % WAITLIST_LENGTH
  BY DEF CallNextGroup, receptionistGoesTo, semVars
<1>2. /\ ListFits /\ listBegin \in Nat /\ groupsWaiting \in Nat
      /\ listEnd \in 0 .. WAITLIST_LENGTH - 1 /\ nOccupied \in Int
  BY DEF ReceptionInv, TypeOK, SharedTypeOK, ReceptionistTypeOK, TableTypeOK
<1>3. /\ listBegin + groupsWaiting = listEnd /\ listBegin + 1 <= listEnd
      /\ listBegin \in listBegin .. listEnd - 1
      /\ listBegin \in 0 .. listEnd - 1
  BY <1>1, <1>2, ConstantTypes DEF ListFits
<1>4. listBegin' = listBegin + 1
  BY <1>1, <1>2, <1>3, ConstantTypes, NoWrap
<1>5. PICK g \in Groups : g = waitlist[listBegin]
  BY <1>2, <1>3 DEF ListFits
<1>6. Awaits(g) /\ Waiting(g) /\ Listed(g) /\ guest' = g
  BY <1>1, <1>2, <1>3, <1>5 DEF ListFits, Waiting, Listed
<1>7. \A h : /\ HasTable(h)' = HasTable(h) /\ Awaits(h)' = Awaits(h)
             /\ Owes(h)' = Owes(h) /\ Listed(h)' = Listed(h)
             /\ ~Deciding(h) /\ ~PaymentOf(h) /\ ~PaymentOf(h)'
             /\ Deciding(h)' <=> h = g
  BY <1>1, <1>6 DEF HasTable, Awaits, Owes, Listed, Deciding, PaymentOf
<1>8. \A h : Waiting(h)' <=> Waiting(h) /\ h # g
  <2>1. listBegin .. listEnd - 1 = (listBegin' .. listEnd' - 1) \cup {listBegin}
        /\ listBegin \notin listBegin' .. listEnd' - 1
    BY <1>1, <1>2, <1>3, <1>4
  <2>2. ASSUME NEW i \in listBegin' .. listEnd' - 1 PROVE waitlist[i] # g
    <3>1. i \in 0 .. listEnd - 1 /\ i # listBegin
      BY <1>1, <1>2, <1>4
    <3> QED
      BY <1>2, <1>3, <1>5, <3>1 DEF ListFits
  <2> QED
    BY <1>1, <1>5, <2>1, <2>2 DEF Waiting
<1>9. SlotFresh'
  BY <1>1, <1>6, <1>7 DEF ReceptionInv, SlotFresh, Fresh, TableRequest,
     BillRequest
<1>10. GuestFits'
  BY <1>6, <1>7, <1>8 DEF GuestFits
<1>11. GuestIsGroup' /\ SeatsFit'
  BY <1>1, <1>6, <1>7 DEF ReceptionInv, GuestIsGroup, SeatsFit, Bit,
     Arriving, AtTable
<1>12. NobodyForgotten'
  BY <1>1, <1>7, <1>8 DEF ReceptionInv, NobodyForgotten, TableRequest,
     BillRequest
<1>13. TablesConsistent'
  BY <1>1 DEF ReceptionInv, TablesConsistent
<1>14. ListFits'
  <2>1. listBegin' + groupsWaiting' = listEnd'
    BY <1>1, <1>2, <1>3, <1>4
  <2>2. ASSUME NEW i \in listBegin' .. listEnd' - 1 PROVE Awaits(waitlist[i])'
    <3>1. i \in listBegin .. listEnd - 1
      BY <1>1, <1>2, <1>4
    <3> QED
      BY <1>1, <1>2, <1>7, <3>1 DEF ListFits
  <2>3. ASSUME NEW i \in 0 .. listBegin' - 1
        PROVE  \/ Deciding(waitlist[i])' \/ HasTable(waitlist[i])'
               \/ groupAt'[waitlist'[i]] \in Leaving
    <3>1. CASE i = listBegin
      BY <1>1, <1>5, <1>7, <3>1
    <3>2. CASE i # listBegin
      <4>1. i \in 0 .. listBegin - 1
        BY <1>2, <1>4, <3>2
      <4> QED
        BY <1>1, <1>2, <1>7, <4>1 DEF ListFits
    <3> QED
      BY <3>1, <3>2
  <2> QED
    BY <1>1, <1>2, <2>1, <2>2, <2>3 DEF ListFits, Leaving
<1>15. ListNeeded'
  <2>1. SeatedAtOnce' = SeatedAtOnce
    BY <1>1, <1>7 DEF SeatedAtOnce, Leaving
  <2> QED
    BY <1>1, <2>1 DEF ReceptionInv, ListNeeded
<1>16. TablesInUse'
  <2>1. Deciding(g)' /\ Listed(g)'
    BY <1>6, <1>7
  <2> QED
    BY <1>1, <1>2, <2>1 DEF ReceptionInv, TablesInUse
<1> QED
  BY <1>9, <1>10, <1>11, <1>12, <1>13, <1>14, <1>15, <1>16 DEF ReceptionInv

LEMMA EndingKeepsReception ==
  ASSUME TypeOK, ReceptionInv, NobodyWaits,
         UNCHANGED <<groupAt, receptionistRequest>>
  PROVE  ReceptionInv'
<1>1. /\ UNCHANGED <<waitForTable, receptionistRequest, groupAt, assignedTable,
                     groupsWaiting, req, occupied, nOccupied, waitlist,
                     listBegin, listEnd, sem>>
      /\ receptionistAt = "nextGroup" /\ groupsWaiting = 0
      /\ requestDone
  BY DEF NobodyWaits, semVars, recordVars, tableVars
<1>2. receptionistAt' \in {"waitForGroup", "exit"}
  BY <1>1, BackInLoop
<1>3. \A h : /\ HasTable(h)' = HasTable(h) /\ Awaits(h)' = Awaits(h)
             /\ Owes(h)' = Owes(h) /\ Listed(h)' = Listed(h)
             /\ Waiting(h)' = Waiting(h)
             /\ ~Deciding(h) /\ ~Deciding(h)' /\ ~PaymentOf(h) /\ ~PaymentOf(h)'
  BY <1>1, <1>2 DEF HasTable, Awaits, Owes, Listed, Waiting, Deciding, PaymentOf
<1>4. SlotFresh'
  BY <1>1, <1>2, <1>3 DEF ReceptionInv, SlotFresh, Fresh, TableRequest,
     BillRequest
<1>5. GuestFits' /\ GuestIsGroup' /\ SeatsFit'
  BY <1>1, <1>2, <1>3 DEF ReceptionInv, GuestFits, GuestIsGroup, SeatsFit, Bit,
     Arriving, AtTable
<1>6. NobodyForgotten'
  BY <1>1, <1>3 DEF ReceptionInv, NobodyForgotten, TableRequest, BillRequest
<1>7. TablesConsistent' /\ ListFits' /\ TablesInUse'
  BY <1>1, <1>2, <1>3 DEF ReceptionInv, TablesConsistent, ListFits, TablesInUse,
     Leaving
<1>8. ListNeeded'
  <2>1. SeatedAtOnce' = SeatedAtOnce
    BY <1>1, <1>3 DEF SeatedAtOnce, Leaving
  <2> QED
    BY <1>1, <2>1 DEF ReceptionInv, ListNeeded
<1> QED
  BY <1>4, <1>5, <1>6, <1>7, <1>8 DEF ReceptionInv

-----------------------------------------------------------------------------
(* The invariant holds                                                      *)

LEMMA ReceptionInit == Init => ReceptionInv
<1> SUFFICES ASSUME Init PROVE ReceptionInv
  OBVIOUS
<1>1. /\ groupAt = [g \in Groups |-> "goToRestaurant"]
      /\ assignedTable = [g \in Groups |-> NoTable]
      /\ waitForTable = [g \in Groups |-> 0]
      /\ sem["receptionistReq"] = 0 /\ groupsWaiting = 0
      /\ receptionistAt \in {"waitForGroup", "exit"}
      /\ req = NoRequest /\ occupied = {} /\ nOccupied = 0
      /\ listBegin = 0 /\ listEnd = 0
  BY DEF Init, GroupInit, SharedInit, RegionInit, TableSemsRed, enabledSems,
     SemNames, ReceptionistInit, receptionistLoop
<1>2. \A g \in Groups :
        /\ ~HasTable(g) /\ ~Deciding(g) /\ ~PaymentOf(g) /\ ~Waiting(g)
        /\ ~Awaits(g) /\ ~Owes(g) /\ ~Listed(g)
  BY <1>1 DEF HasTable, Deciding, PaymentOf, Waiting, Awaits, Owes, Listed
<1>3. SlotFresh /\ GuestFits /\ GuestIsGroup /\ NobodyForgotten
  BY <1>1, <1>2 DEF SlotFresh, GuestFits, GuestIsGroup, NobodyForgotten
<1>4. SeatsFit
  BY <1>1, <1>2 DEF SeatsFit, Arriving, AtTable, Bit
<1>5. TablesConsistent
  BY <1>1, FS_EmptySet DEF TablesConsistent
<1>6. ListFits /\ ListNeeded /\ TablesInUse
  BY <1>1, <1>2, ConstantTypes DEF ListFits, ListNeeded, TablesInUse
<1> QED
  BY <1>3, <1>4, <1>5, <1>6 DEF ReceptionInv

LEMMA ReceptionStep ==
  TypeInv /\ RequestSlotsExclusive /\ ReceptionInv /\ [Next]_vars => ReceptionInv'
<1> SUFFICES ASSUME TypeOK, RequestSlotsExclusive, ReceptionInv, [Next]_vars
             PROVE  ReceptionInv'
  BY DEF TypeInv
<1>1. CASE ReceptionistStep
  <2>1. UNCHANGED <<groupAt, receptionistRequest>>
    BY <1>1 DEF ReceptionistStep, ReceptionistNext, groupVars, requestVars
  <2> QED
    BY <1>1, <2>1, ReceptionistSteps, ReceptionUndisturbed, TakingKeepsReception,
       ReadingKeepsReception, SeatingKeepsReception, ListingKeepsReception,
       FreeingKeepsReception, CallingKeepsReception, EndingKeepsReception
<1> QED
  BY <1>1, GroupKeepsReception, ServersKeepReception DEF Next, Terminated

LEMMA ReceptionInvariant == Spec => []ReceptionInv
<1> QED
  BY ReceptionInit, ReceptionStep, TypeInvariant, SlotsExclusive, PTL DEF Spec

-----------------------------------------------------------------------------
(* What follows from it                                                     *)

\* The receptionist's private record and the shared table of who sits where,
\* which its handlers update one after the other, always agree, and no two
\* groups ever sit at one table.
THEOREM RecordAgrees == Spec => []TablesConsistent
<1>1. ReceptionInv => TablesConsistent
  BY DEF ReceptionInv
<1> QED
  BY <1>1, ReceptionInvariant, PTL

\* Nobody is kept waiting while a table is free, but for the moment in which
\* the receptionist is calling the next group.
THEOREM NoTableIdle == Spec => []NoIdleTable
<1>1. TypeInv /\ ReceptionInv => NoIdleTable
  <2> SUFFICES ASSUME TypeOK, ReceptionInv, groupsWaiting > 0,
                      receptionistAt \notin {"nextGroup", "provideTable",
                                             "assigningTable", "decideTable"}
               PROVE  occupied = Tables
    BY DEF TypeInv, NoIdleTable
  <2>1. nOccupied = NUMTABLES
    BY DEF ReceptionInv, TablesInUse, Deciding
  <2> QED
    BY <2>1, TablesCount DEF ReceptionInv, TablesConsistent, TypeOK,
       ReceptionistTypeOK
<1> QED
  BY <1>1, TypeInvariant, ReceptionInvariant, PTL

\* The waiting list never wraps around, for any number of groups: when it is
\* used at all, NUMTABLES groups at least were seated without it, and no group
\* is put into it twice.
THEOREM ListInRecord == Spec => []WaitlistWithinRecord
<1>1. TypeInv /\ ReceptionInv => WaitlistWithinRecord
  <2> SUFFICES ASSUME TypeOK, ReceptionInv PROVE WaitlistWithinRecord
    BY DEF TypeInv
  <2>1. listEnd \in Nat /\ nGroups \in Nat /\ listBegin + groupsWaiting = listEnd
    BY ConstantTypes DEF TypeOK, ReceptionistTypeOK, ReceptionInv, ListFits
  <2>2. /\ Cardinality(SeatedAtOnce) \in Nat
        /\ listEnd + Cardinality(SeatedAtOnce) <= nGroups
    <3>1. /\ Cardinality(SeatedAtOnce) \in Nat
          /\ listEnd + Cardinality(SeatedAtOnce) + Cardinality({}) <= nGroups
      BY ListedAndSeated DEF TypeOK, ReceptionInv
    <3> QED
      BY <2>1, <3>1, FS_EmptySet
  <2>3. listEnd > 0 => Cardinality(SeatedAtOnce) >= NUMTABLES
    BY DEF ReceptionInv, ListNeeded
  <2> QED
    BY <2>1, <2>2, <2>3, ConstantTypes DEF WaitlistWithinRecord
<1> QED
  BY <1>1, TypeInvariant, ReceptionInvariant, PTL

-----------------------------------------------------------------------------
(* A request for a table is in one place                                    *)

\* What the slot holds, seen from the semaphores: an announced request, or the
\* one of the group that is about to announce it.
LEMMA SlotHolds ==
  ASSUME TypeOK, RequestSlotsExclusive, ReceptionInv, NEW g \in Groups
  PROVE  /\ receptionistSlotHolds(TableRequest(g)) <=>
              \/ groupAt[g] = "postTableRequest"
              \/ /\ sem["receptionistReq"] > 0
                 /\ receptionistRequest = TableRequest(g)
         /\ receptionistSlotHolds(BillRequest(g)) <=>
              \/ groupAt[g] = "postBillRequest"
              \/ /\ sem["receptionistReq"] > 0
                 /\ receptionistRequest = BillRequest(g)
<1>1. \A h \in Groups :
        /\ groupAt[h] = "postTableRequest" => receptionistRequest = TableRequest(h)
        /\ groupAt[h] = "postBillRequest" => receptionistRequest = BillRequest(h)
  BY DEF ReceptionInv, SlotFresh
<1>2. PostingToReceptionist =
        {h \in Groups : groupAt[h] \in {"postTableRequest", "postBillRequest"}}
  BY DEF PostingToReceptionist, at
<1> QED
  BY <1>1, <1>2, RequestsDiffer DEF receptionistSlotHolds

\* A group is in the waiting room once.
LEMMA ListEntries ==
  ASSUME TypeOK, ListFits, NEW g \in Groups
  PROVE  waitlistEntries(g) = Bit(Waiting(g))
<1> DEFINE E == {i \in 0 .. groupsWaiting - 1 :
                   waitlist[(listBegin + i) % WAITLIST_LENGTH] = g}
<1>1. /\ groupsWaiting \in Nat /\ listBegin \in Nat
      /\ listEnd \in 0 .. WAITLIST_LENGTH - 1
      /\ listBegin + groupsWaiting = listEnd
  BY DEF TypeOK, SharedTypeOK, TableTypeOK, ReceptionistTypeOK, ListFits
<1>2. ASSUME NEW i \in 0 .. groupsWaiting - 1
      PROVE  /\ (listBegin + i) % WAITLIST_LENGTH = listBegin + i
             /\ listBegin + i \in listBegin .. listEnd - 1
             /\ listBegin + i \in 0 .. listEnd - 1
  <2>1. /\ listBegin + i = WAITLIST_LENGTH * 0 + (listBegin + i)
        /\ listBegin + i \in 0 .. WAITLIST_LENGTH - 1 /\ listBegin + i \in Nat
    BY <1>1, ConstantTypes
  <2> QED
    BY <1>1, <2>1, ConstantTypes, ModUnique
<1>3. \A i, j \in E : i = j
  <2> SUFFICES ASSUME NEW i \in E, NEW j \in E PROVE i = j
    OBVIOUS
  <2>1. waitlist[listBegin + i] = waitlist[listBegin + j]
    BY <1>2
  <2>2. listBegin + i = listBegin + j
    BY <1>2, <2>1 DEF ListFits
  <2> QED
    BY <1>1, <2>2
<1>4. Waiting(g) <=> E # {}
  <2>1. ASSUME NEW i \in listBegin .. listEnd - 1, waitlist[i] = g
        PROVE  i - listBegin \in E
    <3>1. i - listBegin \in 0 .. groupsWaiting - 1 /\ listBegin + (i - listBegin) = i
      BY <1>1, ConstantTypes
    <3> QED
      BY <1>2, <2>1, <3>1
  <2>2. ASSUME NEW i \in E PROVE Waiting(g)
    BY <1>2 DEF Waiting
  <2> QED
    BY <2>1, <2>2 DEF Waiting
<1>5. waitlistEntries(g) = Cardinality(E)
  BY DEF waitlistEntries
<1> HIDE DEF E
<1>6. CASE E = {}
  BY <1>4, <1>5, <1>6, FS_EmptySet DEF Bit
<1>7. CASE E # {}
  <2>1. PICK i \in E : E = {i}
    BY <1>3, <1>7
  <2> QED
    BY <1>4, <1>5, <1>7, <2>1, FS_Singleton DEF Bit
<1> QED
  BY <1>6, <1>7

\* A group that asked for a table and is not seated is in exactly one place,
\* and the receptionist considers no other group.
THEOREM TableRequestKept == Spec => []TableRequestInOnePlace
<1>1. TypeInv /\ RequestSlotsExclusive /\ ReceptionInv => TableRequestInOnePlace
  <2> SUFFICES ASSUME TypeOK, RequestSlotsExclusive, ReceptionInv,
                      NEW g \in Groups
               PROVE  pendingTableRequest(g) =
                        Bit(g \in at({"postTableRequest", "waitForTable"}))
    BY DEF TypeInv, TableRequestInOnePlace
  <2> DEFINE posts == groupAt[g] = "postTableRequest"
             called == groupAt[g] = "waitForTable" /\ HasTable(g)
             filed == /\ sem["receptionistReq"] > 0
                      /\ receptionistRequest = TableRequest(g)
             held == req = TableRequest(g)
  <2>1. pendingTableRequest(g) =
          Bit(posts \/ filed) + Bit(held) + Bit(Waiting(g)) + Bit(Deciding(g))
            + Bit(called)
    <3>1. /\ receptionistSlotHolds(TableRequest(g)) <=> posts \/ filed
          /\ waitlistEntries(g) = Bit(Waiting(g))
          /\ waitForTable[g] = Bit(called)
      BY SlotHolds, ListEntries DEF ReceptionInv, SeatsFit
    <3>2. Deciding(g) <=> /\ guest = g
                          /\ receptionistAt \in {"provideTable", "assigningTable",
                                                 "decideTable"}
      BY DEF Deciding
    <3> QED
      BY <3>1, <3>2 DEF pendingTableRequest, TableRequest, Bit
  <2>2. g \in at({"postTableRequest", "waitForTable"}) <=>
          posts \/ called \/ Awaits(g)
    BY DEF at, Awaits
  <2>3. filed \/ held => Awaits(g) /\ ~Deciding(g) /\ ~Waiting(g)
    <3>1. filed \/ held => Fresh(TableRequest(g))
      BY RequestsDiffer DEF ReceptionInv, SlotFresh
    <3>2. Fresh(TableRequest(g)) => Awaits(g) /\ ~Deciding(g) /\ ~Listed(g)
      BY RequestsDiffer DEF Fresh
    <3>3. Waiting(g) => Listed(g)
      BY DEF Waiting, Listed, TypeOK, ReceptionistTypeOK
    <3> QED
      BY <3>1, <3>2, <3>3
  <2>4. ~(filed /\ held)
    <3>1. receptionistToken = 1
      BY DEF RequestSlotsExclusive, receptionistToken
    <3>2. held => receptionistAt = "readRequest"
      BY RequestsDiffer DEF ReceptionInv, SlotFresh
    <3> QED
      BY <3>1, <3>2, ReceptionistSlotHolder, SlotTypes
  <2>5. Deciding(g) => Awaits(g) /\ ~Waiting(g)
    BY DEF ReceptionInv, GuestFits
  <2>6. Waiting(g) => Awaits(g)
    BY DEF ReceptionInv, ListFits, Waiting
  <2>7. Awaits(g) => filed \/ held \/ Deciding(g) \/ Waiting(g)
    BY DEF ReceptionInv, NobodyForgotten
  <2>8. Awaits(g) => ~posts /\ ~called
    BY DEF Awaits
  <2>9. ~(posts /\ called)
    OBVIOUS
  <2> HIDE DEF posts, called, filed, held
  <2> QED
    BY <2>1, <2>2, <2>3, <2>4, <2>5, <2>6, <2>7, <2>8, <2>9 DEF Bit
<1> QED
  BY <1>1, TypeInvariant, SlotsExclusive, ReceptionInvariant, PTL

-----------------------------------------------------------------------------
(* A table is kept until the bill is asked for                              *)

\* Only the receptionist gives tables and takes them back.
LEMMA TableChanges ==
  ASSUME [Next]_vars
  PROVE  \/ UNCHANGED assignedTable
         \/ UNCHANGED groupAt /\ (SeatGroup \/ FreeTable)
<1>1. ASSUME NEW g \in Groups, GroupStep(g) PROVE UNCHANGED assignedTable
  BY <1>1 DEF GroupStep, GroupNext, tableVars
<1>2. CASE ReceptionistStep
  BY <1>2 DEF ReceptionistStep, ReceptionistNext, groupVars, waitForGroup,
     WaitGroupLock, WaitGroupSave, TakeGroupRequest, ReadGroupRequest,
     provideTableOrWaitingRoom, ProvideLock, ProvideSave, PutInWaitingRoom,
     receivePayment, PaymentLock, PaymentSave, CallNextGroup, NobodyWaits,
     lockReceptionistState, saveReceptionistState, tableVars
<1>3. CASE WaiterStep \/ ChefStep \/ UNCHANGED vars
  BY <1>3 DEF WaiterStep, WaiterNext, ChefStep, ChefNext, vars, sharedVars,
     tableVars
<1> QED
  BY <1>1, <1>2, <1>3 DEF Next, Terminated

\* It seats a group that has asked for a table and has none, and takes away the
\* table of one that has left it.
LEMMA SeatsWaiting ==
  ASSUME ReceptionInv, SeatGroup
  PROVE  guest \in Groups /\ groupAt[guest] = "waitForTable" /\ ~HasTable(guest)
BY DEF ReceptionInv, SeatGroup, GuestIsGroup, GuestFits, Deciding, Awaits

LEMMA FreesLeft ==
  ASSUME ReceptionInv, FreeTable
  PROVE  guest \in Groups /\ groupAt[guest] \in Leaving /\ HasTable(guest)
BY DEF ReceptionInv, FreeTable, GuestIsGroup, GuestFits, PaymentOf, Owes

\* A group keeps its table until it has asked for the bill, and the table is
\* never exchanged for another: the waiter and the group, which read it without
\* the mutex, cannot find it changed while the group waits for its meal.
THEOREM TableKept == Spec => TableKeptUntilBill
<1> DEFINE Kept == \A g \in Groups :
             assignedTable[g] # NoTable /\ assignedTable'[g] # assignedTable[g] =>
               /\ assignedTable'[g] = NoTable
               /\ g \in at({"waitForReceipt", "leave", "leaving", "exit"})
<1>1. TypeInv /\ ReceptionInv /\ [Next]_vars => Kept
  <2> SUFFICES ASSUME TypeOK, ReceptionInv, [Next]_vars PROVE Kept
    BY DEF TypeInv
  <2>1. assignedTable \in [Groups -> Tables \cup {NoTable}]
    BY DEF TypeOK, SharedTypeOK, TableTypeOK
  <2>2. CASE SeatGroup
    BY <2>1, <2>2, SeatsWaiting DEF SeatGroup, HasTable
  <2>3. CASE FreeTable
    <3>1. assignedTable' = [assignedTable EXCEPT ![guest] = NoTable]
      BY <2>3, FreesLeft DEF FreeTable, HasTable
    <3> QED
      BY <2>1, <2>3, <3>1, FreesLeft DEF Leaving, at
  <2> QED
    BY <2>2, <2>3, TableChanges
<1> QED
  BY <1>1, TypeInvariant, ReceptionInvariant, PTL DEF Spec, TableKeptUntilBill

(***************************************************************************)
(* The end of a visit                                                      *)
(***************************************************************************)

-----------------------------------------------------------------------------
(* The groups' copies of their table                                        *)

\* Where a group is about to use its copy, up to the posting of its bill.
UsesCopy == {"waitForWaiter", "foodArrives", "checkOut", "checkingOut",
             "requestBill", "postBillRequest"}

CopyCurrent ==
  \A g \in at(UsesCopy) :
    groupTable[g] \in Tables /\ groupTable[g] = assignedTable[g]

\* A group that is about to use its copy has just made it, or had it before.
LEMMA CopiesTable ==
  ASSUME TypeOK, NEW g \in Groups, GroupNext(g), groupAt'[g] \in UsesCopy
  PROVE  /\ groupAt[g] \in AtTable
         /\ \/ groupTable'[g] = assignedTable[g]
            \/ groupAt[g] \in UsesCopy /\ groupTable'[g] = groupTable[g]
<1>1. /\ groupAt \in [Groups -> GroupLocations]
      /\ groupTable \in [Groups -> Tables \cup {NoTable}]
  BY DEF TypeOK, GroupTypeOK
<1>2. ASSUME NEW from, NEW to, goesTo(g, from, to)
      PROVE  groupAt[g] = from /\ groupAt'[g] = to
  BY <1>1, <1>2 DEF goesTo
<1>3. readsTable(g) => groupTable'[g] = assignedTable[g]
  BY <1>1 DEF readsTable
<1>4. ~checkInAtReception(g)
  BY <1>2 DEF checkInAtReception, CheckInLock, CheckInSave, CheckInRequest,
     CheckInPost, CheckInSit, lockState, saveGroupState,
     fillReceptionistRequest, postReceptionistRequest, UsesCopy
<1> DEFINE Copies == /\ groupAt[g] \in AtTable
                     /\ \/ groupTable'[g] = assignedTable[g]
                        \/ groupAt[g] \in UsesCopy /\ groupTable'[g] = groupTable[g]
<1>5. orderFood(g) => Copies
  BY <1>2, <1>3 DEF orderFood, OrderLock, OrderSave, OrderRequest, OrderPost,
     OrderTaken, lockState, saveGroupState, UsesCopy, AtTable
<1>6. waitFood(g) => Copies
  BY <1>2, <1>3 DEF waitFood, WaitFoodLock, WaitFoodSave, FoodServed, EatLock,
     EatSave, lockState, saveGroupState, UsesCopy, AtTable
<1>7. checkOutAtReception(g) => Copies
  BY <1>2, <1>3 DEF checkOutAtReception, FinishMeal, CheckOutLock,
     CheckOutSave, CheckOutRequest, CheckOutPost, CheckOutDone, LeaveLock,
     LeaveSave, lockState, saveGroupState, fillReceptionistRequest,
     postReceptionistRequest, UsesCopy, AtTable
<1> QED
  BY <1>4, <1>5, <1>6, <1>7 DEF GroupNext

LEMMA CopyStep ==
  TypeInv /\ ReceptionInv /\ CopyCurrent /\ [Next]_vars => CopyCurrent'
<1> SUFFICES ASSUME TypeOK, TypeOK', ReceptionInv, CopyCurrent, [Next]_vars,
                    NEW g \in Groups, groupAt'[g] \in UsesCopy
             PROVE  /\ groupTable'[g] \in Tables
                    /\ groupTable'[g] = assignedTable'[g]
  BY TypeStep DEF TypeInv, CopyCurrent, at
<1>1. /\ assignedTable \in [Groups -> Tables \cup {NoTable}]
      /\ SeatsFit
  BY DEF TypeOK, SharedTypeOK, TableTypeOK, ReceptionInv
<1>2. \A h \in Groups :
        groupAt[h] \in AtTable \cup {"postBillRequest"} => assignedTable[h] \in Tables
  BY <1>1 DEF SeatsFit, HasTable
<1>3. ASSUME NEW h \in Groups, GroupStep(h)
      PROVE  groupTable'[g] \in Tables /\ groupTable'[g] = assignedTable'[g]
  <2>1. assignedTable' = assignedTable
    BY <1>3 DEF GroupStep, GroupNext, tableVars
  <2>2. CASE g = h
    BY <1>2, <1>3, <2>1, <2>2, CopiesTable DEF GroupStep, CopyCurrent, at
  <2>3. CASE g # h
    BY <1>3, <2>1, <2>3, GroupMovesAlone DEF GroupStep, CopyCurrent, at, TypeOK
  <2> QED
    BY <2>2, <2>3
<1>4. CASE ReceptionistStep \/ WaiterStep \/ ChefStep \/ UNCHANGED vars
  <2>1. groupAt' = groupAt /\ groupTable' = groupTable
    BY <1>4 DEF ReceptionistStep, WaiterStep, ChefStep, vars, groupVars
  <2>2. groupTable[g] \in Tables /\ groupTable[g] = assignedTable[g]
    BY <2>1 DEF CopyCurrent, at
  <2>3. assignedTable'[g] = assignedTable[g]
    <3>1. CASE SeatGroup
      BY <1>1, <2>1, <3>1, SeatsWaiting DEF SeatGroup, UsesCopy
    <3>2. CASE FreeTable
      <4>1. assignedTable' = [assignedTable EXCEPT ![guest] = NoTable]
        BY <3>2, FreesLeft DEF FreeTable, HasTable
      <4> QED
        BY <1>1, <2>1, <3>2, <4>1, FreesLeft DEF UsesCopy, Leaving
    <3> QED
      BY <3>1, <3>2, TableChanges
  <2> QED
    BY <2>1, <2>2, <2>3
<1> QED
  BY <1>3, <1>4 DEF Next, Terminated

LEMMA CopyInit == Init => CopyCurrent
BY DEF Init, GroupInit, CopyCurrent, at, UsesCopy

\* A group's local copy of its table, which it reads outside of every critical
\* region, is its table whenever it is about to use it, until it has posted its
\* bill; what becomes of it then is PayersCopies, below.
LEMMA GroupCopies == Spec => []CopyCurrent
<1> QED
  BY CopyInit, CopyStep, TypeInvariant, ReceptionInvariant, PTL DEF Spec

-----------------------------------------------------------------------------
(* The receipts                                                             *)

\* The groups that wait for a receipt at t, and those whose bill is not paid
\* and who sit, or sat, at t.
Checking(t) == {g \in Groups : /\ groupAt[g] \in {"postBillRequest", "waitForReceipt"}
                               /\ groupTable[g] = t}
Billed(t) == {g \in Groups : /\ groupAt[g] \in Leaving \cup {"postBillRequest"}
                             /\ assignedTable[g] = t}

ReceiptsFit ==
  \A t \in Tables :
    Cardinality(Checking(t)) = tableDone[t] + Cardinality(Billed(t))

\* What a step of a group means to this balance.
AsksForBill(g) ==
  /\ groupAt[g] = "requestBill" /\ groupAt'[g] = "postBillRequest"
  /\ UNCHANGED tableDone
AnnouncesBill(g) ==
  /\ groupAt[g] = "postBillRequest" /\ groupAt'[g] = "waitForReceipt"
  /\ UNCHANGED tableDone
TakesReceipt(g) ==
  /\ groupAt[g] = "waitForReceipt" /\ groupAt'[g] = "leave"
  /\ tableDone[groupTable[g]] > 0
  /\ tableDone' = [tableDone EXCEPT ![groupTable[g]] = @ - 1]
MindsOthers(g) ==
  /\ groupAt[g] \notin {"postBillRequest", "waitForReceipt"}
  /\ groupAt'[g] \notin {"postBillRequest", "waitForReceipt"}
  /\ groupAt[g] \in Leaving <=> groupAt'[g] \in Leaving
  /\ UNCHANGED tableDone

LEMMA GroupAndReceipt ==
  ASSUME TypeOK, NEW g \in Groups, GroupNext(g)
  PROVE  \/ MindsOthers(g)
         \/ UNCHANGED groupTable /\ (AsksForBill(g) \/ AnnouncesBill(g)
                                       \/ TakesReceipt(g))
<1>1. groupAt \in [Groups -> GroupLocations]
  BY DEF TypeOK, GroupTypeOK
<1>2. ASSUME NEW from, NEW to, goesTo(g, from, to)
      PROVE  groupAt[g] = from /\ groupAt'[g] = to
  BY <1>1, <1>2 DEF goesTo
<1> DEFINE Elsewhere(from, to) ==
             /\ from \notin {"postBillRequest", "waitForReceipt"}
             /\ to \notin {"postBillRequest", "waitForReceipt"}
             /\ from \in Leaving <=> to \in Leaving
<1>3. ASSUME NEW from, NEW to, Elsewhere(from, to), goesTo(g, from, to),
             UNCHANGED tableDone
      PROVE  MindsOthers(g)
  BY <1>2, <1>3 DEF MindsOthers
<1>4. \A s : semDown(s) \/ semUp(s) => UNCHANGED tableDone
  BY DEF semDown, semUp
<1>5. ASSUME NEW from, NEW to, Elsewhere(from, to),
             \/ lockState(g, from, to)
             \/ \E state : saveGroupState(g, from, state, to)
             \/ postReceptionistRequest(g, from, to)
      PROVE  MindsOthers(g)
  BY <1>3, <1>4, <1>5 DEF lockState, saveGroupState, postReceptionistRequest
<1>6. checkInAtReception(g) => MindsOthers(g)
  <2>1. CheckInLock(g) \/ CheckInSave(g) \/ CheckInPost(g) => MindsOthers(g)
    BY <1>5 DEF CheckInLock, CheckInSave, CheckInPost, Leaving
  <2>2. CheckInRequest(g) \/ CheckInSit(g) => MindsOthers(g)
    BY <1>3, <1>4 DEF CheckInRequest, fillReceptionistRequest, CheckInSit, Leaving
  <2> QED
    BY <2>1, <2>2 DEF checkInAtReception
<1>7. orderFood(g) => MindsOthers(g)
  <2>1. OrderLock(g) \/ OrderSave(g) => MindsOthers(g)
    BY <1>5 DEF OrderLock, OrderSave, Leaving
  <2>2. OrderRequest(g) \/ OrderPost(g) \/ OrderTaken(g) => MindsOthers(g)
    BY <1>3, <1>4 DEF OrderRequest, OrderPost, OrderTaken, Leaving
  <2> QED
    BY <2>1, <2>2 DEF orderFood
<1>8. waitFood(g) => MindsOthers(g)
  <2>1. WaitFoodLock(g) \/ WaitFoodSave(g) \/ EatLock(g) \/ EatSave(g)
          => MindsOthers(g)
    BY <1>5 DEF WaitFoodLock, WaitFoodSave, EatLock, EatSave, Leaving
  <2>2. FoodServed(g) => MindsOthers(g)
    BY <1>3 DEF FoodServed, Leaving
  <2> QED
    BY <2>1, <2>2 DEF waitFood
<1>9. CheckOutRequest(g) => UNCHANGED groupTable /\ AsksForBill(g)
  BY <1>2, <1>4 DEF CheckOutRequest, fillReceptionistRequest, AsksForBill
<1>10. CheckOutPost(g) => UNCHANGED groupTable /\ AnnouncesBill(g)
  BY <1>2, <1>4 DEF CheckOutPost, postReceptionistRequest, AnnouncesBill
<1>11. CheckOutDone(g) => UNCHANGED groupTable /\ TakesReceipt(g)
  BY <1>2 DEF CheckOutDone, receiptTable, TakesReceipt
<1>12. FinishMeal(g) \/ CheckOutLock(g) \/ CheckOutSave(g) \/ LeaveLock(g)
         \/ LeaveSave(g) => MindsOthers(g)
  BY <1>3, <1>5 DEF FinishMeal, CheckOutLock, CheckOutSave, LeaveLock,
     LeaveSave, Leaving, semVars
<1> QED
  BY <1>6, <1>7, <1>8, <1>9, <1>10, <1>11, <1>12
     DEF GroupNext, checkOutAtReception

LEMMA ReceiptTypes ==
  ASSUME TypeOK, NEW t \in Tables
  PROVE  /\ IsFiniteSet(Checking(t)) /\ Cardinality(Checking(t)) \in Nat
         /\ IsFiniteSet(Billed(t)) /\ Cardinality(Billed(t)) \in Nat
         /\ tableDone \in [Tables -> Nat]
<1>1. Checking(t) \subseteq Groups /\ Billed(t) \subseteq Groups
  BY DEF Checking, Billed
<1> QED
  BY <1>1, GroupsAssumption, FS_Subset, FS_CardinalityType
     DEF TypeOK, SharedTypeOK, SemTypeOK

LEMMA GroupKeepsReceipts ==
  ASSUME TypeOK, TypeOK', CopyCurrent, ReceiptsFit, NEW g \in Groups,
         GroupStep(g), NEW t \in Tables
  PROVE  Cardinality(Checking(t)') = tableDone'[t] + Cardinality(Billed(t)')
<1> DEFINE p == groupTable[g]
           C == Checking(t)
           B == Billed(t)
<1>1. /\ IsFiniteSet(C) /\ Cardinality(C) \in Nat
      /\ IsFiniteSet(B) /\ Cardinality(B) \in Nat
      /\ Cardinality(C) = tableDone[t] + Cardinality(B)
      /\ tableDone \in [Tables -> Nat]
  BY ReceiptTypes DEF ReceiptsFit
<1>2. /\ assignedTable' = assignedTable
      /\ \A h \in Groups \ {g} :
           groupAt'[h] = groupAt[h] /\ groupTable'[h] = groupTable[h]
  BY GroupMovesAlone DEF GroupStep, GroupNext, tableVars, TypeOK
<1>3. CASE MindsOthers(g)
  <2>1. C' = C /\ B' = B
    BY <1>2, <1>3 DEF MindsOthers, Checking, Billed, Leaving
  <2> QED
    BY <1>1, <1>3, <2>1 DEF MindsOthers
<1>4. CASE UNCHANGED groupTable /\ AsksForBill(g)
  <2>1. p = assignedTable[g]
    BY <1>4 DEF CopyCurrent, at, UsesCopy, AsksForBill
  <2>2. CASE t = p
    <3>1. C' = C \cup {g} /\ g \notin C /\ B' = B \cup {g} /\ g \notin B
      BY <1>2, <1>4, <2>1, <2>2 DEF AsksForBill, Checking, Billed, Leaving
    <3>2. /\ Cardinality(C') = Cardinality(C) + 1
          /\ Cardinality(B') = Cardinality(B) + 1
      BY <1>1, <3>1, FS_AddElement
    <3> QED
      BY <1>1, <1>4, <3>2 DEF AsksForBill
  <2>3. CASE t # p
    <3>1. C' = C /\ B' = B
      BY <1>2, <1>4, <2>1, <2>3 DEF AsksForBill, Checking, Billed, Leaving
    <3> QED
      BY <1>1, <1>4, <3>1 DEF AsksForBill
  <2> QED
    BY <2>2, <2>3
<1>5. CASE UNCHANGED groupTable /\ AnnouncesBill(g)
  <2>1. C' = C /\ B' = B
    BY <1>2, <1>5 DEF AnnouncesBill, Checking, Billed, Leaving
  <2> QED
    BY <1>1, <1>5, <2>1 DEF AnnouncesBill
<1>6. CASE UNCHANGED groupTable /\ TakesReceipt(g)
  <2>1. B' = B
    BY <1>2, <1>6 DEF TakesReceipt, Billed, Leaving
  <2>2. CASE t = p
    <3>1. C' = C \ {g} /\ g \in C
      BY <1>2, <1>6, <2>2 DEF TakesReceipt, Checking
    <3>2. Cardinality(C') = Cardinality(C) - 1
      BY <1>1, <3>1, FS_RemoveElement
    <3>3. tableDone'[t] = tableDone[t] - 1
      BY <1>1, <1>6, <2>2 DEF TakesReceipt
    <3> QED
      BY <1>1, <2>1, <3>2, <3>3
  <2>3. CASE t # p
    <3>1. C' = C /\ tableDone'[t] = tableDone[t]
      BY <1>1, <1>2, <1>6, <2>3 DEF TakesReceipt, Checking
    <3> QED
      BY <1>1, <2>1, <3>1
  <2> QED
    BY <2>2, <2>3
<1> QED
  BY <1>3, <1>4, <1>5, <1>6, GroupAndReceipt DEF GroupStep

LEMMA ReceptionistKeepsReceipts ==
  ASSUME TypeOK, ReceptionInv, ReceptionistStep, ReceiptsFit, NEW t \in Tables
  PROVE  Cardinality(Checking(t)') = tableDone'[t] + Cardinality(Billed(t)')
<1> DEFINE B == Billed(t)
           paid == assignedTable[guest]
<1>1. /\ IsFiniteSet(B) /\ Cardinality(B) \in Nat
      /\ Cardinality(Checking(t)) = tableDone[t] + Cardinality(B)
      /\ Cardinality(Checking(t)) \in Nat
      /\ tableDone \in [Tables -> Nat]
      /\ assignedTable \in [Groups -> Tables \cup {NoTable}]
  BY ReceiptTypes DEF ReceiptsFit, TypeOK, SharedTypeOK, TableTypeOK
<1>2. groupAt' = groupAt /\ Checking(t)' = Checking(t)
  BY DEF ReceptionistStep, groupVars, Checking
<1>3. CASE SeatGroup
  <2>1. guest \in Groups /\ groupAt[guest] = "waitForTable"
    BY <1>3, SeatsWaiting
  <2>2. B' = B /\ tableDone' = tableDone
    BY <1>1, <1>2, <1>3, <2>1 DEF SeatGroup, Billed, Leaving
  <2> QED
    BY <1>1, <1>2, <2>2
<1>4. CASE FreeTable
  <2>1. guest \in Groups /\ groupAt[guest] \in Leaving /\ HasTable(guest)
    BY <1>4, FreesLeft
  <2>2. /\ assignedTable' = [assignedTable EXCEPT ![guest] = NoTable]
        /\ tableDone' = [tableDone EXCEPT ![paid] = @ + 1]
    BY <1>4, <2>1 DEF FreeTable, HasTable
  <2>3. t # NoTable
    BY ConstantTypes DEF Tables, NoTable
  <2>4. CASE t = paid
    <3>1. B' = B \ {guest} /\ guest \in B
      BY <1>1, <1>2, <2>1, <2>2, <2>3, <2>4 DEF Billed, Leaving
    <3>2. Cardinality(B') = Cardinality(B) - 1
      BY <1>1, <3>1, FS_RemoveElement
    <3>3. tableDone'[t] = tableDone[t] + 1
      BY <1>1, <2>2, <2>4
    <3> QED
      BY <1>1, <1>2, <3>2, <3>3
  <2>5. CASE t # paid
    <3>1. B' = B /\ tableDone'[t] = tableDone[t]
      BY <1>1, <1>2, <2>1, <2>2, <2>3, <2>5 DEF Billed, Leaving
    <3> QED
      BY <1>1, <1>2, <3>1
  <2> QED
    BY <2>4, <2>5
<1>5. CASE ~SeatGroup /\ ~FreeTable
  <2>1. assignedTable' = assignedTable
    BY <1>5, TableChanges DEF Next
  <2>2. tableDone' = tableDone
    BY <1>5 DEF ReceptionistStep, ReceptionistNext, waitForGroup,
       WaitGroupLock, WaitGroupSave, TakeGroupRequest, ReadGroupRequest,
       provideTableOrWaitingRoom, ProvideLock, ProvideSave, PutInWaitingRoom,
       receivePayment, PaymentLock, PaymentSave, CallNextGroup, NobodyWaits,
       lockReceptionistState, saveReceptionistState, semDown, semUp, semVars
  <2>3. B' = B
    BY <1>2, <2>1 DEF Billed, Leaving
  <2> QED
    BY <1>1, <1>2, <2>2, <2>3
<1> QED
  BY <1>3, <1>4, <1>5

LEMMA ReceiptsStep ==
  TypeInv /\ ReceptionInv /\ CopyCurrent /\ ReceiptsFit /\ [Next]_vars
    => ReceiptsFit'
<1> SUFFICES ASSUME TypeOK, TypeOK', ReceptionInv, CopyCurrent, ReceiptsFit,
                    [Next]_vars, NEW t \in Tables
             PROVE  Cardinality(Checking(t)')
                      = tableDone'[t] + Cardinality(Billed(t)')
  BY TypeStep DEF TypeInv, ReceiptsFit, Checking, Billed, Leaving
<1>1. CASE WaiterStep \/ ChefStep \/ UNCHANGED vars
  <2>1. UNCHANGED <<groupAt, groupTable, assignedTable>>
    BY <1>1 DEF WaiterStep, WaiterNext, ChefStep, ChefNext, vars, groupVars,
       sharedVars, tableVars
  <2>2. UNCHANGED tableDone
    <3>1. CASE WaiterStep
      BY <3>1 DEF WaiterStep, WaiterNext, waitForClientOrChef, TakeQueued,
         IdleLock, IdleSave, TakeRequest, ReadRequest, informChef, InformLock,
         InformSave, PostOrder, WaitForChef, InformGroup, takeFoodToTable,
         TakeFoodLock, TakeFoodSave, ServeFood, semDown, semUp, semVars
    <3>2. CASE ChefStep
      BY <3>2, ChefUsesSlot DEF ChefStep, ChefOnSlots, semDown, semUp
    <3>3. CASE UNCHANGED vars
      BY <3>3 DEF vars, sharedVars, semVars
    <3> QED
      BY <1>1, <3>1, <3>2, <3>3
  <2>3. Checking(t)' = Checking(t) /\ Billed(t)' = Billed(t)
    BY <2>1 DEF Checking, Billed, Leaving
  <2> QED
    BY <2>2, <2>3 DEF ReceiptsFit
<1> QED
  BY <1>1, GroupKeepsReceipts, ReceptionistKeepsReceipts DEF Next, Terminated

LEMMA ReceiptsInit == Init => ReceiptsFit
<1> SUFFICES ASSUME Init, NEW t \in Tables
             PROVE  Cardinality(Checking(t)) = tableDone[t] + Cardinality(Billed(t))
  BY DEF ReceiptsFit
<1>1. Checking(t) = {} /\ Billed(t) = {} /\ tableDone[t] = 0
  BY DEF Init, GroupInit, SharedInit, TableSemsRed, Checking, Billed, Leaving
<1> QED
  BY <1>1, FS_EmptySet

\* A bill is pending from when its group files it until the receptionist has
\* taken the table away.
LEMMA BillPending ==
  ASSUME TypeOK, RequestSlotsExclusive, ReceptionInv, NEW g \in Groups
  PROVE  pendingBill(g) <=> groupAt[g] = "postBillRequest" \/ Owes(g)
<1> DEFINE filed == /\ sem["receptionistReq"] > 0
                    /\ receptionistRequest = BillRequest(g)
           held == req = BillRequest(g)
<1>1. pendingBill(g) <=>
        groupAt[g] = "postBillRequest" \/ filed \/ held \/ PaymentOf(g)
  BY SlotHolds DEF pendingBill, BillRequest, PaymentOf
<1>2. filed \/ held => Owes(g)
  <2>1. filed \/ held => Fresh(BillRequest(g))
    BY RequestsDiffer DEF ReceptionInv, SlotFresh
  <2> QED
    BY <2>1, RequestsDiffer DEF Fresh
<1>3. PaymentOf(g) => Owes(g)
  BY DEF ReceptionInv, GuestFits
<1>4. Owes(g) => filed \/ held \/ PaymentOf(g)
  BY DEF ReceptionInv, NobodyForgotten
<1> QED
  BY <1>1, <1>2, <1>3, <1>4

LEMMA ReceiptsInvariant == Spec => []ReceiptsFit
<1> QED
  BY ReceiptsInit, ReceiptsStep, TypeInvariant, SlotsExclusive,
     ReceptionInvariant, GroupCopies, PTL DEF Spec

\* At each table there are always as many receipts, and bills that will become
\* one, as there are groups waiting for a receipt there, even when the table
\* has passed to another group before the first one has taken its receipt.
THEOREM ReceiptForEveryBill == Spec => []ReceiptsBalance
<1>1. TypeInv /\ RequestSlotsExclusive /\ ReceptionInv /\ ReceiptsFit
        => ReceiptsBalance
  <2> SUFFICES ASSUME TypeOK, RequestSlotsExclusive, ReceptionInv, ReceiptsFit,
                      NEW t \in Tables
               PROVE  Cardinality({g \in at({"postBillRequest", "waitForReceipt"}) :
                                     groupTable[g] = t})
                        = tableDone[t] + Cardinality({g \in Groups :
                                           pendingBill(g) /\ assignedTable[g] = t})
    BY DEF TypeInv, ReceiptsBalance, receiptTable
  <2>1. {g \in at({"postBillRequest", "waitForReceipt"}) : groupTable[g] = t}
          = Checking(t)
    BY DEF at, Checking
  <2>2. {g \in Groups : pendingBill(g) /\ assignedTable[g] = t} = Billed(t)
    <3>1. t # NoTable
      BY ConstantTypes DEF Tables, NoTable
    <3>2. ASSUME NEW g \in Groups, assignedTable[g] = t
          PROVE  pendingBill(g) <=> groupAt[g] \in Leaving \cup {"postBillRequest"}
      BY <3>1, <3>2, BillPending DEF Owes, HasTable
    <3> QED
      BY <3>2 DEF Billed
  <2> QED
    BY <2>1, <2>2 DEF ReceiptsFit
<1> QED
  BY <1>1, ReceiptsInvariant, TypeInvariant, SlotsExclusive, ReceptionInvariant,
     PTL

\* A group that waits for its receipt still has the table in its copy, or none.
PayerFits ==
  \A g \in at({"waitForReceipt"}) :
    groupTable[g] \in Tables /\ assignedTable[g] \in {groupTable[g], NoTable}

LEMMA PayerStep ==
  TypeInv /\ ReceptionInv /\ CopyCurrent /\ PayerFits /\ [Next]_vars => PayerFits'
<1> SUFFICES ASSUME TypeOK, ReceptionInv, CopyCurrent, PayerFits, [Next]_vars,
                    NEW g \in Groups, groupAt'[g] = "waitForReceipt"
             PROVE  /\ groupTable'[g] \in Tables
                    /\ assignedTable'[g] \in {groupTable'[g], NoTable}
  BY DEF TypeInv, PayerFits, at
<1>1. assignedTable \in [Groups -> Tables \cup {NoTable}]
  BY DEF TypeOK, SharedTypeOK, TableTypeOK
<1>2. ASSUME NEW h \in Groups, GroupStep(h)
      PROVE  /\ groupTable'[g] \in Tables
             /\ assignedTable'[g] \in {groupTable'[g], NoTable}
  <2>1. assignedTable' = assignedTable
    BY <1>2 DEF GroupStep, GroupNext, tableVars
  <2>2. CASE g = h
    <3>1. UNCHANGED groupTable /\ groupAt[g] = "postBillRequest"
      BY <1>2, <2>2, GroupAndReceipt
         DEF GroupStep, MindsOthers, AsksForBill, AnnouncesBill, TakesReceipt
    <3> QED
      BY <2>1, <3>1 DEF CopyCurrent, at, UsesCopy
  <2>3. CASE g # h
    <3>1. groupAt'[g] = groupAt[g] /\ groupTable'[g] = groupTable[g]
      BY <1>2, <2>3, GroupMovesAlone DEF GroupStep, TypeOK
    <3> QED
      BY <2>1, <3>1 DEF PayerFits, at
  <2> QED
    BY <2>2, <2>3
<1>3. CASE ReceptionistStep \/ WaiterStep \/ ChefStep \/ UNCHANGED vars
  <2>1. groupAt' = groupAt /\ groupTable' = groupTable
    BY <1>3 DEF ReceptionistStep, WaiterStep, ChefStep, vars, groupVars
  <2>2. /\ groupTable[g] \in Tables
        /\ assignedTable[g] \in {groupTable[g], NoTable}
    BY <2>1 DEF PayerFits, at
  <2>3. assignedTable'[g] \in {assignedTable[g], NoTable}
    <3>1. CASE SeatGroup
      BY <1>1, <2>1, <3>1, SeatsWaiting DEF SeatGroup
    <3>2. CASE FreeTable
      <4>1. assignedTable' = [assignedTable EXCEPT ![guest] = NoTable]
        BY <3>2, FreesLeft DEF FreeTable, HasTable
      <4> QED
        BY <1>1, <4>1
    <3> QED
      BY <3>1, <3>2, TableChanges
  <2> QED
    BY <2>1, <2>2, <2>3
<1> QED
  BY <1>2, <1>3 DEF Next, Terminated

LEMMA PayerInit == Init => PayerFits
BY DEF Init, GroupInit, PayerFits, at

LEMMA PayersCopies == Spec => []PayerFits
<1> QED
  BY PayerInit, PayerStep, TypeInvariant, ReceptionInvariant, GroupCopies, PTL
     DEF Spec

\* A group that has posted its bill sleeps on the copy of its table that it made
\* before.  Until its bill has been received that table is its own; once the
\* receptionist has taken it away, a receipt is out there, or to come for the
\* bill of the group that sits there now, which has taken the payer's.
THEOREM ReceiptAtPayersTable == Spec => []ReceiptComesWhereAwaited
<1>1. TypeInv /\ RequestSlotsExclusive /\ ReceptionInv /\ ReceiptsFit /\ PayerFits
        => ReceiptComesWhereAwaited
  <2> SUFFICES ASSUME TypeOK, RequestSlotsExclusive, ReceptionInv, ReceiptsFit,
                      PayerFits, NEW g \in Groups, groupAt[g] = "waitForReceipt"
               PROVE  LET t == groupTable[g] IN
                      /\ t \in Tables
                      /\ \/ pendingBill(g) /\ assignedTable[g] = t
                         \/ /\ ~pendingBill(g) /\ assignedTable[g] = NoTable
                            /\ \/ tableDone[t] > 0
                               \/ \E h \in Groups :
                                    pendingBill(h) /\ assignedTable[h] = t
    BY DEF TypeInv, ReceiptComesWhereAwaited, receiptTable, at
  <2> DEFINE t == groupTable[g]
  <2>1. t \in Tables /\ assignedTable[g] \in {t, NoTable}
    BY DEF PayerFits, at
  <2>2. t # NoTable
    BY <2>1, ConstantTypes DEF Tables, NoTable
  <2>3. pendingBill(g) <=> assignedTable[g] # NoTable
    BY BillPending DEF Owes, Leaving, HasTable
  <2>4. tableDone[t] > 0 \/ Billed(t) # {}
    <3>1. g \in Checking(t)
      BY DEF Checking
    <3>2. /\ IsFiniteSet(Checking(t)) /\ Cardinality(Checking(t)) \in Nat
          /\ tableDone[t] \in Nat
      BY <2>1, ReceiptTypes
    <3>3. Cardinality(Checking(t)) # 0
      BY <3>1, <3>2, FS_EmptySet
    <3>4. Cardinality(Checking(t)) = tableDone[t] + Cardinality(Billed(t))
      BY <2>1 DEF ReceiptsFit
    <3>5. Billed(t) = {} => Cardinality(Billed(t)) = 0
      BY FS_EmptySet
    <3> HIDE DEF t
    <3> QED
      BY <3>2, <3>3, <3>4, <3>5
  <2>5. \A h \in Billed(t) : h \in Groups /\ pendingBill(h) /\ assignedTable[h] = t
    BY <2>2, BillPending DEF Billed, Owes, HasTable
  <2> QED
    BY <2>1, <2>2, <2>3, <2>4, <2>5
<1> QED
  BY <1>1, ReceiptsInvariant, PayersCopies, TypeInvariant, SlotsExclusive,
     ReceptionInvariant, PTL

-----------------------------------------------------------------------------
(* The receptionist counts to 2 * nGroups                                   *)

\* The groups whose request for a table has been dealt with, those whose bill
\* is paid, and whether the receptionist, having freed a table, has still to
\* seat the next group before the request counts as handled.
Received == {g \in Groups : HasTable(g) \/ groupAt[g] \in Leaving \/ Listed(g)}
Paid     == {g \in Groups : groupAt[g] \in Leaving /\ ~HasTable(g)}
Calling  == \/ receptionistAt = "nextGroup"
            \/ \E g \in Groups : Deciding(g) /\ Listed(g)

CountsRequests ==
  /\ receptionistReqs + Bit(Calling) = Cardinality(Received) + Cardinality(Paid)
  /\ receptionistAt = "exit" => receptionistReqs = 2 * nGroups

LEMMA CountTypes ==
  ASSUME TypeOK
  PROVE  /\ IsFiniteSet(Received) /\ Cardinality(Received) \in 0 .. nGroups
         /\ IsFiniteSet(Paid) /\ Cardinality(Paid) \in 0 .. nGroups
         /\ Cardinality(Paid) = nGroups => Paid = Groups
         /\ receptionistReqs \in 0 .. 2 * nGroups /\ nGroups \in Nat
<1>1. Received \subseteq Groups /\ Paid \subseteq Groups
  BY DEF Received, Paid
<1> QED
  BY <1>1, GroupsAssumption, ConstantTypes, FS_Subset, FS_CardinalityType
     DEF TypeOK, ReceptionistTypeOK, nGroups

\* Counting one request more, where the loop of main ends at 2 * nGroups.
LEMMA CountsOne ==
  ASSUME TypeOK, TypeOK', requestDone
  PROVE  /\ receptionistReqs' = receptionistReqs + 1
         /\ receptionistAt' = "exit" => receptionistReqs' = 2 * nGroups
<1>1. /\ receptionistReqs' = receptionistReqs + 1
      /\ receptionistAt' = receptionistLoop(receptionistReqs')
  BY DEF requestDone
<1>2. receptionistReqs' \in 0 .. 2 * nGroups
  BY DEF TypeOK, ReceptionistTypeOK
<1> QED
  BY <1>1, <1>2, ConstantTypes DEF receptionistLoop

LEMMA ReceptionistCounts ==
  ASSUME TypeOK, TypeOK', ReceptionInv, ReceptionInv', CountsRequests,
         ReceptionistStep
  PROVE  CountsRequests'
<1> DEFINE R == Received
           P == Paid
<1>1. /\ groupAt' = groupAt
      /\ IsFiniteSet(R) /\ Cardinality(R) \in Nat
      /\ IsFiniteSet(P) /\ Cardinality(P) \in Nat
      /\ receptionistReqs \in Nat /\ receptionistReqs' \in Nat
      /\ assignedTable \in [Groups -> Tables \cup {NoTable}]
  BY CountTypes DEF ReceptionistStep, groupVars, TypeOK, ReceptionistTypeOK,
     SharedTypeOK, TableTypeOK
<1>2. ASSUME R' = R, P' = P, receptionistReqs' = receptionistReqs,
             Calling' <=> Calling, receptionistAt' # "exit"
      PROVE  CountsRequests'
  BY <1>2 DEF CountsRequests, Bit
<1>3. ASSUME UNCHANGED <<waitlist, listEnd, assignedTable>>
      PROVE  /\ R' = R /\ P' = P
             /\ \A h : Listed(h)' = Listed(h)
  BY <1>1, <1>3 DEF Received, Paid, HasTable, Listed, Leaving
<1>4. CASE SavesState /\ UNCHANGED receptionView
  <2>1. /\ UNCHANGED <<waitlist, listEnd, assignedTable, guest>>
        /\ receptionistAt # "nextGroup" /\ receptionistAt' # "nextGroup"
        /\ receptionistAt' # "exit"
    BY <1>4 DEF receptionView, recordVars, SavesState
  <2>2. receptionistReqs' = receptionistReqs
    BY <1>4 DEF SavesState, ReceptionistStep, ReceptionistNext, waitForGroup,
       WaitGroupLock, WaitGroupSave, TakeGroupRequest, ReadGroupRequest,
       provideTableOrWaitingRoom, ProvideLock, ProvideSave, SeatGroup,
       PutInWaitingRoom, receivePayment, PaymentLock, PaymentSave, FreeTable,
       CallNextGroup, NobodyWaits, lockReceptionistState, saveReceptionistState,
       receptionistGoesTo
  <2>3. \A h : Deciding(h)' = Deciding(h)
    BY <1>4, <2>1 DEF Deciding, SavesState
  <2> QED
    BY <1>2, <1>3, <2>1, <2>2, <2>3 DEF Calling
<1>5. CASE TakeGroupRequest
  <2>1. /\ UNCHANGED <<waitlist, listEnd, assignedTable, receptionistReqs>>
        /\ receptionistAt = "takeRequest" /\ receptionistAt' = "readRequest"
    BY <1>5 DEF TakeGroupRequest, receptionistGoesTo, recordVars, tableVars
  <2> QED
    BY <1>2, <1>3, <2>1 DEF Calling, Deciding
<1>6. CASE ReadGroupRequest
  <2>1. PICK g \in Groups :
          /\ guest' = g
          /\ \/ /\ req = TableRequest(g) /\ receptionistAt' = "provideTable"
                /\ Awaits(g) /\ ~Deciding(g) /\ ~Listed(g)
             \/ /\ req = BillRequest(g) /\ receptionistAt' = "receivePayment"
                /\ Owes(g) /\ ~PaymentOf(g)
    BY <1>6, ReadsFresh DEF ReceptionInv
  <2>2. UNCHANGED <<waitlist, listEnd, assignedTable>>
    BY <1>6 DEF ReadGroupRequest, recordVars, tableVars
  <2>3. receptionistReqs' = receptionistReqs
    BY <1>6, <2>1 DEF ReadGroupRequest, TableRequest, BillRequest, MakeRequest
  <2>4. receptionistAt = "readRequest"
    BY <1>6 DEF ReadGroupRequest
  <2>5. ~Calling /\ ~Calling'
    BY <1>3, <2>1, <2>2, <2>4 DEF Calling, Deciding
  <2> QED
    BY <1>2, <1>3, <2>1, <2>2, <2>3, <2>5
<1>7. CASE SeatGroup
  <2>1. /\ guest \in Groups /\ groupAt[guest] = "waitForTable" /\ ~HasTable(guest)
        /\ UNCHANGED <<waitlist, listEnd>> /\ requestDone
        /\ receptionistAt = "decideTable"
    BY <1>7, SeatsWaiting DEF SeatGroup
  <2>2. /\ receptionistReqs' = receptionistReqs + 1
        /\ receptionistAt' = "exit" => receptionistReqs' = 2 * nGroups
        /\ ~Calling'
    BY <2>1, CountsOne, BackInLoop DEF Calling
  <2>3. \A h \in Groups :
          /\ HasTable(h)' <=> HasTable(h) \/ h = guest
          /\ Listed(h)' = Listed(h)
    <3>1. decideTableOrWait # NoTable
      BY <1>7 DEF SeatGroup
    <3> QED
      BY <1>1, <1>7, <2>1, <3>1 DEF SeatGroup, HasTable, Listed
  <2>4. Calling <=> Listed(guest)
    BY <2>1 DEF Calling, Deciding
  <2>5. P' = P
    BY <1>1, <2>1, <2>3 DEF Paid, Leaving
  <2>6. R' = R \cup {guest} /\ (guest \in R <=> Listed(guest))
    BY <1>1, <2>1, <2>3 DEF Received, Leaving
  <2>7. Cardinality(R') = IF guest \in R THEN Cardinality(R) ELSE Cardinality(R) + 1
    BY <1>1, <2>6, FS_AddElement
  <2> HIDE DEF R, P
  <2>8. receptionistReqs + Bit(Calling) = Cardinality(R) + Cardinality(P)
    BY DEF CountsRequests, R, P
  <2>9. receptionistReqs' + 0 = Cardinality(R') + Cardinality(P')
    BY <1>1, <2>2, <2>4, <2>5, <2>6, <2>7, <2>8 DEF Bit
  <2> QED
    BY <2>2, <2>9 DEF CountsRequests, R, P, Bit
<1>8. CASE PutInWaitingRoom
  <2>1. /\ guest \in Groups /\ Deciding(guest) /\ Awaits(guest)
        /\ requestDone /\ UNCHANGED assignedTable
        /\ receptionistAt = "decideTable" /\ listEnd \in Nat
    BY <1>8 DEF PutInWaitingRoom, ReceptionInv, GuestIsGroup, GuestFits,
       Deciding, TypeOK, ReceptionistTypeOK
  <2>2. /\ receptionistReqs' = receptionistReqs + 1
        /\ receptionistAt' = "exit" => receptionistReqs' = 2 * nGroups
        /\ ~Calling'
    BY <2>1, CountsOne, BackInLoop DEF Calling
  <2>3. occupied = Tables /\ nOccupied = NUMTABLES
    BY <1>8, DecidesToWait DEF PutInWaitingRoom, ReceptionInv, TablesConsistent,
       TypeOK
  <2>4. ~Calling /\ ~Listed(guest)
    <3>1. ~(\E g \in Groups : Deciding(g) /\ Listed(g))
      BY <2>3, ConstantTypes DEF ReceptionInv, TablesInUse
    <3> QED
      BY <2>1, <3>1 DEF Calling
  <2>5. P' = P
    BY <1>1, <2>1 DEF Paid, HasTable, Leaving
  <2>6. R' = R \cup {guest} /\ guest \notin R
    <3>1. listEnd + 1 < WAITLIST_LENGTH
      BY <2>1, <2>3, <2>4, RoomForOneMore DEF ReceptionInv
    <3>2. listEnd' = listEnd + 1
      BY <1>8, <2>1, <3>1, NoWrap DEF PutInWaitingRoom
    <3>3. \A h : Listed(h)' <=> Listed(h) \/ h = guest
      <4>1. 0 .. listEnd' - 1 = (0 .. listEnd - 1) \cup {listEnd}
        BY <2>1, <3>2
      <4>2. /\ waitlist'[listEnd] = guest
            /\ \A i \in 0 .. listEnd - 1 : waitlist'[i] = waitlist[i]
        BY <1>8, <2>1, <3>1, ConstantTypes DEF PutInWaitingRoom, TypeOK,
           ReceptionistTypeOK
      <4> QED
        BY <4>1, <4>2 DEF Listed
    <3> QED
      BY <1>1, <2>1, <2>4, <3>3 DEF Received, HasTable, Awaits, Leaving
  <2>7. Cardinality(R') = Cardinality(R) + 1
    BY <1>1, <2>6, FS_AddElement
  <2> QED
    BY <1>1, <2>2, <2>4, <2>5, <2>7 DEF CountsRequests, Bit
<1>9. CASE FreeTable
  <2>1. /\ guest \in Groups /\ groupAt[guest] \in Leaving /\ HasTable(guest)
        /\ receptionistAt = "freeTable" /\ receptionistAt' = "nextGroup"
        /\ assignedTable' = [assignedTable EXCEPT ![guest] = NoTable]
        /\ UNCHANGED <<waitlist, listEnd, receptionistReqs>>
    BY <1>9, FreesLeft DEF FreeTable, HasTable
  <2>2. ~Calling /\ Calling'
    BY <2>1 DEF Calling, Deciding
  <2>3. \A h \in Groups :
          /\ HasTable(h)' <=> HasTable(h) /\ h # guest
          /\ Listed(h)' = Listed(h)
    BY <1>1, <2>1 DEF HasTable, Listed
  <2>4. R' = R
    BY <1>1, <2>1, <2>3 DEF Received, Leaving
  <2>5. P' = P \cup {guest} /\ guest \notin P
    BY <1>1, <2>1, <2>3 DEF Paid, Leaving
  <2>6. Cardinality(P') = Cardinality(P) + 1
    BY <1>1, <2>5, FS_AddElement
  <2> QED
    BY <1>1, <2>1, <2>2, <2>4, <2>6 DEF CountsRequests, Bit
<1>10. CASE CallNextGroup
  <2>1. /\ UNCHANGED <<waitlist, listEnd, assignedTable, receptionistReqs>>
        /\ receptionistAt = "nextGroup" /\ receptionistAt' = "provideTable"
        /\ guest' = waitlist[listBegin] /\ groupsWaiting > 0
    BY <1>10 DEF CallNextGroup, receptionistGoesTo
  <2>2. guest' \in Groups /\ Listed(guest')
    <3>1. listBegin \in 0 .. listEnd - 1
      BY <2>1 DEF ReceptionInv, ListFits, TypeOK, SharedTypeOK, TableTypeOK,
         ReceptionistTypeOK
    <3> QED
      BY <2>1, <3>1 DEF ReceptionInv, ListFits, Listed
  <2>3. Calling /\ Calling'
    BY <1>3, <2>1, <2>2 DEF Calling, Deciding
  <2> QED
    BY <1>2, <1>3, <2>1, <2>3
<1>11. CASE NobodyWaits
  <2>1. /\ UNCHANGED <<waitlist, listEnd, assignedTable>> /\ requestDone
        /\ receptionistAt = "nextGroup"
    BY <1>11 DEF NobodyWaits, recordVars, tableVars
  <2>2. /\ receptionistReqs' = receptionistReqs + 1
        /\ receptionistAt' = "exit" => receptionistReqs' = 2 * nGroups
        /\ Calling /\ ~Calling'
    BY <2>1, CountsOne, BackInLoop DEF Calling
  <2> QED
    BY <1>1, <1>3, <2>1, <2>2 DEF CountsRequests, Bit
<1> QED
  BY <1>4, <1>5, <1>6, <1>7, <1>8, <1>9, <1>10, <1>11, ReceptionistSteps

\* A group that leaves has a table until it is paid for, and nobody else
\* touches what is counted.
LEMMA OthersKeepCount ==
  ASSUME TypeOK, ReceptionInv, CountsRequests,
         \/ \E g \in Groups : GroupStep(g)
         \/ WaiterStep
         \/ ChefStep
         \/ UNCHANGED vars
  PROVE  CountsRequests'
<1>1. UNCHANGED <<receptionistVars, assignedTable>>
  BY DEF GroupStep, GroupNext, WaiterStep, WaiterNext, ChefStep, ChefNext, vars,
     sharedVars, tableVars
<1>2. \A g \in Groups :
        /\ HasTable(g)' = HasTable(g)
        /\ Listed(g)' = Listed(g)
        /\ Deciding(g)' = Deciding(g)
  BY <1>1 DEF receptionistVars, recordVars, HasTable, Listed, Deciding
<1>3. \A g \in Groups :
        /\ groupAt[g] \in Leaving => groupAt'[g] \in Leaving
        /\ groupAt'[g] \in Leaving => HasTable(g) \/ groupAt[g] \in Leaving
  <2>1. CASE \E g \in Groups : GroupStep(g)
    BY <2>1, GroupsWait DEF ReceptionInv
  <2>2. CASE WaiterStep \/ ChefStep \/ UNCHANGED vars
    BY <2>2 DEF WaiterStep, ChefStep, vars, groupVars
  <2> QED
    BY <2>1, <2>2
<1>4. Received' = Received /\ Paid' = Paid
  BY <1>2, <1>3 DEF Received, Paid
<1>5. Calling' <=> Calling
  BY <1>1, <1>2 DEF Calling, receptionistVars
<1> QED
  BY <1>1, <1>4, <1>5 DEF CountsRequests, Bit, receptionistVars

LEMMA CountInit == Init => CountsRequests
<1> SUFFICES ASSUME Init PROVE CountsRequests
  OBVIOUS
<1>1. /\ receptionistReqs = 0
      /\ receptionistAt = IF 0 < 2 * nGroups THEN "waitForGroup" ELSE "exit"
      /\ listEnd = 0
      /\ \A g \in Groups : groupAt[g] = "goToRestaurant" /\ ~HasTable(g)
  BY DEF Init, ReceptionistInit, receptionistLoop, GroupInit, SharedInit,
     RegionInit, HasTable
<1>2. Received = {} /\ Paid = {} /\ ~Calling
  BY <1>1 DEF Received, Paid, Calling, Deciding, Listed, Leaving
<1>3. nGroups \in Nat
  BY ConstantTypes
<1> QED
  BY <1>1, <1>2, <1>3, FS_EmptySet DEF CountsRequests, Bit

\* The receptionist has handled one request for each group that it has dealt
\* with for the first time, and one for each that has paid; it is one behind
\* while it seats, after a payment, the group it has called.
LEMMA CountRight == Spec => []CountsRequests
<1>1. TypeInv /\ TypeInv' /\ ReceptionInv /\ ReceptionInv' /\ CountsRequests
        /\ [Next]_vars => CountsRequests'
  BY ReceptionistCounts, OthersKeepCount DEF Next, Terminated, TypeInv
<1> QED
  BY <1>1, CountInit, TypeInvariant, ReceptionInvariant, PTL DEF Spec

-----------------------------------------------------------------------------
(* How the receptionist ends                                                *)

ReceptionistServesAll ==
  receptionistAt = "exit" => at(Leaving) = Groups /\ occupied = {}

\* The receptionist ends, after 2 * nGroups requests, only when every group
\* has paid and no table is occupied.
LEMMA ReceptionistEndsLast == Spec => []ReceptionistServesAll
<1>1. TypeInv /\ ReceptionInv /\ CountsRequests => ReceptionistServesAll
  <2> SUFFICES ASSUME TypeOK, ReceptionInv, CountsRequests, receptionistAt = "exit"
               PROVE  at(Leaving) = Groups /\ occupied = {}
    BY DEF TypeInv, ReceptionistServesAll
  <2>1. ~Calling
    BY DEF Calling, Deciding
  <2>2. Cardinality(Paid) = nGroups
    BY <2>1, CountTypes DEF CountsRequests, Bit
  <2>3. Paid = Groups
    BY <2>2, CountTypes
  <2>4. at(Leaving) = Groups
    BY <2>3 DEF at, Paid
  <2>5. \A g \in Groups : assignedTable[g] = NoTable
    BY <2>3 DEF Paid, HasTable
  <2>6. occupied = {}
    BY <2>5 DEF ReceptionInv, TablesConsistent
  <2> QED
    BY <2>4, <2>6
<1> QED
  BY <1>1, CountRight, TypeInvariant, ReceptionInvariant, PTL

TableFound == receptionistAt # "tableNotFound"

\* The receptionist always finds the table of the group that pays: it never
\* gets where the code takes the mutex and sleeps for ever.
LEMMA TableIsFound == Spec => []TableFound
<1>1. Init => TableFound
  BY DEF TableFound, Init, ReceptionistInit, receptionistLoop
<1>2. TypeInv /\ ReceptionInv /\ TableFound /\ [Next]_vars
        => TableFound'
  <2> SUFFICES ASSUME TypeOK, ReceptionInv, receptionistAt # "tableNotFound",
                      ReceptionistStep
               PROVE  receptionistAt' # "tableNotFound"
    BY DEF TableFound, TypeInv, Next, Terminated, GroupStep, WaiterStep, ChefStep, vars,
       receptionistVars
  <2>1. CASE FreeTable
    BY <2>1, FreesLeft DEF FreeTable, HasTable
  <2>2. CASE ~FreeTable
    BY <2>2 DEF ReceptionistStep, ReceptionistNext, waitForGroup, WaitGroupLock,
       WaitGroupSave, TakeGroupRequest, ReadGroupRequest,
       provideTableOrWaitingRoom, ProvideLock, ProvideSave, SeatGroup,
       PutInWaitingRoom, receivePayment, PaymentLock, PaymentSave,
       CallNextGroup, NobodyWaits, lockReceptionistState,
       saveReceptionistState, receptionistGoesTo, requestDone, receptionistLoop
  <2> QED
    BY <2>1, <2>2
<1> QED
  BY <1>1, <1>2, TypeInvariant, ReceptionInvariant, PTL DEF Spec
=============================================================================
