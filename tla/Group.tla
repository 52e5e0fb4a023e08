------------------------------- MODULE Group --------------------------------
(***************************************************************************)
(* The life of a group process (semSharedMemGroup.c): it goes to the       *)
(* restaurant, checks in, orders, waits for its food, eats, checks out and *)
(* terminates.  groupAt[g] names what g does next.                         *)
(***************************************************************************)
EXTENDS SharedData

VARIABLES
  groupAt,    \* where each group is in its program
  groupTable  \* the local variable `table' of the function it is in

groupVars == <<groupAt, groupTable>>

GroupLocations ==
  {"goToRestaurant", "atReception", "requestTable", "postTableRequest",
   "waitForTable", "orderFood", "foodRequest", "requestFood",
   "postFoodRequest", "waitForWaiter", "waitFood", "waitingForFood",
   "foodArrives", "startEating", "eating", "eat", "checkOut", "checkingOut",
   "requestBill", "postBillRequest", "waitForReceipt", "leave", "leaving",
   "exit"}

\* Where a group holds the mutex, about to write its state and save.
GroupCritical == {"atReception", "foodRequest", "waitingForFood", "eating",
                  "checkingOut", "leaving"}

GroupInit ==
  /\ groupAt = [g \in Groups |-> "goToRestaurant"]
  /\ groupTable = [g \in Groups |-> NoTable]

GroupTypeOK ==
  /\ groupAt \in [Groups -> GroupLocations]
  /\ groupTable \in [Groups -> Tables \cup {NoTable}]

goesTo(g, from, to) ==
  /\ groupAt[g] = from
  /\ groupAt' = [groupAt EXCEPT ![g] = to]

readsTable(g) == groupTable' = [groupTable EXCEPT ![g] = assignedTable[g]]

\* The critical region around a change of groupStat[g]: enter it ...
lockState(g, from, to) ==
  /\ goesTo(g, from, to)
  /\ semDown("mutex")
  /\ UNCHANGED <<groupTable, groupStat, requestVars>>

\* ... and set the state, save it and leave.
saveGroupState(g, from, state, to) ==
  /\ goesTo(g, from, to)
  /\ groupStat' = [groupStat EXCEPT ![g] = state]
  /\ semUp("mutex")
  /\ UNCHANGED requestVars

\* Claim a request slot, once it is free, and fill it: the receptionist's ...
fillReceptionistRequest(g, from, type, to) ==
  /\ goesTo(g, from, to)
  /\ semDown("receptionistRequestPossible")
  /\ receptionistRequest' = MakeRequest(type, g)
  /\ UNCHANGED <<groupTable, groupStat, waiterRequest>>

\* ... and tell the receptionist.
postReceptionistRequest(g, from, to) ==
  /\ goesTo(g, from, to)
  /\ semUp("receptionistReq")
  /\ UNCHANGED <<groupTable, groupStat, requestVars>>

-----------------------------------------------------------------------------
(* goToRestaurant and checkInAtReception.  The journey takes any time.      *)

CheckInLock(g)      == lockState(g, "goToRestaurant", "atReception")
CheckInSave(g)      == /\ saveGroupState(g, "atReception", "ATRECEPTION",
                                         "requestTable")
                       /\ UNCHANGED groupTable
CheckInRequest(g)   == fillReceptionistRequest(g, "requestTable", "TABLEREQ",
                                               "postTableRequest")
CheckInPost(g)      == postReceptionistRequest(g, "postTableRequest",
                                               "waitForTable")
CheckInSit(g) ==
  /\ goesTo(g, "waitForTable", "orderFood")
  /\ waitForTable[g] > 0
  /\ waitForTable' = [waitForTable EXCEPT ![g] = @ - 1]
  /\ UNCHANGED <<sem, requestReceived, foodArrived, tableDone,
                 groupTable, groupStat, requestVars>>

-----------------------------------------------------------------------------
(* orderFood                                                                *)

OrderLock(g) == lockState(g, "orderFood", "foodRequest")
OrderSave(g) == /\ saveGroupState(g, "foodRequest", "FOOD_REQUEST",
                                  "requestFood")
                /\ UNCHANGED groupTable
OrderRequest(g) ==
  /\ goesTo(g, "requestFood", "postFoodRequest")
  /\ semDown("waiterRequestPossible")
  /\ waiterRequest' = MakeRequest("FOODREQ", g)
  /\ UNCHANGED <<groupTable, groupStat, receptionistRequest>>
OrderPost(g) ==
  /\ goesTo(g, "postFoodRequest", "waitForWaiter")
  /\ semUp("waiterRequest")
  /\ readsTable(g)
  /\ UNCHANGED <<groupStat, requestVars>>
\* Mutant: the group does not wait for the waiter's acknowledgement.
OrderTakenUnheard(g) ==
  /\ goesTo(g, "waitForWaiter", "waitFood")
  /\ UNCHANGED <<semVars, groupTable, groupStat, requestVars>>

OrderTaken(g) ==
  LET t == groupTable[g] IN
  /\ goesTo(g, "waitForWaiter", "waitFood")
  /\ requestReceived[t] > 0
  /\ requestReceived' = [requestReceived EXCEPT ![t] = @ - 1]
  /\ UNCHANGED <<sem, waitForTable, foodArrived, tableDone,
                 groupTable, groupStat, requestVars>>

-----------------------------------------------------------------------------
(* waitFood                                                                 *)

WaitFoodLock(g) == lockState(g, "waitFood", "waitingForFood")
WaitFoodSave(g) == /\ saveGroupState(g, "waitingForFood", "WAIT_FOR_FOOD",
                                     "foodArrives")
                   /\ readsTable(g)
FoodServed(g) ==
  LET t == groupTable[g] IN
  /\ goesTo(g, "foodArrives", "startEating")
  /\ foodArrived[t] > 0
  /\ foodArrived' = [foodArrived EXCEPT ![t] = @ - 1]
  /\ UNCHANGED <<sem, waitForTable, requestReceived, tableDone,
                 groupTable, groupStat, requestVars>>
EatLock(g) == lockState(g, "startEating", "eating")
EatSave(g) == /\ saveGroupState(g, "eating", "EAT", "eat")
              /\ UNCHANGED groupTable

-----------------------------------------------------------------------------
(* eat, which takes any time, and checkOutAtReception                       *)

FinishMeal(g) ==
  /\ goesTo(g, "eat", "checkOut")
  /\ readsTable(g)
  /\ UNCHANGED <<groupStat, requestVars, semVars>>
\* Mutant: the state is changed without taking the mutex.
CheckOutUnlocked(g) ==
  /\ goesTo(g, "checkOut", "checkingOut")
  /\ UNCHANGED <<groupTable, groupStat, requestVars, semVars>>

CheckOutLock(g)    == lockState(g, "checkOut", "checkingOut")
CheckOutSave(g)    == /\ saveGroupState(g, "checkingOut", "CHECKOUT",
                                        "requestBill")
                      /\ UNCHANGED groupTable
CheckOutRequest(g) == fillReceptionistRequest(g, "requestBill", "BILLREQ",
                                              "postBillRequest")
CheckOutPost(g)    == postReceptionistRequest(g, "postBillRequest",
                                              "waitForReceipt")

\* Mutant: the table is looked up only when the receipt is waited for.
receiptTableNow(g) == assignedTable[g]

\* Where g waits for its receipt: the copy it made before it asked for the bill.
receiptTable(g) == groupTable[g]

CheckOutDone(g) ==
  LET t == receiptTable(g) IN
  /\ goesTo(g, "waitForReceipt", "leave")
  /\ tableDone[t] > 0
  /\ tableDone' = [tableDone EXCEPT ![t] = @ - 1]
  /\ UNCHANGED <<sem, waitForTable, requestReceived, foodArrived,
                 groupTable, groupStat, requestVars>>
LeaveLock(g) == lockState(g, "leave", "leaving")
LeaveSave(g) == /\ saveGroupState(g, "leaving", "LEAVING", "exit")
                /\ UNCHANGED groupTable

-----------------------------------------------------------------------------
checkInAtReception(g) ==
  \/ CheckInLock(g) \/ CheckInSave(g) \/ CheckInRequest(g)
  \/ CheckInPost(g) \/ CheckInSit(g)

orderFood(g) ==
  \/ OrderLock(g) \/ OrderSave(g) \/ OrderRequest(g)
  \/ OrderPost(g) \/ OrderTaken(g)

waitFood(g) ==
  \/ WaitFoodLock(g) \/ WaitFoodSave(g) \/ FoodServed(g)
  \/ EatLock(g) \/ EatSave(g)

checkOutAtReception(g) ==
  \/ FinishMeal(g)
  \/ CheckOutLock(g) \/ CheckOutSave(g) \/ CheckOutRequest(g)
  \/ CheckOutPost(g) \/ CheckOutDone(g)
  \/ LeaveLock(g) \/ LeaveSave(g)

\* main: a group writes its own state and the request slots, nothing else of
\* the region.
GroupNext(g) ==
  /\ \/ checkInAtReception(g)
     \/ orderFood(g)
     \/ waitFood(g)
     \/ checkOutAtReception(g)
  /\ UNCHANGED <<receptionistStat, waiterStat, chefStat, tableVars, orderVars>>

=============================================================================
