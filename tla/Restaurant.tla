----------------------------- MODULE Restaurant -----------------------------
(***************************************************************************)
(* The restaurant: the group processes, the receptionist, the waiter and   *)
(* the chef, interleaved at their semaphore operations, from the moment    *)
(* main signals the start of operations.                                   *)
(***************************************************************************)
EXTENDS Group, Receptionist, Waiter, Chef

vars == <<sharedVars, groupVars, receptionistVars, waiterVars, chefVars>>

Init ==
  /\ SharedInit
  /\ GroupInit
  /\ ReceptionistInit
  /\ WaiterInit
  /\ ChefInit

GroupStep(g) ==
  GroupNext(g) /\ UNCHANGED <<receptionistVars, waiterVars, chefVars>>
ReceptionistStep ==
  ReceptionistNext /\ UNCHANGED <<groupVars, waiterVars, chefVars>>
WaiterStep ==
  WaiterNext /\ UNCHANGED <<groupVars, receptionistVars, chefVars>>
ChefStep ==
  ChefNext /\ UNCHANGED <<groupVars, receptionistVars, waiterVars>>

\* Every process has run to its end.
Finished ==
  /\ \A g \in Groups : groupAt[g] = "exit"
  /\ receptionistAt = "exit"
  /\ waiterAt = "exit"
  /\ chefAt = "exit"

Terminated == Finished /\ UNCHANGED vars

Next ==
  \/ \E g \in Groups : GroupStep(g)
  \/ ReceptionistStep
  \/ WaiterStep
  \/ ChefStep
  \/ Terminated

Spec == Init /\ [][Next]_vars

\* The operating system runs every process that can proceed.
Fairness ==
  /\ \A g \in Groups : WF_vars(GroupStep(g))
  /\ WF_vars(ReceptionistStep)
  /\ WF_vars(WaiterStep)
  /\ WF_vars(ChefStep)

FairSpec == Spec /\ Fairness

-----------------------------------------------------------------------------
(* State functions the properties are built from.                           *)

Bit(p) == IF p THEN 1 ELSE 0

\* The groups that are at one of the given places of their program.
at(locations) == {g \in Groups : groupAt[g] \in locations}

BeforeOrdering(g) ==
  groupAt[g] \in {"goToRestaurant", "atReception", "requestTable",
                 "postTableRequest", "waitForTable", "orderFood",
                 "foodRequest", "requestFood"}

PostingToReceptionist == at({"postTableRequest", "postBillRequest"})
PostingToWaiter       == at({"postFoodRequest"})

\* A slot holds a request from when it is filled until it is taken.
receptionistSlotHolds(r) ==
  /\ receptionistRequest = r
  /\ sem["receptionistReq"] > 0 \/ PostingToReceptionist # {}

waiterSlotHolds(r) ==
  /\ waiterRequest = r
  /\ \/ sem["waiterRequest"] > 0
     \/ PostingToWaiter # {}
     \/ chefAt = "postFoodReady"

\* How many entries of the two rings are for g.
queuedOrders(g) ==
  Cardinality({i \in 0 .. qlength - 1 :
                 queue[(qreadNext + i) % NUMTABLES] = MakeRequest("FOODREQ", g)})
waitlistEntries(g) ==
  Cardinality({i \in 0 .. groupsWaiting - 1 :
                 waitlist[(listBegin + i) % WAITLIST_LENGTH] = g})

\* The tokens of an array of semaphores, one for each table, at g's table.
tokensFor(g, tokens) ==
  IF assignedTable[g] = NoTable THEN 0 ELSE tokens[assignedTable[g]]

unacknowledgedOrder(g) ==
  LET order == MakeRequest("FOODREQ", g) IN
  Bit(waiterSlotHolds(order)) + Bit(incoming = order) + queuedOrders(g)
    + Bit(outgoing = order)

uncookedOrder(g) ==
  LET order == MakeRequest("FOODREQ", g) IN
  Bit(waiterSlotHolds(order)) + Bit(incoming = order) + queuedOrders(g)
    + Bit(outgoing = order
          /\ waiterAt \in {"informChef", "informingChef", "postOrder"})
    + Bit(sem["waitOrder"] > 0 /\ foodGroup = g)
    + Bit(lastGroup = g)

cookedMeal(g) ==
  LET meal == MakeRequest("FOODREADY", g) IN
  Bit(waiterSlotHolds(meal)) + Bit(incoming = meal) + Bit(outgoing = meal)
    + tokensFor(g, foodArrived)

pendingTableRequest(g) ==
  LET r == MakeRequest("TABLEREQ", g) IN
  Bit(receptionistSlotHolds(r)) + Bit(req = r) + waitlistEntries(g)
    + Bit(guest = g
          /\ receptionistAt \in {"provideTable", "assigningTable", "decideTable"})
    + waitForTable[g]

pendingBill(g) ==
  LET r == MakeRequest("BILLREQ", g) IN
  \/ receptionistSlotHolds(r)
  \/ req = r
  \/ /\ guest = g
     /\ receptionistAt \in {"receivePayment", "receivingPayment", "freeTable"}

-----------------------------------------------------------------------------
(* Invariants                                                               *)

\* Every variable keeps its type: no counter leaves its range, no local
\* variable holds a table or a group that does not exist.
TypeOK ==
  /\ SharedTypeOK
  /\ GroupTypeOK
  /\ ReceptionistTypeOK
  /\ WaiterTypeOK
  /\ ChefTypeOK

\* At most one process of all is between its down and its up of mutex, where
\* it writes its state and appends the whole of fSt to the log file.
MutualExclusion ==
  sem["mutex"] + Cardinality(at(GroupCritical))
    + Bit(receptionistAt \in ReceptionistCritical)
    + Bit(waiterAt \in WaiterCritical)
    + Bit(chefAt \in ChefCritical) = 1

\* A request slot is free, or filled by one process, or being read: no request
\* is overwritten before the receptionist or the waiter has copied it, though
\* neither side writes it inside the mutex.
RequestSlotsExclusive ==
  /\ sem["receptionistRequestPossible"] + sem["receptionistReq"]
       + Cardinality(PostingToReceptionist)
       + Bit(receptionistAt = "readRequest") = 1
  /\ sem["waiterRequestPossible"] + sem["waiterRequest"]
       + Cardinality(PostingToWaiter) + Bit(chefAt = "postFoodReady")
       + Bit(waiterAt = "readRequest") = 1
  /\ receptionistAt = "readRequest" => req = receptionistRequest
  /\ waiterAt = "readRequest" => incoming = waiterRequest

\* The receptionist's private record agrees with the shared table of who sits
\* where, and no two groups sit at one table.
TablesConsistent ==
  /\ occupied = {assignedTable[g] : g \in Groups} \ {NoTable}
  /\ nOccupied = Cardinality(occupied)
  /\ \A g, h \in Groups :
       assignedTable[g] = assignedTable[h] /\ assignedTable[g] # NoTable => g = h

\* From when a group files its order until it takes its meal, the order or the
\* meal is in exactly one place: the slot, the waiter's hands, its ring, the
\* chef's order, the chef's hands, or the group's own table; and no order
\* exists for a group at any other time.
OrderInOnePlace ==
  \A g \in Groups :
    uncookedOrder(g) + cookedMeal(g)
      = Bit(g \in at({"postFoodRequest", "waitForWaiter", "waitFood",
                      "waitingForFood", "foodArrives"}))

\* The waiter's acknowledgement goes to the table of the group that ordered,
\* once, and never waits at a table nobody sits at.
AckMatchesOrder ==
  /\ \A g \in Groups :
       unacknowledgedOrder(g) + tokensFor(g, requestReceived)
         = Bit(g \in at({"postFoodRequest", "waitForWaiter"}))
  /\ \A t \in Tables \ occupied : requestReceived[t] = 0 /\ foodArrived[t] = 0

\* The waiter's ring of NUMTABLES orders never overflows, though nothing in
\* the code checks it, and its two indices stay qlength apart.
WaiterQueueFits ==
  /\ qlength \in 0 .. NUMTABLES
  /\ qwriteNext = (qreadNext + qlength) % NUMTABLES

\* While the waiter hands an order over, and so reads no requests, the chef
\* waits for one: it neither holds another order nor needs the waiter's slot
\* for a meal, so the two cannot wait for each other.
ChefFreeWhenInformed ==
  waiterAt \in {"informChef", "informingChef", "postOrder"} =>
    chefAt \in {"waitForOrder", "waitingForOrder", "takeOrder"}

\* A table is copied, and the copy used as an index, outside of the critical
\* regions.  Until a group has posted its bill, its own copy and the waiter's
\* are the table assigned to it right now.
TableReadIsCurrent ==
  /\ \A g \in at({"waitForWaiter", "foodArrives", "checkOut", "checkingOut",
                  "requestBill", "postBillRequest"}) :
       groupTable[g] \in Tables /\ groupTable[g] = assignedTable[g]
  /\ waiterAt \in {"informGroup", "serveFood"} =>
       /\ waiterTable \in Tables
       /\ waiterTable = assignedTable[outgoing.reqGroup]

\* From then on the receptionist may take the table away, and give it to another
\* group, while the payer is about to sleep on the copy it made before: the copy
\* is still a table, the payer's until its bill has been received; and from then
\* on a receipt is out at that table, or to come for the bill of the group that
\* sits there now, which has taken the payer's.
ReceiptComesWhereAwaited ==
  \A g \in at({"waitForReceipt"}) :
    LET t == receiptTable(g) IN
    /\ t \in Tables
    /\ \/ pendingBill(g) /\ assignedTable[g] = t
       \/ /\ ~pendingBill(g) /\ assignedTable[g] = NoTable
          /\ \/ tableDone[t] > 0
             \/ \E h \in Groups : pendingBill(h) /\ assignedTable[h] = t

\* A group that asked for a table, and is not seated, is in exactly one place:
\* the slot, the receptionist's hands or the waiting room, or it has been
\* called; and the receptionist considers no other group.
TableRequestInOnePlace ==
  \A g \in Groups : pendingTableRequest(g) =
                      Bit(g \in at({"postTableRequest", "waitForTable"}))

\* Whoever waits at a table for a receipt gets one: at each table there are as
\* many groups waiting as there are receipts out and bills still to be paid.
ReceiptsBalance ==
  \A t \in Tables :
    Cardinality({g \in at({"postBillRequest", "waitForReceipt"}) :
                   receiptTable(g) = t})
      = tableDone[t] + Cardinality({g \in Groups : pendingBill(g)
                                                   /\ assignedTable[g] = t})

\* No group is kept in the waiting room while a table is free, except for the
\* moment in which the receptionist is calling one.
NoIdleTable ==
  groupsWaiting > 0 /\ receptionistAt \notin {"nextGroup", "provideTable",
                                              "assigningTable", "decideTable"}
    => occupied = Tables

\* A group called from the waiting room gets a table and is never sent back:
\* the ring is written once by every group that finds no table free, so that
\* its index stays inside the 48 bytes there are behind it, where its declared
\* length is 56.
WaitlistWithinRecord ==
  /\ listEnd + NUMTABLES <= nGroups \/ listEnd = 0
  /\ listBegin + groupsWaiting = listEnd

\* A server process ends only when nobody needs it any more: the receptionist
\* when all have paid, the chef when every group's order is cooked, the waiter
\* when every meal is on its table, too.
ServersServeAll ==
  /\ receptionistAt = "exit" =>
       /\ at({"waitForReceipt", "leave", "leaving", "exit"}) = Groups
       /\ occupied = {}
  /\ "exit" \in {chefAt, waiterAt} =>
       \A g \in Groups : ~BeforeOrdering(g) /\ uncookedOrder(g) = 0
  /\ waiterAt = "exit" =>
       \A g \in Groups : cookedMeal(g) = tokensFor(g, foodArrived)

\* When all have ended, nothing is left over: no token in any semaphore that
\* had none at the start, no table occupied, no group waiting, no order.
NothingLeftOver ==
  Finished =>
    /\ sem = [s \in SemNames |->
                Bit(s \in {"mutex", "waiterRequestPossible",
                           "receptionistRequestPossible"})]
    /\ \A g \in Groups : waitForTable[g] = 0 /\ assignedTable[g] = NoTable
    /\ \A t \in Tables : requestReceived[t] + foodArrived[t] + tableDone[t] = 0
    /\ groupsWaiting = 0 /\ qlength = 0 /\ occupied = {} /\ ~foodOrder

\* The states the students marked as bugs, in which a server takes the mutex
\* and sleeps for ever, are never reached.
NoBugTrap == receptionistAt # "tableNotFound" /\ waiterAt # "wrongRequest"

-----------------------------------------------------------------------------
(* Action and liveness properties                                           *)

\* A table once assigned is taken away only when its group has asked for the
\* bill, and is never exchanged for another.
TableKeptUntilBill ==
  [][\A g \in Groups :
       assignedTable[g] # NoTable /\ assignedTable'[g] # assignedTable[g] =>
         /\ assignedTable'[g] = NoTable
         /\ g \in at({"waitForReceipt", "leave", "leaving", "exit"})]_vars

\* Every process runs to its end: there is no deadlock and no group starves.
Termination == <>Finished

\* What the comment on checkOutAtReception promises: a group that goes on to
\* leave has had its payment acknowledged.
PaidBeforeLeaving ==
  \A g \in at({"leave", "leaving", "exit"}) : assignedTable[g] = NoTable
=============================================================================
