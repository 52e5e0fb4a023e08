------------------------- MODULE RestaurantService --------------------------
(***************************************************************************)
(* The restaurant implements what its servers promise: the receptionist's  *)
(* Seating and the Kitchen of the waiter and the chef.                     *)
(***************************************************************************)
EXTENDS Restaurant, Sequences, Functions

-----------------------------------------------------------------------------
(* Seating                                                                  *)

\* The waiting room, oldest first.
waitingRoom == [i \in 1 .. groupsWaiting |->
                  waitlist[(listBegin + i - 1) % WAITLIST_LENGTH]]

BeingSeated ==
  receptionistAt \in {"provideTable", "assigningTable", "decideTable"}

\* The group whose table is being decided has just come, when there is no
\* free table for it, or is the first in line.
seatingQueue ==
  IF ~BeingSeated THEN waitingRoom
  ELSE IF nOccupied < NUMTABLES THEN <<guest>> \o waitingRoom
  ELSE Append(waitingRoom, guest)

seatingStage ==
  LET queued == Range(seatingQueue) IN
  [g \in Groups |->
     IF assignedTable[g] # NoTable THEN "seated"
     ELSE IF g \in queued THEN "queued"
     ELSE IF groupAt[g] \in {"waitForReceipt", "leave", "leaving", "exit"}
          THEN "gone"
     ELSE "away"]

S == INSTANCE Seating WITH stage <- seatingStage, queue <- seatingQueue,
                           table <- assignedTable

\* First come, first served: the receptionist seats groups in the order in
\* which it read their requests, never two at a table, with or without a stay
\* in the waiting room.
ImplementsSeating == S!SeatingSpec

\* And it seats and is paid by everybody in the end.
ImplementsFairSeating == S!FairSeatingSpec

-----------------------------------------------------------------------------
(* Kitchen                                                                  *)

\* A request of type FOODREQ, as a sequence of its group, or none.
orderOf(r) == IF r.reqType = "FOODREQ" THEN <<r.reqGroup>> ELSE <<>>

\* The orders on their way to the chef, oldest first: the one the waiter is
\* taking to it, those of its ring, the one in its hands and the one posted.
filedOrders ==
     (IF waiterAt \in {"informChef", "informingChef"}
      THEN orderOf(outgoing) ELSE <<>>)
  \o [i \in 1 .. qlength |-> queue[(qreadNext + i - 1) % NUMTABLES].reqGroup]
  \o orderOf(incoming)
  \o (IF waiterSlotHolds(waiterRequest) THEN orderOf(waiterRequest) ELSE <<>>)

isCooked(g) ==
  LET r == MakeRequest("FOODREADY", g) IN
  \/ waiterSlotHolds(r)
  \/ incoming = r
  \/ outgoing = r
  \/ chefAt = "foodReady" /\ lastGroup = g

mealOf ==
  LET filed == Range(filedOrders) IN
  [g \in Groups |->
     IF BeforeOrdering(g) THEN "none"
     ELSE IF g \in filed THEN "ordered"
     ELSE IF foodOrder /\ foodGroup = g
          THEN IF isCooked(g) THEN "cooked" ELSE "cooking"
     ELSE "served"]

K == INSTANCE Kitchen WITH meal <- mealOf, orders <- filedOrders

\* The waiter and the chef serve the orders in the order they were filed, one
\* at a time, each to the group that filed it, whatever requests arrive while
\* the chef is cooking.
ImplementsKitchen == K!KitchenSpec

\* And every order filed is cooked and served in the end.
ImplementsFairKitchen == K!FairKitchenSpec
=============================================================================
