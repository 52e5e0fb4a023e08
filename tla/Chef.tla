-------------------------------- MODULE Chef --------------------------------
(***************************************************************************)
(* The chef process (semSharedMemChef.c): it waits for an order, cooks it  *)
(* and hands it back through the waiter's request slot, once per group.    *)
(***************************************************************************)
EXTENDS SharedData

VARIABLES
  chefAt,    \* where the chef is in its program
  lastGroup, \* the group it cooks for
  nOrders    \* orders done

chefVars == <<chefAt, lastGroup, nOrders>>

Scrubbed == "0xFFFF"  \* what processOrder leaves in lastGroup

ASSUME ScrubbedAssumption == Scrubbed \notin Groups

ChefLocations ==
  {"waitForOrder", "waitingForOrder", "takeOrder", "acknowledgeOrder",
   "processOrder", "cooking", "cooked", "resting", "foodReady",
   "postFoodReady", "exit"}

ChefCritical == {"waitingForOrder", "cooking", "resting"}

\* The loop of main: another order, or the end.
chefLoop(orders) == IF orders < nGroups THEN "waitForOrder" ELSE "exit"

ChefInit ==
  /\ chefAt = chefLoop(0)
  /\ lastGroup = NoGroup
  /\ nOrders = 0

ChefTypeOK ==
  /\ chefAt \in ChefLocations
  /\ lastGroup \in Groups \cup {NoGroup, Scrubbed}
  /\ nOrders \in 0 .. nGroups

chefGoesTo(from, to) == chefAt = from /\ chefAt' = to

lockChefState(from, to) ==
  /\ chefGoesTo(from, to)
  /\ semDown("mutex")
  /\ UNCHANGED <<lastGroup, nOrders, chefStat, waiterRequest>>

saveChefState(from, state, to) ==
  /\ chefGoesTo(from, to)
  /\ chefStat' = state
  /\ semUp("mutex")
  /\ UNCHANGED <<nOrders, waiterRequest>>

-----------------------------------------------------------------------------
(* waitForOrder                                                             *)

WaitOrderLock == lockChefState("waitForOrder", "waitingForOrder")
WaitOrderSave == /\ saveChefState("waitingForOrder", "WAIT_FOR_ORDER",
                                  "takeOrder")
                 /\ lastGroup' = NoGroup
TakeOrder ==
  /\ chefGoesTo("takeOrder", "acknowledgeOrder")
  /\ semDown("waitOrder")
  /\ lastGroup' = foodGroup
  /\ UNCHANGED <<nOrders, chefStat, waiterRequest>>

\* The acknowledgement, and processOrder's early return when there is no order.
AcknowledgeOrder ==
  /\ chefAt = "acknowledgeOrder"
  /\ semUp("orderReceived")
  /\ IF lastGroup = NoGroup
     THEN nOrders' = nOrders + 1 /\ chefAt' = chefLoop(nOrders')
     ELSE chefAt' = "processOrder" /\ UNCHANGED nOrders
  /\ UNCHANGED <<lastGroup, chefStat, waiterRequest>>

-----------------------------------------------------------------------------
(* processOrder.  Cooking takes any time between CookSave and RestLock.     *)

CookLock == lockChefState("processOrder", "cooking")
CookSave == /\ saveChefState("cooking", "COOK", "cooked")
            /\ UNCHANGED lastGroup
RestLock == lockChefState("cooked", "resting")
RestSave == /\ saveChefState("resting", "REST", "foodReady")
            /\ UNCHANGED lastGroup
\* Mutant: the slot is filled without waiting for it to be free.
FoodReadyUnclaimed ==
  /\ chefGoesTo("foodReady", "postFoodReady")
  /\ waiterRequest' = MakeRequest("FOODREADY", lastGroup)
  /\ lastGroup' = Scrubbed
  /\ UNCHANGED <<nOrders, chefStat, semVars>>

FoodReady ==
  /\ chefGoesTo("foodReady", "postFoodReady")
  /\ semDown("waiterRequestPossible")
  /\ waiterRequest' = MakeRequest("FOODREADY", lastGroup)
  /\ lastGroup' = Scrubbed
  /\ UNCHANGED <<nOrders, chefStat>>
PostFoodReady ==
  /\ chefAt = "postFoodReady"
  /\ semUp("waiterRequest")
  /\ nOrders' = nOrders + 1
  /\ chefAt' = chefLoop(nOrders')
  /\ UNCHANGED <<lastGroup, chefStat, waiterRequest>>

-----------------------------------------------------------------------------
waitForOrder == WaitOrderLock \/ WaitOrderSave \/ TakeOrder \/ AcknowledgeOrder

processOrder == \/ CookLock \/ CookSave \/ RestLock \/ RestSave
                \/ FoodReady \/ PostFoodReady

\* main: the chef writes its own state and the waiter's request slot.
ChefNext ==
  /\ waitForOrder \/ processOrder
  /\ UNCHANGED <<groupStat, receptionistStat, waiterStat, tableVars,
                 orderVars, receptionistRequest>>

=============================================================================
