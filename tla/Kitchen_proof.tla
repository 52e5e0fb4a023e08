---------------------------- MODULE Kitchen_proof ----------------------------
(***************************************************************************)
(* Proofs about the waiter and the chef, for any number of groups and      *)
(* tables.  The order that the waiter hands over is with exactly one of    *)
(* them, no order and no meal is lost or made up, and the waiter's ring of *)
(* NUMTABLES orders is long enough.  The two count what they have done     *)
(* right, so that no process is needed that has ended, and nothing is left *)
(* over.                                                                   *)
(***************************************************************************)
EXTENDS Reception_proof

-----------------------------------------------------------------------------
(* The stages of an order                                                   *)

FoodRequest(g) == MakeRequest("FOODREQ", g)
Meal(g)        == MakeRequest("FOODREADY", g)

\* Where the waiter looks for work; has an order in its hands, from the ring
\* to the group's acknowledgement; has an order the chef may know of; has a
\* meal in its hands.
Polling   == {"poll", "waitingForRequest", "takeRequest", "readRequest"}
Informing == {"informChef", "informingChef", "postOrder", "waitForChef",
              "informGroup"}
Informed  == {"postOrder", "waitForChef", "informGroup"}
Serving   == {"takeFoodToTable", "takingToTable", "serveFood"}

\* Where the chef has an order, from when it has taken it to when the meal is
\* in the waiter's slot.
HasOrder == {"acknowledgeOrder", "processOrder", "cooking", "cooked", "resting",
             "foodReady"}

\* Where a group has not been told that its order is taken, and where it has
\* not had its meal.
Unheard == {"postFoodRequest", "waitForWaiter"}
Unfed   == Unheard \cup {"waitFood", "waitingForFood", "foodArrives"}

-----------------------------------------------------------------------------
(* The hand-over between the waiter and the chef                            *)

MealInSlot ==
  \/ chefAt = "postFoodReady"
  \/ sem["waiterRequest"] > 0 /\ waiterRequest = Meal(foodGroup)

\* The one order of foodOrder is about to be posted, posted, with the chef, or
\* on its way back as a meal.
ordersOut ==
  Bit(waiterAt = "postOrder") + sem["waitOrder"] + Bit(chefAt \in HasOrder)
    + Bit(MealInSlot) + Bit(incoming = Meal(foodGroup)) + Bit(waiterAt \in Serving)

OneOrderOut ==
  /\ ordersOut = Bit(foodOrder)
  /\ foodOrder => foodGroup \in Groups

\* The chef answers each order once.
OrderAnswered ==
  Bit(waiterAt = "waitForChef")
    = sem["waitOrder"] + Bit(chefAt = "acknowledgeOrder") + sem["orderReceived"]

\* What the waiter knows of foodOrder, without the mutex, is up to date.
BusyIsCurrent ==
  /\ waiterAt \in Polling \cup {"informChef", "informingChef"} =>
       chefIsBusy = foodOrder
  /\ waiterAt \in {"informChef", "informingChef"} => ~foodOrder
  /\ waiterAt \in Informed \cup Serving => foodOrder

\* What the waiter and the chef have in their hands.
HandsFit ==
  /\ waiterAt \in Informing => \E g \in Groups : outgoing = FoodRequest(g)
  /\ waiterAt \in Informed => outgoing = FoodRequest(foodGroup)
  /\ waiterAt \in Serving => outgoing = Meal(foodGroup)
  /\ waiterAt \notin Informing \cup Serving => outgoing = NoRequest
  /\ waiterAt = "readRequest" => \/ \E g \in Groups : incoming = FoodRequest(g)
                                 \/ incoming = Meal(foodGroup)
  /\ waiterAt # "readRequest" => incoming = NoRequest
  /\ chefAt \in HasOrder => lastGroup = foodGroup
  /\ chefAt \notin HasOrder => lastGroup \in {NoGroup, Scrubbed}

\* What is in the waiter's slot and in its ring.
SlotFits ==
  /\ \A g \in Groups :
       groupAt[g] = "postFoodRequest" => waiterRequest = FoodRequest(g)
  /\ chefAt = "postFoodReady" => waiterRequest = Meal(foodGroup)
  /\ sem["waiterRequest"] > 0 =>
       \/ \E g \in Groups : waiterRequest = FoodRequest(g)
       \/ waiterRequest = Meal(foodGroup)

ringEntry(i) == queue[(qreadNext + i) % NUMTABLES]
RingFits ==
  \A i \in 0 .. qlength - 1 : \E g \in Groups : ringEntry(i) = FoodRequest(g)

HandoverInv ==
  /\ OneOrderOut /\ OrderAnswered /\ BusyIsCurrent
  /\ HandsFit /\ SlotFits /\ RingFits
  /\ waiterAt # "wrongRequest"

-----------------------------------------------------------------------------
(* Where the order of a group is                                            *)

Filed(g)  == \/ groupAt[g] = "postFoodRequest"
             \/ sem["waiterRequest"] > 0 /\ waiterRequest = FoodRequest(g)
Queued(g) == \E i \in 0 .. qlength - 1 : ringEntry(i) = FoodRequest(g)

\* How many times it is where the chef has not heard of it.
unsent(g) ==
  Bit(Filed(g)) + Bit(incoming = FoodRequest(g)) + Bit(Queued(g))
    + Bit(waiterAt \in {"informChef", "informingChef"}
          /\ outgoing = FoodRequest(g))

BeingServed(g) == foodOrder /\ foodGroup = g
BeingHeard(g)  == waiterAt \in Informed /\ outgoing = FoodRequest(g)

\* A group that has ordered has one order, or one meal, and one
\* acknowledgement to come.
OrderKept(g) ==
  /\ unsent(g) + Bit(BeingServed(g)) + tokensFor(g, foodArrived)
       = Bit(groupAt[g] \in Unfed)
  /\ unsent(g) + Bit(BeingHeard(g)) + tokensFor(g, requestReceived)
       = Bit(groupAt[g] \in Unheard)
OrdersKept == \A g \in Groups : OrderKept(g)

FreeTablesBare ==
  \A t \in Tables \ occupied : requestReceived[t] = 0 /\ foodArrived[t] = 0

RingDistinct ==
  \A i, j \in 0 .. qlength - 1 : ringEntry(i) = ringEntry(j) => i = j

\* The table the waiter has read is still that of the group it works for.
WaiterReads ==
  waiterAt \in {"informGroup", "serveFood"} =>
    waiterTable \in Tables /\ waiterTable = assignedTable[outgoing.reqGroup]

OrdersInv == OrdersKept /\ FreeTablesBare /\ RingDistinct /\ WaiterReads

-----------------------------------------------------------------------------
(* Facts about single operators                                             *)

LEMMA OrdersDiffer ==
  /\ \A g, h : /\ FoodRequest(g) = FoodRequest(h) => g = h
               /\ Meal(g) = Meal(h) => g = h
               /\ FoodRequest(g) # Meal(h)
               /\ FoodRequest(g) # NoRequest /\ Meal(g) # NoRequest
  /\ \A g : /\ FoodRequest(g).reqGroup = g /\ Meal(g).reqGroup = g
            /\ FoodRequest(g).reqType = "FOODREQ"
            /\ Meal(g).reqType = "FOODREADY"
<1>1. \A g : /\ FoodRequest(g).reqGroup = g /\ Meal(g).reqGroup = g
             /\ FoodRequest(g).reqType = "FOODREQ"
             /\ Meal(g).reqType = "FOODREADY"
             /\ NoRequest.reqType = "none"
  BY DEF FoodRequest, Meal, MakeRequest, NoRequest
<1> QED
  BY <1>1

\* Places of a ring that are less than its length apart are different.
LEMMA ModApart ==
  ASSUME NEW n \in Nat \ {0}, NEW a \in Nat, NEW i \in Nat, NEW k \in Nat,
         i < k, k < i + n
  PROVE  (a + i) % n # (a + k) % n
<1> DEFINE x == a + i
           d == k - i
           q == x \div n
           r == x % n
<1>1. x \in Nat /\ d \in 1 .. n - 1 /\ a + k = x + d
  OBVIOUS
<1>2. q \in Nat /\ r \in 0 .. n - 1 /\ x = n * q + r
  BY <1>1
<1> HIDE DEF x, d, q, r
<1>3. x + d \in Nat /\ q + 1 \in Nat
  BY <1>1, <1>2
<1>4. CASE r + d < n
  <2>1. x + d = n * q + (r + d) /\ r + d \in 0 .. n - 1
    BY <1>1, <1>2, <1>4
  <2>2. (x + d) % n = r + d
    BY <1>2, <1>3, <2>1, ModUnique
  <2> QED
    BY <1>1, <1>2, <2>2 DEF x, r
<1>5. CASE r + d >= n
  <2>1. x + d = n * (q + 1) + (r + d - n) /\ r + d - n \in 0 .. n - 1
    BY <1>1, <1>2, <1>5
  <2>2. (x + d) % n = r + d - n
    BY <1>2, <1>3, <2>1, ModUnique
  <2>3. r + d - n # r
    BY <1>1, <1>2
  <2> QED
    BY <1>1, <2>2, <2>3 DEF x, r
<1> QED
  BY <1>1, <1>2, <1>4, <1>5

\* The semaphores that the waiter and the chef work with.
KitchenNames == {"waiterRequest", "waitOrder", "orderReceived"}

kitchenSems == [s \in KitchenNames |-> sem[s]]
kitchenTokens == <<requestReceived, foodArrived>>

LEMMA KitchenTypes ==
  ASSUME TypeOK
  PROVE  /\ sem["waiterRequest"] \in Nat /\ sem["waitOrder"] \in Nat
         /\ sem["orderReceived"] \in Nat /\ sem["waiterRequestPossible"] \in Nat
         /\ requestReceived \in [Tables -> Nat] /\ foodArrived \in [Tables -> Nat]
         /\ assignedTable \in [Groups -> Tables \cup {NoTable}]
         /\ waiterAt \in WaiterLocations /\ chefAt \in ChefLocations
         /\ groupAt \in [Groups -> GroupLocations]
         /\ foodOrder \in BOOLEAN
         /\ SemTypeOK
BY DEF TypeOK, SharedTypeOK, SemTypeOK, SemNames, TableTypeOK, WaiterTypeOK,
   ChefTypeOK, GroupTypeOK, OrderTypeOK

\* A down or an up of another semaphore leaves them as they are.
LEMMA OtherSems ==
  ASSUME SemTypeOK, NEW s \in SemNames \ KitchenNames, semDown(s) \/ semUp(s)
  PROVE  UNCHANGED kitchenSems /\ UNCHANGED kitchenTokens
<1>1. UNCHANGED kitchenTokens
  BY DEF semDown, semUp, kitchenTokens
<1>2. \A u \in KitchenNames : sem'[u] = sem[u]
  BY DownMoves, UpMoves DEF KitchenNames, SemNames
<1> QED
  BY <1>1, <1>2 DEF kitchenSems

-----------------------------------------------------------------------------
(* What a step of a group means to the kitchen                              *)

Hungry == {"goToRestaurant", "atReception", "requestTable", "postTableRequest",
           "waitForTable", "orderFood", "foodRequest", "requestFood"}
Expecting == {"waitFood", "waitingForFood", "foodArrives"}
Fed == {"startEating", "eating", "eat", "checkOut", "checkingOut",
        "requestBill", "postBillRequest", "waitForReceipt", "leave", "leaving",
        "exit"}

\* A group files its order, announces it, hears of it, is served, or does
\* something that the kitchen does not see.
FilesOrder(g) ==
  /\ groupAt[g] = "requestFood" /\ groupAt'[g] = "postFoodRequest"
  /\ sem["waiterRequestPossible"] > 0
  /\ waiterRequest' = FoodRequest(g)
  /\ UNCHANGED kitchenSems /\ UNCHANGED kitchenTokens
AnnouncesOrder(g) ==
  /\ groupAt[g] = "postFoodRequest" /\ groupAt'[g] = "waitForWaiter"
  /\ kitchenSems' = [kitchenSems EXCEPT !["waiterRequest"] = @ + 1]
  /\ UNCHANGED waiterRequest /\ UNCHANGED kitchenTokens
HearsOfOrder(g) ==
  /\ groupAt[g] = "waitForWaiter" /\ groupAt'[g] \in Expecting
  /\ requestReceived[groupTable[g]] > 0
  /\ requestReceived' = [requestReceived EXCEPT ![groupTable[g]] = @ - 1]
  /\ UNCHANGED <<waiterRequest, foodArrived>> /\ UNCHANGED kitchenSems
GetsMeal(g) ==
  /\ groupAt[g] = "foodArrives" /\ groupAt'[g] \in Fed
  /\ foodArrived[groupTable[g]] > 0
  /\ foodArrived' = [foodArrived EXCEPT ![groupTable[g]] = @ - 1]
  /\ UNCHANGED <<waiterRequest, requestReceived>> /\ UNCHANGED kitchenSems
OutsideKitchen(g) ==
  /\ \/ groupAt[g] \in Hungry /\ groupAt'[g] \in Hungry
     \/ groupAt[g] \in Expecting /\ groupAt'[g] \in Expecting
     \/ groupAt[g] \in Fed /\ groupAt'[g] \in Fed
  /\ UNCHANGED waiterRequest /\ UNCHANGED kitchenSems /\ UNCHANGED kitchenTokens

InKitchen(g) == \/ FilesOrder(g) \/ AnnouncesOrder(g) \/ HearsOfOrder(g)
                \/ GetsMeal(g) \/ OutsideKitchen(g)

LEMMA GroupInKitchen ==
  ASSUME TypeOK, NEW g \in Groups, GroupNext(g)
  PROVE  InKitchen(g)
<1>1. groupAt \in [Groups -> GroupLocations] /\ SemTypeOK
  BY KitchenTypes
<1>2. ASSUME NEW from, NEW to, goesTo(g, from, to)
      PROVE  groupAt[g] = from /\ groupAt'[g] = to
  BY <1>1, <1>2 DEF goesTo
<1> DEFINE SameCourse(from, to) == \/ from \in Hungry /\ to \in Hungry
                                   \/ from \in Expecting /\ to \in Expecting
                                   \/ from \in Fed /\ to \in Fed
           Others == {"mutex", "receptionistReq", "receptionistRequestPossible",
                      "waiterRequestPossible"}
<1>3. ASSUME NEW s \in Others, semDown(s) \/ semUp(s)
      PROVE  UNCHANGED kitchenSems /\ UNCHANGED kitchenTokens
  BY <1>1, <1>3, OtherSems DEF SemNames, KitchenNames
<1>4. ASSUME NEW from, NEW to, SameCourse(from, to), goesTo(g, from, to),
             UNCHANGED waiterRequest,
             \/ UNCHANGED sem /\ UNCHANGED kitchenTokens
             \/ \E s \in Others : semDown(s) \/ semUp(s)
      PROVE  OutsideKitchen(g)
  <2>1. UNCHANGED kitchenSems /\ UNCHANGED kitchenTokens
    BY <1>3, <1>4 DEF kitchenSems
  <2> QED
    BY <1>2, <1>4, <2>1 DEF OutsideKitchen
<1>5. ASSUME NEW from, NEW to, SameCourse(from, to),
             \/ lockState(g, from, to)
             \/ \E state : saveGroupState(g, from, state, to)
             \/ \E type : fillReceptionistRequest(g, from, type, to)
             \/ postReceptionistRequest(g, from, to)
      PROVE  OutsideKitchen(g)
  <2>1. goesTo(g, from, to) /\ UNCHANGED waiterRequest
    BY <1>5 DEF lockState, saveGroupState, fillReceptionistRequest,
       postReceptionistRequest, requestVars
  <2>2. \E s \in Others : semDown(s) \/ semUp(s)
    BY <1>5 DEF lockState, saveGroupState, fillReceptionistRequest,
       postReceptionistRequest
  <2> QED
    BY <1>4, <1>5, <2>1, <2>2
<1>6. checkInAtReception(g) => OutsideKitchen(g)
  <2>1. CheckInSit(g) => OutsideKitchen(g)
    BY <1>4 DEF CheckInSit, Hungry, kitchenTokens, requestVars
  <2>2. CheckInLock(g) \/ CheckInSave(g) => OutsideKitchen(g)
    BY <1>5 DEF CheckInLock, CheckInSave, Hungry
  <2>3. CheckInRequest(g) \/ CheckInPost(g) => OutsideKitchen(g)
    BY <1>5 DEF CheckInRequest, CheckInPost, Hungry
  <2> QED
    BY <2>1, <2>2, <2>3 DEF checkInAtReception
<1>7. orderFood(g) => InKitchen(g)
  <2>1. OrderLock(g) \/ OrderSave(g) => OutsideKitchen(g)
    BY <1>5 DEF OrderLock, OrderSave, Hungry
  <2>2. OrderRequest(g) => FilesOrder(g)
    BY <1>2, <1>3 DEF OrderRequest, FilesOrder, FoodRequest, semDown
  <2>3. OrderPost(g) => AnnouncesOrder(g)
    <3>1. OrderPost(g) =>
            kitchenSems' = [kitchenSems EXCEPT !["waiterRequest"] = @ + 1]
      BY <1>1, UpMoves DEF OrderPost, kitchenSems, KitchenNames, SemNames
    <3> QED
      BY <1>2, <3>1 DEF OrderPost, AnnouncesOrder, semUp, kitchenTokens,
         requestVars
  <2>4. OrderTaken(g) => HearsOfOrder(g)
    BY <1>2 DEF OrderTaken, HearsOfOrder, Expecting, kitchenSems, requestVars
  <2> QED
    BY <2>1, <2>2, <2>3, <2>4 DEF orderFood, InKitchen
<1>8. waitFood(g) => InKitchen(g)
  <2>1. WaitFoodLock(g) \/ WaitFoodSave(g) \/ EatLock(g) \/ EatSave(g)
          => OutsideKitchen(g)
    BY <1>5 DEF WaitFoodLock, WaitFoodSave, EatLock, EatSave, Expecting, Fed
  <2>2. FoodServed(g) => GetsMeal(g)
    BY <1>2 DEF FoodServed, GetsMeal, Fed, kitchenSems, requestVars
  <2> QED
    BY <2>1, <2>2 DEF waitFood, InKitchen
<1>9. checkOutAtReception(g) => OutsideKitchen(g)
  <2>1. CheckOutLock(g) \/ CheckOutSave(g) \/ LeaveLock(g) \/ LeaveSave(g)
          => OutsideKitchen(g)
    BY <1>5 DEF CheckOutLock, CheckOutSave, LeaveLock, LeaveSave, Fed
  <2>2. CheckOutRequest(g) \/ CheckOutPost(g) => OutsideKitchen(g)
    BY <1>5 DEF CheckOutRequest, CheckOutPost, Fed
  <2>3. FinishMeal(g) \/ CheckOutDone(g) => OutsideKitchen(g)
    BY <1>4 DEF FinishMeal, CheckOutDone, Fed, kitchenTokens, requestVars, semVars
  <2> QED
    BY <2>1, <2>2, <2>3 DEF checkOutAtReception
<1> QED
  BY <1>6, <1>7, <1>8, <1>9 DEF GroupNext, InKitchen

-----------------------------------------------------------------------------
(* The hand-over: steps of the groups and of the receptionist               *)

LEMMA HandoverInit == Init => HandoverInv
<1> SUFFICES ASSUME Init PROVE HandoverInv
  OBVIOUS
<1>1. /\ waiterAt \in {"poll", "exit"} /\ chefAt \in {"waitForOrder", "exit"}
      /\ sem["waiterRequest"] = 0 /\ sem["waitOrder"] = 0
      /\ sem["orderReceived"] = 0
      /\ foodOrder = FALSE /\ chefIsBusy = FALSE
      /\ incoming = NoRequest /\ outgoing = NoRequest /\ lastGroup = NoGroup
      /\ qlength = 0
      /\ \A g \in Groups : groupAt[g] = "goToRestaurant"
  BY DEF Init, WaiterInit, ChefInit, chefLoop, SharedInit, RegionInit,
     enabledSems, SemNames, GroupInit
<1>2. ~MealInSlot /\ incoming # Meal(foodGroup)
  BY <1>1, OrdersDiffer DEF MealInSlot
<1>3. OneOrderOut /\ OrderAnswered
  BY <1>1, <1>2 DEF OneOrderOut, OrderAnswered, ordersOut, Bit, HasOrder, Serving
<1>4. BusyIsCurrent
  BY <1>1 DEF BusyIsCurrent, Informed, Serving
<1>5. HandsFit
  BY <1>1 DEF HandsFit, Informing, Informed, Serving, HasOrder
<1>6. SlotFits /\ RingFits
  BY <1>1 DEF SlotFits, RingFits
<1> QED
  BY <1>1, <1>3, <1>4, <1>5, <1>6 DEF HandoverInv

\* A step that leaves the waiter, the chef and what they use as they are.
handoverView == <<waiterVars, chefVars, orderVars, waiterRequest, kitchenSems>>

LEMMA KitchenSemsSame ==
  ASSUME UNCHANGED kitchenSems
  PROVE  /\ sem'["waiterRequest"] = sem["waiterRequest"]
         /\ sem'["waitOrder"] = sem["waitOrder"]
         /\ sem'["orderReceived"] = sem["orderReceived"]
<1>1. \A s \in KitchenNames : kitchenSems[s] = sem[s] /\ kitchenSems'[s] = sem'[s]
  BY DEF kitchenSems
<1> QED
  BY <1>1 DEF KitchenNames

LEMMA HandoverUndisturbed ==
  ASSUME HandoverInv, UNCHANGED handoverView,
         \A g \in Groups : groupAt'[g] = "postFoodRequest" =>
                             groupAt[g] = "postFoodRequest"
  PROVE  HandoverInv'
<1>1. /\ sem'["waiterRequest"] = sem["waiterRequest"]
      /\ sem'["waitOrder"] = sem["waitOrder"]
      /\ sem'["orderReceived"] = sem["orderReceived"]
      /\ UNCHANGED <<waiterAt, chefIsBusy, incoming, outgoing, queue, qlength,
                     qreadNext, chefAt, lastGroup, foodOrder, foodGroup,
                     waiterRequest>>
  BY KitchenSemsSame DEF handoverView, waiterVars, queueVars, chefVars, orderVars
<1>2. OneOrderOut' /\ OrderAnswered'
  BY <1>1 DEF HandoverInv, OneOrderOut, OrderAnswered, ordersOut, MealInSlot,
     Bit, Meal
<1>3. BusyIsCurrent' /\ HandsFit' /\ SlotFits' /\ RingFits'
  BY <1>1 DEF HandoverInv, BusyIsCurrent, HandsFit, SlotFits, RingFits, Meal,
     FoodRequest, ringEntry
<1> QED
  BY <1>1, <1>2, <1>3 DEF HandoverInv

\* A group fills the slot only when no meal and no other order is in it.
LEMMA GroupKeepsHandover ==
  ASSUME TypeOK, TypeOK', RequestSlotsExclusive, HandoverInv,
         NEW g \in Groups, GroupStep(g)
  PROVE  HandoverInv'
<1>1. /\ InKitchen(g)
      /\ UNCHANGED <<waiterVars, chefVars, orderVars>>
      /\ \A h \in Groups \ {g} : groupAt'[h] = groupAt[h]
  BY GroupInKitchen, GroupMovesAlone DEF GroupStep, GroupNext, TypeOK
<1>2. waiterToken = 1
  BY DEF RequestSlotsExclusive, waiterToken
<1>3. /\ PostingToWaiter = {h \in Groups : groupAt[h] = "postFoodRequest"}
      /\ sem["waiterRequest"] \in Nat /\ sem["waiterRequestPossible"] \in Nat
  BY KitchenTypes DEF PostingToWaiter, at
<1>4. CASE HearsOfOrder(g) \/ GetsMeal(g) \/ OutsideKitchen(g)
  <2>1. UNCHANGED handoverView
    BY <1>1, <1>4 DEF HearsOfOrder, GetsMeal, OutsideKitchen, handoverView
  <2>2. groupAt'[g] # "postFoodRequest"
    BY <1>4 DEF HearsOfOrder, GetsMeal, OutsideKitchen, Hungry, Expecting, Fed
  <2> QED
    BY <1>1, <2>1, <2>2, HandoverUndisturbed
<1> DEFINE Rest == /\ sem'["waitOrder"] = sem["waitOrder"]
                   /\ sem'["orderReceived"] = sem["orderReceived"]
                   /\ UNCHANGED <<waiterAt, chefIsBusy, incoming, outgoing,
                                  queue, qlength, qreadNext, chefAt, lastGroup,
                                  foodOrder, foodGroup>>
<1>5. ASSUME Rest, MealInSlot' <=> MealInSlot, SlotFits'
      PROVE  HandoverInv'
  <2>1. OneOrderOut' /\ OrderAnswered'
    BY <1>5 DEF HandoverInv, OneOrderOut, OrderAnswered, ordersOut, Bit, Meal
  <2>2. BusyIsCurrent' /\ HandsFit' /\ RingFits'
    BY <1>5 DEF HandoverInv, BusyIsCurrent, HandsFit, RingFits, Meal,
       FoodRequest, ringEntry
  <2> QED
    BY <1>5, <2>1, <2>2 DEF HandoverInv
<1>6. CASE FilesOrder(g)
  <2>1. Rest /\ sem'["waiterRequest"] = sem["waiterRequest"]
    BY <1>1, <1>6, KitchenSemsSame DEF FilesOrder, waiterVars, queueVars,
       chefVars, orderVars
  <2>2. /\ sem["waiterRequest"] = 0 /\ chefAt # "postFoodReady"
        /\ \A h \in Groups : groupAt[h] # "postFoodRequest"
    BY <1>2, <1>3, <1>6, WaiterSlotHolder DEF FilesOrder
  <2>3. waiterRequest' = FoodRequest(g)
    BY <1>6 DEF FilesOrder
  <2>4. MealInSlot' <=> MealInSlot
    BY <2>1, <2>2 DEF MealInSlot
  <2>5. SlotFits'
    BY <1>1, <2>1, <2>2, <2>3 DEF SlotFits, FoodRequest
  <2> QED
    BY <1>5, <2>1, <2>4, <2>5
<1>7. CASE AnnouncesOrder(g)
  <2>1. /\ Rest /\ waiterRequest' = waiterRequest
        /\ sem'["waiterRequest"] = sem["waiterRequest"] + 1
    <3>1. \A s \in KitchenNames : kitchenSems[s] = sem[s] /\ kitchenSems'[s] = sem'[s]
      BY DEF kitchenSems
    <3>2. kitchenSems' = [kitchenSems EXCEPT !["waiterRequest"] = @ + 1]
      BY <1>7 DEF AnnouncesOrder
    <3>3. kitchenSems'["waitOrder"] = kitchenSems["waitOrder"]
      BY <3>2 DEF kitchenSems, KitchenNames
    <3>4. kitchenSems'["orderReceived"] = kitchenSems["orderReceived"]
      BY <3>2 DEF kitchenSems, KitchenNames
    <3>5. kitchenSems'["waiterRequest"] = kitchenSems["waiterRequest"] + 1
      BY <3>2 DEF kitchenSems, KitchenNames
    <3> QED
      BY <1>1, <1>7, <3>1, <3>3, <3>4, <3>5 DEF AnnouncesOrder, KitchenNames,
         waiterVars, queueVars, chefVars, orderVars
  <2>2. /\ waiterRequest = FoodRequest(g)
        /\ chefAt # "postFoodReady" /\ sem["waiterRequest"] = 0
    BY <1>2, <1>3, <1>7, WaiterSlotHolder DEF AnnouncesOrder, HandoverInv, SlotFits
  <2>3. MealInSlot' <=> MealInSlot
    BY <1>3, <2>1, <2>2, OrdersDiffer DEF MealInSlot
  <2>4. SlotFits'
    BY <1>1, <1>7, <2>1, <2>2 DEF HandoverInv, SlotFits, FoodRequest, Meal,
       AnnouncesOrder
  <2> QED
    BY <1>5, <2>1, <2>3, <2>4
<1> QED
  BY <1>1, <1>4, <1>6, <1>7 DEF InKitchen

LEMMA ReceptionistOutsideKitchen ==
  ASSUME TypeOK, ReceptionistStep
  PROVE  /\ UNCHANGED handoverView
         /\ UNCHANGED <<requestReceived, foodArrived>>
         /\ UNCHANGED groupAt
<1>1. ReceptionistOnSlots
  BY ReceptionistUsesSlot DEF ReceptionistStep
<1>2. UNCHANGED kitchenSems
  BY <1>1, OtherSems, KitchenTypes DEF ReceptionistOnSlots, SemNames,
     KitchenNames, kitchenSems
<1>3. UNCHANGED <<requestReceived, foodArrived>>
  BY DEF ReceptionistStep, ReceptionistNext, waitForGroup, WaitGroupLock,
     WaitGroupSave, TakeGroupRequest, ReadGroupRequest,
     provideTableOrWaitingRoom, ProvideLock, ProvideSave, SeatGroup,
     PutInWaitingRoom, receivePayment, PaymentLock, PaymentSave, FreeTable,
     CallNextGroup, NobodyWaits, lockReceptionistState,
     saveReceptionistState, semDown, semUp, semVars
<1> QED
  BY <1>1, <1>2, <1>3 DEF ReceptionistStep, ReceptionistNext, handoverView,
     requestVars, groupVars

-----------------------------------------------------------------------------
(* The hand-over: steps of the waiter                                       *)

\* The waiter enters or leaves the mutex, which changes neither what it has in
\* its hands nor its order to the chef.
WaiterSavesState ==
  /\ UNCHANGED <<orderVars, kitchenTokens, kitchenSems, waiterReqs, queueVars,
                 chefIsBusy, incoming, outgoing>>
  /\ \/ /\ waiterAt \in {"poll", "waitingForRequest"}
        /\ waiterAt' \in {"waitingForRequest", "takeRequest"}
     \/ waiterAt = "informChef" /\ waiterAt' = "informingChef"
     \/ /\ waiterAt \in {"takeFoodToTable", "takingToTable"}
        /\ waiterAt' \in {"takingToTable", "serveFood"}
        /\ waiterAt' = "serveFood" =>
             waiterTable' = assignedTable[outgoing.reqGroup]

LEMMA WaiterSteps ==
  ASSUME TypeOK, WaiterStep
  PROVE  \/ WaiterSavesState
         \/ TakeQueued \/ TakeRequest \/ ReadRequest
         \/ InformSave \/ PostOrder \/ WaitForChef \/ InformGroup \/ ServeFood
<1>1. semDown("mutex") \/ semUp("mutex") =>
        UNCHANGED kitchenSems /\ UNCHANGED kitchenTokens
  BY OtherSems, KitchenTypes DEF SemNames, KitchenNames
<1>2. IdleLock \/ IdleSave => WaiterSavesState
  BY <1>1 DEF IdleLock, IdleSave, waiterGoesTo, waiterSame, WaiterSavesState
<1>3. InformLock => WaiterSavesState
  BY <1>1 DEF InformLock, waiterGoesTo, waiterSame, WaiterSavesState
<1>4. TakeFoodLock \/ TakeFoodSave => WaiterSavesState
  BY <1>1 DEF TakeFoodLock, TakeFoodSave, waiterGoesTo, waiterSame,
     WaiterSavesState
<1> QED
  BY <1>2, <1>3, <1>4 DEF WaiterStep, WaiterNext, waitForClientOrChef,
     informChef, takeFoodToTable

\* What a step of the waiter leaves to the others.
waiterLeaves == <<groupAt, groupTable, chefAt, lastGroup, nOrders, waiterRequest,
                  assignedTable, occupied>>

LEMMA WaiterLeaves ==
  ASSUME WaiterStep PROVE UNCHANGED waiterLeaves
BY DEF WaiterStep, WaiterNext, waiterLeaves, groupVars, chefVars,
   receptionistVars, recordVars, requestVars, tableVars

\* The waiter takes its first order out of the ring only when no order is out.
LEMMA TakeQueuedKeepsHandover ==
  ASSUME TypeInv, HandoverInv, TakeQueued, UNCHANGED waiterLeaves
  PROVE  HandoverInv'
<1>1. /\ qlength > 0 /\ ~chefIsBusy /\ waiterAt = "poll"
      /\ waiterAt' = "informChef" /\ outgoing' = queue[qreadNext]
      /\ qreadNext' = (qreadNext + 1) % NUMTABLES /\ qlength' = qlength - 1
      /\ UNCHANGED <<queue, chefIsBusy, incoming, foodOrder, foodGroup, sem,
                     waiterRequest, chefAt, lastGroup, groupAt>>
  BY DEF TakeQueued, mayServeQueue, waiterGoesTo, orderVars, semVars,
     waiterLeaves
<1>2. /\ qreadNext \in 0 .. NUMTABLES - 1 /\ qreadNext + 1 \in Nat
      /\ qlength \in Nat /\ NUMTABLES \in Nat \ {0}
  BY ConstantTypes DEF TypeInv, TypeOK, WaiterTypeOK, Tables
<1>3. \E g \in Groups : outgoing' = FoodRequest(g)
  <2>1. (qreadNext + 0) % NUMTABLES = qreadNext
    BY <1>2, ModUnique
  <2>2. 0 \in 0 .. qlength - 1
    BY <1>1, <1>2
  <2> QED
    BY <1>1, <2>1, <2>2 DEF HandoverInv, RingFits, ringEntry
<1>4. RingFits'
  <2> SUFFICES ASSUME NEW i \in 0 .. qlength' - 1
               PROVE  \E g \in Groups :
                        queue'[(qreadNext' + i) % NUMTABLES] = FoodRequest(g)
    BY DEF RingFits, ringEntry, FoodRequest
  <2>1. i + 1 \in 0 .. qlength - 1 /\ i \in Nat
    BY <1>1, <1>2
  <2>2. (qreadNext' + i) % NUMTABLES = (qreadNext + (i + 1)) % NUMTABLES
    <3>1. (((qreadNext + 1) % NUMTABLES) + i) % NUMTABLES
            = (qreadNext + 1 + i) % NUMTABLES
      BY <1>2, <2>1, ModPlus
    <3>2. qreadNext + 1 + i = qreadNext + (i + 1)
      BY <1>2, <2>1
    <3> QED
      BY <1>1, <3>1, <3>2
  <2> QED
    BY <1>1, <2>1, <2>2 DEF HandoverInv, RingFits, ringEntry
<1>5. ~foodOrder
  BY <1>1 DEF HandoverInv, BusyIsCurrent, Polling
<1>6. OneOrderOut' /\ OrderAnswered'
  BY <1>1 DEF HandoverInv, OneOrderOut, OrderAnswered, ordersOut, MealInSlot,
     Bit, Meal, Serving
<1>7. BusyIsCurrent'
  BY <1>1, <1>5 DEF HandoverInv, BusyIsCurrent, Polling, Informed, Serving
<1>8. HandsFit'
  BY <1>1, <1>3 DEF HandoverInv, HandsFit, Informing, Informed, Serving, Meal,
     FoodRequest
<1>9. SlotFits'
  BY <1>1 DEF HandoverInv, SlotFits, Meal, FoodRequest
<1> QED
  BY <1>1, <1>4, <1>6, <1>7, <1>8, <1>9 DEF HandoverInv

LEMMA SavingKeepsHandover ==
  ASSUME HandoverInv, WaiterSavesState, UNCHANGED waiterLeaves
  PROVE  HandoverInv'
<1>1. /\ sem'["waiterRequest"] = sem["waiterRequest"]
      /\ sem'["waitOrder"] = sem["waitOrder"]
      /\ sem'["orderReceived"] = sem["orderReceived"]
      /\ UNCHANGED <<chefIsBusy, incoming, outgoing, queue, qlength,
                     qreadNext, chefAt, lastGroup, foodOrder, foodGroup,
                     waiterRequest, groupAt>>
  BY KitchenSemsSame DEF WaiterSavesState, waiterLeaves, queueVars, orderVars
<1>2. /\ \A l \in {"postOrder", "waitForChef", "readRequest", "informGroup",
                   "wrongRequest"} :
           (waiterAt' = l) <=> (waiterAt = l)
      /\ waiterAt' \in {"informChef", "informingChef"} <=>
           waiterAt \in {"informChef", "informingChef"}
      /\ waiterAt' \in Polling <=> waiterAt \in Polling
      /\ waiterAt' \in Informing <=> waiterAt \in Informing
      /\ waiterAt' \in Informed <=> waiterAt \in Informed
      /\ waiterAt' \in Serving <=> waiterAt \in Serving
  BY DEF WaiterSavesState, Polling, Informing, Informed, Serving
<1>3. OneOrderOut' /\ OrderAnswered'
  BY <1>1, <1>2 DEF HandoverInv, OneOrderOut, OrderAnswered, ordersOut,
     MealInSlot, Bit, Meal
<1>4. BusyIsCurrent' /\ HandsFit'
  BY <1>1, <1>2 DEF HandoverInv, BusyIsCurrent, HandsFit, Meal, FoodRequest
<1>5. SlotFits' /\ RingFits'
  BY <1>1 DEF HandoverInv, SlotFits, RingFits, Meal, FoodRequest, ringEntry
<1> QED
  BY <1>2, <1>3, <1>4, <1>5 DEF HandoverInv

\* A request that the waiter takes out of its slot is an order, or the meal of
\* the order that is out.
LEMMA TakingKeepsHandover ==
  ASSUME TypeOK, RequestSlotsExclusive, HandoverInv, TakeRequest,
         UNCHANGED waiterLeaves
  PROVE  HandoverInv'
<1>1. /\ waiterAt \in {"poll", "takeRequest"} /\ waiterAt' = "readRequest"
      /\ sem["waiterRequest"] > 0
      /\ sem'["waiterRequest"] = sem["waiterRequest"] - 1
      /\ sem'["waitOrder"] = sem["waitOrder"]
      /\ sem'["orderReceived"] = sem["orderReceived"]
      /\ incoming' = waiterRequest
      /\ UNCHANGED <<chefIsBusy, outgoing, queue, qlength,
                     qreadNext, chefAt, lastGroup, foodOrder, foodGroup,
                     waiterRequest, groupAt>>
  BY KitchenTypes, DownMoves DEF TakeRequest, waiterLeaves, queueVars, orderVars,
     SemNames
<1>2. waiterToken = 1 /\ sem["waiterRequest"] \in Nat
  BY KitchenTypes DEF RequestSlotsExclusive, waiterToken
<1>3. /\ sem["waiterRequest"] = 1 /\ chefAt # "postFoodReady"
      /\ sem'["waiterRequest"] = 0
  BY <1>1, <1>2, WaiterSlotHolder
<1>4. incoming = NoRequest /\ outgoing = NoRequest
  BY <1>1 DEF HandoverInv, HandsFit, Informing, Serving
<1>5. /\ ~MealInSlot' /\ incoming # Meal(foodGroup)
      /\ MealInSlot <=> incoming' = Meal(foodGroup)
  BY <1>1, <1>3, <1>4, OrdersDiffer DEF MealInSlot
<1>6. OneOrderOut' /\ OrderAnswered'
  <2>1. ordersOut = sem["waitOrder"] + Bit(chefAt \in HasOrder) + Bit(MealInSlot)
    BY <1>1, <1>5, KitchenTypes DEF ordersOut, Bit, Serving
  <2>2. ordersOut' = sem["waitOrder"] + Bit(chefAt \in HasOrder)
                       + Bit(incoming' = Meal(foodGroup))
    BY <1>1, <1>5, KitchenTypes DEF ordersOut, Bit, Serving, Meal
  <2>3. ordersOut' = ordersOut
    BY <1>5, <2>1, <2>2 DEF Bit
  <2> QED
    BY <1>1, <2>3 DEF HandoverInv, OneOrderOut, OrderAnswered, Bit
<1>7. BusyIsCurrent'
  BY <1>1 DEF HandoverInv, BusyIsCurrent, Polling, Informed, Serving
<1>8. HandsFit'
  BY <1>1, <1>4 DEF HandoverInv, HandsFit, SlotFits, Informing, Informed,
     Serving, Meal, FoodRequest
<1>9. SlotFits' /\ RingFits'
  BY <1>1, <1>3 DEF HandoverInv, SlotFits, RingFits, Meal, FoodRequest, ringEntry
<1> QED
  BY <1>1, <1>6, <1>7, <1>8, <1>9 DEF HandoverInv

\* The order that is out is in one place, and there is none when the waiter
\* says so.
LEMMA OrderOut ==
  ASSUME TypeOK, HandoverInv
  PROVE  /\ waiterAt = "postOrder" =>
              /\ foodOrder /\ sem["waitOrder"] = 0 /\ chefAt \notin HasOrder
              /\ ~MealInSlot /\ incoming # Meal(foodGroup)
         /\ sem["waitOrder"] > 0 =>
              /\ foodOrder /\ sem["waitOrder"] = 1 /\ chefAt \notin HasOrder
              /\ ~MealInSlot /\ incoming # Meal(foodGroup)
              /\ waiterAt # "postOrder" /\ waiterAt \notin Serving
         /\ chefAt \in HasOrder =>
              /\ foodOrder /\ sem["waitOrder"] = 0
              /\ ~MealInSlot /\ incoming # Meal(foodGroup)
              /\ waiterAt # "postOrder" /\ waiterAt \notin Serving
         /\ MealInSlot =>
              /\ foodOrder /\ sem["waitOrder"] = 0 /\ chefAt \notin HasOrder
              /\ incoming # Meal(foodGroup)
              /\ waiterAt # "postOrder" /\ waiterAt \notin Serving
         /\ incoming = Meal(foodGroup) =>
              /\ foodOrder /\ sem["waitOrder"] = 0 /\ chefAt \notin HasOrder
              /\ ~MealInSlot
              /\ waiterAt # "postOrder" /\ waiterAt \notin Serving
         /\ waiterAt \in Serving =>
              /\ foodOrder /\ sem["waitOrder"] = 0 /\ chefAt \notin HasOrder
              /\ ~MealInSlot /\ incoming # Meal(foodGroup)
              /\ waiterAt # "postOrder"
         /\ foodOrder =>
              \/ waiterAt = "postOrder" \/ sem["waitOrder"] > 0
              \/ chefAt \in HasOrder \/ MealInSlot
              \/ incoming = Meal(foodGroup) \/ waiterAt \in Serving
<1> DEFINE a == waiterAt = "postOrder"
           n == sem["waitOrder"]
           b == chefAt \in HasOrder
           c == MealInSlot
           d == incoming = Meal(foodGroup)
           e == waiterAt \in Serving
           f == foodOrder
<1>1. Bit(a) + n + Bit(b) + Bit(c) + Bit(d) + Bit(e) = Bit(f)
  BY DEF HandoverInv, OneOrderOut, ordersOut
<1>2. n \in Nat
  BY KitchenTypes
<1> HIDE DEF a, n, b, c, d, e, f
<1>3. /\ a => f /\ n = 0 /\ ~b /\ ~c /\ ~d /\ ~e
      /\ n > 0 => f /\ n = 1 /\ ~a /\ ~b /\ ~c /\ ~d /\ ~e
      /\ b => f /\ n = 0 /\ ~a /\ ~c /\ ~d /\ ~e
      /\ c => f /\ n = 0 /\ ~a /\ ~b /\ ~d /\ ~e
      /\ d => f /\ n = 0 /\ ~a /\ ~b /\ ~c /\ ~e
      /\ e => f /\ n = 0 /\ ~a /\ ~b /\ ~c /\ ~d
      /\ f => a \/ n > 0 \/ b \/ c \/ d \/ e
  BY <1>1, <1>2 DEF Bit
<1> QED
  BY <1>3 DEF a, n, b, c, d, e, f

\* The chef has answered, is answering, or has still to see the order.
LEMMA AnswerOut ==
  ASSUME TypeOK, HandoverInv
  PROVE  /\ waiterAt # "waitForChef" =>
              /\ sem["waitOrder"] = 0 /\ chefAt # "acknowledgeOrder"
              /\ sem["orderReceived"] = 0
         /\ sem["waitOrder"] > 0 \/ chefAt = "acknowledgeOrder"
              \/ sem["orderReceived"] > 0 => waiterAt = "waitForChef"
         /\ sem["orderReceived"] > 0 =>
              /\ sem["orderReceived"] = 1 /\ sem["waitOrder"] = 0
              /\ chefAt # "acknowledgeOrder"
         /\ chefAt = "acknowledgeOrder" =>
              sem["waitOrder"] = 0 /\ sem["orderReceived"] = 0
<1> DEFINE n == sem["waitOrder"]
           m == sem["orderReceived"]
           a == waiterAt = "waitForChef"
           b == chefAt = "acknowledgeOrder"
<1>1. Bit(a) = n + Bit(b) + m /\ n \in Nat /\ m \in Nat
  BY KitchenTypes DEF HandoverInv, OrderAnswered
<1> HIDE DEF n, m, a, b
<1>2. /\ ~a => n = 0 /\ ~b /\ m = 0
      /\ n > 0 \/ b \/ m > 0 => a
      /\ m > 0 => m = 1 /\ n = 0 /\ ~b
      /\ b => n = 0 /\ m = 0
  BY <1>1 DEF Bit
<1> QED
  BY <1>2 DEF n, m, a, b

\* An order goes into the ring, a meal into the waiter's hands; nothing else
\* ever comes.
LEMMA ReadingKeepsHandover ==
  ASSUME TypeInv, HandoverInv, ReadRequest, UNCHANGED waiterLeaves
  PROVE  HandoverInv'
<1>1. /\ waiterAt = "readRequest" /\ incoming' = NoRequest
      /\ sem'["waiterRequest"] = sem["waiterRequest"]
      /\ sem'["waitOrder"] = sem["waitOrder"]
      /\ sem'["orderReceived"] = sem["orderReceived"]
      /\ UNCHANGED <<chefIsBusy, chefAt, lastGroup, foodOrder, foodGroup,
                     waiterRequest, groupAt>>
  BY KitchenTypes, UpMoves DEF ReadRequest, waiterLeaves, orderVars, SemNames,
     TypeInv
<1>2. /\ outgoing = NoRequest /\ incoming' # Meal(foodGroup)
      /\ MealInSlot' <=> MealInSlot
  BY <1>1, OrdersDiffer DEF HandoverInv, HandsFit, Informing, Serving,
     MealInSlot, Meal
<1>3. SlotFits'
  BY <1>1 DEF HandoverInv, SlotFits, Meal, FoodRequest
<1>4. CASE \E g \in Groups : incoming = FoodRequest(g)
  <2>1. incoming.reqType = "FOODREQ" /\ incoming # Meal(foodGroup)
    BY <1>4, OrdersDiffer
  <2>2. enqueueIncoming
    BY <2>1 DEF ReadRequest
  <2>3. /\ waiterAt' = "poll" /\ UNCHANGED outgoing
        /\ queue' = [queue EXCEPT ![qwriteNext] = incoming]
        /\ qlength' = qlength + 1 /\ qreadNext' = qreadNext
    BY <2>2 DEF enqueueIncoming
  <2>4. OneOrderOut' /\ OrderAnswered'
    BY <1>1, <1>2, <2>1, <2>3 DEF HandoverInv, OneOrderOut, OrderAnswered,
       ordersOut, Bit, Meal, Serving
  <2>5. BusyIsCurrent'
    BY <1>1, <2>3 DEF HandoverInv, BusyIsCurrent, Polling, Informed, Serving
  <2>6. HandsFit'
    BY <1>1, <1>2, <2>3 DEF HandoverInv, HandsFit, Informing, Informed, Serving
  <2>7. RingFits'
    <3>1. qwriteNext = (qreadNext + qlength) % NUMTABLES /\ qwriteNext \in Tables
          /\ qlength \in Nat /\ queue \in [Tables -> Request \cup {NoRequest}]
          /\ qreadNext \in 0 .. NUMTABLES - 1 /\ NUMTABLES \in Nat \ {0}
      BY ConstantTypes DEF TypeInv, RingHolds, TypeOK, WaiterTypeOK, Tables
    <3> SUFFICES ASSUME NEW i \in 0 .. qlength' - 1
                 PROVE  \E g \in Groups :
                          queue'[(qreadNext' + i) % NUMTABLES] = FoodRequest(g)
      BY DEF RingFits, ringEntry, FoodRequest
    <3> DEFINE p == (qreadNext + i) % NUMTABLES
    <3>2. p \in Tables
      <4>1. qreadNext + i \in Nat
        BY <2>3, <3>1
      <4> QED
        BY <3>1, <4>1 DEF Tables
    <3>3. p = qwriteNext \/ i \in 0 .. qlength - 1
      BY <2>3, <3>1
    <3> HIDE DEF p
    <3>4. CASE p = qwriteNext
      BY <1>4, <2>3, <3>1, <3>4 DEF p
    <3>5. CASE p # qwriteNext
      <4>1. queue'[p] = queue[p]
        BY <2>3, <3>1, <3>2, <3>5
      <4>2. \E g \in Groups : queue[p] = FoodRequest(g)
        BY <3>3, <3>5 DEF HandoverInv, RingFits, ringEntry, p
      <4> QED
        BY <2>3, <4>1, <4>2 DEF p
    <3> QED
      BY <3>4, <3>5
  <2> QED
    BY <1>3, <2>3, <2>4, <2>5, <2>6, <2>7 DEF HandoverInv
<1>5. CASE incoming = Meal(foodGroup)
  <2>1. incoming.reqType = "FOODREADY"
    BY <1>5, OrdersDiffer
  <2>2. /\ waiterAt' = "takeFoodToTable" /\ outgoing' = incoming
        /\ UNCHANGED <<queue, qlength, qreadNext>>
    BY <2>1 DEF ReadRequest, queueVars
  <2>3. /\ foodOrder /\ sem["waitOrder"] = 0 /\ chefAt \notin HasOrder
        /\ ~MealInSlot
    BY <1>5, OrderOut DEF TypeInv
  <2>4. OneOrderOut' /\ OrderAnswered'
    <3>1. ordersOut' = 1
      BY <1>1, <1>2, <2>2, <2>3 DEF ordersOut, Bit, Meal, Serving
    <3>2. foodOrder' /\ foodGroup' = foodGroup /\ foodGroup \in Groups
      BY <1>1, <2>3 DEF HandoverInv, OneOrderOut
    <3>3. OrderAnswered'
      BY <1>1, <2>2 DEF HandoverInv, OrderAnswered, Bit
    <3> QED
      BY <3>1, <3>2, <3>3 DEF OneOrderOut, Bit
  <2>5. BusyIsCurrent'
    BY <1>1, <2>2, <2>3 DEF BusyIsCurrent, Polling, Informed, Serving
  <2>6. HandsFit'
    BY <1>1, <1>5, <2>2 DEF HandoverInv, HandsFit, Informing, Informed, Serving,
       Meal
  <2>7. RingFits'
    BY <2>2 DEF HandoverInv, RingFits, ringEntry, FoodRequest
  <2> QED
    BY <1>3, <2>2, <2>4, <2>5, <2>6, <2>7 DEF HandoverInv
<1> QED
  BY <1>1, <1>4, <1>5 DEF HandoverInv, HandsFit

\* A new order goes out when none is.
LEMMA InformingKeepsHandover ==
  ASSUME TypeOK, HandoverInv, InformSave, UNCHANGED waiterLeaves
  PROVE  HandoverInv'
<1>1. /\ waiterAt = "informingChef" /\ waiterAt' = "postOrder"
      /\ foodGroup' = outgoing.reqGroup /\ foodOrder' = TRUE
      /\ sem'["waiterRequest"] = sem["waiterRequest"]
      /\ sem'["waitOrder"] = sem["waitOrder"]
      /\ sem'["orderReceived"] = sem["orderReceived"]
      /\ UNCHANGED <<chefIsBusy, incoming, outgoing, queue, qlength, qreadNext,
                     chefAt, lastGroup, waiterRequest, groupAt>>
  BY KitchenTypes, UpMoves DEF InformSave, waiterGoesTo, waiterSame, queueVars,
     waiterLeaves, SemNames
<1>2. /\ sem["waitOrder"] = 0 /\ chefAt \notin HasOrder
      /\ ~MealInSlot /\ chefAt # "postFoodReady"
  <2>1. ~foodOrder
    BY <1>1 DEF HandoverInv, BusyIsCurrent
  <2>2. sem["waitOrder"] = 0 /\ chefAt \notin HasOrder /\ ~MealInSlot
    BY <2>1, OrderOut, KitchenTypes
  <2> QED
    BY <2>2 DEF MealInSlot
<1>3. PICK g \in Groups : outgoing = FoodRequest(g)
  BY <1>1 DEF HandoverInv, HandsFit, Informing
<1>4. foodGroup' = g
  BY <1>1, <1>3, OrdersDiffer
<1>5. sem["waiterRequest"] > 0 => \E h \in Groups : waiterRequest = FoodRequest(h)
  BY <1>2 DEF HandoverInv, SlotFits, MealInSlot
<1>6. ~MealInSlot' /\ incoming' # Meal(g)
  BY <1>1, <1>2, <1>4, <1>5, OrdersDiffer DEF MealInSlot, Meal, HandoverInv,
     HandsFit
<1>7. OneOrderOut' /\ OrderAnswered'
  BY <1>1, <1>2, <1>4, <1>6 DEF HandoverInv, OneOrderOut, OrderAnswered,
     ordersOut, Bit, Serving, Meal
<1>8. BusyIsCurrent' /\ RingFits'
  BY <1>1 DEF HandoverInv, BusyIsCurrent, Polling, RingFits, ringEntry,
     FoodRequest
<1>9. HandsFit'
  BY <1>1, <1>2, <1>3, <1>4 DEF HandoverInv, HandsFit, Informing, Informed,
     Serving, FoodRequest
<1>10. SlotFits'
  BY <1>1, <1>2, <1>5 DEF HandoverInv, SlotFits, FoodRequest
<1> QED
  BY <1>1, <1>7, <1>8, <1>9, <1>10 DEF HandoverInv

LEMMA PostingKeepsHandover ==
  ASSUME TypeOK, HandoverInv, PostOrder, UNCHANGED waiterLeaves
  PROVE  HandoverInv'
<1>1. /\ waiterAt = "postOrder" /\ waiterAt' = "waitForChef"
      /\ sem'["waiterRequest"] = sem["waiterRequest"]
      /\ sem'["waitOrder"] = sem["waitOrder"] + 1
      /\ sem'["orderReceived"] = sem["orderReceived"]
      /\ UNCHANGED <<chefIsBusy, incoming, outgoing, queue, qlength, qreadNext,
                     chefAt, lastGroup, foodOrder, foodGroup, waiterRequest,
                     groupAt>>
  BY KitchenTypes, UpMoves DEF PostOrder, waiterGoesTo, waiterSame, queueVars,
     orderVars, waiterLeaves, SemNames
<1>2. /\ foodOrder /\ sem["waitOrder"] = 0 /\ chefAt \notin HasOrder
      /\ ~MealInSlot /\ incoming # Meal(foodGroup)
      /\ sem["orderReceived"] = 0
  BY <1>1, OrderOut, AnswerOut
<1>3. ~MealInSlot'
  BY <1>1, <1>2 DEF MealInSlot, Meal
<1>4. OneOrderOut' /\ OrderAnswered'
  BY <1>1, <1>2, <1>3 DEF HandoverInv, OneOrderOut, OrderAnswered, ordersOut,
     Bit, Serving, Meal, HasOrder
<1>5. BusyIsCurrent' /\ RingFits'
  BY <1>1, <1>2 DEF HandoverInv, BusyIsCurrent, Polling, RingFits, ringEntry,
     FoodRequest
<1>6. HandsFit' /\ SlotFits'
  BY <1>1 DEF HandoverInv, HandsFit, Informing, Informed, Serving, FoodRequest,
     SlotFits, Meal
<1> QED
  BY <1>1, <1>4, <1>5, <1>6 DEF HandoverInv

LEMMA AnswerKeepsHandover ==
  ASSUME TypeOK, HandoverInv, WaitForChef, UNCHANGED waiterLeaves
  PROVE  HandoverInv'
<1>1. /\ waiterAt = "waitForChef" /\ waiterAt' = "informGroup"
      /\ sem["orderReceived"] > 0
      /\ sem'["waiterRequest"] = sem["waiterRequest"]
      /\ sem'["waitOrder"] = sem["waitOrder"]
      /\ sem'["orderReceived"] = sem["orderReceived"] - 1
      /\ UNCHANGED <<chefIsBusy, incoming, outgoing, queue, qlength, qreadNext,
                     chefAt, lastGroup, foodOrder, foodGroup, waiterRequest,
                     groupAt>>
  BY KitchenTypes, DownMoves DEF WaitForChef, waiterGoesTo, queueVars,
     orderVars, waiterLeaves, SemNames
<1>2. /\ sem["orderReceived"] = 1 /\ sem["waitOrder"] = 0
      /\ chefAt # "acknowledgeOrder"
  BY <1>1, AnswerOut
<1>3. OneOrderOut' /\ OrderAnswered'
  BY <1>1, <1>2 DEF HandoverInv, OneOrderOut, OrderAnswered, ordersOut,
     MealInSlot, Bit, Serving, Meal
<1>4. BusyIsCurrent' /\ RingFits'
  BY <1>1 DEF HandoverInv, BusyIsCurrent, Polling, Informed, RingFits, ringEntry,
     FoodRequest
<1>5. HandsFit' /\ SlotFits'
  BY <1>1 DEF HandoverInv, HandsFit, Informing, Informed, Serving, FoodRequest,
     SlotFits, Meal
<1> QED
  BY <1>1, <1>3, <1>4, <1>5 DEF HandoverInv

\* A handler ends: the group is told that its order is taken, ...
LEMMA TellingKeepsHandover ==
  ASSUME TypeOK, HandoverInv, InformGroup, UNCHANGED waiterLeaves
  PROVE  HandoverInv'
<1>1. /\ waiterAt = "informGroup" /\ waiterAt' \in {"poll", "exit"}
      /\ outgoing' = NoRequest /\ chefIsBusy' = foodOrder
      /\ UNCHANGED <<incoming, queue, qlength, qreadNext, sem,
                     chefAt, lastGroup, foodOrder, foodGroup, waiterRequest,
                     groupAt>>
  BY DEF InformGroup, handled, queueVars, orderVars, waiterLeaves
<1>2. OneOrderOut' /\ OrderAnswered'
  BY <1>1 DEF HandoverInv, OneOrderOut, OrderAnswered, ordersOut,
     MealInSlot, Bit, Serving, Meal
<1>3. BusyIsCurrent'
  BY <1>1 DEF BusyIsCurrent, Informed, Serving
<1>4. HandsFit' /\ SlotFits' /\ RingFits'
  BY <1>1 DEF HandoverInv, HandsFit, Informing, Informed, Serving, FoodRequest,
     SlotFits, Meal, RingFits, ringEntry
<1> QED
  BY <1>1, <1>2, <1>3, <1>4 DEF HandoverInv

\* ... or its meal is on its table, and no order is out any more.
LEMMA ServingKeepsHandover ==
  ASSUME TypeOK, HandoverInv, ServeFood, UNCHANGED waiterLeaves
  PROVE  HandoverInv'
<1>1. /\ waiterAt = "serveFood" /\ waiterAt' \in {"poll", "exit"}
      /\ outgoing' = NoRequest /\ foodOrder' = FALSE /\ chefIsBusy' = foodOrder'
      /\ UNCHANGED <<incoming, queue, qlength, qreadNext, sem,
                     chefAt, lastGroup, foodGroup, waiterRequest, groupAt>>
  BY DEF ServeFood, handled, queueVars, waiterLeaves
<1>2. /\ sem["waitOrder"] = 0 /\ chefAt \notin HasOrder
      /\ ~MealInSlot /\ incoming # Meal(foodGroup)
  BY <1>1, OrderOut DEF Serving
<1>3. ~MealInSlot'
  BY <1>1, <1>2 DEF MealInSlot, Meal
<1>4. OneOrderOut' /\ OrderAnswered'
  BY <1>1, <1>2, <1>3 DEF HandoverInv, OneOrderOut, OrderAnswered, ordersOut,
     Bit, Serving, Meal
<1>5. BusyIsCurrent'
  BY <1>1 DEF BusyIsCurrent, Informed, Serving
<1>6. HandsFit' /\ SlotFits' /\ RingFits'
  BY <1>1 DEF HandoverInv, HandsFit, Informing, Informed, Serving, FoodRequest,
     SlotFits, Meal, RingFits, ringEntry
<1> QED
  BY <1>1, <1>4, <1>5, <1>6 DEF HandoverInv

-----------------------------------------------------------------------------
(* The hand-over: steps of the chef                                         *)

\* The chef enters or leaves the mutex, with the same order in its hands, or
\* none.
ChefSavesState ==
  /\ UNCHANGED kitchenSems /\ UNCHANGED kitchenTokens
  /\ UNCHANGED waiterRequest
  /\ \/ /\ chefAt \in {"waitForOrder", "waitingForOrder"}
        /\ chefAt' \in {"waitingForOrder", "takeOrder"}
        /\ lastGroup' \in {lastGroup, NoGroup}
     \/ /\ chefAt \in {"processOrder", "cooking", "cooked", "resting"}
        /\ chefAt' \in {"cooking", "cooked", "resting", "foodReady"}
        /\ lastGroup' = lastGroup
  /\ UNCHANGED nOrders

LEMMA ChefSteps ==
  ASSUME TypeOK, ChefStep
  PROVE  \/ ChefSavesState
         \/ TakeOrder \/ AcknowledgeOrder \/ FoodReady \/ PostFoodReady
<1>1. semDown("mutex") \/ semUp("mutex") =>
        UNCHANGED kitchenSems /\ UNCHANGED kitchenTokens
  BY OtherSems, KitchenTypes DEF SemNames, KitchenNames
<1>2. WaitOrderLock \/ WaitOrderSave => ChefSavesState
  BY <1>1 DEF WaitOrderLock, WaitOrderSave, lockChefState, saveChefState,
     chefGoesTo, ChefSavesState
<1>3. CookLock \/ CookSave \/ RestLock \/ RestSave => ChefSavesState
  BY <1>1 DEF CookLock, CookSave, RestLock, RestSave, lockChefState,
     saveChefState, chefGoesTo, ChefSavesState
<1> QED
  BY <1>2, <1>3 DEF ChefStep, ChefNext, waitForOrder, processOrder

\* What a step of the chef leaves to the others.
chefLeaves == <<groupAt, groupTable, assignedTable, occupied, waiterVars,
                foodOrder, foodGroup>>

LEMMA ChefLeaves ==
  ASSUME ChefStep PROVE UNCHANGED chefLeaves
BY DEF ChefStep, ChefNext, chefLeaves, groupVars, receptionistVars, recordVars,
   tableVars, orderVars

LEMMA ChefSavingKeepsHandover ==
  ASSUME HandoverInv, ChefSavesState, UNCHANGED chefLeaves
  PROVE  HandoverInv'
<1>1. /\ sem'["waiterRequest"] = sem["waiterRequest"]
      /\ sem'["waitOrder"] = sem["waitOrder"]
      /\ sem'["orderReceived"] = sem["orderReceived"]
      /\ UNCHANGED <<waiterAt, chefIsBusy, incoming, outgoing, queue, qlength,
                     qreadNext, foodOrder, foodGroup, waiterRequest, groupAt>>
  BY KitchenSemsSame DEF ChefSavesState, chefLeaves, waiterVars, queueVars
<1>2. /\ chefAt' \in HasOrder <=> chefAt \in HasOrder
      /\ chefAt # "postFoodReady" /\ chefAt' # "postFoodReady"
      /\ chefAt # "acknowledgeOrder" /\ chefAt' # "acknowledgeOrder"
      /\ lastGroup' = lastGroup \/ (chefAt' \notin HasOrder /\ lastGroup' = NoGroup)
  BY DEF ChefSavesState, HasOrder
<1>3. OneOrderOut' /\ OrderAnswered'
  BY <1>1, <1>2 DEF HandoverInv, OneOrderOut, OrderAnswered, ordersOut,
     MealInSlot, Bit, Meal
<1>4. BusyIsCurrent' /\ SlotFits' /\ RingFits'
  BY <1>1, <1>2 DEF HandoverInv, BusyIsCurrent, SlotFits, RingFits, Meal,
     FoodRequest, ringEntry
<1>5. HandsFit'
  BY <1>1, <1>2 DEF HandoverInv, HandsFit, Meal, FoodRequest
<1> QED
  BY <1>1, <1>3, <1>4, <1>5 DEF HandoverInv

\* What the chef finds in foodGroup is the group whose order was posted.
LEMMA ChefTakingKeepsHandover ==
  ASSUME TypeOK, HandoverInv, TakeOrder, UNCHANGED chefLeaves
  PROVE  HandoverInv'
<1>1. /\ chefAt = "takeOrder" /\ chefAt' = "acknowledgeOrder"
      /\ lastGroup' = foodGroup /\ sem["waitOrder"] > 0
      /\ sem'["waiterRequest"] = sem["waiterRequest"]
      /\ sem'["waitOrder"] = sem["waitOrder"] - 1
      /\ sem'["orderReceived"] = sem["orderReceived"]
      /\ UNCHANGED <<waiterAt, chefIsBusy, incoming, outgoing, queue, qlength,
                     qreadNext, foodOrder, foodGroup, waiterRequest, groupAt>>
  BY KitchenTypes, DownMoves DEF TakeOrder, chefGoesTo, chefLeaves, waiterVars,
     queueVars, SemNames
<1>2. /\ sem["waitOrder"] = 1 /\ ~MealInSlot /\ incoming # Meal(foodGroup)
      /\ waiterAt # "postOrder" /\ waiterAt \notin Serving /\ foodOrder
      /\ waiterAt = "waitForChef" /\ sem["orderReceived"] = 0
  BY <1>1, OrderOut, AnswerOut, KitchenTypes DEF HandoverInv, OrderAnswered, Bit
<1>3. ~MealInSlot'
  BY <1>1, <1>2 DEF MealInSlot, Meal
<1>4. OneOrderOut' /\ OrderAnswered'
  BY <1>1, <1>2, <1>3 DEF HandoverInv, OneOrderOut, OrderAnswered, ordersOut,
     Bit, Meal, HasOrder
<1>5. BusyIsCurrent' /\ SlotFits' /\ RingFits'
  BY <1>1 DEF HandoverInv, BusyIsCurrent, SlotFits, RingFits, Meal,
     FoodRequest, ringEntry
<1>6. HandsFit'
  BY <1>1 DEF HandoverInv, HandsFit, Meal, FoodRequest, HasOrder
<1> QED
  BY <1>1, <1>4, <1>5, <1>6 DEF HandoverInv

LEMMA AcknowledgingKeepsHandover ==
  ASSUME TypeOK, HandoverInv, AcknowledgeOrder, UNCHANGED chefLeaves
  PROVE  HandoverInv'
<1>1. /\ chefAt = "acknowledgeOrder" /\ lastGroup' = lastGroup
      /\ sem'["waiterRequest"] = sem["waiterRequest"]
      /\ sem'["waitOrder"] = sem["waitOrder"]
      /\ sem'["orderReceived"] = sem["orderReceived"] + 1
      /\ UNCHANGED <<waiterAt, chefIsBusy, incoming, outgoing, queue, qlength,
                     qreadNext, foodOrder, foodGroup, waiterRequest, groupAt>>
  BY KitchenTypes, UpMoves DEF AcknowledgeOrder, chefLeaves, waiterVars,
     queueVars, SemNames
<1>2. lastGroup \in Groups
  BY <1>1, OrderOut DEF HandoverInv, HandsFit, OneOrderOut, HasOrder
<1>3. chefAt' = "processOrder"
  BY <1>2, ConstantTypes DEF AcknowledgeOrder
<1>4. sem["waitOrder"] = 0 /\ sem["orderReceived"] = 0
  BY <1>1, AnswerOut
<1>5. OneOrderOut' /\ OrderAnswered'
  BY <1>1, <1>3, <1>4 DEF HandoverInv, OneOrderOut, OrderAnswered, ordersOut,
     MealInSlot, Bit, Meal, HasOrder
<1>6. BusyIsCurrent' /\ SlotFits' /\ RingFits'
  BY <1>1, <1>3 DEF HandoverInv, BusyIsCurrent, SlotFits, RingFits, Meal,
     FoodRequest, ringEntry
<1>7. HandsFit'
  BY <1>1, <1>3 DEF HandoverInv, HandsFit, Meal, FoodRequest, HasOrder
<1> QED
  BY <1>1, <1>5, <1>6, <1>7 DEF HandoverInv

\* The chef fills the slot only when it is free.
LEMMA CookedKeepsHandover ==
  ASSUME TypeOK, RequestSlotsExclusive, HandoverInv, FoodReady,
         UNCHANGED chefLeaves
  PROVE  HandoverInv'
<1>1. /\ chefAt = "foodReady" /\ chefAt' = "postFoodReady"
      /\ lastGroup' = Scrubbed /\ sem["waiterRequestPossible"] > 0
      /\ waiterRequest' = Meal(lastGroup)
      /\ sem'["waiterRequest"] = sem["waiterRequest"]
      /\ sem'["waitOrder"] = sem["waitOrder"]
      /\ sem'["orderReceived"] = sem["orderReceived"]
      /\ UNCHANGED <<waiterAt, chefIsBusy, incoming, outgoing, queue, qlength,
                     qreadNext, foodOrder, foodGroup, groupAt>>
  BY KitchenTypes, DownMoves DEF FoodReady, chefGoesTo, chefLeaves, waiterVars,
     queueVars, SemNames, Meal
<1>2. /\ sem["waiterRequest"] = 0
      /\ \A g \in Groups : groupAt[g] # "postFoodRequest"
  <2>1. waiterToken = 1
    BY DEF RequestSlotsExclusive, waiterToken
  <2> QED
    BY <1>1, <2>1, WaiterSlotHolder DEF PostingToWaiter, at
<1>3. /\ foodOrder /\ sem["waitOrder"] = 0 /\ ~MealInSlot
      /\ incoming # Meal(foodGroup) /\ waiterAt # "postOrder"
      /\ waiterAt \notin Serving /\ lastGroup = foodGroup
  BY <1>1, OrderOut DEF HasOrder, HandoverInv, HandsFit
<1>4. MealInSlot'
  BY <1>1 DEF MealInSlot
<1>5. OneOrderOut' /\ OrderAnswered'
  BY <1>1, <1>3, <1>4 DEF HandoverInv, OneOrderOut, OrderAnswered, ordersOut,
     Bit, Meal, HasOrder
<1>6. BusyIsCurrent' /\ RingFits'
  BY <1>1 DEF HandoverInv, BusyIsCurrent, RingFits, FoodRequest, ringEntry
<1>7. HandsFit'
  BY <1>1 DEF HandoverInv, HandsFit, Meal, FoodRequest, HasOrder
<1>8. SlotFits'
  BY <1>1, <1>2, <1>3 DEF SlotFits, Meal, FoodRequest
<1> QED
  BY <1>1, <1>5, <1>6, <1>7, <1>8 DEF HandoverInv

LEMMA PostingMealKeepsHandover ==
  ASSUME TypeOK, RequestSlotsExclusive, HandoverInv, PostFoodReady,
         UNCHANGED chefLeaves
  PROVE  HandoverInv'
<1>1. /\ chefAt = "postFoodReady" /\ chefAt' \in {"waitForOrder", "exit"}
      /\ sem'["waiterRequest"] = sem["waiterRequest"] + 1
      /\ sem'["waitOrder"] = sem["waitOrder"]
      /\ sem'["orderReceived"] = sem["orderReceived"]
      /\ UNCHANGED <<waiterAt, chefIsBusy, incoming, outgoing, queue, qlength,
                     qreadNext, lastGroup, foodOrder, foodGroup, waiterRequest,
                     groupAt>>
  BY KitchenTypes, UpMoves DEF PostFoodReady, chefLoop, chefLeaves, waiterVars,
     queueVars, SemNames
<1>2. waiterRequest = Meal(foodGroup)
  BY <1>1 DEF HandoverInv, SlotFits
<1>3. MealInSlot /\ MealInSlot'
  BY <1>1, <1>2, KitchenTypes DEF MealInSlot, Meal
<1>4. OneOrderOut' /\ OrderAnswered'
  BY <1>1, <1>3 DEF HandoverInv, OneOrderOut, OrderAnswered, ordersOut,
     Bit, Meal, HasOrder
<1>5. BusyIsCurrent' /\ RingFits'
  BY <1>1 DEF HandoverInv, BusyIsCurrent, RingFits, FoodRequest, ringEntry
<1>6. HandsFit' /\ SlotFits'
  BY <1>1, <1>2 DEF HandoverInv, HandsFit, SlotFits, Meal, FoodRequest, HasOrder
<1> QED
  BY <1>1, <1>4, <1>5, <1>6 DEF HandoverInv

LEMMA HandoverStep ==
  TypeInv /\ RequestSlotsExclusive /\ HandoverInv /\ [Next]_vars => HandoverInv'
<1> SUFFICES ASSUME TypeInv, TypeOK, TypeOK', RequestSlotsExclusive, HandoverInv,
                    [Next]_vars
             PROVE  HandoverInv'
  BY TypeStep DEF TypeInv
<1>1. ASSUME NEW g \in Groups, GroupStep(g) PROVE HandoverInv'
  BY <1>1, GroupKeepsHandover
<1>2. CASE ReceptionistStep
  BY <1>2, ReceptionistOutsideKitchen, HandoverUndisturbed
<1>3. CASE WaiterStep
  BY <1>3, WaiterSteps, WaiterLeaves, SavingKeepsHandover,
     TakeQueuedKeepsHandover, TakingKeepsHandover, ReadingKeepsHandover,
     InformingKeepsHandover, PostingKeepsHandover, AnswerKeepsHandover,
     TellingKeepsHandover, ServingKeepsHandover
<1>4. CASE ChefStep
  BY <1>4, ChefSteps, ChefLeaves, ChefSavingKeepsHandover,
     ChefTakingKeepsHandover, AcknowledgingKeepsHandover, CookedKeepsHandover,
     PostingMealKeepsHandover
<1>5. CASE UNCHANGED vars
  <2>1. UNCHANGED handoverView /\ UNCHANGED groupAt
    BY <1>5 DEF vars, sharedVars, groupVars, requestVars, semVars, handoverView,
       kitchenSems
  <2> QED
    BY <2>1, HandoverUndisturbed
<1> QED
  BY <1>1, <1>2, <1>3, <1>4, <1>5 DEF Next, Terminated

LEMMA HandoverInvariant == Spec => []HandoverInv
<1> QED
  BY HandoverInit, HandoverStep, TypeInvariant, SlotsExclusive, PTL DEF Spec

\* Neither server ever gets where the code takes the mutex and sleeps for ever:
\* the receptionist finds the table of every group that pays, and nothing but
\* orders and meals reaches the waiter.
THEOREM NoTrap == Spec => []NoBugTrap
<1>1. TableFound /\ HandoverInv => NoBugTrap
  BY DEF TableFound, HandoverInv, NoBugTrap
<1> QED
  BY <1>1, TableIsFound, HandoverInvariant, PTL

-----------------------------------------------------------------------------
(* Every order is in one place: facts                                       *)

LEMMA OrderTypes ==
  ASSUME TypeOK, NEW g \in Groups
  PROVE  /\ unsent(g) \in Nat
         /\ tokensFor(g, requestReceived) \in Nat
         /\ tokensFor(g, foodArrived) \in Nat
BY KitchenTypes DEF unsent, Bit, tokensFor

\* Where an order can be tells what its group is waiting for.
LEMMA OrderPlaces ==
  ASSUME TypeOK, OrdersKept, NEW g \in Groups
  PROVE  /\ Filed(g) \/ incoming = FoodRequest(g) \/ Queued(g)
              \/ (waiterAt \in {"informChef", "informingChef"}
                  /\ outgoing = FoodRequest(g))
              => unsent(g) = 1
         /\ incoming = FoodRequest(g) => ~Filed(g) /\ ~Queued(g)
         /\ unsent(g) > 0 => /\ unsent(g) = 1 /\ groupAt[g] \in Unheard
                             /\ ~BeingServed(g) /\ ~BeingHeard(g)
                             /\ tokensFor(g, requestReceived) = 0
                             /\ tokensFor(g, foodArrived) = 0
         /\ BeingServed(g) => groupAt[g] \in Unfed
         /\ BeingHeard(g) => groupAt[g] \in Unheard
         /\ groupAt[g] \notin Unfed =>
              /\ unsent(g) = 0 /\ ~BeingServed(g) /\ ~BeingHeard(g)
              /\ tokensFor(g, requestReceived) = 0
              /\ tokensFor(g, foodArrived) = 0
<1> DEFINE a == Filed(g)
           b == incoming = FoodRequest(g)
           c == Queued(g)
           d == waiterAt \in {"informChef", "informingChef"}
                /\ outgoing = FoodRequest(g)
           e == BeingServed(g)
           f == BeingHeard(g)
           h == groupAt[g] \in Unheard
           u == groupAt[g] \in Unfed
           n == unsent(g)
           r == tokensFor(g, requestReceived)
           m == tokensFor(g, foodArrived)
<1>1. n = Bit(a) + Bit(b) + Bit(c) + Bit(d)
  BY DEF unsent
<1>2. /\ n + Bit(e) + m = Bit(u) /\ n + Bit(f) + r = Bit(h)
      /\ h => u
  BY DEF OrdersKept, OrderKept, Unfed
<1>3. n \in Nat /\ r \in Nat /\ m \in Nat
  BY OrderTypes
<1> HIDE DEF a, b, c, d, e, f, h, u, n, r, m
<1>4. n > 0 => n = 1 /\ h /\ ~e /\ ~f /\ r = 0 /\ m = 0
  BY <1>2, <1>3 DEF Bit
<1>5. a \/ b \/ c \/ d => n > 0
  BY <1>1 DEF Bit
<1>6. b /\ n = 1 => ~a /\ ~c
  BY <1>1 DEF Bit
<1>7. /\ e => u
      /\ f => h
      /\ ~u => n = 0 /\ ~e /\ ~f /\ r = 0 /\ m = 0
  BY <1>2, <1>3 DEF Bit
<1> QED
  BY <1>4, <1>5, <1>6, <1>7 DEF a, b, c, d, e, f, h, u, n, r, m

\* Nothing about the order of a group changes.
OrderUnmoved(g) ==
  /\ unsent(g)' = unsent(g)
  /\ BeingServed(g)' <=> BeingServed(g)
  /\ BeingHeard(g)' <=> BeingHeard(g)
  /\ tokensFor(g, foodArrived)' = tokensFor(g, foodArrived)
  /\ tokensFor(g, requestReceived)' = tokensFor(g, requestReceived)
  /\ groupAt'[g] \in Unfed <=> groupAt[g] \in Unfed
  /\ groupAt'[g] \in Unheard <=> groupAt[g] \in Unheard

LEMMA UnmovedIsKept ==
  ASSUME NEW g \in Groups, OrderKept(g), OrderUnmoved(g)
  PROVE  OrderKept(g)'
BY DEF OrderKept, OrderUnmoved, Bit, Unfed, Unheard

\* The servers have nothing new in their hands.
handsView == <<waiterAt, incoming, outgoing, queue, qlength, qreadNext,
               foodOrder, foodGroup>>

LEMMA HandsSame ==
  ASSUME UNCHANGED handsView, NEW g
  PROVE  /\ Queued(g)' <=> Queued(g)
         /\ BeingServed(g)' <=> BeingServed(g)
         /\ BeingHeard(g)' <=> BeingHeard(g)
         /\ (Filed(g)' <=> Filed(g)) => unsent(g)' = unsent(g)
<1>1. Queued(g)' <=> Queued(g)
  BY DEF handsView, Queued, ringEntry, FoodRequest
<1>2. BeingServed(g)' <=> BeingServed(g)
  BY DEF handsView, BeingServed
<1>3. BeingHeard(g)' <=> BeingHeard(g)
  BY DEF handsView, BeingHeard, FoodRequest
<1>4. (Filed(g)' <=> Filed(g)) => unsent(g)' = unsent(g)
  BY <1>1 DEF unsent, Bit, handsView, FoodRequest
<1> QED
  BY <1>1, <1>2, <1>3, <1>4

\* No two groups sit at one table, so that a token for one is none for another.
LEMMA OtherTable ==
  ASSUME TablesConsistent, NEW g \in Groups, NEW h \in Groups \ {g},
         assignedTable[g] \in Tables
  PROVE  assignedTable[h] # assignedTable[g] /\ assignedTable[g] \in occupied
<1>1. assignedTable[g] # NoTable
  BY ConstantTypes DEF Tables, NoTable
<1> QED
  BY <1>1 DEF TablesConsistent

\* A group that waits in the restaurant for anything to eat has a table.
LEMMA UnfedHasTable ==
  ASSUME TypeOK, ReceptionInv, NEW g \in Groups, groupAt[g] \in Unfed
  PROVE  assignedTable[g] \in Tables /\ assignedTable[g] # NoTable
BY ConstantTypes DEF TypeOK, SharedTypeOK, TableTypeOK, ReceptionInv, SeatsFit,
   Unfed, Unheard, AtTable, HasTable, Tables, NoTable

LEMMA OrdersInit == Init => OrdersInv
<1> SUFFICES ASSUME Init PROVE OrdersInv
  OBVIOUS
<1>1. /\ waiterAt \in {"poll", "exit"}
      /\ sem["waiterRequest"] = 0 /\ foodOrder = FALSE
      /\ incoming = NoRequest /\ outgoing = NoRequest /\ qlength = 0
      /\ \A g \in Groups : groupAt[g] = "goToRestaurant"
                           /\ assignedTable[g] = NoTable
      /\ \A t \in Tables : requestReceived[t] = 0 /\ foodArrived[t] = 0
  BY DEF Init, WaiterInit, SharedInit, RegionInit, enabledSems, SemNames,
     TableSemsRed, GroupInit
<1>2. ASSUME NEW g \in Groups PROVE OrderKept(g)
  <2>1. unsent(g) = 0 /\ ~BeingServed(g) /\ ~BeingHeard(g)
    BY <1>1, OrdersDiffer DEF unsent, Bit, Filed, Queued, BeingServed,
       BeingHeard, Informed
  <2>2. tokensFor(g, requestReceived) = 0 /\ tokensFor(g, foodArrived) = 0
    BY <1>1 DEF tokensFor
  <2> QED
    BY <1>1, <2>1, <2>2 DEF OrderKept, Bit, Unfed, Unheard
<1> QED
  BY <1>1, <1>2 DEF OrdersInv, OrdersKept, FreeTablesBare, RingDistinct,
     WaiterReads

-----------------------------------------------------------------------------
(* Every order is in one place: steps of the groups and of the receptionist *)

\* The groups and their slot, as the waiter finds it.
LEMMA FiledSlot ==
  ASSUME TypeOK, RequestSlotsExclusive
  PROVE  /\ sem["waiterRequestPossible"] > 0 \/ chefAt = "postFoodReady"
              \/ waiterAt = "readRequest" =>
              \A g \in Groups : ~Filed(g)
         /\ sem["waiterRequest"] > 0 =>
              \A g \in Groups : Filed(g) <=> waiterRequest = FoodRequest(g)
         /\ \A h \in Groups : groupAt[h] = "postFoodRequest" =>
              /\ sem["waiterRequest"] = 0
              /\ \A g \in Groups \ {h} : ~Filed(g)
<1>1. /\ PostingToWaiter = {h \in Groups : groupAt[h] = "postFoodRequest"}
      /\ waiterToken = 1
      /\ sem["waiterRequest"] \in Nat /\ sem["waiterRequestPossible"] \in Nat
  BY KitchenTypes DEF PostingToWaiter, at, RequestSlotsExclusive, waiterToken
<1>2. sem["waiterRequestPossible"] > 0 \/ chefAt = "postFoodReady"
        \/ waiterAt = "readRequest" =>
        sem["waiterRequest"] = 0 /\ PostingToWaiter = {}
  BY <1>1, WaiterSlotHolder
<1>3. sem["waiterRequest"] > 0 => PostingToWaiter = {}
  BY <1>1, WaiterSlotHolder
<1>4. \A h \in PostingToWaiter : sem["waiterRequest"] = 0 /\ PostingToWaiter = {h}
  BY <1>1, WaiterSlotHolder
<1> QED
  BY <1>1, <1>2, <1>3, <1>4 DEF Filed

\* A group fills the slot when it is empty, or leaves what is filed as it is.
LEMMA GroupFiles ==
  ASSUME TypeOK, RequestSlotsExclusive, HandoverInv, NEW g \in Groups,
         GroupStep(g)
  PROVE  \/ /\ FilesOrder(g) /\ Filed(g)'
            /\ \A x \in Groups : ~Filed(x)
            /\ \A x \in Groups \ {g} : ~Filed(x)'
         \/ ~FilesOrder(g) /\ \A x \in Groups : Filed(x)' <=> Filed(x)
<1>1. /\ InKitchen(g)
      /\ \A h \in Groups \ {g} : groupAt'[h] = groupAt[h]
      /\ sem["waiterRequest"] \in Nat
  BY GroupInKitchen, GroupMovesAlone, KitchenTypes DEF GroupStep, GroupNext, TypeOK
<1>2. CASE FilesOrder(g)
  <2>1. /\ sem'["waiterRequest"] = sem["waiterRequest"]
        /\ groupAt'[g] = "postFoodRequest"
    BY <1>2, KitchenSemsSame DEF FilesOrder
  <2>2. sem["waiterRequest"] = 0 /\ \A x \in Groups : ~Filed(x)
    <3>1. waiterToken = 1 /\ sem["waiterRequestPossible"] > 0
      BY <1>2 DEF RequestSlotsExclusive, waiterToken, FilesOrder
    <3> QED
      BY <3>1, FiledSlot, WaiterSlotHolder
  <2> QED
    BY <1>1, <1>2, <2>1, <2>2 DEF Filed
<1>3. CASE AnnouncesOrder(g)
  <2>1. sem'["waiterRequest"] = sem["waiterRequest"] + 1
    <3>1. kitchenSems'["waiterRequest"] = kitchenSems["waiterRequest"] + 1
      BY <1>3 DEF AnnouncesOrder, kitchenSems, KitchenNames
    <3> QED
      BY <3>1 DEF kitchenSems, KitchenNames
  <2>2. waiterRequest = FoodRequest(g) /\ UNCHANGED waiterRequest
    BY <1>3 DEF AnnouncesOrder, HandoverInv, SlotFits
  <2>3. groupAt[g] = "postFoodRequest" /\ groupAt'[g] # "postFoodRequest"
    BY <1>3 DEF AnnouncesOrder
  <2>4. \A h \in Groups \ {g} : ~Filed(h)
    BY <2>3, FiledSlot
  <2>5. \A x \in Groups : Filed(x)' <=> Filed(x)
    BY <1>1, <2>1, <2>2, <2>3, <2>4, OrdersDiffer DEF Filed, FoodRequest
  <2> QED
    BY <2>3, <2>5 DEF FilesOrder
<1>4. CASE HearsOfOrder(g) \/ GetsMeal(g) \/ OutsideKitchen(g)
  <2>1. /\ sem'["waiterRequest"] = sem["waiterRequest"]
        /\ UNCHANGED waiterRequest
        /\ groupAt[g] # "postFoodRequest" /\ groupAt'[g] # "postFoodRequest"
    BY <1>4, KitchenSemsSame DEF HearsOfOrder, GetsMeal, OutsideKitchen, Hungry,
       Expecting, Fed
  <2> QED
    BY <1>1, <2>1 DEF Filed, FoodRequest, FilesOrder
<1> QED
  BY <1>1, <1>2, <1>3, <1>4 DEF InKitchen

LEMMA GroupKeepsOrders ==
  ASSUME TypeOK, RequestSlotsExclusive, ReceptionInv, CopyCurrent, HandoverInv,
         OrdersInv, NEW g \in Groups, GroupStep(g)
  PROVE  OrdersInv'
<1>1. /\ InKitchen(g)
      /\ UNCHANGED <<waiterVars, chefVars, orderVars, assignedTable, occupied>>
      /\ \A h \in Groups \ {g} : groupAt'[h] = groupAt[h]
  BY GroupInKitchen, GroupMovesAlone DEF GroupStep, GroupNext, TypeOK, tableVars,
     receptionistVars, recordVars
<1>2. UNCHANGED handsView /\ UNCHANGED waiterTable
  BY <1>1 DEF handsView, waiterVars, queueVars, orderVars
<1>3. RingDistinct' /\ WaiterReads'
  BY <1>1, <1>2 DEF OrdersInv, RingDistinct, WaiterReads, ringEntry, handsView
<1>4. /\ requestReceived \in [Tables -> Nat] /\ foodArrived \in [Tables -> Nat]
      /\ sem["waiterRequest"] \in Nat
      /\ TablesConsistent
  BY KitchenTypes DEF ReceptionInv
<1> DEFINE p == groupTable[g]
<1>5. groupAt[g] \in UsesCopy => p \in Tables /\ p = assignedTable[g]
  BY DEF CopyCurrent, at
<1>6. \A x : /\ BeingServed(x)' <=> BeingServed(x)
             /\ BeingHeard(x)' <=> BeingHeard(x)
             /\ (Filed(x)' <=> Filed(x)) => unsent(x)' = unsent(x)
  BY <1>2, HandsSame
<1>7. CASE OutsideKitchen(g) \/ AnnouncesOrder(g)
  <2>1. UNCHANGED <<requestReceived, foodArrived, waiterRequest>>
    BY <1>7 DEF OutsideKitchen, AnnouncesOrder, kitchenTokens
  <2>2. FreeTablesBare'
    BY <1>1, <2>1 DEF OrdersInv, FreeTablesBare
  <2>3. \A x \in Groups : Filed(x)' <=> Filed(x)
    BY <1>7, GroupFiles DEF OutsideKitchen, AnnouncesOrder, FilesOrder, Hungry,
       Expecting, Fed
  <2>4. ASSUME NEW x \in Groups PROVE OrderUnmoved(x)
    <3>1. /\ tokensFor(x, foodArrived)' = tokensFor(x, foodArrived)
          /\ tokensFor(x, requestReceived)' = tokensFor(x, requestReceived)
      BY <1>1, <2>1 DEF tokensFor
    <3>2. /\ groupAt'[x] \in Unfed <=> groupAt[x] \in Unfed
          /\ groupAt'[x] \in Unheard <=> groupAt[x] \in Unheard
      BY <1>1, <1>7 DEF OutsideKitchen, AnnouncesOrder, Unfed, Unheard, Hungry,
         Expecting, Fed
    <3> QED
      BY <1>6, <2>3, <3>1, <3>2 DEF OrderUnmoved
  <2> QED
    BY <1>3, <2>2, <2>4, UnmovedIsKept DEF OrdersInv, OrdersKept
<1>8. CASE FilesOrder(g)
  <2>1. /\ UNCHANGED <<requestReceived, foodArrived>>
        /\ sem'["waiterRequest"] = sem["waiterRequest"]
        /\ groupAt[g] = "requestFood" /\ groupAt'[g] = "postFoodRequest"
        /\ waiterRequest' = FoodRequest(g)
    BY <1>8, KitchenSemsSame DEF FilesOrder, kitchenTokens
  <2>2. FreeTablesBare'
    BY <1>1, <2>1 DEF OrdersInv, FreeTablesBare
  <2>3. \A x \in Groups :
          /\ tokensFor(x, foodArrived)' = tokensFor(x, foodArrived)
          /\ tokensFor(x, requestReceived)' = tokensFor(x, requestReceived)
    BY <1>1, <2>1 DEF tokensFor
  <2>4. /\ Filed(g)' /\ \A x \in Groups : ~Filed(x)
        /\ \A x \in Groups \ {g} : ~Filed(x)'
    BY <1>8, GroupFiles
  <2>5. ASSUME NEW x \in Groups \ {g} PROVE OrderUnmoved(x)
    BY <1>1, <1>6, <2>3, <2>4 DEF OrderUnmoved
  <2>6. OrderKept(g)'
    <3>1. /\ unsent(g) = 0 /\ ~BeingServed(g) /\ ~BeingHeard(g)
          /\ tokensFor(g, requestReceived) = 0 /\ tokensFor(g, foodArrived) = 0
      BY <2>1, OrderPlaces DEF OrdersInv, Unfed, Unheard
    <3>2. unsent(g)' = unsent(g) + 1
      <4>1. Queued(g)' <=> Queued(g)
        BY <1>2, HandsSame
      <4> QED
        BY <1>2, <2>4, <4>1 DEF unsent, Bit, handsView, FoodRequest
    <3>3. groupAt'[g] \in Unfed /\ groupAt'[g] \in Unheard
      BY <2>1 DEF Unfed, Unheard
    <3> QED
      BY <1>6, <2>3, <3>1, <3>2, <3>3 DEF OrderKept, Bit
  <2> QED
    BY <1>3, <2>2, <2>5, <2>6, UnmovedIsKept DEF OrdersInv, OrdersKept
<1>9. CASE HearsOfOrder(g) \/ GetsMeal(g)
  <2>1. /\ groupAt[g] \in {"waitForWaiter", "foodArrives"}
        /\ groupAt'[g] # "postFoodRequest"
        /\ sem'["waiterRequest"] = sem["waiterRequest"]
        /\ UNCHANGED waiterRequest
    BY <1>9, KitchenSemsSame DEF HearsOfOrder, GetsMeal, Expecting, Fed
  <2>2. p \in Tables /\ p = assignedTable[g] /\ p # NoTable /\ p \in occupied
    BY <1>4, <1>5, <2>1, ConstantTypes DEF UsesCopy, TablesConsistent, Tables,
       NoTable
  <2>3. \A x \in Groups : Filed(x)' <=> Filed(x)
    BY <1>1, <2>1 DEF Filed, FoodRequest
  <2>4. \A t \in Tables \ {p} : /\ requestReceived'[t] = requestReceived[t]
                                /\ foodArrived'[t] = foodArrived[t]
    BY <1>4, <1>9 DEF HearsOfOrder, GetsMeal
  <2>5. FreeTablesBare'
    BY <1>1, <2>2, <2>4 DEF OrdersInv, FreeTablesBare
  <2>6. ASSUME NEW x \in Groups \ {g} PROVE OrderUnmoved(x)
    <3>1. assignedTable[x] = NoTable \/ assignedTable[x] \in Tables \ {p}
      BY <1>4, <2>2, OtherTable, KitchenTypes
    <3>2. /\ tokensFor(x, foodArrived)' = tokensFor(x, foodArrived)
          /\ tokensFor(x, requestReceived)' = tokensFor(x, requestReceived)
      BY <1>1, <2>4, <3>1 DEF tokensFor
    <3> QED
      BY <1>1, <1>6, <2>3, <3>2 DEF OrderUnmoved
  <2>7. OrderKept(g)'
    <3>1. OrderKept(g) /\ unsent(g)' = unsent(g) /\ unsent(g) \in Nat
      BY <1>6, <2>3, OrderTypes DEF OrdersInv, OrdersKept
    <3>2. CASE HearsOfOrder(g)
      <4>1. /\ tokensFor(g, foodArrived)' = tokensFor(g, foodArrived)
            /\ tokensFor(g, requestReceived) > 0
            /\ tokensFor(g, requestReceived)' = tokensFor(g, requestReceived) - 1
        BY <1>1, <1>4, <2>2, <3>2 DEF HearsOfOrder, tokensFor
      <4>2. /\ groupAt[g] \in Unfed /\ groupAt[g] \in Unheard
            /\ groupAt'[g] \in Unfed /\ groupAt'[g] \notin Unheard
        BY <3>2 DEF HearsOfOrder, Unfed, Unheard, Expecting
      <4> QED
        BY <1>6, <3>1, <4>1, <4>2, OrderTypes DEF OrderKept, Bit
    <3>3. CASE GetsMeal(g)
      <4>1. /\ tokensFor(g, requestReceived)' = tokensFor(g, requestReceived)
            /\ tokensFor(g, foodArrived) > 0
            /\ tokensFor(g, foodArrived)' = tokensFor(g, foodArrived) - 1
        BY <1>1, <1>4, <2>2, <3>3 DEF GetsMeal, tokensFor
      <4>2. /\ groupAt[g] \in Unfed /\ groupAt[g] \notin Unheard
            /\ groupAt'[g] \notin Unfed /\ groupAt'[g] \notin Unheard
        BY <3>3 DEF GetsMeal, Unfed, Unheard, Fed
      <4> QED
        BY <1>6, <3>1, <4>1, <4>2, OrderTypes DEF OrderKept, Bit
    <3> QED
      BY <1>9, <3>2, <3>3
  <2> QED
    BY <1>3, <2>5, <2>6, <2>7, UnmovedIsKept DEF OrdersInv, OrdersKept
<1> QED
  BY <1>1, <1>7, <1>8, <1>9 DEF InKitchen

\* What moves an order from one place to another keeps it.
LEMMA MovedIsKept ==
  ASSUME NEW g \in Groups, OrderKept(g), groupAt'[g] = groupAt[g],
         unsent(g)' + Bit(BeingServed(g))' + tokensFor(g, foodArrived)'
           = unsent(g) + Bit(BeingServed(g)) + tokensFor(g, foodArrived),
         unsent(g)' + Bit(BeingHeard(g))' + tokensFor(g, requestReceived)'
           = unsent(g) + Bit(BeingHeard(g)) + tokensFor(g, requestReceived)
  PROVE  OrderKept(g)'
<1>1. /\ Bit(groupAt[g] \in Unfed)' = Bit(groupAt[g] \in Unfed)
      /\ Bit(groupAt[g] \in Unheard)' = Bit(groupAt[g] \in Unheard)
  BY DEF Bit, Unfed, Unheard
<1> QED
  BY <1>1 DEF OrderKept

\* A group that the waiter works for waits for something to eat.
LEMMA WorksForUnfed ==
  ASSUME TypeOK, ReceptionInv, HandoverInv, OrdersInv,
         waiterAt \in Informed \cup Serving
  PROVE  /\ foodGroup \in Groups /\ outgoing.reqGroup = foodGroup
         /\ groupAt[foodGroup] \in Unfed
         /\ assignedTable[foodGroup] \in Tables
<1>1. foodOrder /\ foodGroup \in Groups
  BY DEF HandoverInv, BusyIsCurrent, OneOrderOut
<1>2. outgoing.reqGroup = foodGroup
  BY OrdersDiffer DEF HandoverInv, HandsFit
<1>3. groupAt[foodGroup] \in Unfed
  BY <1>1, OrderPlaces DEF BeingServed, OrdersInv
<1> QED
  BY <1>1, <1>2, <1>3, UnfedHasTable

\* A table is given away only when nothing is left on it.
LEMMA ReceptionistKeepsOrders ==
  ASSUME TypeOK, TypeOK', ReceptionInv, ReceptionInv', HandoverInv, OrdersInv,
         ReceptionistStep
  PROVE  OrdersInv'
<1>1. /\ UNCHANGED handsView
      /\ UNCHANGED <<waiterTable, requestReceived, foodArrived, groupAt>>
      /\ \A g : Filed(g)' <=> Filed(g)
  <2>1. /\ UNCHANGED handoverView
        /\ UNCHANGED <<requestReceived, foodArrived>> /\ UNCHANGED groupAt
    BY ReceptionistOutsideKitchen
  <2>2. UNCHANGED handsView /\ UNCHANGED waiterTable
    BY <2>1 DEF handsView, handoverView, waiterVars, queueVars, orderVars
  <2>3. sem'["waiterRequest"] = sem["waiterRequest"] /\ UNCHANGED waiterRequest
    BY <2>1, KitchenSemsSame DEF handoverView
  <2> QED
    BY <2>1, <2>2, <2>3 DEF Filed, FoodRequest
<1>2. RingDistinct'
  BY <1>1 DEF OrdersInv, RingDistinct, ringEntry, handsView
<1>3. \A g \in Groups : /\ unsent(g)' = unsent(g)
                        /\ BeingServed(g)' <=> BeingServed(g)
                        /\ BeingHeard(g)' <=> BeingHeard(g)
  BY <1>1, HandsSame
<1>4. ASSUME \A g \in Groups :
               /\ tokensFor(g, requestReceived)' = tokensFor(g, requestReceived)
               /\ tokensFor(g, foodArrived)' = tokensFor(g, foodArrived)
      PROVE  OrdersKept'
  <2>1. \A g \in Groups : OrderUnmoved(g)
    BY <1>1, <1>3, <1>4 DEF OrderUnmoved
  <2> QED
    BY <2>1, UnmovedIsKept DEF OrdersInv, OrdersKept
<1>5. ASSUME \A g \in Groups :
               groupAt[g] \in Unfed => assignedTable'[g] = assignedTable[g]
      PROVE  WaiterReads'
  <2> SUFFICES ASSUME waiterAt \in {"informGroup", "serveFood"}
               PROVE  /\ waiterTable' \in Tables
                      /\ waiterTable' = assignedTable'[outgoing'.reqGroup]
    BY <1>1 DEF WaiterReads, handsView
  <2>1. /\ outgoing.reqGroup \in Groups
        /\ assignedTable'[outgoing.reqGroup] = assignedTable[outgoing.reqGroup]
    BY <1>5, WorksForUnfed DEF Informed, Serving
  <2> QED
    BY <1>1, <2>1 DEF OrdersInv, WaiterReads, handsView
<1>6. /\ occupied = {assignedTable[g] : g \in Groups} \ {NoTable}
      /\ occupied' = {assignedTable'[g] : g \in Groups} \ {NoTable}
  BY DEF ReceptionInv, TablesConsistent
<1>7. CASE UNCHANGED assignedTable
  <2>1. FreeTablesBare'
    BY <1>1, <1>6, <1>7 DEF OrdersInv, FreeTablesBare
  <2>2. \A g \in Groups :
          /\ tokensFor(g, requestReceived)' = tokensFor(g, requestReceived)
          /\ tokensFor(g, foodArrived)' = tokensFor(g, foodArrived)
    BY <1>1, <1>7 DEF tokensFor
  <2> QED
    BY <1>2, <1>4, <1>5, <1>7, <2>1, <2>2 DEF OrdersInv
<1>8. CASE SeatGroup
  <2> DEFINE t == decideTableOrWait
  <2>1. /\ guest \in Groups /\ groupAt[guest] = "waitForTable"
        /\ assignedTable[guest] = NoTable
    BY <1>8, SeatsWaiting DEF HasTable
  <2>2. /\ t \in Tables \ occupied
        /\ assignedTable' = [assignedTable EXCEPT ![guest] = t]
        /\ occupied' = occupied \cup {t}
    BY <1>8, DecidesToSeat DEF SeatGroup, occupyTable, TypeOK
  <2> HIDE DEF t
  <2>3. requestReceived[t] = 0 /\ foodArrived[t] = 0 /\ t # NoTable
    BY <2>2, ConstantTypes DEF OrdersInv, FreeTablesBare, Tables, NoTable
  <2>4. /\ assignedTable'[guest] = t
        /\ \A g \in Groups \ {guest} : assignedTable'[g] = assignedTable[g]
    BY <2>1, <2>2, KitchenTypes
  <2>5. FreeTablesBare'
    BY <1>1, <2>2 DEF OrdersInv, FreeTablesBare
  <2>6. ASSUME NEW g \in Groups
        PROVE  /\ tokensFor(g, requestReceived)' = tokensFor(g, requestReceived)
               /\ tokensFor(g, foodArrived)' = tokensFor(g, foodArrived)
    <3>1. CASE g = guest
      BY <1>1, <2>1, <2>3, <2>4, <3>1 DEF tokensFor
    <3>2. CASE g # guest
      BY <1>1, <2>4, <3>2 DEF tokensFor
    <3> QED
      BY <3>1, <3>2
  <2>7. \A g \in Groups :
          groupAt[g] \in Unfed => assignedTable'[g] = assignedTable[g]
    BY <2>1, <2>4 DEF Unfed, Unheard
  <2> QED
    BY <1>2, <1>4, <1>5, <2>5, <2>6, <2>7 DEF OrdersInv
<1>9. CASE FreeTable
  <2> DEFINE t == assignedTable[guest]
  <2>1. /\ guest \in Groups /\ groupAt[guest] \in Leaving /\ t # NoTable
        /\ t \in Tables
    BY <1>9, FreesLeft, KitchenTypes DEF HasTable
  <2>2. /\ assignedTable' = [assignedTable EXCEPT ![guest] = NoTable]
        /\ occupied' = occupied \ {t}
    BY <1>9, <2>1 DEF FreeTable, vacateTable
  <2>3. requestReceived[t] = 0 /\ foodArrived[t] = 0
    <3>1. groupAt[guest] \notin Unfed
      BY <2>1 DEF Leaving, Unfed, Unheard
    <3> QED
      BY <2>1, <3>1, OrderPlaces DEF OrdersInv, tokensFor
  <2>4. /\ assignedTable'[guest] = NoTable
        /\ \A g \in Groups \ {guest} : assignedTable'[g] = assignedTable[g]
    BY <2>1, <2>2, KitchenTypes
  <2>5. FreeTablesBare'
    BY <1>1, <2>2, <2>3 DEF OrdersInv, FreeTablesBare
  <2>6. ASSUME NEW g \in Groups
        PROVE  /\ tokensFor(g, requestReceived)' = tokensFor(g, requestReceived)
               /\ tokensFor(g, foodArrived)' = tokensFor(g, foodArrived)
    <3>1. CASE g = guest
      BY <1>1, <2>1, <2>3, <2>4, <3>1 DEF tokensFor
    <3>2. CASE g # guest
      BY <1>1, <2>4, <3>2 DEF tokensFor
    <3> QED
      BY <3>1, <3>2
  <2>7. \A g \in Groups :
          groupAt[g] \in Unfed => assignedTable'[g] = assignedTable[g]
    BY <2>1, <2>4 DEF Leaving, Unfed, Unheard
  <2> QED
    BY <1>2, <1>4, <1>5, <2>5, <2>6, <2>7 DEF OrdersInv
<1> QED
  BY <1>7, <1>8, <1>9, TableChanges DEF Next

-----------------------------------------------------------------------------
(* Every order is in one place: steps of the waiter                         *)

LEMMA TokensSame ==
  ASSUME UNCHANGED <<requestReceived, foodArrived, assignedTable>>, NEW g
  PROVE  /\ tokensFor(g, requestReceived)' = tokensFor(g, requestReceived)
         /\ tokensFor(g, foodArrived)' = tokensFor(g, foodArrived)
BY DEF tokensFor

LEMMA SavingKeepsOrders ==
  ASSUME TypeOK, ReceptionInv, HandoverInv, OrdersInv, WaiterSavesState,
         UNCHANGED waiterLeaves
  PROVE  OrdersInv'
<1>1. /\ sem'["waiterRequest"] = sem["waiterRequest"]
      /\ UNCHANGED <<incoming, outgoing, queue, qlength, qreadNext, foodOrder,
                     foodGroup, waiterRequest, groupAt, requestReceived,
                     foodArrived, assignedTable, occupied>>
  BY KitchenSemsSame DEF WaiterSavesState, waiterLeaves, queueVars, orderVars,
     kitchenTokens
<1>2. /\ waiterAt' \in {"informChef", "informingChef"} <=>
           waiterAt \in {"informChef", "informingChef"}
      /\ waiterAt' \notin Informed /\ waiterAt \notin Informed
      /\ waiterAt' # "informGroup"
      /\ waiterAt' = "serveFood" =>
           /\ waiterAt \in Serving
           /\ waiterTable' = assignedTable[outgoing.reqGroup]
  BY DEF WaiterSavesState, Informed, Serving
<1>3. ASSUME NEW g \in Groups PROVE OrderUnmoved(g)
  <2>1. (Filed(g)' <=> Filed(g)) /\ (Queued(g)' <=> Queued(g))
    BY <1>1 DEF Filed, Queued, ringEntry, FoodRequest
  <2>2. unsent(g)' = unsent(g)
    BY <1>1, <1>2, <2>1 DEF unsent, Bit, FoodRequest
  <2> QED
    BY <1>1, <1>2, <2>2, TokensSame DEF OrderUnmoved, BeingServed, BeingHeard
<1>4. WaiterReads'
  BY <1>1, <1>2, WorksForUnfed DEF WaiterReads
<1>5. RingDistinct' /\ FreeTablesBare'
  BY <1>1 DEF OrdersInv, RingDistinct, FreeTablesBare, ringEntry
<1> QED
  BY <1>3, <1>4, <1>5, UnmovedIsKept DEF OrdersInv, OrdersKept

\* The ring of orders is a queue: an order leaves it at the front and comes in
\* at the back.
LEMMA RingLosesFirst ==
  ASSUME TypeOK, TakeQueued
  PROVE  /\ qlength \in Nat /\ qlength > 0 /\ qlength' = qlength - 1
         /\ 0 \in 0 .. qlength - 1 /\ outgoing' = ringEntry(0)
         /\ \A i \in 0 .. qlength' - 1 :
              /\ i + 1 \in 0 .. qlength - 1
              /\ queue'[(qreadNext' + i) % NUMTABLES] = ringEntry(i + 1)
<1>1. /\ qlength > 0 /\ outgoing' = queue[qreadNext] /\ queue' = queue
      /\ qreadNext' = (qreadNext + 1) % NUMTABLES /\ qlength' = qlength - 1
  BY DEF TakeQueued, mayServeQueue
<1>2. /\ qreadNext \in 0 .. NUMTABLES - 1 /\ qreadNext + 1 \in Nat
      /\ qlength \in Nat /\ NUMTABLES \in Nat \ {0}
  BY ConstantTypes DEF TypeOK, WaiterTypeOK, Tables
<1>3. 0 \in 0 .. qlength - 1 /\ outgoing' = ringEntry(0)
  <2>1. (qreadNext + 0) % NUMTABLES = qreadNext
    BY <1>2, ModUnique
  <2> QED
    BY <1>1, <1>2, <2>1 DEF ringEntry
<1>4. ASSUME NEW i \in 0 .. qlength' - 1
      PROVE  /\ i + 1 \in 0 .. qlength - 1
             /\ queue'[(qreadNext' + i) % NUMTABLES] = ringEntry(i + 1)
  <2>1. i + 1 \in 0 .. qlength - 1 /\ i \in Nat
    BY <1>1, <1>2
  <2>2. (((qreadNext + 1) % NUMTABLES) + i) % NUMTABLES
          = (qreadNext + 1 + i) % NUMTABLES
    BY <1>2, <2>1, ModPlus
  <2>3. qreadNext + 1 + i = qreadNext + (i + 1)
    BY <1>2, <2>1
  <2> QED
    BY <1>1, <2>1, <2>2, <2>3 DEF ringEntry
<1> QED
  BY <1>1, <1>2, <1>3, <1>4

LEMMA RingGainsLast ==
  ASSUME TypeInv, enqueueIncoming, qlength < NUMTABLES
  PROVE  /\ qlength \in Nat /\ qlength' = qlength + 1
         /\ queue'[(qreadNext' + qlength) % NUMTABLES] = incoming
         /\ \A i \in 0 .. qlength - 1 :
              queue'[(qreadNext' + i) % NUMTABLES] = ringEntry(i)
<1>1. /\ queue' = [queue EXCEPT ![qwriteNext] = incoming]
      /\ qlength' = qlength + 1 /\ qreadNext' = qreadNext
  BY DEF enqueueIncoming
<1>2. /\ qwriteNext = (qreadNext + qlength) % NUMTABLES /\ qwriteNext \in Tables
      /\ qlength \in Nat /\ queue \in [Tables -> Request \cup {NoRequest}]
      /\ qreadNext \in 0 .. NUMTABLES - 1 /\ NUMTABLES \in Nat \ {0}
  BY ConstantTypes DEF TypeInv, RingHolds, TypeOK, WaiterTypeOK, Tables
<1>3. queue'[(qreadNext' + qlength) % NUMTABLES] = incoming
  BY <1>1, <1>2
<1>4. ASSUME NEW i \in 0 .. qlength - 1
      PROVE  queue'[(qreadNext' + i) % NUMTABLES] = ringEntry(i)
  <2> DEFINE p == (qreadNext + i) % NUMTABLES
  <2>1. p \in Tables
    <3>1. qreadNext + i \in Nat
      BY <1>2
    <3> QED
      BY <1>2, <3>1 DEF Tables
  <2>2. p # qwriteNext
    BY <1>2, ModApart
  <2> HIDE DEF p
  <2>3. queue'[p] = queue[p]
    BY <1>1, <1>2, <2>1, <2>2
  <2> QED
    BY <1>1, <2>3 DEF ringEntry, p
<1> QED
  BY <1>1, <1>2, <1>3, <1>4

\* The first order of the ring goes into the waiter's hands.
LEMMA TakeQueuedKeepsOrders ==
  ASSUME TypeInv, HandoverInv, OrdersInv, TakeQueued, UNCHANGED waiterLeaves
  PROVE  OrdersInv'
<1>1. /\ qlength > 0 /\ waiterAt = "poll" /\ waiterAt' = "informChef"
      /\ outgoing' = queue[qreadNext]
      /\ qreadNext' = (qreadNext + 1) % NUMTABLES /\ qlength' = qlength - 1
      /\ UNCHANGED <<queue, incoming, foodOrder, foodGroup, sem, waiterRequest,
                     groupAt, requestReceived, foodArrived, assignedTable,
                     occupied>>
  BY DEF TakeQueued, mayServeQueue, waiterGoesTo, orderVars, semVars,
     waiterLeaves
<1>2. qlength \in Nat
  BY RingLosesFirst DEF TypeInv
<1>3. 0 \in 0 .. qlength - 1 /\ outgoing' = ringEntry(0)
  BY RingLosesFirst DEF TypeInv
<1>4. \A i \in 0 .. qlength' - 1 :
        /\ i + 1 \in 0 .. qlength - 1
        /\ queue'[(qreadNext' + i) % NUMTABLES] = ringEntry(i + 1)
  BY RingLosesFirst DEF TypeInv
<1>5. PICK g0 \in Groups : outgoing' = FoodRequest(g0)
  BY <1>3 DEF HandoverInv, RingFits
<1>6. ASSUME NEW g \in Groups PROVE Queued(g) <=> Queued(g)' \/ g = g0
  <2>1. Queued(g)' =>
          \E i \in 1 .. qlength - 1 : ringEntry(i) = FoodRequest(g)
    <3>1. Queued(g)' => \E i \in 0 .. qlength' - 1 :
                          queue'[(qreadNext' + i) % NUMTABLES] = FoodRequest(g)
      BY DEF Queued, ringEntry, FoodRequest
    <3>2. \A i \in 0 .. qlength' - 1 : i + 1 \in 1 .. qlength - 1
      BY <1>1, <1>2
    <3> QED
      BY <1>4, <3>1, <3>2
  <2>2. ASSUME NEW i \in 1 .. qlength - 1, ringEntry(i) = FoodRequest(g)
        PROVE  Queued(g)'
    <3>1. i - 1 \in 0 .. qlength' - 1 /\ (i - 1) + 1 = i
      BY <1>1, <1>2
    <3>2. queue'[(qreadNext' + (i - 1)) % NUMTABLES] = FoodRequest(g)
      BY <1>4, <2>2, <3>1
    <3>3. Queued(g)' <=> \E j \in 0 .. qlength' - 1 :
                           queue'[(qreadNext' + j) % NUMTABLES] = FoodRequest(g)
      BY DEF Queued, ringEntry, FoodRequest
    <3> QED
      BY <3>1, <3>2, <3>3
  <2>3. Queued(g) <=> \/ \E i \in 1 .. qlength - 1 : ringEntry(i) = FoodRequest(g)
                      \/ g = g0
    <3>1. \A i \in 0 .. qlength - 1 : i = 0 \/ i \in 1 .. qlength - 1
      BY <1>2
    <3>2. \A i \in 1 .. qlength - 1 : i \in 0 .. qlength - 1
      BY <1>2
    <3>3. ringEntry(0) = FoodRequest(g) <=> g = g0
      BY <1>3, <1>5, OrdersDiffer
    <3> QED
      BY <1>3, <3>1, <3>2, <3>3 DEF Queued
  <2> QED
    BY <2>1, <2>2, <2>3
<1>7. ~Queued(g0)'
  <2> SUFFICES ASSUME NEW i \in 0 .. qlength' - 1,
                      queue'[(qreadNext' + i) % NUMTABLES] = FoodRequest(g0)
               PROVE  FALSE
    BY DEF Queued, ringEntry, FoodRequest
  <2>1. i + 1 \in 0 .. qlength - 1 /\ ringEntry(i + 1) = ringEntry(0)
    BY <1>3, <1>4, <1>5
  <2>2. i + 1 = 0
    BY <1>3, <2>1 DEF OrdersInv, RingDistinct
  <2> QED
    BY <1>1, <1>2, <2>2
<1>8. ASSUME NEW g \in Groups PROVE OrderUnmoved(g)
  <2>1. Filed(g)' <=> Filed(g)
    BY <1>1 DEF Filed, FoodRequest
  <2>2. outgoing' = FoodRequest(g) <=> g = g0
    BY <1>5, OrdersDiffer
  <2>3. unsent(g)' = unsent(g)
    <3>1. unsent(g)' = Bit(Filed(g)) + Bit(incoming = FoodRequest(g))
                         + Bit(Queued(g)') + Bit(g = g0)
      BY <1>1, <2>1, <2>2 DEF unsent, Bit, FoodRequest
    <3>2. unsent(g) = Bit(Filed(g)) + Bit(incoming = FoodRequest(g))
                        + Bit(Queued(g)) + 0
      BY <1>1 DEF unsent, Bit
    <3>3. Bit(Queued(g)') + Bit(g = g0) = Bit(Queued(g))
      BY <1>6, <1>7 DEF Bit
    <3> QED
      BY <3>1, <3>2, <3>3 DEF Bit
  <2>4. BeingServed(g)' <=> BeingServed(g)
    BY <1>1 DEF BeingServed
  <2>5. ~BeingHeard(g) /\ ~BeingHeard(g)'
    BY <1>1 DEF BeingHeard, Informed
  <2> QED
    BY <1>1, <2>3, <2>4, <2>5, TokensSame DEF OrderUnmoved
<1>9. RingDistinct'
  <2> SUFFICES ASSUME NEW i \in 0 .. qlength' - 1, NEW j \in 0 .. qlength' - 1,
                      queue'[(qreadNext' + i) % NUMTABLES]
                        = queue'[(qreadNext' + j) % NUMTABLES]
               PROVE  i = j
    BY DEF RingDistinct, ringEntry
  <2>1. i + 1 = j + 1
    BY <1>4 DEF OrdersInv, RingDistinct
  <2> QED
    BY <1>1, <1>2, <2>1
<1>10. FreeTablesBare' /\ WaiterReads'
  BY <1>1 DEF OrdersInv, FreeTablesBare, WaiterReads
<1> QED
  BY <1>8, <1>9, <1>10, UnmovedIsKept DEF OrdersInv, OrdersKept

\* What is in the slot goes into the waiter's hands, and the slot is empty.
LEMMA TakingKeepsOrders ==
  ASSUME TypeOK, RequestSlotsExclusive, HandoverInv, OrdersInv, TakeRequest,
         UNCHANGED waiterLeaves
  PROVE  OrdersInv'
<1>1. /\ waiterAt \in {"poll", "takeRequest"} /\ waiterAt' = "readRequest"
      /\ sem["waiterRequest"] > 0
      /\ sem'["waiterRequest"] = sem["waiterRequest"] - 1
      /\ incoming' = waiterRequest
      /\ UNCHANGED <<outgoing, queue, qlength, qreadNext, foodOrder, foodGroup,
                     waiterRequest, groupAt, requestReceived, foodArrived,
                     assignedTable, occupied>>
  BY KitchenTypes, DownMoves DEF TakeRequest, semDown, waiterLeaves, queueVars,
     orderVars, SemNames
<1>2. sem'["waiterRequest"] = 0 /\ \A g \in Groups : groupAt[g] # "postFoodRequest"
  <2>1. waiterToken = 1
    BY DEF RequestSlotsExclusive, waiterToken
  <2> QED
    BY <1>1, <2>1, WaiterSlotHolder DEF PostingToWaiter, at
<1>3. ASSUME NEW g \in Groups PROVE OrderUnmoved(g)
  <2>1. ~Filed(g)' /\ (Filed(g) <=> waiterRequest = FoodRequest(g))
    BY <1>1, <1>2, FiledSlot DEF Filed
  <2>2. Queued(g)' <=> Queued(g)
    BY <1>1 DEF Queued, ringEntry, FoodRequest
  <2>3. incoming # FoodRequest(g)
    BY <1>1, OrdersDiffer DEF HandoverInv, HandsFit
  <2>4. unsent(g)' = unsent(g)
    BY <1>1, <2>1, <2>2, <2>3 DEF unsent, Bit, FoodRequest
  <2> QED
    BY <1>1, <2>4, TokensSame DEF OrderUnmoved, BeingServed, BeingHeard, Informed
<1>4. RingDistinct' /\ FreeTablesBare' /\ WaiterReads'
  BY <1>1 DEF OrdersInv, RingDistinct, FreeTablesBare, WaiterReads, ringEntry
<1> QED
  BY <1>3, <1>4, UnmovedIsKept DEF OrdersInv, OrdersKept

\* Groups that wait for something to eat sit at different tables, so that there
\* are no more of them than tables.
LEMMA AtMostTables ==
  ASSUME TypeOK, ReceptionInv, NEW n \in Nat, NEW e \in [0 .. n - 1 -> Groups],
         \A i, j \in 0 .. n - 1 : e[i] = e[j] => i = j,
         \A i \in 0 .. n - 1 : groupAt[e[i]] \in Unfed
  PROVE  n <= NUMTABLES
<1> DEFINE I == 0 .. n - 1
           f == [i \in I |-> assignedTable[e[i]]]
<1>1. \A i \in I : f[i] \in Tables /\ f[i] # NoTable
  BY UnfedHasTable
<1>2. \A i, j \in I : f[i] = f[j] => i = j
  BY UnfedHasTable DEF ReceptionInv, TablesConsistent
<1>3. IsFiniteSet(I) /\ Cardinality(I) = n
  BY FS_Interval
<1> HIDE DEF f, I
<1>4. f \in [I -> Tables]
  BY <1>1 DEF f
<1>5. f \in Injection(I, Tables)
  BY <1>2, <1>4 DEF Injection, IsInjective
<1> QED
  BY <1>3, <1>5, FS_Injection, TablesCount

\* There is a place in the ring for every order: no check of its length is
\* needed.
LEMMA RingHasRoom ==
  ASSUME TypeOK, ReceptionInv, HandoverInv, OrdersInv
  PROVE  /\ qlength <= NUMTABLES
         /\ \A g \in Groups : incoming = FoodRequest(g) => qlength < NUMTABLES
<1> DEFINE inRing == [i \in 0 .. qlength - 1 |-> ringEntry(i).reqGroup]
<1>1. qlength \in Nat
  BY DEF TypeOK, WaiterTypeOK
<1>2. ASSUME NEW i \in 0 .. qlength - 1
      PROVE  /\ inRing[i] \in Groups /\ groupAt[inRing[i]] \in Unfed
             /\ ringEntry(i) = FoodRequest(inRing[i])
  <2>1. PICK g \in Groups : ringEntry(i) = FoodRequest(g)
    BY DEF HandoverInv, RingFits
  <2>2. inRing[i] = g
    BY <2>1, OrdersDiffer
  <2>3. groupAt[g] \in Unheard
    BY <2>1, OrderPlaces DEF OrdersInv, Queued
  <2> QED
    BY <2>1, <2>2, <2>3 DEF Unfed
<1>3. \A i, j \in 0 .. qlength - 1 : inRing[i] = inRing[j] => i = j
  BY <1>2 DEF OrdersInv, RingDistinct
<1> HIDE DEF inRing
<1>4. inRing \in [0 .. qlength - 1 -> Groups]
  BY <1>2 DEF inRing
<1>5. qlength <= NUMTABLES
  BY <1>1, <1>2, <1>3, <1>4, AtMostTables
<1>6. ASSUME NEW g \in Groups, incoming = FoodRequest(g)
      PROVE  qlength < NUMTABLES
  <2> DEFINE n == qlength + 1
             e == [i \in 0 .. n - 1 |-> IF i = qlength THEN g ELSE inRing[i]]
  <2>1. n \in Nat
    BY <1>1
  <2>2. groupAt[g] \in Unfed /\ ~Queued(g)
    BY <1>6, OrderPlaces DEF OrdersInv, Unfed
  <2>3. \A i \in 0 .. n - 1 : i = qlength \/ i \in 0 .. qlength - 1
    BY <1>1
  <2>4. \A i \in 0 .. n - 1 : e[i] \in Groups /\ groupAt[e[i]] \in Unfed
    BY <1>2, <2>2, <2>3
  <2>5. \A i \in 0 .. qlength - 1 : inRing[i] # g
    BY <1>2, <2>2 DEF Queued
  <2>6. \A i, j \in 0 .. n - 1 : e[i] = e[j] => i = j
    BY <1>3, <2>3, <2>5
  <2> HIDE DEF e, n
  <2>7. e \in [0 .. n - 1 -> Groups]
    BY <2>4 DEF e
  <2>8. n <= NUMTABLES
    BY <2>1, <2>4, <2>6, <2>7, AtMostTables
  <2> QED
    BY <1>1, <2>8, ConstantTypes DEF n
<1> QED
  BY <1>5, <1>6

\* An order goes to the end of the ring, behind those that are there.
LEMMA ReadingKeepsOrders ==
  ASSUME TypeInv, TypeOK, ReceptionInv, HandoverInv, OrdersInv, ReadRequest,
         UNCHANGED waiterLeaves
  PROVE  OrdersInv'
<1>1. /\ waiterAt = "readRequest" /\ incoming' = NoRequest
      /\ sem'["waiterRequest"] = sem["waiterRequest"]
      /\ UNCHANGED <<foodOrder, foodGroup, waiterRequest, groupAt,
                     requestReceived, foodArrived, assignedTable, occupied>>
  BY KitchenTypes, UpMoves DEF ReadRequest, semUp, waiterLeaves, orderVars,
     SemNames
<1>2. \A g \in Groups : /\ Filed(g)' <=> Filed(g)
                        /\ incoming' # FoodRequest(g)
                        /\ BeingServed(g)' <=> BeingServed(g)
                        /\ ~BeingHeard(g)
  BY <1>1, OrdersDiffer DEF Filed, FoodRequest, BeingServed, BeingHeard, Informed
<1>3. FreeTablesBare'
  BY <1>1 DEF OrdersInv, FreeTablesBare
<1>4. CASE \E g \in Groups : incoming = FoodRequest(g)
  <2>1. PICK g0 \in Groups : incoming = FoodRequest(g0)
    BY <1>4
  <2>2. enqueueIncoming
    BY <2>1, OrdersDiffer DEF ReadRequest
  <2>3. /\ waiterAt' = "poll"
        /\ qlength' = qlength + 1 /\ qlength \in Nat
    BY <2>1, <2>2, RingHasRoom, RingGainsLast DEF enqueueIncoming
  <2>4. qlength < NUMTABLES
    BY <2>1, RingHasRoom
  <2> DEFINE entry(i) == queue'[(qreadNext' + i) % NUMTABLES]
  <2>5. entry(qlength) = FoodRequest(g0)
    BY <2>1, <2>2, <2>4, RingGainsLast
  <2>6. \A i \in 0 .. qlength - 1 : entry(i) = ringEntry(i)
    BY <2>2, <2>4, RingGainsLast
  <2> HIDE DEF entry
  <2>7. \A i \in 0 .. qlength' - 1 : i = qlength \/ i \in 0 .. qlength - 1
    BY <2>3, <2>4
  <2>8. \A i \in 0 .. qlength - 1 : i \in 0 .. qlength' - 1
    BY <2>3, <2>4
  <2>9. qlength \in 0 .. qlength' - 1
    BY <2>3, <2>4
  <2>10. ~Queued(g0)
    BY <2>1, OrderPlaces DEF OrdersInv
  <2>11. ASSUME NEW g \in Groups PROVE Queued(g)' <=> Queued(g) \/ g = g0
    <3>1. Queued(g)' <=> \E i \in 0 .. qlength' - 1 : entry(i) = FoodRequest(g)
      BY DEF Queued, ringEntry, FoodRequest, entry
    <3>2. entry(qlength) = FoodRequest(g) <=> g = g0
      BY <2>5, OrdersDiffer
    <3> QED
      BY <2>6, <2>7, <2>8, <2>9, <3>1, <3>2 DEF Queued
  <2>12. ASSUME NEW g \in Groups PROVE OrderUnmoved(g)
    <3>1. incoming = FoodRequest(g) <=> g = g0
      BY <2>1, OrdersDiffer
    <3>2. unsent(g)' = Bit(Filed(g)) + 0 + Bit(Queued(g)') + 0
      BY <1>1, <1>2, <2>3 DEF unsent, Bit, FoodRequest
    <3>3. unsent(g) = Bit(Filed(g)) + Bit(g = g0) + Bit(Queued(g)) + 0
      BY <1>1, <3>1 DEF unsent, Bit
    <3>4. Bit(Queued(g)') = Bit(g = g0) + Bit(Queued(g))
      BY <2>10, <2>11 DEF Bit
    <3>5. unsent(g)' = unsent(g)
      BY <3>2, <3>3, <3>4 DEF Bit
    <3>6. ~BeingHeard(g)'
      BY <2>3 DEF BeingHeard, Informed
    <3> QED
      BY <1>1, <1>2, <3>5, <3>6, TokensSame DEF OrderUnmoved
  <2>13. RingDistinct'
    <3> SUFFICES ASSUME NEW i \in 0 .. qlength' - 1, NEW j \in 0 .. qlength' - 1,
                        entry(i) = entry(j)
                 PROVE  i = j
      BY DEF RingDistinct, ringEntry, entry
    <3>1. \A k \in 0 .. qlength - 1 : ringEntry(k) # FoodRequest(g0)
      BY <2>10 DEF Queued
    <3> QED
      BY <2>5, <2>6, <2>7, <3>1 DEF OrdersInv, RingDistinct
  <2> QED
    BY <1>3, <2>3, <2>12, <2>13, UnmovedIsKept DEF OrdersInv, OrdersKept,
       WaiterReads
<1>5. CASE incoming = Meal(foodGroup)
  <2>1. /\ waiterAt' = "takeFoodToTable"
        /\ UNCHANGED <<queue, qlength, qreadNext>>
    BY <1>5, OrdersDiffer DEF ReadRequest, queueVars
  <2>2. ASSUME NEW g \in Groups PROVE OrderUnmoved(g)
    <3>1. incoming # FoodRequest(g)
      BY <1>5, OrdersDiffer
    <3>2. Queued(g)' <=> Queued(g)
      BY <2>1 DEF Queued, ringEntry, FoodRequest
    <3>3. unsent(g)' = unsent(g)
      BY <1>1, <1>2, <2>1, <3>1, <3>2 DEF unsent, Bit, FoodRequest
    <3>4. ~BeingHeard(g)'
      BY <2>1 DEF BeingHeard, Informed
    <3> QED
      BY <1>1, <1>2, <3>3, <3>4, TokensSame DEF OrderUnmoved
  <2>3. RingDistinct' /\ WaiterReads'
    BY <2>1 DEF OrdersInv, RingDistinct, ringEntry, WaiterReads
  <2> QED
    BY <1>3, <2>2, <2>3, UnmovedIsKept DEF OrdersInv, OrdersKept
<1> QED
  BY <1>1, <1>4, <1>5 DEF HandoverInv, HandsFit

\* The order is announced to the chef, and is still to be acknowledged.
LEMMA InformingKeepsOrders ==
  ASSUME TypeOK, HandoverInv, OrdersInv, InformSave, UNCHANGED waiterLeaves
  PROVE  OrdersInv'
<1>1. /\ waiterAt = "informingChef" /\ waiterAt' = "postOrder"
      /\ foodGroup' = outgoing.reqGroup /\ foodOrder'
      /\ sem'["waiterRequest"] = sem["waiterRequest"]
      /\ UNCHANGED <<incoming, outgoing, queue, qlength, qreadNext,
                     waiterRequest, groupAt, requestReceived, foodArrived,
                     assignedTable, occupied>>
  BY KitchenTypes, UpMoves DEF InformSave, semUp, waiterGoesTo, waiterSame,
     queueVars, waiterLeaves, SemNames
<1>2. PICK g0 \in Groups : outgoing = FoodRequest(g0)
  BY <1>1 DEF HandoverInv, HandsFit, Informing
<1>3. ~foodOrder /\ foodGroup' = g0
  BY <1>1, <1>2, OrdersDiffer DEF HandoverInv, BusyIsCurrent
<1>4. ASSUME NEW g \in Groups PROVE OrderKept(g)'
  <2>1. outgoing = FoodRequest(g) <=> g = g0
    BY <1>2, OrdersDiffer
  <2>2. (Filed(g)' <=> Filed(g)) /\ (Queued(g)' <=> Queued(g))
    BY <1>1 DEF Filed, Queued, ringEntry, FoodRequest
  <2>3. unsent(g) = unsent(g)' + Bit(g = g0)
    <3>1. unsent(g)' = Bit(Filed(g)) + Bit(incoming = FoodRequest(g))
                         + Bit(Queued(g)) + 0
      BY <1>1, <2>2 DEF unsent, Bit, FoodRequest
    <3>2. unsent(g) = Bit(Filed(g)) + Bit(incoming = FoodRequest(g))
                        + Bit(Queued(g)) + Bit(g = g0)
      BY <1>1, <2>1 DEF unsent, Bit
    <3> QED
      BY <3>1, <3>2 DEF Bit
  <2>4. Bit(BeingServed(g))' = Bit(g = g0) /\ Bit(BeingServed(g)) = 0
    BY <1>1, <1>3 DEF BeingServed, Bit
  <2>5. Bit(BeingHeard(g))' = Bit(g = g0) /\ Bit(BeingHeard(g)) = 0
    BY <1>1, <2>1 DEF BeingHeard, Bit, Informed, FoodRequest
  <2>6. unsent(g) \in Nat /\ unsent(g)' \in Nat /\ OrderKept(g)
        /\ tokensFor(g, requestReceived) \in Nat
        /\ tokensFor(g, foodArrived) \in Nat
    BY <2>2, OrderTypes DEF OrdersInv, OrdersKept, unsent, Bit
  <2>7. Bit(g = g0) \in Nat
    BY DEF Bit
  <2> QED
    BY <1>1, <2>3, <2>4, <2>5, <2>6, <2>7, TokensSame, MovedIsKept
<1>5. RingDistinct' /\ FreeTablesBare' /\ WaiterReads'
  BY <1>1 DEF OrdersInv, RingDistinct, FreeTablesBare, WaiterReads, ringEntry
<1> QED
  BY <1>4, <1>5 DEF OrdersInv, OrdersKept

\* The waiter posts the order, and hears from the chef that it has it.
LEMMA HandingOverKeepsOrders ==
  ASSUME TypeOK, ReceptionInv, HandoverInv, OrdersInv, PostOrder \/ WaitForChef,
         UNCHANGED waiterLeaves
  PROVE  OrdersInv'
<1>1. /\ waiterAt \in {"postOrder", "waitForChef"}
      /\ waiterAt' \in {"waitForChef", "informGroup"}
      /\ waiterAt' = "informGroup" =>
           waiterTable' = assignedTable[outgoing.reqGroup]
      /\ sem'["waiterRequest"] = sem["waiterRequest"]
      /\ UNCHANGED <<incoming, outgoing, queue, qlength, qreadNext, foodOrder,
                     foodGroup, waiterRequest, groupAt, requestReceived,
                     foodArrived, assignedTable, occupied>>
  BY KitchenTypes, UpMoves, DownMoves DEF PostOrder, WaitForChef, semUp, semDown,
     waiterGoesTo, waiterSame, queueVars, orderVars, waiterLeaves, SemNames
<1>2. ASSUME NEW g \in Groups PROVE OrderUnmoved(g)
  <2>1. (Filed(g)' <=> Filed(g)) /\ (Queued(g)' <=> Queued(g))
    BY <1>1 DEF Filed, Queued, ringEntry, FoodRequest
  <2>2. unsent(g)' = unsent(g)
    BY <1>1, <2>1 DEF unsent, Bit, FoodRequest
  <2>3. BeingHeard(g)' <=> BeingHeard(g)
    BY <1>1 DEF BeingHeard, Informed, FoodRequest
  <2> QED
    BY <1>1, <2>2, <2>3, TokensSame DEF OrderUnmoved, BeingServed
<1>3. WaiterReads'
  BY <1>1, WorksForUnfed DEF WaiterReads, Informed
<1>4. RingDistinct' /\ FreeTablesBare'
  BY <1>1 DEF OrdersInv, RingDistinct, FreeTablesBare, ringEntry
<1> QED
  BY <1>2, <1>3, <1>4, UnmovedIsKept DEF OrdersInv, OrdersKept

\* A token on the table that the waiter has read is one for its group alone.
LEMMA TokenForOne ==
  ASSUME TypeOK, ReceptionInv, HandoverInv, OrdersInv,
         waiterAt \in {"informGroup", "serveFood"},
         NEW f \in [Tables -> Nat], UNCHANGED assignedTable,
         NEW h \in [Tables -> Nat], h = [f EXCEPT ![waiterTable] = @ + 1]
  PROVE  /\ waiterTable \in occupied
         /\ \A t \in Tables \ occupied : h[t] = f[t]
         /\ \A g \in Groups :
              (IF assignedTable'[g] = NoTable THEN 0 ELSE h[assignedTable'[g]])
                = tokensFor(g, f) + Bit(g = foodGroup)
<1>1. /\ foodGroup \in Groups /\ waiterTable \in Tables
      /\ waiterTable = assignedTable[foodGroup]
      /\ assignedTable \in [Groups -> Tables \cup {NoTable}]
      /\ TablesConsistent /\ waiterTable # NoTable
  <2>1. foodGroup \in Groups /\ outgoing.reqGroup = foodGroup
    BY WorksForUnfed DEF Informed, Serving
  <2>2. waiterTable \in Tables /\ waiterTable = assignedTable[foodGroup]
    BY <2>1 DEF OrdersInv, WaiterReads
  <2>3. waiterTable # NoTable
    BY <2>2, ConstantTypes DEF Tables, NoTable
  <2> QED
    BY <2>1, <2>2, <2>3, KitchenTypes DEF ReceptionInv
<1>2. waiterTable \in occupied
  BY <1>1 DEF TablesConsistent
<1>3. h[waiterTable] = f[waiterTable] + 1
      /\ \A t \in Tables \ {waiterTable} : h[t] = f[t]
  BY <1>1
<1>4. \A g \in Groups : f[assignedTable[g]] \in Nat \/ assignedTable[g] = NoTable
  BY <1>1
<1>5. ASSUME NEW g \in Groups
      PROVE  (IF assignedTable'[g] = NoTable THEN 0 ELSE h[assignedTable'[g]])
               = tokensFor(g, f) + Bit(g = foodGroup)
  <2>1. CASE g = foodGroup
    BY <1>1, <1>3, <2>1 DEF tokensFor, Bit
  <2>2. CASE g # foodGroup
    <3>1. assignedTable[g] = NoTable \/ assignedTable[g] \in Tables \ {waiterTable}
      BY <1>1, <2>2 DEF TablesConsistent
    <3> QED
      BY <1>3, <1>4, <2>2, <3>1 DEF tokensFor, Bit
  <2> QED
    BY <2>1, <2>2
<1> QED
  BY <1>2, <1>3, <1>5

LEMMA TellingKeepsOrders ==
  ASSUME TypeOK, TypeOK', ReceptionInv, HandoverInv, OrdersInv, InformGroup,
         UNCHANGED waiterLeaves
  PROVE  OrdersInv'
<1>1. /\ waiterAt = "informGroup" /\ waiterAt' \in {"poll", "exit"}
      /\ requestReceived' = [requestReceived EXCEPT ![waiterTable] = @ + 1]
      /\ UNCHANGED <<incoming, queue, qlength, qreadNext, sem, foodArrived,
                     foodOrder, foodGroup, waiterRequest, groupAt,
                     assignedTable, occupied>>
  BY DEF InformGroup, handled, queueVars, orderVars, waiterLeaves
<1>2. outgoing = FoodRequest(foodGroup)
  BY <1>1 DEF HandoverInv, HandsFit, Informed
<1>3. /\ requestReceived \in [Tables -> Nat] /\ requestReceived' \in [Tables -> Nat]
  BY KitchenTypes DEF TypeOK, SharedTypeOK, SemTypeOK
<1>4. /\ waiterTable \in occupied
      /\ \A t \in Tables \ occupied : requestReceived'[t] = requestReceived[t]
      /\ \A g \in Groups : tokensFor(g, requestReceived)'
                             = tokensFor(g, requestReceived) + Bit(g = foodGroup)
  BY <1>1, <1>3, TokenForOne DEF tokensFor
<1>5. ASSUME NEW g \in Groups PROVE OrderKept(g)'
  <2>1. outgoing = FoodRequest(g) <=> g = foodGroup
    BY <1>2, OrdersDiffer
  <2>2. (Filed(g)' <=> Filed(g)) /\ (Queued(g)' <=> Queued(g))
    BY <1>1 DEF Filed, Queued, ringEntry, FoodRequest
  <2>3. unsent(g)' = unsent(g)
    BY <1>1, <2>2 DEF unsent, Bit, FoodRequest
  <2>4. Bit(BeingServed(g))' = Bit(BeingServed(g))
    BY <1>1 DEF BeingServed, Bit
  <2>5. Bit(BeingHeard(g))' = 0 /\ Bit(BeingHeard(g)) = Bit(g = foodGroup)
    BY <1>1, <2>1 DEF BeingHeard, Bit, Informed
  <2>6. unsent(g) \in Nat /\ OrderKept(g)
        /\ tokensFor(g, requestReceived) \in Nat
        /\ tokensFor(g, foodArrived)' = tokensFor(g, foodArrived)
    BY <1>1, OrderTypes DEF OrdersInv, OrdersKept, tokensFor
  <2>7. Bit(g = foodGroup) \in Nat
    BY DEF Bit
  <2>8. unsent(g)' + Bit(BeingServed(g))' + tokensFor(g, foodArrived)'
          = unsent(g) + Bit(BeingServed(g)) + tokensFor(g, foodArrived)
    BY <2>3, <2>4, <2>6
  <2>9. unsent(g)' + Bit(BeingHeard(g))' + tokensFor(g, requestReceived)'
          = unsent(g) + Bit(BeingHeard(g)) + tokensFor(g, requestReceived)
    BY <1>4, <2>3, <2>5, <2>6, <2>7
  <2> QED
    BY <1>1, <2>6, <2>8, <2>9, MovedIsKept
<1>6. RingDistinct' /\ FreeTablesBare' /\ WaiterReads'
  BY <1>1, <1>4 DEF OrdersInv, RingDistinct, FreeTablesBare, WaiterReads, ringEntry
<1> QED
  BY <1>5, <1>6 DEF OrdersInv, OrdersKept

LEMMA ServingKeepsOrders ==
  ASSUME TypeOK, TypeOK', ReceptionInv, HandoverInv, OrdersInv, ServeFood,
         UNCHANGED waiterLeaves
  PROVE  OrdersInv'
<1>1. /\ waiterAt = "serveFood" /\ waiterAt' \in {"poll", "exit"}
      /\ foodArrived' = [foodArrived EXCEPT ![waiterTable] = @ + 1]
      /\ ~foodOrder'
      /\ UNCHANGED <<incoming, queue, qlength, qreadNext, sem, requestReceived,
                     foodGroup, waiterRequest, groupAt, assignedTable, occupied>>
  BY DEF ServeFood, handled, queueVars, waiterLeaves
<1>2. foodOrder
  BY <1>1 DEF HandoverInv, BusyIsCurrent, Serving
<1>3. foodArrived \in [Tables -> Nat] /\ foodArrived' \in [Tables -> Nat]
  BY KitchenTypes DEF TypeOK, SharedTypeOK, SemTypeOK
<1>4. /\ waiterTable \in occupied
      /\ \A t \in Tables \ occupied : foodArrived'[t] = foodArrived[t]
      /\ \A g \in Groups : tokensFor(g, foodArrived)'
                             = tokensFor(g, foodArrived) + Bit(g = foodGroup)
  BY <1>1, <1>3, TokenForOne DEF tokensFor
<1>5. ASSUME NEW g \in Groups PROVE OrderKept(g)'
  <2>1. (Filed(g)' <=> Filed(g)) /\ (Queued(g)' <=> Queued(g))
    BY <1>1 DEF Filed, Queued, ringEntry, FoodRequest
  <2>2. unsent(g)' = unsent(g)
    BY <1>1, <2>1 DEF unsent, Bit, FoodRequest
  <2>3. Bit(BeingServed(g))' = 0 /\ Bit(BeingServed(g)) = Bit(g = foodGroup)
    BY <1>1, <1>2 DEF BeingServed, Bit
  <2>4. Bit(BeingHeard(g))' = 0 /\ Bit(BeingHeard(g)) = 0
    BY <1>1 DEF BeingHeard, Bit, Informed
  <2>5. unsent(g) \in Nat /\ OrderKept(g)
        /\ tokensFor(g, foodArrived) \in Nat
        /\ tokensFor(g, requestReceived)' = tokensFor(g, requestReceived)
    BY <1>1, OrderTypes DEF OrdersInv, OrdersKept, tokensFor
  <2>6. Bit(g = foodGroup) \in Nat
    BY DEF Bit
  <2>7. unsent(g)' + Bit(BeingServed(g))' + tokensFor(g, foodArrived)'
          = unsent(g) + Bit(BeingServed(g)) + tokensFor(g, foodArrived)
    BY <1>4, <2>2, <2>3, <2>5, <2>6
  <2>8. unsent(g)' + Bit(BeingHeard(g))' + tokensFor(g, requestReceived)'
          = unsent(g) + Bit(BeingHeard(g)) + tokensFor(g, requestReceived)
    BY <2>2, <2>4, <2>5
  <2> QED
    BY <1>1, <2>5, <2>7, <2>8, MovedIsKept
<1>6. RingDistinct' /\ FreeTablesBare' /\ WaiterReads'
  BY <1>1, <1>4 DEF OrdersInv, RingDistinct, FreeTablesBare, WaiterReads, ringEntry
<1> QED
  BY <1>5, <1>6 DEF OrdersInv, OrdersKept

-----------------------------------------------------------------------------
(* Every order is in one place: the chef, and all steps                     *)

\* What the groups have in the slot is not the chef's business.
LEMMA ChefFilesNothing ==
  ASSUME TypeOK, RequestSlotsExclusive, HandoverInv, ChefStep
  PROVE  /\ UNCHANGED <<requestReceived, foodArrived>>
         /\ \A g \in Groups : Filed(g)' <=> Filed(g)
<1>1. UNCHANGED groupAt
  BY ChefLeaves DEF chefLeaves
<1>2. CASE ChefSavesState \/ TakeOrder \/ AcknowledgeOrder
  <2>1. /\ sem'["waiterRequest"] = sem["waiterRequest"]
        /\ UNCHANGED <<waiterRequest, requestReceived, foodArrived>>
    BY <1>2, KitchenSemsSame, KitchenTypes, UpMoves, DownMoves
       DEF ChefSavesState, TakeOrder, AcknowledgeOrder, semUp, semDown,
       kitchenTokens, SemNames
  <2> QED
    BY <1>1, <2>1 DEF Filed, FoodRequest
<1>3. CASE FoodReady
  <2>1. /\ waiterRequest' = Meal(lastGroup) /\ sem["waiterRequestPossible"] > 0
        /\ UNCHANGED <<requestReceived, foodArrived>>
    BY <1>3 DEF FoodReady, semDown, Meal
  <2>2. \A g \in Groups : ~Filed(g)
    BY <2>1, FiledSlot
  <2> QED
    BY <1>1, <2>1, <2>2, OrdersDiffer DEF Filed, FoodRequest
<1>4. CASE PostFoodReady
  <2>1. /\ chefAt = "postFoodReady" /\ UNCHANGED waiterRequest
        /\ UNCHANGED <<requestReceived, foodArrived>>
    BY <1>4 DEF PostFoodReady, semUp
  <2>2. waiterRequest = Meal(foodGroup) /\ \A g \in Groups : ~Filed(g)
    BY <2>1, FiledSlot DEF HandoverInv, SlotFits
  <2> QED
    BY <1>1, <2>1, <2>2, OrdersDiffer DEF Filed, FoodRequest
<1> QED
  BY <1>2, <1>3, <1>4, ChefSteps

\* The chef puts nothing but meals into the slot, and only when it is free.
LEMMA ChefKeepsOrders ==
  ASSUME TypeOK, RequestSlotsExclusive, HandoverInv, OrdersInv, ChefStep
  PROVE  OrdersInv'
<1>1. /\ UNCHANGED handsView
      /\ UNCHANGED <<waiterTable, groupAt, assignedTable, occupied>>
  BY ChefLeaves DEF chefLeaves, handsView, waiterVars, queueVars
<1>2. /\ UNCHANGED <<requestReceived, foodArrived>>
      /\ \A g \in Groups : Filed(g)' <=> Filed(g)
  BY ChefFilesNothing
<1>3. \A g \in Groups : OrderUnmoved(g)
  BY <1>1, <1>2, HandsSame, TokensSame DEF OrderUnmoved
<1>4. RingDistinct' /\ FreeTablesBare' /\ WaiterReads'
  BY <1>1, <1>2 DEF OrdersInv, RingDistinct, FreeTablesBare, WaiterReads,
     ringEntry, handsView
<1> QED
  BY <1>3, <1>4, UnmovedIsKept DEF OrdersInv, OrdersKept

LEMMA OrdersStep ==
  TypeInv /\ RequestSlotsExclusive /\ ReceptionInv /\ CopyCurrent /\ HandoverInv
    /\ OrdersInv /\ [Next]_vars => OrdersInv'
<1> SUFFICES ASSUME TypeInv, TypeOK, TypeOK', RequestSlotsExclusive,
                    ReceptionInv, ReceptionInv', CopyCurrent, HandoverInv,
                    OrdersInv, [Next]_vars
             PROVE  OrdersInv'
  BY TypeStep, ReceptionStep DEF TypeInv
<1>1. ASSUME NEW g \in Groups, GroupStep(g) PROVE OrdersInv'
  BY <1>1, GroupKeepsOrders
<1>2. CASE ReceptionistStep
  BY <1>2, ReceptionistKeepsOrders
<1>3. CASE WaiterStep
  BY <1>3, WaiterSteps, WaiterLeaves, SavingKeepsOrders, TakeQueuedKeepsOrders,
     TakingKeepsOrders, ReadingKeepsOrders, InformingKeepsOrders,
     HandingOverKeepsOrders, TellingKeepsOrders, ServingKeepsOrders
<1>4. CASE ChefStep
  BY <1>4, ChefKeepsOrders
<1>5. CASE UNCHANGED vars
  <2>1. /\ UNCHANGED handsView /\ UNCHANGED sem /\ UNCHANGED waiterRequest
        /\ UNCHANGED <<waiterTable, groupAt, assignedTable, occupied,
                       requestReceived, foodArrived>>
    BY <1>5 DEF vars, sharedVars, tableVars, orderVars, requestVars, semVars,
       groupVars, waiterVars, queueVars, receptionistVars, recordVars, handsView
  <2>2. \A g \in Groups : Filed(g)' <=> Filed(g)
    BY <2>1 DEF Filed, FoodRequest
  <2>3. \A g \in Groups : OrderUnmoved(g)
    BY <2>1, <2>2, HandsSame, TokensSame DEF OrderUnmoved
  <2>4. RingDistinct' /\ FreeTablesBare' /\ WaiterReads'
    BY <2>1 DEF OrdersInv, RingDistinct, FreeTablesBare, WaiterReads, ringEntry,
       handsView
  <2> QED
    BY <2>3, <2>4, UnmovedIsKept DEF OrdersInv, OrdersKept
<1> QED
  BY <1>1, <1>2, <1>3, <1>4, <1>5 DEF Next, Terminated

LEMMA OrdersInvariant == Spec => []OrdersInv
<1> QED
  BY OrdersInit, OrdersStep, TypeInvariant, SlotsExclusive, ReceptionInvariant,
     GroupCopies, HandoverInvariant, PTL DEF Spec

-----------------------------------------------------------------------------
(* What follows from it                                                     *)

\* The waiter's ring never overflows, though nothing in the code checks it: the
\* groups that wait to hear of their orders sit at NUMTABLES different tables.
THEOREM RingNeverFull == Spec => []WaiterQueueFits
<1>1. TypeInv /\ ReceptionInv /\ HandoverInv /\ OrdersInv => WaiterQueueFits
  <2> SUFFICES ASSUME TypeInv, TypeOK, ReceptionInv, HandoverInv, OrdersInv
               PROVE  WaiterQueueFits
    BY DEF TypeInv
  <2>1. qlength \in Nat /\ qlength <= NUMTABLES
    BY RingHasRoom DEF TypeOK, WaiterTypeOK
  <2> QED
    BY <2>1, ConstantTypes DEF WaiterQueueFits, TypeInv, RingHolds
<1> QED
  BY <1>1, TypeInvariant, ReceptionInvariant, HandoverInvariant,
     OrdersInvariant, PTL

\* Until a group has posted its bill, its own copy of its table and the waiter's
\* are current whenever they are about to be used.
THEOREM TableCopies == Spec => []TableReadIsCurrent
<1>1. CopyCurrent /\ OrdersInv => TableReadIsCurrent
  BY DEF CopyCurrent, OrdersInv, WaiterReads, TableReadIsCurrent, UsesCopy
<1> QED
  BY <1>1, GroupCopies, OrdersInvariant, PTL

\* The ring has an entry for each order in it, and no other.
LEMMA OrderEntries ==
  ASSUME OrdersInv, NEW g \in Groups
  PROVE  queuedOrders(g) = Bit(Queued(g))
<1> DEFINE E == {i \in 0 .. qlength - 1 : ringEntry(i) = FoodRequest(g)}
<1>1. queuedOrders(g) = Cardinality(E)
  BY DEF queuedOrders, ringEntry, FoodRequest
<1>2. Queued(g) <=> E # {}
  BY DEF Queued
<1>3. \A i, j \in E : i = j
  BY DEF OrdersInv, RingDistinct
<1> HIDE DEF E
<1>4. CASE E = {}
  BY <1>1, <1>2, <1>4, FS_EmptySet DEF Bit
<1>5. CASE E # {}
  <2>1. PICK i \in E : E = {i}
    BY <1>3, <1>5
  <2> QED
    BY <1>1, <1>2, <1>5, <2>1, FS_Singleton DEF Bit
<1> QED
  BY <1>4, <1>5

\* An order and a meal that the slot holds are those of the invariant.
LEMMA WaiterSlotHolds ==
  ASSUME TypeOK, RequestSlotsExclusive, HandoverInv, NEW g \in Groups
  PROVE  /\ waiterSlotHolds(FoodRequest(g)) <=> Filed(g)
         /\ waiterSlotHolds(Meal(g)) <=> MealInSlot /\ g = foodGroup
<1>1. /\ PostingToWaiter = {h \in Groups : groupAt[h] = "postFoodRequest"}
      /\ \A h \in PostingToWaiter :
           waiterRequest = FoodRequest(h) /\ chefAt # "postFoodReady"
             /\ sem["waiterRequest"] = 0
      /\ chefAt = "postFoodReady" => waiterRequest = Meal(foodGroup)
  <2>1. waiterToken = 1
    BY DEF RequestSlotsExclusive, waiterToken
  <2> QED
    BY <2>1, WaiterSlotHolder DEF PostingToWaiter, at, HandoverInv, SlotFits
<1>2. waiterSlotHolds(FoodRequest(g)) <=> Filed(g)
  BY <1>1, OrdersDiffer DEF waiterSlotHolds, Filed
<1>3. waiterSlotHolds(Meal(g)) <=> MealInSlot /\ g = foodGroup
  <2>1. waiterRequest = Meal(g) /\ sem["waiterRequest"] > 0 => g = foodGroup
    BY OrdersDiffer DEF HandoverInv, SlotFits
  <2> QED
    BY <1>1, <2>1, OrdersDiffer DEF waiterSlotHolds, MealInSlot
<1> QED
  BY <1>2, <1>3

\* The order that the chef knows of counts once: as an order until the chef has
\* cooked it, as a meal from then on.
LEMMA ServedOnce ==
  ASSUME TypeOK, RequestSlotsExclusive, HandoverInv, NEW g \in Groups
  PROVE  Bit(outgoing = FoodRequest(g) /\ waiterAt = "postOrder")
           + Bit(sem["waitOrder"] > 0 /\ foodGroup = g) + Bit(lastGroup = g)
           + Bit(waiterSlotHolds(Meal(g))) + Bit(incoming = Meal(g))
           + Bit(outgoing = Meal(g))
         = Bit(BeingServed(g))
<1>1. /\ waiterAt = "postOrder" => outgoing = FoodRequest(foodGroup)
      /\ waiterAt \in Serving <=> outgoing = Meal(foodGroup)
      /\ incoming = Meal(g) => g = foodGroup
      /\ outgoing = Meal(g) => g = foodGroup
      /\ chefAt \in HasOrder => lastGroup = foodGroup
      /\ chefAt \notin HasOrder => lastGroup # g
  BY OrdersDiffer, ConstantTypes, ScrubbedAssumption DEF HandoverInv, HandsFit,
     Informed
<1>2. CASE g # foodGroup
  <2>1. /\ ~(outgoing = FoodRequest(g) /\ waiterAt = "postOrder")
        /\ lastGroup # g /\ ~waiterSlotHolds(Meal(g)) /\ incoming # Meal(g)
        /\ outgoing # Meal(g) /\ ~BeingServed(g)
    BY <1>1, <1>2, OrdersDiffer, WaiterSlotHolds DEF BeingServed
  <2> QED
    BY <1>2, <2>1 DEF Bit
<1>3. CASE g = foodGroup
  <2>1. /\ outgoing = FoodRequest(g) /\ waiterAt = "postOrder" <=> waiterAt = "postOrder"
        /\ waiterSlotHolds(Meal(g)) <=> MealInSlot
        /\ lastGroup = g <=> chefAt \in HasOrder
        /\ outgoing = Meal(g) <=> waiterAt \in Serving
        /\ BeingServed(g) <=> foodOrder
    BY <1>1, <1>3, WaiterSlotHolds DEF BeingServed
  <2>2. Bit(sem["waitOrder"] > 0 /\ foodGroup = g) = sem["waitOrder"]
    BY <1>3, OrderOut, KitchenTypes DEF Bit
  <2>3. Bit(outgoing = FoodRequest(g) /\ waiterAt = "postOrder")
          = Bit(waiterAt = "postOrder")
    BY <2>1 DEF Bit
  <2>4. /\ Bit(lastGroup = g) = Bit(chefAt \in HasOrder)
        /\ Bit(waiterSlotHolds(Meal(g))) = Bit(MealInSlot)
        /\ Bit(outgoing = Meal(g)) = Bit(waiterAt \in Serving)
        /\ Bit(BeingServed(g)) = Bit(foodOrder)
        /\ Bit(incoming = Meal(g)) = Bit(incoming = Meal(foodGroup))
    BY <1>3, <2>1 DEF Bit
  <2>5. Bit(waiterAt = "postOrder") + sem["waitOrder"] + Bit(chefAt \in HasOrder)
          + Bit(MealInSlot) + Bit(incoming = Meal(foodGroup))
          + Bit(waiterAt \in Serving) = Bit(foodOrder)
    BY DEF HandoverInv, OneOrderOut, ordersOut
  <2> QED
    BY <2>2, <2>3, <2>4, <2>5
<1> QED
  BY <1>2, <1>3

\* From when a group files its order until it takes its meal, the order or the
\* meal is in exactly one place: in the slot, with the waiter or the chef, or on
\* the group's own table; and there is none for it at any other time.
THEOREM OrderKeptInOnePlace == Spec => []OrderInOnePlace
<1>1. TypeInv /\ RequestSlotsExclusive /\ HandoverInv /\ OrdersInv
        => OrderInOnePlace
  <2> SUFFICES ASSUME TypeOK, RequestSlotsExclusive, HandoverInv, OrdersInv,
                      NEW g \in Groups
               PROVE  uncookedOrder(g) + cookedMeal(g)
                        = Bit(g \in at({"postFoodRequest", "waitForWaiter",
                                        "waitFood", "waitingForFood",
                                        "foodArrives"}))
    BY DEF TypeInv, OrderInOnePlace
  <2> DEFINE a == Bit(Filed(g)) + Bit(incoming = FoodRequest(g)) + Bit(Queued(g))
             b == Bit(waiterAt \in {"informChef", "informingChef"}
                      /\ outgoing = FoodRequest(g))
             c == Bit(outgoing = FoodRequest(g) /\ waiterAt = "postOrder")
             d == Bit(sem["waitOrder"] > 0 /\ foodGroup = g)
             e == Bit(lastGroup = g)
             f == Bit(waiterSlotHolds(Meal(g)))
             h == Bit(incoming = Meal(g))
             k == Bit(outgoing = Meal(g))
             n == tokensFor(g, foodArrived)
  <2>1. /\ a \in Nat /\ b \in Nat /\ c \in Nat /\ d \in Nat /\ e \in Nat
        /\ f \in Nat /\ h \in Nat /\ k \in Nat /\ n \in Nat
    BY OrderTypes DEF Bit
  <2>2. Bit(outgoing = FoodRequest(g)
            /\ waiterAt \in {"informChef", "informingChef", "postOrder"}) = b + c
    BY DEF Bit
  <2>3. Bit(waiterSlotHolds(FoodRequest(g))) = Bit(Filed(g))
        /\ queuedOrders(g) = Bit(Queued(g))
    BY WaiterSlotHolds, OrderEntries DEF Bit
  <2>4. uncookedOrder(g) = a + (b + c) + d + e
    BY <2>2, <2>3 DEF uncookedOrder, FoodRequest
  <2>5. cookedMeal(g) = f + h + k + n
    BY DEF cookedMeal, Meal
  <2>6. c + d + e + f + h + k = Bit(BeingServed(g))
    BY ServedOnce
  <2>7. a + b = unsent(g)
    BY DEF unsent
  <2>8. unsent(g) + Bit(BeingServed(g)) + n = Bit(groupAt[g] \in Unfed)
    BY DEF OrdersInv, OrdersKept, OrderKept
  <2> HIDE DEF a, b, c, d, e, f, h, k, n
  <2>9. uncookedOrder(g) + cookedMeal(g) = Bit(groupAt[g] \in Unfed)
    BY <2>1, <2>4, <2>5, <2>6, <2>7, <2>8
  <2> QED
    BY <2>9 DEF at, Unfed, Unheard, Bit
<1> QED
  BY <1>1, TypeInvariant, SlotsExclusive, HandoverInvariant, OrdersInvariant, PTL

\* The acknowledgement of an order goes to the table of the group that ordered,
\* once, and never waits at a table that nobody sits at.
THEOREM AckForOrder == Spec => []AckMatchesOrder
<1>1. TypeInv /\ RequestSlotsExclusive /\ HandoverInv /\ OrdersInv
        => AckMatchesOrder
  <2> SUFFICES ASSUME TypeOK, RequestSlotsExclusive, HandoverInv, OrdersInv
               PROVE  AckMatchesOrder
    BY DEF TypeInv
  <2>1. ASSUME NEW g \in Groups
        PROVE  unacknowledgedOrder(g) + tokensFor(g, requestReceived)
                 = Bit(g \in at({"postFoodRequest", "waitForWaiter"}))
    <3> DEFINE a == Bit(Filed(g)) + Bit(incoming = FoodRequest(g)) + Bit(Queued(g))
               b == Bit(waiterAt \in {"informChef", "informingChef"}
                        /\ outgoing = FoodRequest(g))
               c == Bit(BeingHeard(g))
               n == tokensFor(g, requestReceived)
    <3>1. a \in Nat /\ b \in Nat /\ c \in Nat /\ n \in Nat
      BY OrderTypes DEF Bit
    <3>2. Bit(outgoing = FoodRequest(g)) = b + c
      <4>1. outgoing = FoodRequest(g) => waiterAt \in Informing
        BY OrdersDiffer DEF HandoverInv, HandsFit
      <4> QED
        BY <4>1 DEF Bit, BeingHeard, Informing, Informed
    <3>3. Bit(waiterSlotHolds(FoodRequest(g))) = Bit(Filed(g))
          /\ queuedOrders(g) = Bit(Queued(g))
      BY WaiterSlotHolds, OrderEntries DEF Bit
    <3>4. unacknowledgedOrder(g) = a + (b + c)
      BY <3>2, <3>3 DEF unacknowledgedOrder, FoodRequest
    <3>5. a + b = unsent(g)
      BY DEF unsent
    <3>6. unsent(g) + c + n = Bit(groupAt[g] \in Unheard)
      BY DEF OrdersInv, OrdersKept, OrderKept
    <3> HIDE DEF a, b, c, n
    <3>7. unacknowledgedOrder(g) + n = Bit(groupAt[g] \in Unheard)
      BY <3>1, <3>4, <3>5, <3>6
    <3> QED
      BY <3>7 DEF n, at, Unheard, Bit
  <2> QED
    BY <2>1 DEF AckMatchesOrder, OrdersInv, FreeTablesBare
<1> QED
  BY <1>1, TypeInvariant, SlotsExclusive, HandoverInvariant, OrdersInvariant, PTL

(***************************************************************************)
(* How the simulation ends                                                 *)
(***************************************************************************)

-----------------------------------------------------------------------------
(* What the chef and the waiter have counted                                *)

Ordered == {g \in Groups : ~BeforeOrdering(g)}

\* The chef has the order of g before it, or on its way to it.
ToCook(g) ==
  /\ foodOrder /\ foodGroup = g
  /\ \/ waiterAt = "postOrder" \/ sem["waitOrder"] > 0
     \/ chefAt \in HasOrder \/ chefAt = "postFoodReady"

\* The groups that the chef has cooked for, that the waiter has told that their
\* orders are taken, and that it has brought their meals.
CookedFor == {g \in Ordered : unsent(g) = 0 /\ ~ToCook(g)}
Informeds == {g \in Ordered : unsent(g) = 0 /\ ~BeingHeard(g)}
ServedTo  == {g \in Ordered : unsent(g) = 0 /\ ~BeingServed(g)}

CountsOrders ==
  /\ nOrders = Cardinality(CookedFor)
  /\ chefAt = "exit" => nOrders = nGroups
  /\ waiterReqs = Cardinality(Informeds) + Cardinality(ServedTo)
  /\ waiterAt = "exit" => waiterReqs = 2 * nGroups

LEMMA OrderCountTypes ==
  ASSUME TypeOK
  PROVE  /\ IsFiniteSet(CookedFor) /\ Cardinality(CookedFor) \in 0 .. nGroups
         /\ Cardinality(CookedFor) = nGroups => CookedFor = Groups
         /\ IsFiniteSet(Informeds) /\ Cardinality(Informeds) \in 0 .. nGroups
         /\ Cardinality(Informeds) = nGroups => Informeds = Groups
         /\ IsFiniteSet(ServedTo) /\ Cardinality(ServedTo) \in 0 .. nGroups
         /\ Cardinality(ServedTo) = nGroups => ServedTo = Groups
         /\ nOrders \in 0 .. nGroups /\ waiterReqs \in 0 .. 2 * nGroups
         /\ nGroups \in Nat
<1>1. /\ CookedFor \subseteq Groups /\ Informeds \subseteq Groups
      /\ ServedTo \subseteq Groups
  BY DEF CookedFor, Informeds, ServedTo, Ordered
<1>2. \A S \in SUBSET Groups :
        /\ IsFiniteSet(S) /\ Cardinality(S) \in 0 .. nGroups
        /\ Cardinality(S) = nGroups => S = Groups
  BY GroupsAssumption, ConstantTypes, FS_Subset, FS_CardinalityType DEF nGroups
<1> QED
  BY <1>1, <1>2, ConstantTypes DEF TypeOK, ChefTypeOK, WaiterTypeOK

\* Where the orders of all groups are is as before, and nothing is counted.
LEMMA CountUnmoved ==
  ASSUME CountsOrders, UNCHANGED <<nOrders, waiterReqs>>,
         chefAt' = "exit" => chefAt = "exit",
         waiterAt' = "exit" => waiterAt = "exit",
         CookedFor' = CookedFor, Informeds' = Informeds, ServedTo' = ServedTo
  PROVE  CountsOrders'
BY DEF CountsOrders

\* Who has ordered is told by where the groups are.
LEMMA OrderedSame ==
  ASSUME UNCHANGED groupAt PROVE Ordered' = Ordered
BY DEF Ordered, BeforeOrdering

\* A group that a server brings nothing to, and whose order the chef knows of
\* as before, has its order where the chef has not heard of it as before.
LEMMA UnsentSame ==
  ASSUME TypeOK, TypeOK', NEW g \in Groups, OrderKept(g), OrderKept(g)',
         groupAt'[g] = groupAt[g],
         Bit(BeingServed(g))' + tokensFor(g, foodArrived)'
           = Bit(BeingServed(g)) + tokensFor(g, foodArrived)
  PROVE  unsent(g)' = unsent(g)
<1> DEFINE n == unsent(g)
           b == Bit(BeingServed(g)) + tokensFor(g, foodArrived)
           u == Bit(groupAt[g] \in Unfed)
<1>1. n \in Nat /\ b \in Nat
  BY OrderTypes DEF Bit
<1>2. unsent(g)' \in Nat
  BY DEF unsent, Bit
<1>3. n + b = u
  BY <1>1, OrderTypes DEF OrderKept, Bit
<1>4. unsent(g)' + (Bit(BeingServed(g))' + tokensFor(g, foodArrived)') = u
  <2>1. Bit(groupAt[g] \in Unfed)' = u
    BY DEF Bit, Unfed, Unheard
  <2>2. Bit(BeingServed(g))' \in Nat
    BY DEF Bit
  <2>3. tokensFor(g, foodArrived)' \in Nat
    <3>1. /\ foodArrived' \in [Tables -> Nat]
          /\ assignedTable' \in [Groups -> Tables \cup {NoTable}]
      BY DEF TypeOK, SharedTypeOK, SemTypeOK, TableTypeOK
    <3> QED
      BY <3>1 DEF tokensFor
  <2>4. unsent(g)' + Bit(BeingServed(g))' + tokensFor(g, foodArrived)'
          = Bit(groupAt[g] \in Unfed)'
    BY DEF OrderKept
  <2> QED
    BY <1>2, <2>1, <2>2, <2>3, <2>4
<1>5. unsent(g)' + b = u
  BY <1>4
<1> HIDE DEF n, b, u
<1>6. u \in Nat
  BY DEF u, Bit
<1>7. unsent(g)' = n
  BY <1>1, <1>2, <1>3, <1>5, <1>6
<1> QED
  BY <1>7 DEF n

-----------------------------------------------------------------------------
(* Steps of the groups and of the receptionist                              *)

\* A group orders, and its order is where the chef has not heard of it.
LEMMA GroupKeepsOrderCount ==
  ASSUME TypeOK, RequestSlotsExclusive, HandoverInv, CountsOrders,
         NEW g \in Groups, GroupStep(g)
  PROVE  CountsOrders'
<1>1. /\ InKitchen(g)
      /\ UNCHANGED <<waiterVars, chefVars, orderVars>>
      /\ \A h \in Groups \ {g} : groupAt'[h] = groupAt[h]
  BY GroupInKitchen, GroupMovesAlone DEF GroupStep, GroupNext, TypeOK
<1>2. /\ UNCHANGED <<waiterAt, waiterReqs, chefAt, nOrders, foodOrder, foodGroup>>
      /\ UNCHANGED handsView
  BY <1>1 DEF waiterVars, chefVars, orderVars, queueVars, handsView
<1>3. sem'["waitOrder"] = sem["waitOrder"]
  <2>1. kitchenSems'["waitOrder"] = kitchenSems["waitOrder"]
    BY <1>1 DEF InKitchen, FilesOrder, AnnouncesOrder, HearsOfOrder, GetsMeal,
       OutsideKitchen, kitchenSems, KitchenNames
  <2> QED
    BY <2>1 DEF kitchenSems, KitchenNames
<1>4. \A x : /\ ToCook(x)' <=> ToCook(x)
             /\ BeingServed(x)' <=> BeingServed(x)
             /\ BeingHeard(x)' <=> BeingHeard(x)
             /\ (Filed(x)' <=> Filed(x)) => unsent(x)' = unsent(x)
  BY <1>2, <1>3, HandsSame DEF ToCook
<1>5. \A x \in Groups \ {g} : x \in Ordered' <=> x \in Ordered
  BY <1>1 DEF Ordered, BeforeOrdering
<1>6. CASE ~FilesOrder(g)
  <2>1. \A x \in Groups : unsent(x)' = unsent(x)
    BY <1>4, <1>6, GroupFiles
  <2>2. g \in Ordered' <=> g \in Ordered
    BY <1>1, <1>6 DEF InKitchen, AnnouncesOrder, HearsOfOrder, GetsMeal,
       OutsideKitchen, Ordered, BeforeOrdering, Hungry, Expecting, Fed
  <2>3. Ordered' = Ordered
    BY <1>5, <2>2 DEF Ordered
  <2>4. CookedFor' = CookedFor /\ Informeds' = Informeds /\ ServedTo' = ServedTo
    BY <1>4, <2>1, <2>3 DEF CookedFor, Informeds, ServedTo, Ordered
  <2> QED
    BY <1>2, <2>4, CountUnmoved
<1>7. CASE FilesOrder(g)
  <2>1. /\ Filed(g)' /\ \A x \in Groups \ {g} : ~Filed(x)' /\ ~Filed(x)
    BY <1>7, GroupFiles
  <2>2. unsent(g)' # 0 /\ g \notin Ordered
    BY <1>7, <2>1 DEF unsent, Bit, FilesOrder, Ordered, BeforeOrdering
  <2>3. \A x \in Groups \ {g} : unsent(x)' = unsent(x)
    BY <1>4, <2>1
  <2>4. Ordered' \ {g} = Ordered /\ Ordered' \subseteq Groups
    BY <1>5, <2>2 DEF Ordered
  <2>5. CookedFor' = CookedFor /\ Informeds' = Informeds /\ ServedTo' = ServedTo
    BY <1>4, <2>2, <2>3, <2>4 DEF CookedFor, Informeds, ServedTo
  <2> QED
    BY <1>2, <2>5, CountUnmoved
<1> QED
  BY <1>6, <1>7

LEMMA ReceptionistKeepsOrderCount ==
  ASSUME TypeOK, CountsOrders, ReceptionistStep \/ UNCHANGED vars
  PROVE  CountsOrders'
<1>1. UNCHANGED handoverView /\ UNCHANGED groupAt
  <2>1. CASE UNCHANGED vars
    BY <2>1 DEF vars, sharedVars, groupVars, requestVars, semVars, handoverView,
       kitchenSems
  <2> QED
    BY <2>1, ReceptionistOutsideKitchen
<1>2. /\ UNCHANGED <<waiterAt, waiterReqs, chefAt, nOrders, foodOrder, foodGroup>>
      /\ UNCHANGED handsView /\ UNCHANGED waiterRequest
      /\ sem'["waitOrder"] = sem["waitOrder"]
      /\ sem'["waiterRequest"] = sem["waiterRequest"]
  BY <1>1, KitchenSemsSame DEF handoverView, waiterVars, chefVars, orderVars,
     queueVars, handsView
<1>3. \A g : /\ ToCook(g)' <=> ToCook(g)
             /\ BeingServed(g)' <=> BeingServed(g)
             /\ BeingHeard(g)' <=> BeingHeard(g)
             /\ unsent(g)' = unsent(g)
  <2>1. \A g : Filed(g)' <=> Filed(g)
    BY <1>1, <1>2 DEF Filed, FoodRequest
  <2> QED
    BY <1>2, <2>1, HandsSame DEF ToCook
<1>4. CookedFor' = CookedFor /\ Informeds' = Informeds /\ ServedTo' = ServedTo
  BY <1>1, <1>3, OrderedSame DEF CookedFor, Informeds, ServedTo
<1> QED
  BY <1>2, <1>4, CountUnmoved

-----------------------------------------------------------------------------
(* Steps of the waiter                                                      *)

\* The waiter does nothing that counts: its order is neither made out, nor
\* acknowledged, nor served.
LEMMA WaiterWorksOn ==
  ASSUME TypeOK, TypeOK', OrdersKept, OrdersKept', CountsOrders,
         UNCHANGED waiterLeaves,
         UNCHANGED <<waiterReqs, foodOrder, foodGroup, foodArrived>>,
         waiterAt' # "exit",
         \A g \in Groups : BeingHeard(g)' <=> BeingHeard(g),
         waiterAt' = "postOrder" \/ sem'["waitOrder"] > 0
           <=> waiterAt = "postOrder" \/ sem["waitOrder"] > 0
  PROVE  CountsOrders'
<1>1. UNCHANGED <<groupAt, chefAt, nOrders, assignedTable>>
  BY DEF waiterLeaves
<1>2. ASSUME NEW g \in Groups
      PROVE  /\ BeingServed(g)' <=> BeingServed(g)
             /\ ToCook(g)' <=> ToCook(g)
             /\ unsent(g)' = unsent(g)
  <2>1. BeingServed(g)' <=> BeingServed(g)
    BY DEF BeingServed
  <2>2. ToCook(g)' <=> ToCook(g)
    BY <1>1 DEF ToCook
  <2>3. /\ Bit(BeingServed(g))' = Bit(BeingServed(g))
        /\ tokensFor(g, foodArrived)' = tokensFor(g, foodArrived)
    BY <1>1, <2>1 DEF Bit, tokensFor
  <2>4. OrderKept(g) /\ OrderKept(g)'
    BY DEF OrdersKept
  <2> QED
    BY <1>1, <2>1, <2>2, <2>3, <2>4, UnsentSame
<1>3. Ordered' = Ordered /\ Ordered \subseteq Groups
  BY <1>1, OrderedSame DEF Ordered
<1>4. CookedFor' = CookedFor /\ Informeds' = Informeds /\ ServedTo' = ServedTo
  BY <1>2, <1>3 DEF CookedFor, Informeds, ServedTo
<1> QED
  BY <1>1, <1>4, CountUnmoved

\* Counting one request more, where the loop of main ends at 2 * nGroups.
LEMMA WaiterCountsOne ==
  ASSUME TypeOK, TypeOK', handled
  PROVE  /\ waiterReqs \in Nat /\ waiterReqs' = waiterReqs + 1
         /\ waiterAt' = "exit" => waiterReqs' = 2 * nGroups
         /\ waiterAt' \in {"poll", "exit"}
<1>1. waiterReqs \in 0 .. 2 * nGroups /\ waiterReqs' \in 0 .. 2 * nGroups
  BY DEF TypeOK, WaiterTypeOK
<1> QED
  BY <1>1, ConstantTypes DEF handled

\* The order that the waiter makes out for the chef is not cooked for, nor its
\* group told, nor served.
LEMMA InformingKeepsOrderCount ==
  ASSUME TypeOK, TypeOK', HandoverInv, OrdersKept, OrdersKept', CountsOrders,
         InformSave, UNCHANGED waiterLeaves
  PROVE  CountsOrders'
<1>1. /\ waiterAt = "informingChef" /\ waiterAt' = "postOrder"
      /\ foodGroup' = outgoing.reqGroup /\ foodOrder'
      /\ UNCHANGED <<outgoing, waiterReqs, groupAt, chefAt, nOrders, foodArrived,
                     assignedTable>>
  BY DEF InformSave, semUp, waiterGoesTo, waiterSame, waiterLeaves
<1>2. PICK g0 \in Groups : outgoing = FoodRequest(g0)
  BY <1>1 DEF HandoverInv, HandsFit, Informing
<1>3. ~foodOrder /\ foodGroup' = g0
  BY <1>1, <1>2, OrdersDiffer DEF HandoverInv, BusyIsCurrent
<1>4. /\ unsent(g0) # 0
      /\ ToCook(g0)' /\ BeingHeard(g0)' /\ BeingServed(g0)'
  <2>1. unsent(g0) = 1
    BY <1>1, <1>2, OrderPlaces
  <2>2. ToCook(g0)' /\ BeingServed(g0)'
    BY <1>1, <1>3 DEF ToCook, BeingServed
  <2>3. BeingHeard(g0)'
    BY <1>1, <1>2 DEF BeingHeard, Informed, FoodRequest
  <2> QED
    BY <2>1, <2>2, <2>3
<1>5. ASSUME NEW g \in Groups \ {g0}
      PROVE  /\ unsent(g)' = unsent(g)
             /\ ~ToCook(g) /\ ~BeingHeard(g) /\ ~BeingServed(g)
             /\ ~ToCook(g)' /\ ~BeingHeard(g)' /\ ~BeingServed(g)'
  <2>1. ~ToCook(g) /\ ~BeingServed(g) /\ ~ToCook(g)' /\ ~BeingServed(g)'
    BY <1>3 DEF ToCook, BeingServed
  <2>2. ~BeingHeard(g) /\ ~BeingHeard(g)'
    BY <1>1, <1>2, OrdersDiffer DEF BeingHeard, Informed, FoodRequest
  <2>3. /\ Bit(BeingServed(g))' = Bit(BeingServed(g))
        /\ tokensFor(g, foodArrived)' = tokensFor(g, foodArrived)
    BY <1>1, <2>1 DEF Bit, tokensFor
  <2>4. unsent(g)' = unsent(g)
    BY <1>1, <2>3, UnsentSame DEF OrdersKept
  <2> QED
    BY <2>1, <2>2, <2>4
<1>6. Ordered' = Ordered /\ Ordered \subseteq Groups
  BY <1>1, OrderedSame DEF Ordered
<1>7. CookedFor' = CookedFor /\ Informeds' = Informeds /\ ServedTo' = ServedTo
  BY <1>4, <1>5, <1>6 DEF CookedFor, Informeds, ServedTo
<1> QED
  BY <1>1, <1>7, CountUnmoved

LEMMA TellingIsCounted ==
  ASSUME TypeOK, TypeOK', HandoverInv, OrdersKept, OrdersKept', CountsOrders,
         InformGroup, UNCHANGED waiterLeaves
  PROVE  CountsOrders'
<1>1. /\ waiterAt = "informGroup" /\ handled
      /\ UNCHANGED <<foodOrder, foodGroup, sem, groupAt, chefAt, nOrders,
                     foodArrived, assignedTable>>
  BY DEF InformGroup, orderVars, waiterLeaves
<1>2. /\ waiterReqs \in Nat /\ waiterReqs' = waiterReqs + 1
      /\ waiterAt' = "exit" => waiterReqs' = 2 * nGroups
      /\ waiterAt' \in {"poll", "exit"}
  BY <1>1, WaiterCountsOne
<1> DEFINE g0 == foodGroup
<1>3. outgoing = FoodRequest(g0) /\ g0 \in Groups
  BY <1>1 DEF HandoverInv, HandsFit, BusyIsCurrent, OneOrderOut, Informed
<1>4. ASSUME NEW g \in Groups
      PROVE  /\ unsent(g)' = unsent(g)
             /\ ToCook(g)' <=> ToCook(g)
             /\ BeingServed(g)' <=> BeingServed(g)
             /\ ~BeingHeard(g)' /\ (BeingHeard(g) <=> g = g0)
  <2>1. BeingServed(g)' <=> BeingServed(g)
    BY <1>1 DEF BeingServed
  <2>2. ToCook(g)' <=> ToCook(g)
    BY <1>1, <1>2 DEF ToCook
  <2>3. ~BeingHeard(g)' /\ (BeingHeard(g) <=> g = g0)
    BY <1>1, <1>2, <1>3, OrdersDiffer DEF BeingHeard, Informed
  <2>4. /\ Bit(BeingServed(g))' = Bit(BeingServed(g))
        /\ tokensFor(g, foodArrived)' = tokensFor(g, foodArrived)
    BY <1>1, <2>1 DEF Bit, tokensFor
  <2>5. unsent(g)' = unsent(g)
    BY <1>1, <2>4, UnsentSame DEF OrdersKept
  <2> QED
    BY <2>1, <2>2, <2>3, <2>5
<1>5. Ordered' = Ordered /\ Ordered \subseteq Groups
  BY <1>1, OrderedSame DEF Ordered
<1>6. CookedFor' = CookedFor /\ ServedTo' = ServedTo
  BY <1>4, <1>5 DEF CookedFor, ServedTo
<1>7. g0 \in Ordered /\ unsent(g0) = 0
  BY <1>3, <1>4, OrderPlaces, OrderTypes DEF Ordered, BeforeOrdering, Unheard
<1>8. Informeds' = Informeds \cup {g0} /\ g0 \notin Informeds
  BY <1>3, <1>4, <1>5, <1>7 DEF Informeds
<1>9. Cardinality(Informeds') = Cardinality(Informeds) + 1
  BY <1>8, OrderCountTypes, FS_AddElement
<1>10. Cardinality(Informeds) \in Nat /\ Cardinality(ServedTo) \in Nat
  BY OrderCountTypes
<1> QED
  BY <1>1, <1>2, <1>6, <1>9, <1>10 DEF CountsOrders

LEMMA ServingIsCounted ==
  ASSUME TypeOK, TypeOK', ReceptionInv, HandoverInv, OrdersInv, OrdersKept',
         CountsOrders, ServeFood, UNCHANGED waiterLeaves
  PROVE  CountsOrders'
<1>1. /\ waiterAt = "serveFood" /\ handled /\ ~foodOrder' /\ foodGroup' = foodGroup
      /\ foodArrived' = [foodArrived EXCEPT ![waiterTable] = @ + 1]
      /\ UNCHANGED <<sem, groupAt, chefAt, nOrders, assignedTable>>
  BY DEF ServeFood, waiterLeaves
<1>2. /\ waiterReqs \in Nat /\ waiterReqs' = waiterReqs + 1
      /\ waiterAt' = "exit" => waiterReqs' = 2 * nGroups
      /\ waiterAt' \in {"poll", "exit"}
  BY <1>1, WaiterCountsOne
<1> DEFINE g0 == foodGroup
<1>3. foodOrder /\ g0 \in Groups
  BY <1>1 DEF HandoverInv, BusyIsCurrent, OneOrderOut, Serving
<1>4. /\ sem["waitOrder"] = 0 /\ chefAt \notin HasOrder
      /\ chefAt # "postFoodReady"
  BY <1>1, OrderOut, KitchenTypes DEF Serving, MealInSlot
<1>5. foodArrived \in [Tables -> Nat] /\ foodArrived' \in [Tables -> Nat]
  BY DEF TypeOK, SharedTypeOK, SemTypeOK
<1>6. \A g \in Groups : tokensFor(g, foodArrived)'
                          = tokensFor(g, foodArrived) + Bit(g = g0)
  BY <1>1, <1>5, TokenForOne DEF tokensFor
<1>7. ASSUME NEW g \in Groups
      PROVE  /\ unsent(g)' = unsent(g)
             /\ ~ToCook(g)' /\ ~ToCook(g)
             /\ ~BeingServed(g)' /\ (BeingServed(g) <=> g = g0)
             /\ ~BeingHeard(g)' /\ ~BeingHeard(g)
  <2>1. ~BeingServed(g)' /\ (BeingServed(g) <=> g = g0)
    BY <1>1, <1>3 DEF BeingServed
  <2>2. ~ToCook(g)' /\ ~ToCook(g)
    BY <1>1, <1>4 DEF ToCook
  <2>3. ~BeingHeard(g)' /\ ~BeingHeard(g)
    BY <1>1, <1>2 DEF BeingHeard, Informed
  <2>4. /\ Bit(BeingServed(g))' = 0 /\ Bit(BeingServed(g)) = Bit(g = g0)
        /\ Bit(g = g0) \in Nat /\ tokensFor(g, foodArrived) \in Nat
    BY <2>1, OrderTypes DEF Bit
  <2>5. Bit(BeingServed(g))' + tokensFor(g, foodArrived)'
          = Bit(BeingServed(g)) + tokensFor(g, foodArrived)
    BY <1>6, <2>4
  <2>6. unsent(g)' = unsent(g)
    BY <1>1, <2>5, UnsentSame DEF OrdersInv, OrdersKept
  <2> QED
    BY <2>1, <2>2, <2>3, <2>6
<1>8. Ordered' = Ordered /\ Ordered \subseteq Groups
  BY <1>1, OrderedSame DEF Ordered
<1>9. CookedFor' = CookedFor /\ Informeds' = Informeds
  BY <1>7, <1>8 DEF CookedFor, Informeds
<1>10. g0 \in Ordered /\ unsent(g0) = 0
  BY <1>3, <1>7, OrderPlaces, OrderTypes DEF OrdersInv, Ordered, BeforeOrdering,
     Unfed, Unheard
<1>11. ServedTo' = ServedTo \cup {g0} /\ g0 \notin ServedTo
  BY <1>3, <1>7, <1>8, <1>10 DEF ServedTo
<1>12. Cardinality(ServedTo') = Cardinality(ServedTo) + 1
  BY <1>11, OrderCountTypes, FS_AddElement
<1>13. Cardinality(Informeds) \in Nat /\ Cardinality(ServedTo) \in Nat
  BY OrderCountTypes
<1> QED
  BY <1>1, <1>2, <1>9, <1>12, <1>13 DEF CountsOrders

LEMMA WaiterKeepsOrderCount ==
  ASSUME TypeOK, TypeOK', ReceptionInv, HandoverInv, OrdersInv, OrdersInv',
         CountsOrders, WaiterStep
  PROVE  CountsOrders'
<1>1. UNCHANGED waiterLeaves /\ OrdersKept /\ OrdersKept'
  BY WaiterLeaves DEF OrdersInv
<1>2. CASE WaiterSavesState
  <2>1. /\ UNCHANGED <<waiterReqs, foodOrder, foodGroup, foodArrived, outgoing>>
        /\ sem'["waitOrder"] = sem["waitOrder"]
    BY <1>2, KitchenSemsSame DEF WaiterSavesState, orderVars, kitchenTokens
  <2>2. /\ waiterAt' # "exit" /\ waiterAt # "postOrder" /\ waiterAt' # "postOrder"
        /\ waiterAt \notin Informed /\ waiterAt' \notin Informed
    BY <1>2 DEF WaiterSavesState, Informed
  <2> QED
    BY <1>1, <2>1, <2>2, WaiterWorksOn DEF BeingHeard
<1>3. CASE TakeQueued \/ TakeRequest
  <2>1. /\ UNCHANGED <<waiterReqs, foodOrder, foodGroup, foodArrived>>
        /\ sem'["waitOrder"] = sem["waitOrder"]
        /\ waiterAt \in {"poll", "takeRequest"}
        /\ waiterAt' \in {"informChef", "readRequest"}
    BY <1>3, KitchenTypes, DownMoves DEF TakeQueued, TakeRequest, semDown,
       waiterGoesTo, orderVars, semVars, SemNames
  <2> QED
    BY <1>1, <2>1, WaiterWorksOn DEF BeingHeard, Informed
<1>4. CASE ReadRequest
  <2>1. /\ UNCHANGED <<waiterReqs, foodOrder, foodGroup, foodArrived>>
        /\ sem'["waitOrder"] = sem["waitOrder"]
        /\ waiterAt = "readRequest"
        /\ waiterAt' \in {"poll", "takeFoodToTable", "wrongRequest"}
    BY <1>4, KitchenTypes, UpMoves DEF ReadRequest, enqueueIncoming, semUp,
       orderVars, SemNames
  <2> QED
    BY <1>1, <2>1, WaiterWorksOn DEF BeingHeard, Informed
<1>5. CASE PostOrder \/ WaitForChef
  <2>1. /\ UNCHANGED <<waiterReqs, foodOrder, foodGroup, foodArrived, outgoing>>
        /\ \/ /\ waiterAt = "postOrder" /\ waiterAt' = "waitForChef"
              /\ sem'["waitOrder"] = sem["waitOrder"] + 1
           \/ /\ waiterAt = "waitForChef" /\ waiterAt' = "informGroup"
              /\ sem'["waitOrder"] = sem["waitOrder"]
    BY <1>5, KitchenTypes, UpMoves, DownMoves DEF PostOrder, WaitForChef, semUp,
       semDown, waiterGoesTo, waiterSame, orderVars, SemNames
  <2>2. \A g \in Groups : BeingHeard(g)' <=> BeingHeard(g)
    BY <2>1 DEF BeingHeard, Informed, FoodRequest
  <2> QED
    BY <1>1, <2>1, <2>2, WaiterWorksOn, KitchenTypes
<1> QED
  BY <1>1, <1>2, <1>3, <1>4, <1>5, WaiterSteps, InformingKeepsOrderCount,
     TellingIsCounted, ServingIsCounted

-----------------------------------------------------------------------------
(* Steps of the chef                                                        *)

LEMMA ChefKeepsOrderCount ==
  ASSUME TypeOK, TypeOK', HandoverInv, OrdersInv, OrdersInv', CountsOrders,
         ChefStep
  PROVE  CountsOrders'
<1>1. /\ UNCHANGED handsView
      /\ UNCHANGED <<groupAt, assignedTable, waiterReqs, waiterAt, foodOrder,
                     foodGroup>>
  BY ChefLeaves DEF chefLeaves, handsView, waiterVars, queueVars
<1>2. UNCHANGED foodArrived
  BY ChefSteps DEF ChefSavesState, TakeOrder, AcknowledgeOrder, FoodReady,
     PostFoodReady, semUp, semDown, kitchenTokens
<1>3. ASSUME NEW g \in Groups
      PROVE  /\ unsent(g)' = unsent(g)
             /\ BeingServed(g)' <=> BeingServed(g)
             /\ BeingHeard(g)' <=> BeingHeard(g)
  <2>1. /\ BeingServed(g)' <=> BeingServed(g)
        /\ BeingHeard(g)' <=> BeingHeard(g)
    BY <1>1, HandsSame
  <2>2. /\ Bit(BeingServed(g))' = Bit(BeingServed(g))
        /\ tokensFor(g, foodArrived)' = tokensFor(g, foodArrived)
    BY <1>1, <1>2, <2>1 DEF Bit, tokensFor
  <2>3. unsent(g)' = unsent(g)
    BY <1>1, <2>2, UnsentSame DEF OrdersInv, OrdersKept
  <2> QED
    BY <2>1, <2>3
<1>4. Ordered' = Ordered /\ Ordered \subseteq Groups
  BY <1>1, OrderedSame DEF Ordered
<1>5. Informeds' = Informeds /\ ServedTo' = ServedTo
  BY <1>3, <1>4 DEF Informeds, ServedTo
<1> DEFINE Handles == \/ sem["waitOrder"] > 0 \/ chefAt \in HasOrder
                      \/ chefAt = "postFoodReady"
<1>6. ASSUME Handles' <=> Handles, chefAt' # "exit", UNCHANGED nOrders
      PROVE  CountsOrders'
  <2>1. \A g : ToCook(g)' <=> ToCook(g)
    BY <1>1, <1>6 DEF ToCook
  <2>2. CookedFor' = CookedFor
    BY <1>3, <1>4, <2>1 DEF CookedFor
  <2> QED
    BY <1>1, <1>5, <1>6, <2>2, CountUnmoved
<1>7. CASE ChefSavesState
  <2>1. /\ sem'["waitOrder"] = sem["waitOrder"]
        /\ chefAt' \in HasOrder <=> chefAt \in HasOrder
        /\ chefAt # "postFoodReady" /\ chefAt' # "postFoodReady"
        /\ chefAt' # "exit" /\ UNCHANGED nOrders
    BY <1>7, KitchenSemsSame DEF ChefSavesState, HasOrder
  <2> QED
    BY <1>6, <2>1
<1>8. CASE TakeOrder
  <2>1. /\ sem["waitOrder"] > 0 /\ chefAt' = "acknowledgeOrder"
        /\ UNCHANGED nOrders
    BY <1>8 DEF TakeOrder, semDown, chefGoesTo
  <2> QED
    BY <1>6, <2>1 DEF HasOrder
<1>9. CASE AcknowledgeOrder
  <2>1. chefAt = "acknowledgeOrder"
    BY <1>9 DEF AcknowledgeOrder
  <2>2. lastGroup \in Groups
    BY <2>1, OrderOut DEF HandoverInv, HandsFit, OneOrderOut, HasOrder
  <2>3. chefAt' = "processOrder" /\ UNCHANGED nOrders
    BY <1>9, <2>2, ConstantTypes DEF AcknowledgeOrder
  <2> QED
    BY <1>6, <2>1, <2>3 DEF HasOrder
<1>10. CASE FoodReady
  <2>1. chefAt = "foodReady" /\ chefAt' = "postFoodReady" /\ UNCHANGED nOrders
    BY <1>10 DEF FoodReady, chefGoesTo
  <2> QED
    BY <1>6, <2>1 DEF HasOrder
<1>11. CASE PostFoodReady
  <2> DEFINE g0 == foodGroup
  <2>1. /\ chefAt = "postFoodReady" /\ nOrders' = nOrders + 1
        /\ chefAt' = chefLoop(nOrders')
        /\ sem'["waitOrder"] = sem["waitOrder"]
    BY <1>11, KitchenTypes, UpMoves DEF PostFoodReady, SemNames
  <2>2. /\ nOrders \in 0 .. nGroups /\ nOrders' \in 0 .. nGroups /\ nGroups \in Nat
    BY OrderCountTypes DEF TypeOK, ChefTypeOK
  <2>3. chefAt' \in {"waitForOrder", "exit"} /\ (chefAt' = "exit" => nOrders' = nGroups)
    BY <2>1, <2>2 DEF chefLoop
  <2>4. /\ foodOrder /\ g0 \in Groups /\ sem["waitOrder"] = 0
        /\ waiterAt # "postOrder"
    BY <2>1, OrderOut DEF MealInSlot, HandoverInv, OneOrderOut
  <2>5. /\ \A g : ~ToCook(g)'
        /\ \A g : ToCook(g) <=> g = g0
    BY <1>1, <2>1, <2>3, <2>4 DEF ToCook, HasOrder
  <2>6. g0 \in Ordered /\ unsent(g0) = 0
    BY <2>4, OrderPlaces, OrderTypes DEF OrdersInv, BeingServed, Ordered,
       BeforeOrdering, Unfed, Unheard
  <2>7. CookedFor' = CookedFor \cup {g0} /\ g0 \notin CookedFor
    BY <1>3, <1>4, <2>4, <2>5, <2>6 DEF CookedFor
  <2>8. Cardinality(CookedFor') = Cardinality(CookedFor) + 1
    BY <2>7, OrderCountTypes, FS_AddElement
  <2> QED
    BY <1>1, <1>5, <2>1, <2>3, <2>8 DEF CountsOrders
<1> QED
  BY <1>7, <1>8, <1>9, <1>10, <1>11, ChefSteps

LEMMA OrderCountInit == Init => CountsOrders
<1> SUFFICES ASSUME Init PROVE CountsOrders
  OBVIOUS
<1>1. /\ nOrders = 0 /\ chefAt = IF 0 < nGroups THEN "waitForOrder" ELSE "exit"
      /\ waiterReqs = 0 /\ waiterAt = IF nGroups = 0 THEN "exit" ELSE "poll"
      /\ \A g \in Groups : groupAt[g] = "goToRestaurant"
  BY DEF Init, WaiterInit, ChefInit, chefLoop, GroupInit
<1>2. Ordered = {}
  BY <1>1 DEF Ordered, BeforeOrdering
<1>3. CookedFor = {} /\ Informeds = {} /\ ServedTo = {}
  BY <1>2 DEF CookedFor, Informeds, ServedTo
<1> QED
  BY <1>1, <1>3, ConstantTypes, FS_EmptySet DEF CountsOrders

\* The chef has counted one order for each group it has cooked for, and the
\* waiter one request for each group told and one for each group served.
LEMMA OrderCountRight == Spec => []CountsOrders
<1>1. TypeInv /\ TypeInv' /\ RequestSlotsExclusive /\ ReceptionInv /\ HandoverInv
        /\ OrdersInv /\ OrdersInv' /\ CountsOrders /\ [Next]_vars
        => CountsOrders'
  <2> SUFFICES ASSUME TypeOK, TypeOK', RequestSlotsExclusive, ReceptionInv,
                      HandoverInv, OrdersInv, OrdersInv', CountsOrders, [Next]_vars
               PROVE  CountsOrders'
    BY DEF TypeInv
  <2>1. ASSUME NEW g \in Groups, GroupStep(g) PROVE CountsOrders'
    BY <2>1, GroupKeepsOrderCount
  <2>2. CASE ReceptionistStep \/ UNCHANGED vars
    BY <2>2, ReceptionistKeepsOrderCount
  <2>3. CASE WaiterStep
    BY <2>3, WaiterKeepsOrderCount
  <2>4. CASE ChefStep
    BY <2>4, ChefKeepsOrderCount
  <2> QED
    BY <2>1, <2>2, <2>3, <2>4 DEF Next, Terminated
<1> QED
  BY <1>1, OrderCountInit, TypeInvariant, SlotsExclusive, ReceptionInvariant,
     HandoverInvariant, OrdersInvariant, PTL DEF Spec

-----------------------------------------------------------------------------
(* The chef and the waiter at the end of their work                         *)

\* Who has ended has counted every group.
LEMMA EndedHasCounted ==
  ASSUME TypeOK, CountsOrders
  PROVE  /\ chefAt = "exit" => CookedFor = Groups
         /\ waiterAt = "exit" => Informeds = Groups /\ ServedTo = Groups
<1>1. chefAt = "exit" => CookedFor = Groups
  BY OrderCountTypes DEF CountsOrders
<1>2. ASSUME waiterAt = "exit"
      PROVE  Cardinality(Informeds) = nGroups /\ Cardinality(ServedTo) = nGroups
  <2> DEFINE i == Cardinality(Informeds)
             s == Cardinality(ServedTo)
  <2>1. i \in 0 .. nGroups /\ s \in 0 .. nGroups /\ nGroups \in Nat
    BY OrderCountTypes
  <2>2. i + s = 2 * nGroups
    BY <1>2 DEF CountsOrders
  <2> HIDE DEF i, s
  <2>3. i = nGroups /\ s = nGroups
    BY <2>1, <2>2
  <2> QED
    BY <2>3 DEF i, s
<1> QED
  BY <1>1, <1>2, OrderCountTypes

\* While the waiter hands an order over, which it does without looking at its
\* slot, the chef does not want that slot, and will take the order.
THEOREM ChefWaitsForOrder == Spec => []ChefFreeWhenInformed
<1>1. TypeInv /\ HandoverInv /\ OrdersInv /\ CountsOrders => ChefFreeWhenInformed
  <2> SUFFICES ASSUME TypeOK, HandoverInv, OrdersInv, CountsOrders,
                      waiterAt \in {"informChef", "informingChef", "postOrder"}
               PROVE  chefAt \in {"waitForOrder", "waitingForOrder", "takeOrder"}
    BY DEF TypeInv, ChefFreeWhenInformed
  <2>1. PICK g \in Groups : outgoing = FoodRequest(g)
    BY DEF HandoverInv, HandsFit, Informing
  <2>2. g \notin CookedFor
    <3>1. CASE waiterAt = "postOrder"
      <4>1. foodOrder /\ foodGroup = g
        BY <2>1, <3>1, OrderOut, OrdersDiffer DEF HandoverInv, HandsFit, Informed
      <4> QED
        BY <3>1, <4>1 DEF ToCook, CookedFor
    <3>2. CASE waiterAt \in {"informChef", "informingChef"}
      <4>1. unsent(g) = 1
        BY <2>1, <3>2, OrderPlaces DEF OrdersInv
      <4> QED
        BY <4>1 DEF CookedFor
    <3> QED
      BY <3>1, <3>2
  <2>3. chefAt # "exit"
    BY <2>2, EndedHasCounted
  <2>4. chefAt \notin HasOrder /\ chefAt # "postFoodReady"
    BY OrderOut DEF MealInSlot, HandoverInv, BusyIsCurrent
  <2> QED
    BY <2>3, <2>4, KitchenTypes DEF ChefLocations, HasOrder
<1> QED
  BY <1>1, TypeInvariant, HandoverInvariant, OrdersInvariant, OrderCountRight, PTL

\* An order that is neither before the chef nor with it is in no place where
\* an order can be.
LEMMA NothingToCook ==
  ASSUME TypeOK, RequestSlotsExclusive, HandoverInv, OrdersInv,
         NEW g \in Groups, unsent(g) = 0, ~ToCook(g)
  PROVE  uncookedOrder(g) = 0
<1>1. /\ ~Filed(g) /\ ~Queued(g) /\ incoming # FoodRequest(g)
      /\ ~(waiterAt \in {"informChef", "informingChef"}
           /\ outgoing = FoodRequest(g))
  BY OrderPlaces DEF OrdersInv
<1>2. /\ Bit(waiterSlotHolds(FoodRequest(g))) = 0
      /\ Bit(incoming = FoodRequest(g)) = 0 /\ queuedOrders(g) = 0
  BY <1>1, WaiterSlotHolds, OrderEntries DEF Bit
<1>3. waiterAt = "postOrder" => outgoing # FoodRequest(g)
  BY OrderOut, OrdersDiffer DEF HandoverInv, HandsFit, Informed, ToCook
<1>4. sem["waitOrder"] > 0 => foodGroup # g
  BY OrderOut DEF ToCook
<1>5. lastGroup # g
  <2>1. chefAt \in HasOrder => lastGroup = foodGroup /\ foodOrder
    BY OrderOut DEF HandoverInv, HandsFit
  <2>2. chefAt \notin HasOrder => lastGroup \in {NoGroup, Scrubbed}
    BY DEF HandoverInv, HandsFit
  <2> QED
    BY <2>1, <2>2, ConstantTypes, ScrubbedAssumption DEF ToCook
<1>6. /\ Bit(outgoing = FoodRequest(g)
             /\ waiterAt \in {"informChef", "informingChef", "postOrder"}) = 0
      /\ Bit(sem["waitOrder"] > 0 /\ foodGroup = g) = 0
      /\ Bit(lastGroup = g) = 0
  BY <1>1, <1>3, <1>4, <1>5 DEF Bit
<1> QED
  BY <1>2, <1>6 DEF uncookedOrder, FoodRequest

\* A meal that the waiter has served is nowhere but at its table.
LEMMA NothingToServe ==
  ASSUME TypeOK, RequestSlotsExclusive, HandoverInv, NEW g \in Groups,
         ~BeingServed(g)
  PROVE  cookedMeal(g) = tokensFor(g, foodArrived)
<1> DEFINE c == Bit(outgoing = FoodRequest(g) /\ waiterAt = "postOrder")
           d == Bit(sem["waitOrder"] > 0 /\ foodGroup = g)
           e == Bit(lastGroup = g)
           f == Bit(waiterSlotHolds(Meal(g)))
           h == Bit(incoming = Meal(g))
           k == Bit(outgoing = Meal(g))
           n == tokensFor(g, foodArrived)
<1>1. /\ c \in Nat /\ d \in Nat /\ e \in Nat /\ f \in Nat /\ h \in Nat
      /\ k \in Nat /\ n \in Nat
  BY OrderTypes DEF Bit
<1>2. c + d + e + f + h + k = 0
  BY ServedOnce DEF Bit
<1>3. cookedMeal(g) = f + h + k + n
  BY DEF cookedMeal, Meal
<1> HIDE DEF c, d, e, f, h, k, n
<1>4. cookedMeal(g) = n
  BY <1>1, <1>2, <1>3
<1> QED
  BY <1>4 DEF n

\* No process ends before its work is done: the receptionist not before all
\* have paid, the chef not before the order of every group is cooked, and the
\* waiter not before every meal is on its table.
THEOREM NobodyEndsEarly == Spec => []ServersServeAll
<1>1. TypeInv /\ RequestSlotsExclusive /\ HandoverInv /\ OrdersInv /\ CountsOrders
        /\ ReceptionistServesAll => ServersServeAll
  <2> SUFFICES ASSUME TypeOK, RequestSlotsExclusive, HandoverInv, OrdersInv,
                      CountsOrders, ReceptionistServesAll
               PROVE  ServersServeAll
    BY DEF TypeInv
  <2>1. receptionistAt = "exit" =>
          /\ at({"waitForReceipt", "leave", "leaving", "exit"}) = Groups
          /\ occupied = {}
    BY DEF ReceptionistServesAll, Leaving
  <2>2. ASSUME chefAt = "exit" \/ waiterAt = "exit", NEW g \in Groups
        PROVE  ~BeforeOrdering(g) /\ unsent(g) = 0 /\ ~ToCook(g)
    BY <2>2, EndedHasCounted DEF CookedFor, ServedTo, Ordered, ToCook, BeingServed
  <2>3. ASSUME waiterAt = "exit", NEW g \in Groups PROVE ~BeingServed(g)
    BY <2>3, EndedHasCounted DEF ServedTo
  <2> QED
    BY <2>1, <2>2, <2>3, NothingToCook, NothingToServe DEF ServersServeAll
<1> QED
  BY <1>1, TypeInvariant, SlotsExclusive, HandoverInvariant, OrdersInvariant,
     OrderCountRight, ReceptionistEndsLast, PTL

-----------------------------------------------------------------------------
(* The end                                                                  *)

\* When all have ended, each token of the mutex and of the two slots is back
\* in its semaphore, and no other semaphore of one instance has any.
LEMMA TokensAtEnd ==
  ASSUME TypeOK, MutualExclusion, RequestSlotsExclusive, ReceptionInv,
         ReceptionistServesAll, HandoverInv, OrdersInv, Finished
  PROVE  sem = [s \in SemNames |->
                  Bit(s \in {"mutex", "waiterRequestPossible",
                             "receptionistRequestPossible"})]
<1>1. /\ \A g \in Groups : groupAt[g] = "exit"
      /\ receptionistAt = "exit" /\ waiterAt = "exit" /\ chefAt = "exit"
      /\ sem \in [SemNames -> Nat]
  BY DEF Finished, TypeOK, SharedTypeOK, SemTypeOK
<1>2. \A L : "exit" \notin L => Cardinality(at(L)) = 0
  <2>1. \A L : "exit" \notin L => at(L) = {}
    BY <1>1 DEF at
  <2> QED
    BY <2>1, FS_EmptySet
<1>3. sem["mutex"] = 1
  <2>1. Cardinality(at(GroupCritical)) = 0
    BY <1>2 DEF GroupCritical
  <2>2. /\ Bit(receptionistAt \in ReceptionistCritical) = 0
        /\ Bit(waiterAt \in WaiterCritical) = 0
        /\ Bit(chefAt \in ChefCritical) = 0
    BY <1>1 DEF Bit, ReceptionistCritical, WaiterCritical, ChefCritical
  <2>3. sem["mutex"] \in Nat
    BY <1>1 DEF SemNames
  <2> QED
    BY <2>1, <2>2, <2>3 DEF MutualExclusion
<1>4. sem["receptionistReq"] = 0
  <2>1. \A g \in Groups : ~Awaits(g) /\ ~Owes(g)
    BY <1>1 DEF Awaits, Owes, HasTable, ReceptionistServesAll, ReceptionInv,
       TablesConsistent
  <2>2. ~(sem["receptionistReq"] > 0)
    BY <2>1 DEF ReceptionInv, SlotFresh, Fresh
  <2> QED
    BY <1>1, <2>2 DEF SemNames
<1>5. sem["waiterRequest"] = 0
  <2>1. ASSUME sem["waiterRequest"] > 0 PROVE FALSE
    <3>1. CASE waiterRequest = Meal(foodGroup)
      <4>1. MealInSlot
        BY <2>1, <3>1 DEF MealInSlot
      <4>2. foodGroup \in Groups /\ BeingServed(foodGroup)
        BY <4>1, OrderOut DEF HandoverInv, OneOrderOut, BeingServed
      <4> QED
        BY <1>1, <4>2, OrderPlaces DEF OrdersInv, Unfed, Unheard
    <3>2. CASE \E g \in Groups : waiterRequest = FoodRequest(g)
      <4>1. PICK g \in Groups : Filed(g)
        BY <2>1, <3>2 DEF Filed
      <4> QED
        BY <1>1, <4>1, OrderPlaces DEF OrdersInv, Unheard
    <3> QED
      BY <2>1, <3>1, <3>2 DEF HandoverInv, SlotFits
  <2> QED
    BY <1>1, <2>1 DEF SemNames
<1>6. /\ sem["receptionistRequestPossible"] = 1
      /\ sem["waiterRequestPossible"] = 1
  <2>1. Cardinality(PostingToReceptionist) = 0 /\ Cardinality(PostingToWaiter) = 0
    BY <1>2 DEF PostingToReceptionist, PostingToWaiter
  <2>2. /\ Bit(receptionistAt = "readRequest") = 0
        /\ Bit(waiterAt = "readRequest") = 0 /\ Bit(chefAt = "postFoodReady") = 0
    BY <1>1 DEF Bit
  <2>3. /\ sem["receptionistRequestPossible"] \in Nat
        /\ sem["waiterRequestPossible"] \in Nat
    BY <1>1 DEF SemNames
  <2> QED
    BY <1>4, <1>5, <2>1, <2>2, <2>3 DEF RequestSlotsExclusive
<1>7. sem["waitOrder"] = 0 /\ sem["orderReceived"] = 0
  BY <1>1, AnswerOut
<1>8. \A s \in SemNames :
        sem[s] = Bit(s \in {"mutex", "waiterRequestPossible",
                            "receptionistRequestPossible"})
  BY <1>3, <1>4, <1>5, <1>6, <1>7 DEF SemNames, Bit
<1> QED
  BY <1>1, <1>8

\* When every process has run to its end, the region and the semaphores are as
\* they were at the start: nobody has waited in vain, and nothing was done
\* once too often.
THEOREM CleanEnd == Spec => []NothingLeftOver
<1>1. TypeInv /\ MutualExclusion /\ RequestSlotsExclusive /\ ReceptionInv
        /\ ReceptionistServesAll /\ ReceiptsFit /\ HandoverInv /\ OrdersInv
        => NothingLeftOver
  <2> SUFFICES ASSUME TypeOK, MutualExclusion, RequestSlotsExclusive,
                      ReceptionInv, ReceptionistServesAll, ReceiptsFit,
                      HandoverInv, OrdersInv, Finished
               PROVE  /\ \A g \in Groups : waitForTable[g] = 0
                                           /\ assignedTable[g] = NoTable
                      /\ \A t \in Tables : requestReceived[t] + foodArrived[t]
                                             + tableDone[t] = 0
                      /\ groupsWaiting = 0 /\ qlength = 0 /\ occupied = {}
                      /\ ~foodOrder
    BY TokensAtEnd DEF TypeInv, NothingLeftOver
  <2>1. /\ \A g \in Groups : groupAt[g] = "exit"
        /\ occupied = {}
    BY DEF Finished, ReceptionistServesAll
  <2>2. \A g \in Groups : assignedTable[g] = NoTable /\ waitForTable[g] = 0
    <3>1. \A g \in Groups : assignedTable[g] = NoTable
      BY <2>1 DEF ReceptionInv, TablesConsistent
    <3> QED
      BY <2>1, <3>1 DEF ReceptionInv, SeatsFit, HasTable, Bit
  <2>3. ASSUME NEW t \in Tables
        PROVE  requestReceived[t] = 0 /\ foodArrived[t] = 0 /\ tableDone[t] = 0
    <3>1. requestReceived[t] = 0 /\ foodArrived[t] = 0
      BY <2>1 DEF OrdersInv, FreeTablesBare
    <3>2. Checking(t) = {} /\ Billed(t) = {}
      BY <2>1, <2>2 DEF Checking, Billed, Tables, NoTable
    <3>3. tableDone[t] \in Nat
      BY DEF TypeOK, SharedTypeOK, SemTypeOK
    <3>4. 0 = tableDone[t] + 0
      BY <3>2, FS_EmptySet DEF ReceiptsFit
    <3> QED
      BY <3>1, <3>3, <3>4
  <2>4. groupsWaiting = 0
    <3>1. listBegin \in Int /\ listEnd \in Int /\ groupsWaiting \in Nat
      BY DEF TypeOK, ReceptionistTypeOK, SharedTypeOK, TableTypeOK
    <3>2. ASSUME groupsWaiting > 0 PROVE FALSE
      <4>1. listBegin \in listBegin .. listEnd - 1 /\ listBegin \in 0 .. listEnd - 1
        BY <3>1, <3>2 DEF ReceptionInv, ListFits, TypeOK, ReceptionistTypeOK
      <4> QED
        BY <2>1, <4>1 DEF ReceptionInv, ListFits, Awaits
    <3> QED
      BY <3>1, <3>2
  <2>5. qlength = 0
    <3>1. ASSUME qlength # 0 PROVE 0 \in 0 .. qlength - 1
      BY <3>1 DEF TypeOK, WaiterTypeOK
    <3>2. ASSUME qlength # 0 PROVE \E g \in Groups : Queued(g)
      BY <3>1, <3>2 DEF HandoverInv, RingFits, Queued
    <3> QED
      BY <2>1, <3>2, OrderPlaces DEF OrdersInv, Unheard
  <2>6. ~foodOrder
    BY <2>1, OrderPlaces DEF OrdersInv, HandoverInv, OneOrderOut, BeingServed,
       Unfed, Unheard
  <2> QED
    BY <2>1, <2>2, <2>3, <2>4, <2>5, <2>6
<1> QED
  BY <1>1, TypeInvariant, MutexHeldByOne, SlotsExclusive, ReceptionInvariant,
     ReceptionistEndsLast, ReceiptsInvariant, HandoverInvariant, OrdersInvariant,
     PTL
=============================================================================
