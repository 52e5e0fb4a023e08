------------------------------- MODULE Waiter -------------------------------
(***************************************************************************)
(* The waiter process (semSharedMemWaiter.c).  It takes one request after  *)
(* another from its slot: a group's order goes to the chef, a meal of the  *)
(* chef's to its table.  An order that arrives while the chef cooks is     *)
(* kept in a private ring, so that the slot is free for the chef's answer. *)
(***************************************************************************)
EXTENDS SharedData

VARIABLES
  waiterAt,     \* where the waiter is in its program
  waiterReqs,   \* nReq of main: requests handled
  \* the static variables of waitForClientOrChef, and its locals
  queue, qlength, qreadNext, qwriteNext, chefIsBusy, incoming,
  outgoing,     \* what it returns to main
  waiterTable   \* the local variable `table' of the handlers

queueVars  == <<queue, qlength, qreadNext, qwriteNext>>
waiterVars == <<waiterAt, waiterReqs, queueVars, chefIsBusy, incoming,
                outgoing, waiterTable>>

WaiterLocations ==
  {"poll", "waitingForRequest", "takeRequest", "readRequest", "informChef",
   "informingChef", "postOrder", "waitForChef", "informGroup",
   "takeFoodToTable", "takingToTable", "serveFood", "exit", "wrongRequest"}

WaiterCritical == {"waitingForRequest", "informingChef", "takingToTable"}

WaiterInit ==
  /\ waiterAt = IF nGroups = 0 THEN "exit" ELSE "poll"
  /\ waiterReqs = 0
  /\ queue = [i \in Tables |-> NoRequest]
  /\ qlength = 0
  /\ qreadNext = 0
  /\ qwriteNext = 0
  /\ chefIsBusy = foodOrder
  /\ incoming = NoRequest
  /\ outgoing = NoRequest
  /\ waiterTable = NoTable

WaiterTypeOK ==
  /\ waiterAt \in WaiterLocations
  /\ waiterReqs \in 0 .. 2 * nGroups
  /\ queue \in [Tables -> Request \cup {NoRequest}]
  /\ qlength \in Nat
  /\ qreadNext \in Tables
  /\ qwriteNext \in Tables
  /\ chefIsBusy \in BOOLEAN
  /\ incoming \in Request \cup {NoRequest}
  /\ outgoing \in Request \cup {NoRequest}
  /\ waiterTable \in Tables \cup {NoTable}

waiterGoesTo(from, to) == waiterAt = from /\ waiterAt' = to

waiterSame == UNCHANGED <<waiterReqs, queueVars, chefIsBusy, incoming,
                          outgoing, waiterTable>>

\* Mutant: chef_is_busy is read before the handler changes foodOrder.
handledStale ==
  /\ waiterReqs' = waiterReqs + 1
  /\ waiterAt' = IF waiterReqs' < 2 * nGroups THEN "poll" ELSE "exit"
  /\ chefIsBusy' = foodOrder
  /\ outgoing' = NoRequest
  /\ waiterTable' = NoTable
  /\ UNCHANGED <<queueVars, incoming>>

\* A handler returns to main, which counts it and either ends or calls
\* waitForClientOrChef again; that reads foodOrder once, as it starts.
handled ==
  /\ waiterReqs' = waiterReqs + 1
  /\ waiterAt' = IF waiterReqs' < 2 * nGroups THEN "poll" ELSE "exit"
  /\ chefIsBusy' = foodOrder'
  /\ outgoing' = NoRequest
  /\ waiterTable' = NoTable
  /\ UNCHANGED <<queueVars, incoming>>

-----------------------------------------------------------------------------
(* waitForClientOrChef                                                      *)

\* Mutant: an order is taken to the chef whether it is busy or not.
mayServeQueueAnyway == qlength > 0

mayServeQueue == qlength > 0 /\ ~chefIsBusy

\* Mutant: the entry stays in the ring.
TakeQueuedKept ==
  /\ waiterGoesTo("poll", "informChef")
  /\ mayServeQueue
  /\ outgoing' = queue[qreadNext]
  /\ UNCHANGED <<waiterReqs, queueVars, chefIsBusy, incoming, waiterTable,
                 waiterStat, orderVars, semVars>>

\* Mutant: the latest order is taken first.
TakeQueuedLatest ==
  /\ waiterGoesTo("poll", "informChef")
  /\ mayServeQueue
  /\ outgoing' = queue[(qwriteNext + NUMTABLES - 1) % NUMTABLES]
  /\ qwriteNext' = (qwriteNext + NUMTABLES - 1) % NUMTABLES
  /\ qlength' = qlength - 1
  /\ UNCHANGED <<waiterReqs, queue, qreadNext, chefIsBusy, incoming,
                 waiterTable, waiterStat, orderVars, semVars>>

TakeQueued ==
  /\ waiterGoesTo("poll", "informChef")
  /\ mayServeQueue
  /\ outgoing' = queue[qreadNext]
  /\ qreadNext' = (qreadNext + 1) % NUMTABLES
  /\ qlength' = qlength - 1
  /\ UNCHANGED <<waiterReqs, queue, qwriteNext, chefIsBusy, incoming,
                 waiterTable, waiterStat, orderVars, semVars>>

IdleLock ==
  /\ waiterGoesTo("poll", "waitingForRequest")
  /\ ~mayServeQueue
  /\ waiterStat # "WAIT_FOR_REQUEST"
  /\ semDown("mutex")
  /\ waiterSame
  /\ UNCHANGED <<waiterStat, orderVars>>

IdleSave ==
  /\ waiterGoesTo("waitingForRequest", "takeRequest")
  /\ waiterStat' = "WAIT_FOR_REQUEST"
  /\ semUp("mutex")
  /\ waiterSame
  /\ UNCHANGED orderVars

TakeRequest ==
  /\ \/ waiterAt = "takeRequest"
     \/ waiterAt = "poll" /\ ~mayServeQueue /\ waiterStat = "WAIT_FOR_REQUEST"
  /\ waiterAt' = "readRequest"
  /\ semDown("waiterRequest")
  /\ incoming' = waiterRequest
  /\ UNCHANGED <<waiterReqs, queueVars, chefIsBusy, outgoing, waiterTable,
                 waiterStat, orderVars>>

enqueueIncoming ==
  /\ queue' = [queue EXCEPT ![qwriteNext] = incoming]
  /\ qwriteNext' = (qwriteNext + 1) % NUMTABLES
  /\ qlength' = qlength + 1
  /\ waiterAt' = "poll"
  /\ UNCHANGED <<qreadNext, outgoing>>

\* Free the slot, then keep an order or return a meal.  On any other request
\* the code takes the mutex and sleeps for ever.
ReadRequest ==
  /\ waiterAt = "readRequest"
  /\ semUp("waiterRequestPossible")
  /\ CASE incoming.reqType = "FOODREQ"   -> enqueueIncoming
       [] incoming.reqType = "FOODREADY" -> /\ outgoing' = incoming
                                            /\ waiterAt' = "takeFoodToTable"
                                            /\ UNCHANGED queueVars
       [] OTHER -> waiterAt' = "wrongRequest" /\ UNCHANGED <<queueVars, outgoing>>
  /\ incoming' = NoRequest
  /\ UNCHANGED <<waiterReqs, chefIsBusy, waiterTable, waiterStat, orderVars>>

-----------------------------------------------------------------------------
(* informChef                                                               *)

InformLock ==
  /\ waiterGoesTo("informChef", "informingChef")
  /\ semDown("mutex")
  /\ waiterSame
  /\ UNCHANGED <<waiterStat, orderVars>>

InformSave ==
  /\ waiterGoesTo("informingChef", "postOrder")
  /\ foodGroup' = outgoing.reqGroup
  /\ foodOrder' = TRUE
  /\ waiterStat' = "INFORM_CHEF"
  /\ semUp("mutex")
  /\ waiterSame

PostOrder ==
  /\ waiterGoesTo("postOrder", "waitForChef")
  /\ semUp("waitOrder")
  /\ waiterSame
  /\ UNCHANGED <<waiterStat, orderVars>>

WaitForChef ==
  /\ waiterGoesTo("waitForChef", "informGroup")
  /\ semDown("orderReceived")
  /\ waiterTable' = assignedTable[outgoing.reqGroup]
  /\ UNCHANGED <<waiterReqs, queueVars, chefIsBusy, incoming, outgoing,
                 waiterStat, orderVars>>

InformGroup ==
  /\ waiterAt = "informGroup"
  /\ requestReceived' = [requestReceived EXCEPT ![waiterTable] = @ + 1]
  /\ UNCHANGED <<sem, waitForTable, foodArrived, tableDone, waiterStat,
                 orderVars>>
  /\ handled

-----------------------------------------------------------------------------
(* takeFoodToTable                                                          *)

TakeFoodLock ==
  /\ waiterGoesTo("takeFoodToTable", "takingToTable")
  /\ semDown("mutex")
  /\ waiterSame
  /\ UNCHANGED <<waiterStat, orderVars>>

TakeFoodSave ==
  /\ waiterGoesTo("takingToTable", "serveFood")
  /\ waiterStat' = "TAKE_TO_TABLE"
  /\ waiterTable' = assignedTable[outgoing.reqGroup]
  /\ semUp("mutex")
  /\ UNCHANGED <<waiterReqs, queueVars, chefIsBusy, incoming, outgoing,
                 orderVars>>

\* Mutant: the wrong semaphore of the table is signalled.
ServeFoodSwapped ==
  /\ waiterAt = "serveFood"
  /\ foodOrder' = FALSE
  /\ requestReceived' = [requestReceived EXCEPT ![waiterTable] = @ + 1]
  /\ handled
  /\ UNCHANGED <<sem, waitForTable, foodArrived, tableDone, waiterStat,
                 foodGroup>>

\* Mutant: the chef stays marked as busy.
ServeFoodStillBusy ==
  /\ waiterAt = "serveFood"
  /\ foodArrived' = [foodArrived EXCEPT ![waiterTable] = @ + 1]
  /\ UNCHANGED <<sem, waitForTable, requestReceived, tableDone, waiterStat,
                 orderVars>>
  /\ handled

ServeFood ==
  /\ waiterAt = "serveFood"
  /\ foodOrder' = FALSE
  /\ foodArrived' = [foodArrived EXCEPT ![waiterTable] = @ + 1]
  /\ handled
  /\ UNCHANGED <<sem, waitForTable, requestReceived, tableDone, waiterStat,
                 foodGroup>>

-----------------------------------------------------------------------------
waitForClientOrChef ==
  \/ TakeQueued \/ IdleLock \/ IdleSave \/ TakeRequest \/ ReadRequest

informChef == \/ InformLock \/ InformSave \/ PostOrder
              \/ WaitForChef \/ InformGroup

takeFoodToTable == TakeFoodLock \/ TakeFoodSave \/ ServeFood

\* main: the waiter writes its own state and its order to the chef.
WaiterNext ==
  /\ waitForClientOrChef \/ informChef \/ takeFoodToTable
  /\ UNCHANGED <<groupStat, receptionistStat, chefStat, tableVars,
                 requestVars>>

=============================================================================
