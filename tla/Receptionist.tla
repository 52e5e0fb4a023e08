---------------------------- MODULE Receptionist ----------------------------
(***************************************************************************)
(* The receptionist process (semSharedMemReceptionist.c).  It takes two    *)
(* requests of each group, for a table and for the bill, and keeps in its  *)
(* private struct record which tables are occupied and a ring of the       *)
(* groups that wait for one.                                               *)
(***************************************************************************)
EXTENDS SharedData

CONSTANT WAITLIST_LENGTH  \* length of rec->waitlist

ASSUME WaitlistAssumption ==
  WAITLIST_LENGTH \in Nat \ {0} /\ nGroups <= WAITLIST_LENGTH

VARIABLES
  receptionistAt,   \* where the receptionist is in its program
  receptionistReqs, \* nReq of main: requests handled
  req,              \* the request in hand
  guest,            \* the parameter n of the handler
  \* rec: the set of tables with their status bit set, and the other fields
  occupied, nOccupied, nextTable, waitlist, listBegin, listEnd

recordVars == <<occupied, nOccupied, nextTable, waitlist, listBegin, listEnd>>
receptionistVars == <<receptionistAt, receptionistReqs, req, guest, recordVars>>

ReceptionistLocations ==
  {"waitForGroup", "waitingForGroup", "takeRequest", "readRequest",
   "provideTable", "assigningTable", "decideTable", "receivePayment",
   "receivingPayment", "freeTable", "nextGroup", "exit", "tableNotFound"}

ReceptionistCritical == {"waitingForGroup", "assigningTable",
                         "receivingPayment"}

\* Mutant: the loop counts one request for each group.
receptionistLoopOnce(reqs) == IF reqs < nGroups THEN "waitForGroup" ELSE "exit"

\* The loop of main: another request, or the end.
receptionistLoop(reqs) == IF reqs < 2 * nGroups THEN "waitForGroup" ELSE "exit"

ReceptionistInit ==
  /\ receptionistAt = receptionistLoop(0)
  /\ receptionistReqs = 0
  /\ req = NoRequest
  /\ guest = NoGroup
  /\ occupied = {}
  /\ nOccupied = 0
  /\ nextTable = 0
  /\ waitlist = [i \in 0 .. WAITLIST_LENGTH - 1 |-> NoGroup]
  /\ listBegin = 0
  /\ listEnd = 0

ReceptionistTypeOK ==
  /\ receptionistAt \in ReceptionistLocations
  /\ receptionistReqs \in 0 .. 2 * nGroups
  /\ req \in Request \cup {NoRequest}
  /\ guest \in Groups \cup {NoGroup}
  /\ occupied \subseteq Tables
  /\ nOccupied \in Int
  /\ nextTable \in Tables
  /\ waitlist \in [0 .. WAITLIST_LENGTH - 1 -> Groups \cup {NoGroup}]
  /\ listBegin \in 0 .. WAITLIST_LENGTH - 1
  /\ listEnd \in 0 .. WAITLIST_LENGTH - 1

receptionistGoesTo(from, to) == receptionistAt = from /\ receptionistAt' = to

lockReceptionistState(from, to) ==
  /\ receptionistGoesTo(from, to)
  /\ semDown("mutex")
  /\ UNCHANGED <<receptionistReqs, req, guest, recordVars, receptionistStat,
                 tableVars>>

saveReceptionistState(from, state, to) ==
  /\ receptionistGoesTo(from, to)
  /\ receptionistStat' = state
  /\ semUp("mutex")
  /\ UNCHANGED <<receptionistReqs, req, guest, recordVars, tableVars>>

\* A handler returns to main.
requestDone ==
  /\ receptionistReqs' = receptionistReqs + 1
  /\ receptionistAt' = receptionistLoop(receptionistReqs')
  /\ guest' = NoGroup

-----------------------------------------------------------------------------
(* waitForGroup, and the switch of main on what it returns                  *)

WaitGroupLock == lockReceptionistState("waitForGroup", "waitingForGroup")
WaitGroupSave == saveReceptionistState("waitingForGroup", "WAIT_FOR_REQUEST",
                                       "takeRequest")
TakeGroupRequest ==
  /\ receptionistGoesTo("takeRequest", "readRequest")
  /\ semDown("receptionistReq")
  /\ req' = receptionistRequest
  /\ UNCHANGED <<receptionistReqs, guest, recordVars, receptionistStat,
                 tableVars>>

ReadGroupRequest ==
  /\ receptionistAt = "readRequest"
  /\ semUp("receptionistRequestPossible")
  /\ CASE req.reqType = "TABLEREQ" -> /\ receptionistAt' = "provideTable"
                                      /\ guest' = req.reqGroup
                                      /\ UNCHANGED receptionistReqs
       [] req.reqType = "BILLREQ"  -> /\ receptionistAt' = "receivePayment"
                                      /\ guest' = req.reqGroup
                                      /\ UNCHANGED receptionistReqs
       [] OTHER -> requestDone
  /\ req' = NoRequest
  /\ UNCHANGED <<recordVars, receptionistStat, tableVars>>

-----------------------------------------------------------------------------
(* provideTableOrWaitingRoom, with decideTableOrWait and set_table_occupied *)

\* Mutant: nextTable is taken without looking at its status.
nextTableBlindly == IF nOccupied = NUMTABLES THEN NoTable ELSE nextTable

\* The first free table from nextTable on, cyclically; -1 when there is none.
decideTableOrWait ==
  LET after(i) == (i + nextTable) % NUMTABLES
      free == {i \in Tables : after(i) \notin occupied}
  IN  IF nOccupied = NUMTABLES \/ free = {}
      THEN NoTable
      ELSE after(CHOOSE i \in free : \A j \in free : i <= j)

\* Mutant: nextTable does not wrap around.
occupyTableUnwrapped(t) ==
  /\ occupied' = occupied \cup {t}
  /\ nOccupied' = nOccupied + 1
  /\ nextTable' = t + 1

\* Mutant: the record does not learn that the table is taken.
occupyTableUnrecorded(t) ==
  /\ nextTable' = (t + 1) % NUMTABLES
  /\ UNCHANGED <<occupied, nOccupied>>

occupyTable(t) ==
  /\ occupied' = occupied \cup {t}
  /\ nOccupied' = nOccupied + 1
  /\ nextTable' = (t + 1) % NUMTABLES

\* Mutant: the table stays counted.
vacateTableUncounted(t) ==
  /\ occupied' = occupied \ {t}
  /\ UNCHANGED <<nOccupied, nextTable>>

vacateTable(t) ==
  /\ occupied' = occupied \ {t}
  /\ nOccupied' = nOccupied - 1
  /\ UNCHANGED nextTable

ProvideLock == lockReceptionistState("provideTable", "assigningTable")
ProvideSave == saveReceptionistState("assigningTable", "ASSIGNTABLE",
                                     "decideTable")

SeatGroup ==
  LET t == decideTableOrWait IN
  /\ receptionistAt = "decideTable"
  /\ t # NoTable
  /\ occupyTable(t)
  /\ assignedTable' = [assignedTable EXCEPT ![guest] = t]
  /\ waitForTable' = [waitForTable EXCEPT ![guest] = @ + 1]
  /\ requestDone
  /\ UNCHANGED <<req, waitlist, listBegin, listEnd, receptionistStat,
                 groupsWaiting, sem, requestReceived, foodArrived, tableDone>>

\* Mutant: the group is told to proceed without a table.
PutInWaitingRoomAwake ==
  /\ receptionistAt = "decideTable"
  /\ decideTableOrWait = NoTable
  /\ waitlist' = [waitlist EXCEPT ![listEnd] = guest]
  /\ listEnd' = (listEnd + 1) % WAITLIST_LENGTH
  /\ groupsWaiting' = groupsWaiting + 1
  /\ waitForTable' = [waitForTable EXCEPT ![guest] = @ + 1]
  /\ requestDone
  /\ UNCHANGED <<req, occupied, nOccupied, nextTable, listBegin,
                 receptionistStat, assignedTable, sem, requestReceived,
                 foodArrived, tableDone>>

\* Mutant: the next group overwrites the entry.
PutInWaitingRoomInPlace ==
  /\ receptionistAt = "decideTable"
  /\ decideTableOrWait = NoTable
  /\ waitlist' = [waitlist EXCEPT ![listEnd] = guest]
  /\ groupsWaiting' = groupsWaiting + 1
  /\ requestDone
  /\ UNCHANGED <<req, occupied, nOccupied, nextTable, listBegin, listEnd,
                 receptionistStat, assignedTable, semVars>>

PutInWaitingRoom ==
  /\ receptionistAt = "decideTable"
  /\ decideTableOrWait = NoTable
  /\ waitlist' = [waitlist EXCEPT ![listEnd] = guest]
  /\ listEnd' = (listEnd + 1) % WAITLIST_LENGTH
  /\ groupsWaiting' = groupsWaiting + 1
  /\ requestDone
  /\ UNCHANGED <<req, occupied, nOccupied, nextTable, listBegin,
                 receptionistStat, assignedTable, semVars>>

-----------------------------------------------------------------------------
(* receivePayment, with decideNextGroup                                     *)

PaymentLock == lockReceptionistState("receivePayment", "receivingPayment")
PaymentSave == saveReceptionistState("receivingPayment", "RECVPAY",
                                     "freeTable")

\* Mutant: nobody is told that the payment is received.
FreeTableSilently ==
  LET t == assignedTable[guest] IN
  /\ receptionistGoesTo("freeTable", "nextGroup")
  /\ assignedTable' = [assignedTable EXCEPT ![guest] = NoTable]
  /\ vacateTable(t)
  /\ UNCHANGED <<receptionistReqs, req, guest, waitlist, listBegin, listEnd,
                 receptionistStat, groupsWaiting, semVars>>

\* Mutant: the group is read again from the slot, after the slot is released.
FreeTableOfLatest ==
  LET payer == receptionistRequest.reqGroup
      t     == assignedTable[payer]
  IN
  /\ receptionistAt = "freeTable"
  /\ IF t = NoTable
     THEN /\ receptionistAt' = "tableNotFound"
          /\ UNCHANGED <<occupied, nOccupied, nextTable, assignedTable,
                         tableDone>>
     ELSE /\ receptionistAt' = "nextGroup"
          /\ assignedTable' = [assignedTable EXCEPT ![payer] = NoTable]
          /\ vacateTable(t)
          /\ tableDone' = [tableDone EXCEPT ![t] = @ + 1]
  /\ UNCHANGED <<receptionistReqs, req, guest, waitlist, listBegin, listEnd,
                 receptionistStat, groupsWaiting, sem, waitForTable,
                 requestReceived, foodArrived>>

\* A group without a table would make the code take the mutex and sleep for
\* ever.
FreeTable ==
  LET t == assignedTable[guest] IN
  /\ receptionistAt = "freeTable"
  /\ IF t = NoTable
     THEN /\ receptionistAt' = "tableNotFound"
          /\ UNCHANGED <<occupied, nOccupied, nextTable, assignedTable,
                         tableDone>>
     ELSE /\ receptionistAt' = "nextGroup"
          /\ assignedTable' = [assignedTable EXCEPT ![guest] = NoTable]
          /\ vacateTable(t)
          /\ tableDone' = [tableDone EXCEPT ![t] = @ + 1]
  /\ UNCHANGED <<receptionistReqs, req, guest, waitlist, listBegin, listEnd,
                 receptionistStat, groupsWaiting, sem, waitForTable,
                 requestReceived, foodArrived>>

\* Mutant: the group that came last is called first.
CallLatestGroup ==
  /\ receptionistGoesTo("nextGroup", "provideTable")
  /\ groupsWaiting > 0
  /\ guest' = waitlist[(listEnd + WAITLIST_LENGTH - 1) % WAITLIST_LENGTH]
  /\ listEnd' = (listEnd + WAITLIST_LENGTH - 1) % WAITLIST_LENGTH
  /\ groupsWaiting' = groupsWaiting - 1
  /\ UNCHANGED <<receptionistReqs, req, occupied, nOccupied, nextTable,
                 waitlist, listBegin, receptionistStat, assignedTable, semVars>>

\* decideNextGroup: the group that has waited longest gets the free table.
CallNextGroup ==
  /\ receptionistGoesTo("nextGroup", "provideTable")
  /\ groupsWaiting > 0
  /\ guest' = waitlist[listBegin]
  /\ listBegin' = (listBegin + 1) % WAITLIST_LENGTH
  /\ groupsWaiting' = groupsWaiting - 1
  /\ UNCHANGED <<receptionistReqs, req, occupied, nOccupied, nextTable,
                 waitlist, listEnd, receptionistStat, assignedTable, semVars>>

\* Mutant: the receptionist need not look into the waiting room.
NobodyCalled ==
  /\ receptionistAt = "nextGroup"
  /\ requestDone
  /\ UNCHANGED <<req, recordVars, receptionistStat, tableVars, semVars>>

NobodyWaits ==
  /\ receptionistAt = "nextGroup"
  /\ groupsWaiting = 0
  /\ requestDone
  /\ UNCHANGED <<req, recordVars, receptionistStat, tableVars, semVars>>

-----------------------------------------------------------------------------
waitForGroup == \/ WaitGroupLock \/ WaitGroupSave
                \/ TakeGroupRequest \/ ReadGroupRequest

provideTableOrWaitingRoom == \/ ProvideLock \/ ProvideSave
                             \/ SeatGroup \/ PutInWaitingRoom

receivePayment == \/ PaymentLock \/ PaymentSave \/ FreeTable
                  \/ CallNextGroup \/ NobodyWaits

\* main: the receptionist writes its own state, the tables and the number of
\* groups waiting.
ReceptionistNext ==
  /\ waitForGroup \/ provideTableOrWaitingRoom \/ receivePayment
  /\ UNCHANGED <<groupStat, waiterStat, chefStat, orderVars, requestVars>>

=============================================================================
