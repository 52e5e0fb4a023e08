----------------------------- MODULE SharedData -----------------------------
(***************************************************************************)
(* The shared memory region (struct SHARED_DATA) and the semaphore set     *)
(* through which the processes of the restaurant simulation cooperate.     *)
(*                                                                         *)
(* Every process module EXTENDS this one.  A step of a process is one      *)
(* semaphore operation together with the program text that follows it up   *)
(* to the next operation, or one block of private text between two of      *)
(* them.  Values the C code leaves as -1 are NoTable and NoGroup here.     *)
(***************************************************************************)
EXTENDS Integers, FiniteSets

CONSTANTS
  Groups,    \* the group processes of config.txt (fSt.nGroups of them)
  NUMTABLES, \* number of tables
  NoGroup    \* the group id -1

ASSUME GroupsAssumption == IsFiniteSet(Groups) /\ NoGroup \notin Groups
ASSUME TablesAssumption == NUMTABLES \in Nat \ {0}

nGroups == Cardinality(Groups)
Tables  == 0 .. NUMTABLES - 1
NoTable == -1

GroupStates        == {"GOTOREST", "ATRECEPTION", "FOOD_REQUEST",
                       "WAIT_FOR_FOOD", "EAT", "CHECKOUT", "LEAVING"}
ChefStates         == {"WAIT_FOR_ORDER", "COOK", "REST"}
WaiterStates       == {"WAIT_FOR_REQUEST", "INFORM_CHEF", "TAKE_TO_TABLE"}
ReceptionistStates == {"WAIT_FOR_REQUEST", "ASSIGNTABLE", "RECVPAY"}

\* request: an id and the group that issues it.  Shared memory starts zeroed,
\* and 0 is no request id.
RequestTypes == {"TABLEREQ", "BILLREQ", "FOODREQ", "FOODREADY"}
Request      == [reqType : RequestTypes, reqGroup : Groups]
NoRequest    == [reqType |-> "none", reqGroup |-> NoGroup]
MakeRequest(type, g) == [reqType |-> type, reqGroup |-> g]

-----------------------------------------------------------------------------
VARIABLES
  \* fSt.st: what saveState logs of each entity
  groupStat, receptionistStat, waiterStat, chefStat,
  \* fSt: tables and waiting groups
  assignedTable, groupsWaiting,
  \* fSt: the waiter's order to the chef
  foodOrder, foodGroup,
  \* fSt: the two request slots
  receptionistRequest, waiterRequest,
  \* the semaphores with one instance, by name
  sem,
  \* the semaphores with one instance per group or per table
  waitForTable, requestReceived, foodArrived, tableDone

statVars    == <<groupStat, receptionistStat, waiterStat, chefStat>>
tableVars   == <<assignedTable, groupsWaiting>>
orderVars   == <<foodOrder, foodGroup>>
requestVars == <<receptionistRequest, waiterRequest>>
semVars     == <<sem, waitForTable, requestReceived, foodArrived, tableDone>>
sharedVars  == <<statVars, tableVars, orderVars, requestVars, semVars>>

SemNames == {"mutex", "receptionistReq", "receptionistRequestPossible",
             "waiterRequest", "waiterRequestPossible", "waitOrder",
             "orderReceived"}

\* What main leaves in the region before it lets the entities go: zeroes, -1
\* for the tables of the groups, and the first state of everybody.
RegionInit ==
  /\ groupStat = [g \in Groups |-> "GOTOREST"]
  /\ receptionistStat = "WAIT_FOR_REQUEST"
  /\ waiterStat = "WAIT_FOR_REQUEST"
  /\ chefStat = "WAIT_FOR_ORDER"
  /\ assignedTable = [g \in Groups |-> NoTable]
  /\ groupsWaiting = 0
  /\ foodOrder = FALSE
  /\ foodGroup = NoGroup
  /\ receptionistRequest = NoRequest
  /\ waiterRequest = NoRequest

\* A set is created red, and main has done three ups.
TableSemsRed ==
  /\ waitForTable = [g \in Groups |-> 0]
  /\ requestReceived = [t \in Tables |-> 0]
  /\ foodArrived = [t \in Tables |-> 0]
  /\ tableDone = [t \in Tables |-> 0]

enabledSems == [s \in SemNames |->
                  IF s \in {"mutex", "waiterRequestPossible",
                            "receptionistRequestPossible"} THEN 1 ELSE 0]

SharedInit == RegionInit /\ sem = enabledSems /\ TableSemsRed

StatTypeOK ==
  /\ groupStat \in [Groups -> GroupStates]
  /\ receptionistStat \in ReceptionistStates
  /\ waiterStat \in WaiterStates
  /\ chefStat \in ChefStates

TableTypeOK ==
  /\ assignedTable \in [Groups -> Tables \cup {NoTable}]
  /\ groupsWaiting \in Nat

OrderTypeOK ==
  /\ foodOrder \in BOOLEAN
  /\ foodGroup \in Groups \cup {NoGroup}

RequestTypeOK ==
  /\ receptionistRequest \in Request \cup {NoRequest}
  /\ waiterRequest \in Request \cup {NoRequest}

SemTypeOK ==
  /\ sem \in [SemNames -> Nat]
  /\ waitForTable \in [Groups -> Nat]
  /\ requestReceived \in [Tables -> Nat]
  /\ foodArrived \in [Tables -> Nat]
  /\ tableDone \in [Tables -> Nat]

SharedTypeOK ==
  StatTypeOK /\ TableTypeOK /\ OrderTypeOK /\ RequestTypeOK /\ SemTypeOK

-----------------------------------------------------------------------------
(* semDownOrExit and semUpOrExit, on one semaphore of the set: the first    *)
(* blocks until the counter is positive.                                    *)

semDown(s) ==
  /\ sem[s] > 0
  /\ sem' = [sem EXCEPT ![s] = @ - 1]
  /\ UNCHANGED <<waitForTable, requestReceived, foodArrived, tableDone>>

semUp(s) ==
  /\ sem' = [sem EXCEPT ![s] = @ + 1]
  /\ UNCHANGED <<waitForTable, requestReceived, foodArrived, tableDone>>

=============================================================================
