--------------------------- MODULE StateLog_proof ---------------------------
(***************************************************************************)
(* Proof that a line of the log shows a state of the restaurant, for any   *)
(* number of groups and tables, although the receptionist does not need    *)
(* the mutex for what it changes while another process composes the line.  *)
(***************************************************************************)
EXTENDS StateLog, Restaurant_proof

\* Where the receptionist may still change a table without taking the mutex.
AboutToDecide == receptionistAt \in {"decideTable", "freeTable"}

\* The line's tables, if nothing changed from now on.
completed == [g \in Groups |-> IF g \in DOMAIN lineTables THEN lineTables[g]
                               ELSE assignedTable[g]]

\* A line is composed just while somebody is in the critical region.
LoggerFits ==
  /\ logger \in {"idle", "waiting", "tables", "complete"}
  /\ logger = "idle" <=> ~Logging
  /\ logger \in {"idle", "waiting"} => lineTables = NoLine
  /\ lineTables = [g \in DOMAIN lineTables |-> lineTables[g]]
  /\ DOMAIN lineTables \subseteq Groups
  /\ logger = "complete" => DOMAIN lineTables = Groups

\* Completed, the line is a state that has passed: the present one, as long as
\* the receptionist may still change a table.
LineFits ==
  /\ Logging => logged \in passed
  /\ logger \in {"tables", "complete"} =>
       /\ <<lineWaiting, completed>> \in passed
       /\ AboutToDecide => lineWaiting = groupsWaiting
                           /\ completed = assignedTable

LogInv == LoggerFits /\ LineFits

-----------------------------------------------------------------------------
(* What the steps of the restaurant do to what a line shows                 *)

\* The receptionist comes to where it may change a table only with the up of
\* mutex; from there it changes one table or the number of groups waiting, and
\* then at most that number once more before it needs the mutex.
ReceptionistMayChange ==
  /\ AboutToDecide' => sem'["mutex"] = sem["mutex"] + 1
  /\ UNCHANGED assignedTable \/ UNCHANGED groupsWaiting
  /\ UNCHANGED assignedTable \/ AboutToDecide
  /\ \E g : \A h \in Groups \ {g} : assignedTable'[h] = assignedTable[h]

LEMMA ReceptionistChanges ==
  ASSUME TypeOK, ReceptionistNext PROVE ReceptionistMayChange
<1> USE DEF ReceptionistMayChange, AboutToDecide, tableVars, receptionistGoesTo
<1>1. sem \in [SemNames -> Nat] /\ "mutex" \in SemNames
      /\ assignedTable \in [Groups -> Tables \cup {NoTable}]
  BY DEF TypeOK, SharedTypeOK, SemTypeOK, TableTypeOK, SemNames
<1>2. \A x : receptionistLoop(x) \notin {"decideTable", "freeTable"}
  BY DEF receptionistLoop
<1>3. waitForGroup => ReceptionistMayChange
  BY <1>1, <1>2 DEF waitForGroup, WaitGroupLock, WaitGroupSave, TakeGroupRequest,
     ReadGroupRequest, lockReceptionistState, saveReceptionistState, requestDone
<1>4. provideTableOrWaitingRoom => ReceptionistMayChange
  <2>1. ProvideLock \/ ProvideSave => ReceptionistMayChange
    BY <1>1 DEF ProvideLock, ProvideSave, lockReceptionistState,
       saveReceptionistState, semUp
  <2>2. SeatGroup => ReceptionistMayChange
    BY <1>1, <1>2 DEF SeatGroup, requestDone
  <2>3. PutInWaitingRoom => ReceptionistMayChange
    BY <1>1, <1>2 DEF PutInWaitingRoom, requestDone
  <2> QED
    BY <2>1, <2>2, <2>3 DEF provideTableOrWaitingRoom
<1>5. receivePayment => ReceptionistMayChange
  <2>1. PaymentLock \/ PaymentSave => ReceptionistMayChange
    BY <1>1 DEF PaymentLock, PaymentSave, lockReceptionistState,
       saveReceptionistState, semUp
  <2>2. FreeTable => ReceptionistMayChange
    BY <1>1 DEF FreeTable
  <2>3. CallNextGroup \/ NobodyWaits => ReceptionistMayChange
    BY <1>1, <1>2 DEF CallNextGroup, NobodyWaits, requestDone
  <2> QED
    BY <2>1, <2>2, <2>3 DEF receivePayment
<1> QED
  BY <1>3, <1>4, <1>5 DEF ReceptionistNext

\* Nobody else changes any of it.
LEMMA RestaurantChanges ==
  ASSUME TypeOK,
         \/ \E g \in Groups : GroupStep(g)
         \/ ReceptionistStep \/ WaiterStep \/ ChefStep
  PROVE  \/ UNCHANGED <<groupsWaiting, assignedTable, receptionistAt>>
         \/ ReceptionistMayChange
BY ReceptionistChanges DEF GroupStep, GroupNext, ReceptionistStep, WaiterStep,
   WaiterNext, ChefStep, ChefNext, tableVars, receptionistVars

-----------------------------------------------------------------------------
(* The restaurant goes on                                                   *)

LEMMA MutexBit ==
  ASSUME TypeOK, TypeOK', MutualExclusion, MutualExclusion'
  PROVE  sem["mutex"] \in 0 .. 1 /\ sem'["mutex"] \in 0 .. 1
<1>1. sem["mutex"] \in Nat /\ sem'["mutex"] \in Nat
  BY DEF TypeOK, SharedTypeOK, SemTypeOK, SemNames
<1>2. /\ Cardinality(at(GroupCritical)) \in Nat
      /\ Cardinality(at(GroupCritical)') \in Nat
  BY GroupsAssumption, FS_Subset, FS_CardinalityType DEF at
<1> QED
  BY <1>1, <1>2 DEF MutualExclusion, Bit

\* A table changes while a line is being composed that shows the present.
LEMMA CompletedStays ==
  ASSUME TypeOK, TypeOK', UNCHANGED lineTables, completed = assignedTable,
         NEW g, \A h \in Groups \ {g} : assignedTable'[h] = assignedTable[h]
  PROVE  completed' = assignedTable \/ completed' = assignedTable'
<1>1. /\ assignedTable \in [Groups -> Tables \cup {NoTable}]
      /\ assignedTable' \in [Groups -> Tables \cup {NoTable}]
  BY DEF TypeOK, SharedTypeOK, TableTypeOK
<1>2. \A h \in Groups \cap DOMAIN lineTables : lineTables[h] = assignedTable[h]
  <2>1. \A h \in Groups : completed[h] = assignedTable[h]
    OBVIOUS
  <2> QED
    BY <2>1 DEF completed
<1>3. CASE g \in DOMAIN lineTables
  <2>1. \A h \in Groups : completed'[h] = assignedTable[h]
    BY <1>2, <1>3 DEF completed
  <2>2. completed' = [h \in Groups |-> completed'[h]]
    BY DEF completed
  <2> QED
    BY <1>1, <2>1, <2>2
<1>4. CASE g \notin DOMAIN lineTables
  <2>1. \A h \in Groups : completed'[h] = assignedTable'[h]
    BY <1>2, <1>4 DEF completed
  <2>2. completed' = [h \in Groups |-> completed'[h]]
    BY DEF completed
  <2> QED
    BY <1>1, <2>1, <2>2
<1> QED
  BY <1>3, <1>4

LEMMA RestaurantKeepsLine ==
  ASSUME TypeOK, TypeOK', MutualExclusion, MutualExclusion', LogInv,
         RestaurantStep
  PROVE  LogInv'
<1>1. sem["mutex"] \in 0 .. 1 /\ sem'["mutex"] \in 0 .. 1
  BY MutexBit
<1>2. CASE ~Logging /\ Logging'
  <2>1. /\ logger' = "waiting" /\ passed' = {logged'}
        /\ UNCHANGED <<lineWaiting, lineTables>>
    BY <1>2 DEF RestaurantStep
  <2>2. logger = "idle" /\ lineTables = NoLine
    BY <1>2 DEF LogInv, LoggerFits
  <2> QED
    BY <1>2, <2>1, <2>2 DEF LogInv, LoggerFits, LineFits
<1>3. CASE Logging /\ ~Logging'
  <2>1. logger' = "idle" /\ lineTables' = NoLine
    BY <1>3 DEF RestaurantStep
  <2>2. /\ lineTables' = [g \in DOMAIN lineTables' |-> lineTables'[g]]
        /\ DOMAIN lineTables' \subseteq Groups
    BY <2>1 DEF NoLine
  <2> QED
    BY <1>3, <2>1, <2>2 DEF LogInv, LoggerFits, LineFits
<1>4. CASE Logging <=> Logging'
  <2>1. /\ passed' = (IF Logging THEN passed \cup {logged'} ELSE passed)
        /\ UNCHANGED <<logger, lineWaiting, lineTables>>
    BY <1>4 DEF RestaurantStep
  <2>2. LoggerFits'
    BY <1>4, <2>1 DEF LogInv, LoggerFits
  <2>3. CASE ~Logging
    BY <1>4, <2>1, <2>3 DEF LogInv, LoggerFits, LineFits
  <2>4. CASE Logging
    <3>1. passed \subseteq passed' /\ logged' \in passed'
      BY <2>1, <2>4
    <3>2. ASSUME logger \in {"tables", "complete"}
          PROVE  /\ <<lineWaiting, completed>>' \in passed'
                 /\ AboutToDecide' => lineWaiting' = groupsWaiting'
                                      /\ completed' = assignedTable'
      <4>1. /\ <<lineWaiting, completed>> \in passed
            /\ AboutToDecide => lineWaiting = groupsWaiting
                                /\ completed = assignedTable
        BY <3>2 DEF LogInv, LineFits
      <4>2. UNCHANGED assignedTable => UNCHANGED completed
        BY <2>1 DEF completed
      <4>3. CASE UNCHANGED <<groupsWaiting, assignedTable, receptionistAt>>
        BY <2>1, <3>1, <4>1, <4>2, <4>3 DEF AboutToDecide
      <4>4. CASE ~UNCHANGED <<groupsWaiting, assignedTable, receptionistAt>>
        <5>1. /\ ~AboutToDecide'
              /\ UNCHANGED assignedTable \/ UNCHANGED groupsWaiting
              /\ UNCHANGED assignedTable \/ AboutToDecide
              /\ \E g : \A h \in Groups \ {g} :
                   assignedTable'[h] = assignedTable[h]
          BY <1>1, <1>4, <2>4, <4>4, RestaurantChanges
             DEF RestaurantStep, Logging, ReceptionistMayChange
        <5>2. CASE UNCHANGED assignedTable
          BY <2>1, <3>1, <4>1, <4>2, <5>1, <5>2
        <5>3. CASE ~UNCHANGED assignedTable
          <6>1. completed' = assignedTable \/ completed' = assignedTable'
            BY <2>1, <4>1, <5>1, <5>3, CompletedStays
          <6>2. lineWaiting' = groupsWaiting /\ groupsWaiting' = groupsWaiting
            BY <2>1, <4>1, <5>1, <5>3
          <6>3. logged \in passed
            BY <2>4 DEF LogInv, LineFits
          <6>4. <<lineWaiting, completed>>' \in {logged, logged'}
            BY <6>1, <6>2 DEF logged
          <6> QED
            BY <3>1, <5>1, <6>3, <6>4
        <5> QED
          BY <5>2, <5>3
      <4> QED
        BY <4>3, <4>4
    <3> QED
      BY <2>1, <2>2, <3>1, <3>2 DEF LogInv, LineFits
  <2> QED
    BY <2>3, <2>4
<1> QED
  BY <1>2, <1>3, <1>4

-----------------------------------------------------------------------------
(* saveState goes on                                                        *)

LEMMA SaveKeepsLine ==
  ASSUME TypeOK, LogInv, saveState PROVE LogInv'
<1>1. UNCHANGED <<vars, passed>>
  BY DEF saveState, PrintWaiting, PrintTable, PrintNewline
<1>2. UNCHANGED <<Logging, logged, groupsWaiting, assignedTable, AboutToDecide>>
  BY <1>1 DEF vars, sharedVars, semVars, tableVars, receptionistVars, Logging,
     logged, AboutToDecide
<1>3. assignedTable = [h \in Groups |-> assignedTable[h]]
  BY DEF TypeOK, SharedTypeOK, TableTypeOK
<1>4. ASSUME PrintWaiting PROVE LogInv'
  <2>1. lineTables' = NoLine /\ lineWaiting' = groupsWaiting /\ logger' = "tables"
        /\ logger = "waiting" /\ UNCHANGED lineTables
    BY <1>4 DEF PrintWaiting, LogInv, LoggerFits
  <2>2. completed' = assignedTable
    BY <1>2, <1>3, <2>1 DEF completed, NoLine
  <2>3. <<lineWaiting', completed'>> = logged /\ logged \in passed
    BY <2>1, <2>2 DEF logged, LogInv, LineFits, LoggerFits
  <2> QED
    BY <1>1, <1>2, <2>1, <2>2, <2>3 DEF LogInv, LoggerFits, LineFits
<1>5. ASSUME NEW g \in Groups, PrintTable(g) PROVE LogInv'
  <2>1. /\ UNCHANGED <<logger, lineWaiting>> /\ logger = "tables"
        /\ g \notin DOMAIN lineTables
        /\ lineTables' = [h \in DOMAIN lineTables \cup {g} |->
                            IF h = g THEN assignedTable[g] ELSE lineTables[h]]
    BY <1>5 DEF PrintTable
  <2>2. /\ DOMAIN lineTables' = DOMAIN lineTables \cup {g}
        /\ lineTables' = [h \in DOMAIN lineTables' |-> lineTables'[h]]
        /\ lineTables'[g] = assignedTable[g]
        /\ \A h \in DOMAIN lineTables : lineTables'[h] = lineTables[h]
    BY <2>1
  <2>3. completed' = completed
    BY <1>2, <2>1, <2>2 DEF completed
  <2> QED
    BY <1>1, <1>2, <2>1, <2>2, <2>3 DEF LogInv, LoggerFits, LineFits
<1>6. ASSUME PrintNewline PROVE LogInv'
  <2>1. /\ UNCHANGED <<lineWaiting, lineTables>> /\ logger = "tables"
        /\ logger' = "complete" /\ DOMAIN lineTables = Groups
    BY <1>6 DEF PrintNewline
  <2>2. completed' = completed
    BY <1>2, <2>1 DEF completed
  <2> QED
    BY <1>1, <1>2, <2>1, <2>2 DEF LogInv, LoggerFits, LineFits
<1> QED
  BY <1>4, <1>5, <1>6 DEF saveState

-----------------------------------------------------------------------------
(* The log keeps step with the restaurant, and changes nothing of it        *)

LEMMA LogIsRestaurant == LogSpec => Spec
<1>1. LogInit => Init
  BY DEF LogInit
<1>2. [LogNext]_<<vars, logVars>> => [Next]_vars
  BY DEF LogNext, RestaurantStep, saveState, PrintWaiting, PrintTable,
     PrintNewline, Next
<1> QED
  BY <1>1, <1>2, PTL DEF LogSpec, Spec

LEMMA LogStep ==
  TypeOK /\ TypeOK' /\ MutualExclusion /\ MutualExclusion' /\ LogInv
    /\ [LogNext]_<<vars, logVars>> => LogInv'
<1> SUFFICES ASSUME TypeOK, TypeOK', MutualExclusion, MutualExclusion', LogInv,
                    [LogNext]_<<vars, logVars>>
             PROVE  LogInv'
  OBVIOUS
<1>1. CASE RestaurantStep
  BY <1>1, RestaurantKeepsLine
<1>2. CASE saveState
  BY <1>2, SaveKeepsLine
<1>3. CASE UNCHANGED <<vars, logVars>>
  <2>1. UNCHANGED <<Logging, logged, groupsWaiting, assignedTable, AboutToDecide,
                    logger, lineWaiting, lineTables, passed>>
    BY <1>3 DEF vars, sharedVars, semVars, tableVars, receptionistVars, Logging,
       logged, AboutToDecide, logVars
  <2>2. UNCHANGED completed
    BY <2>1 DEF completed
  <2> QED
    BY <2>1, <2>2 DEF LogInv, LoggerFits, LineFits
<1> QED
  BY <1>1, <1>2, <1>3 DEF LogNext, Terminated

\* However many groups there are, every line that saveState appends to the log
\* shows a state in which the restaurant was while the line was composed.
THEOREM LineIsAState == LogSpec => []LogLineIsAState
<1>1. LogInit => LogInv
  <2> SUFFICES ASSUME LogInit PROVE LogInv
    OBVIOUS
  <2>1. sem["mutex"] = 1
    BY DEF LogInit, Init, SharedInit, enabledSems, SemNames
  <2>2. /\ lineTables = [g \in DOMAIN lineTables |-> lineTables[g]]
        /\ DOMAIN lineTables \subseteq Groups
    BY DEF LogInit, NoLine
  <2> QED
    BY <2>1, <2>2 DEF LogInit, LogInv, LoggerFits, LineFits, Logging
<1>2. LogInv => LogLineIsAState
  <2> SUFFICES ASSUME LogInv, logger = "complete"
               PROVE  <<lineWaiting, lineTables>> \in passed
    BY DEF LogLineIsAState
  <2>1. completed = lineTables
    BY DEF completed, LogInv, LoggerFits
  <2> QED
    BY <2>1 DEF LogInv, LineFits
<1> QED
  BY <1>1, <1>2, LogStep, LogIsRestaurant, TypeCorrect, MutexHeldByOne, PTL
     DEF LogSpec
=============================================================================
