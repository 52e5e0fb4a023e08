------------------------------ MODULE StateLog ------------------------------
(***************************************************************************)
(* The lines that saveState appends to the log (logging.c).  A process     *)
(* writes its state and calls saveState while it holds the mutex; Restaurant *)
(* has both in the action that gives the mutex back.  Here the line is     *)
(* composed field by field before that action, while the other processes   *)
(* go on: the states of the entities are written inside the mutex only,    *)
(* but groupsWaiting and assignedTable are not.                            *)
(***************************************************************************)
EXTENDS Restaurant

VARIABLES
  logger,      \* where the process in its critical region is with its line
  lineWaiting, \* the line's groupsWaiting
  lineTables,  \* the line's tables of the groups, as far as composed
  passed       \* the values of both that the restaurant has had since the
               \* critical region was entered (history)

logVars == <<logger, lineWaiting, lineTables, passed>>

\* What a line shows that may change while it is composed.
logged == <<groupsWaiting, assignedTable>>

\* Somebody is between its down and its up of mutex.
Logging == sem["mutex"] = 0

NoLine == [g \in {} |-> NoTable]

LogInit ==
  /\ Init
  /\ logger = "idle"
  /\ lineWaiting = 0
  /\ lineTables = NoLine
  /\ passed = {}

\* A step of the restaurant: entering a critical region opens a line, leaving
\* it needs the line to be complete.
RestaurantStep ==
  /\ \/ \E g \in Groups : GroupStep(g)
     \/ ReceptionistStep
     \/ WaiterStep
     \/ ChefStep
  /\ CASE ~Logging /\ Logging' ->
            /\ logger' = "waiting"
            /\ passed' = {logged'}
            /\ UNCHANGED <<lineWaiting, lineTables>>
       [] Logging /\ ~Logging' ->
            /\ logger = "complete"
            /\ logger' = "idle"
            /\ passed' = {}
            /\ lineWaiting' = 0
            /\ lineTables' = NoLine
       [] OTHER ->
            /\ passed' = IF Logging THEN passed \cup {logged'} ELSE passed
            /\ UNCHANGED <<logger, lineWaiting, lineTables>>

-----------------------------------------------------------------------------
(* saveState.  The states of the entities are in it, too, but nobody else   *)
(* changes them meanwhile.                                                  *)

PrintWaiting ==
  /\ logger = "waiting"
  /\ lineWaiting' = groupsWaiting
  /\ logger' = "tables"
  /\ UNCHANGED <<lineTables, passed, vars>>

\* The code goes through the groups in the order of their numbers; any order
\* keeps the groups alike.  It reads a table twice, to see whether there is one
\* and to print it: what it prints is as if read once, the first time if there
\* is none, the second time otherwise.
PrintTable(g) ==
  /\ logger = "tables"
  /\ g \notin DOMAIN lineTables
  /\ lineTables' = [h \in DOMAIN lineTables \cup {g} |->
                      IF h = g THEN assignedTable[g] ELSE lineTables[h]]
  /\ UNCHANGED <<logger, lineWaiting, passed, vars>>

\* Mutant: the number of groups waiting comes after the tables.
PrintWaitingLast ==
  /\ logger = "tables"
  /\ DOMAIN lineTables = Groups
  /\ lineWaiting' = groupsWaiting
  /\ logger' = "complete"
  /\ UNCHANGED <<lineTables, passed, vars>>

PrintNewline ==
  /\ logger = "tables"
  /\ DOMAIN lineTables = Groups
  /\ logger' = "complete"
  /\ UNCHANGED <<lineWaiting, lineTables, passed, vars>>

saveState == \/ PrintWaiting \/ PrintNewline
             \/ \E g \in Groups : PrintTable(g)

LogNext == \/ RestaurantStep
           \/ saveState
           \/ Terminated /\ UNCHANGED logVars

LogSpec == LogInit /\ [][LogNext]_<<vars, logVars>>

-----------------------------------------------------------------------------
\* Every line of the log shows a state in which the restaurant was while the
\* line was composed, though no lock keeps the receptionist from seating,
\* calling or freeing meanwhile: it writes at most one table and then the
\* number of groups waiting before it needs the mutex itself, and the line
\* has that number before the tables.
LogLineIsAState ==
  logger = "complete" => <<lineWaiting, lineTables>> \in passed
=============================================================================
