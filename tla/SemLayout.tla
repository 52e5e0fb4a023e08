----------------------------- MODULE SemLayout ------------------------------
(***************************************************************************)
(* How main numbers the semaphores of the set (the macros at the end of    *)
(* sharedDataSync.h, and the loops over groups and tables that use them),  *)
(* and how the debugger finds the name of a number again.  Every other     *)
(* module calls a semaphore by its name: that is sound if this numbering   *)
(* never gives one number to two of them, nor one outside the set.         *)
(***************************************************************************)
EXTENDS Integers

CONSTANTS
  MAXGROUPS, \* length of the arrays with one entry for each group
  NUMTABLES  \* number of tables

ASSUME LayoutAssumption == MAXGROUPS \in Nat /\ NUMTABLES \in Nat \ {0}

\* A semaphore: its name, and the group or table it is for.
Single == {<<"mutex", 0>>, <<"receptionistReq", 0>>,
           <<"receptionistRequestPossible", 0>>, <<"waiterRequest", 0>>,
           <<"waiterRequestPossible", 0>>, <<"waitOrder", 0>>,
           <<"orderReceived", 0>>}
OfGroups(names, n) == names \X (0 .. n - 1)
OfTables(names)    == names \X (0 .. NUMTABLES - 1)

\* The ids of SHARED_DATA: all its arrays, used or not.
Fields == Single \cup OfGroups({"waitForTable"}, MAXGROUPS)
            \cup OfTables({"requestReceived", "foodArrived", "tableDone"})

-----------------------------------------------------------------------------
(* sharedDataSync.h                                                         *)

SEM_NU(n)       == 7 + n + (3 * NUMTABLES)
MUTEX           == 1
WAITFORTABLE    == 8
FOODARRIVED(n)  == WAITFORTABLE + n
REQUESTRECEIVED(n) == FOODARRIVED(n) + NUMTABLES

\* Mutant: the range starts one too early.
TABLEDONEEarly(n) == REQUESTRECEIVED(n) + (NUMTABLES - 1)

TABLEDONE(n)    == REQUESTRECEIVED(n) + NUMTABLES

\* The macros MUTEX to ORDERRECEIVED, in their order.
singleId(s) == CASE s[1] = "mutex"                       -> MUTEX
                 [] s[1] = "receptionistReq"             -> 2
                 [] s[1] = "receptionistRequestPossible" -> 3
                 [] s[1] = "waiterRequest"               -> 4
                 [] s[1] = "waiterRequestPossible"       -> 5
                 [] s[1] = "waitOrder"                   -> 6
                 [] s[1] = "orderReceived"               -> 7

\* The cases 1 to 7 of get_semaphore_name.
singleNames == <<"mutex", "receptionistReq", "receptionistRequestPossible",
                 "waiterRequest", "waiterRequestPossible", "waitOrder",
                 "orderReceived">>

\* get_semaphore_name, the inverse, with constants of its own; 0 and numbers
\* beyond the set have no name.  The first parameter is the order in which it
\* takes the three ranges of the tables.
nameInRanges(order, n, index) ==
  LET foodArrived == 8 + n
      range(i)    == foodArrived + ((i - 1) * NUMTABLES)
  IN  CASE index \in 1 .. 7 -> <<singleNames[index], 0>>
        [] index \in 8 .. foodArrived - 1 -> <<"waitForTable", index - 8>>
        [] \E i \in 1 .. 3 : index \in range(i) .. range(i + 1) - 1 ->
             LET i == CHOOSE i \in 1 .. 3 : index \in range(i) .. range(i + 1) - 1
             IN  <<order[i], index - range(i)>>
        [] OTHER -> <<"unknown", 0>>

\* Mutant: it takes two of the ranges for each other.
nameOfSwapped(n, index) ==
  nameInRanges(<<"requestReceived", "foodArrived", "tableDone">>, n, index)

nameOf(n, index) ==
  nameInRanges(<<"foodArrived", "requestReceived", "tableDone">>, n, index)

-----------------------------------------------------------------------------
VARIABLES
  nGroups,  \* fSt.nGroups, read from config.txt
  at,       \* where main is
  next,     \* its loop variable, g or t
  ids       \* the id in each field of SHARED_DATA

vars == <<nGroups, at, next, ids>>

\* shmget returns a zeroed region.  The arrays have room for MAXGROUPS groups,
\* and main trusts config.txt to name no more.
Init ==
  /\ nGroups \in 0 .. MAXGROUPS
  /\ at = "singles"
  /\ next = 0
  /\ ids = [s \in Fields |-> 0]

NumberSingles ==
  /\ at = "singles"
  /\ ids' = [s \in Fields |-> IF s \in Single THEN singleId(s) ELSE ids[s]]
  /\ at' = "groups"
  /\ UNCHANGED <<nGroups, next>>

NumberGroup ==
  /\ at = "groups"
  /\ IF next < nGroups
     THEN /\ ids' = [ids EXCEPT ![<<"waitForTable", next>>] = WAITFORTABLE + next]
          /\ next' = next + 1
          /\ UNCHANGED at
     ELSE at' = "tables" /\ next' = 0 /\ UNCHANGED ids
  /\ UNCHANGED nGroups

NumberTable ==
  /\ at = "tables"
  /\ IF next < NUMTABLES
     THEN /\ ids' = [ids EXCEPT
               ![<<"foodArrived", next>>]     = FOODARRIVED(nGroups) + next,
               ![<<"tableDone", next>>]       = TABLEDONE(nGroups) + next,
               ![<<"requestReceived", next>>] = REQUESTRECEIVED(nGroups) + next]
          /\ next' = next + 1
          /\ UNCHANGED at
     ELSE at' = "numbered" /\ UNCHANGED <<next, ids>>
  /\ UNCHANGED nGroups

\* main goes on to create the set, with semaphores 0 to SEM_NU.
Numbered == at = "numbered" /\ UNCHANGED vars

Next == NumberSingles \/ NumberGroup \/ NumberTable \/ Numbered

LayoutSpec == Init /\ [][Next]_vars

-----------------------------------------------------------------------------
\* The semaphores that a run with n groups uses.
Used(n) == Single \cup OfGroups({"waitForTable"}, n)
             \cup OfTables({"requestReceived", "foodArrived", "tableDone"})

\* Once main has numbered them, no two semaphores of the run share a number,
\* each number lies in the set, semaphore 0 is left to the start barrier, and
\* every number of the set is somebody's.
NumbersPartitionSet ==
  at = "numbered" =>
    /\ \A s, u \in Used(nGroups) : ids[s] = ids[u] => s = u
    /\ {ids[s] : s \in Used(nGroups)} = 1 .. SEM_NU(nGroups)

\* From the moment a semaphore gets its number, the debugger's inverse, which
\* repeats the arithmetic of the macros by itself, gives its name again.
NamesInvertNumbers ==
  \A s \in Fields : ids[s] # 0 => nameOf(nGroups, ids[s]) = s
=============================================================================
