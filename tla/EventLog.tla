------------------------------ MODULE EventLog ------------------------------
(***************************************************************************)
(* The ring in which one process notes its semaphore operations, each      *)
(* before it tries it (semDebug.h), and main's report, which copies the    *)
(* ring without any lock when the timer has elapsed, while the process may *)
(* be running, blocked or dead (semDebug_sharedDataSync.h).                *)
(*                                                                         *)
(* The operations of the process are numbered from 1 on, and a field of an *)
(* entry holds the number of the operation it was written for.  0 in the   *)
(* field action is SEMDEBUG_UNDEFINED.                                     *)
(***************************************************************************)
EXTENDS Integers, Sequences

CONSTANTS
  MAX_EVENTS,   \* SEMDEBUG_MAX_EVENTS
  MaxOperations \* bound: operations of the process

ASSUME EventLogAssumption == MAX_EVENTS \in Nat \ {0} /\ MaxOperations \in Nat

Slots  == 0 .. MAX_EVENTS - 1
Event  == [action : Nat, index : Nat, reason : Nat]
stamp(k) == [action |-> k, index |-> k, reason |-> k]

VARIABLES
  events, nextSlot, \* the ring: struct semdebug_buff
  logged,           \* how many operations have been noted (history)
  writerAt,         \* where the process is
  reportAt,         \* where main's copy is
  turn, slot,       \* main's i and current_slot
  report,           \* the entries copied so far
  stoodStill        \* has the process not moved since the copy began? (history)

writerVars == <<events, nextSlot, logged, writerAt>>
reportVars == <<reportAt, turn, slot, report>>
vars == <<writerVars, reportVars, stoodStill>>

Init ==
  /\ events = [i \in Slots |-> stamp(0)]
  /\ nextSlot = 0
  /\ logged = 0
  /\ writerAt = "running"
  /\ reportAt = "idle"
  /\ turn = 0
  /\ slot = 0
  /\ report = <<>>
  /\ stoodStill = TRUE

-----------------------------------------------------------------------------
(* semdebug_logEvent and semdebug_writeEvToBuffer                           *)

writes(from, field, to) ==
  /\ writerAt = from
  /\ writerAt' = to
  /\ events' = [events EXCEPT ![nextSlot][field] = logged + 1]
  /\ UNCHANGED <<nextSlot, logged>>

WriteAction == logged < MaxOperations /\ writes("running", "action", "index")
WriteIndex  == writes("index", "index", "reason")
WriteReason == writes("reason", "reason", "advance")

\* Mutant: one slot of the ring is never used.
advancedShort == (nextSlot + 1) % (IF MAX_EVENTS = 1 THEN 1 ELSE MAX_EVENTS - 1)

\* Mutant: the index does not wrap around.
advancedUnwrapped == nextSlot + 1

advanced == (nextSlot + 1) % MAX_EVENTS

Advance ==
  /\ writerAt = "advance"
  /\ writerAt' = "operation"
  /\ nextSlot' = advanced
  /\ logged' = logged + 1
  /\ UNCHANGED events

\* The down or the up; a down returns at any time, or never.
Operate ==
  /\ writerAt = "operation"
  /\ writerAt' = "running"
  /\ UNCHANGED <<events, nextSlot, logged>>

logEvent == WriteAction \/ WriteIndex \/ WriteReason \/ Advance

\* semDownOrExit or semUpOrExit.
LoggedOperation == logEvent \/ Operate

Writer == LoggedOperation /\ stoodStill' = FALSE /\ UNCHANGED reportVars

-----------------------------------------------------------------------------
(* semdebug_getAllEvSorted, called by semdebug_getProcDiagnostics           *)

StartReport ==
  /\ reportAt = "idle"
  /\ reportAt' = "pick"
  /\ stoodStill' = TRUE
  /\ UNCHANGED <<turn, slot, report, writerVars>>

\* It looks at next_slot again in every turn.
PickSlot ==
  /\ reportAt = "pick"
  /\ IF turn < MAX_EVENTS
     THEN reportAt' = "copy" /\ slot' = (nextSlot + turn) % MAX_EVENTS
     ELSE reportAt' = "done" /\ UNCHANGED slot
  /\ UNCHANGED <<turn, report, stoodStill, writerVars>>

\* Mutant: entries never written are copied as well.
CopySlotUndefined ==
  /\ reportAt = "copy"
  /\ reportAt' = "pick"
  /\ turn' = turn + 1
  /\ report' = Append(report, events[slot])
  /\ UNCHANGED <<slot, stoodStill, writerVars>>

CopySlot ==
  /\ reportAt = "copy"
  /\ reportAt' = "pick"
  /\ turn' = turn + 1
  /\ report' = IF events[slot].action = 0 THEN report
               ELSE Append(report, events[slot])
  /\ UNCHANGED <<slot, stoodStill, writerVars>>

\* What semdebug_getProcDiagnostics takes as last_event; stamp(0) is NULL.
lastEvent == IF report = <<>> THEN stamp(0) ELSE report[Len(report)]

\* The lines semdebug_print_deadlock_logs prints: up to the last event, if any.
printedLog == IF lastEvent = stamp(0) THEN <<>> ELSE report

getAllEvSorted == StartReport \/ PickSlot \/ CopySlot

-----------------------------------------------------------------------------
Next == Writer \/ getAllEvSorted

EventLogSpec == Init /\ [][Next]_vars

-----------------------------------------------------------------------------
\* How many operations the ring still knows, and the first of them.
known  == IF logged < MAX_EVENTS THEN logged ELSE MAX_EVENTS
oldest == logged - known + 1

\* The entry that is being written, if any, is the one at nextSlot.
BeingWritten == writerAt \in {"index", "reason", "advance"}

\* Whatever the process is doing, the ring holds the last operations it noted,
\* whole and in the order in which the report will pass over them, except for
\* the oldest while that is being overwritten; what was never used is zero.
RingHoldsLast ==
  \A i \in Slots :
    LET k == logged - MAX_EVENTS + 1 + i IN
    \/ i = 0 /\ BeingWritten
    \/ events[(nextSlot + i) % MAX_EVENTS] = stamp(IF k > 0 THEN k ELSE 0)

\* What a report is made for: if the process has not moved since main began to
\* copy its entries, and was not interrupted in the middle of noting one, the
\* report has its last operations, all of them and in their order, and the one
\* shown in the summary is the down in which the process is blocked.
ReportOfBlockedIsExact ==
  reportAt = "done" /\ stoodStill /\ ~BeingWritten =>
    /\ printedLog = [i \in 1 .. known |-> stamp(oldest + i - 1)]
    /\ lastEvent = stamp(logged)

\* Every index stays inside the ring and the report inside its array.
TypeOK ==
  /\ events \in [Slots -> Event]
  /\ nextSlot \in Slots /\ slot \in Slots
  /\ logged \in 0 .. MaxOperations
  /\ writerAt \in {"running", "index", "reason", "advance", "operation"}
  /\ reportAt \in {"idle", "pick", "copy", "done"}
  /\ turn \in 0 .. MAX_EVENTS
  /\ report \in Seq(Event) /\ Len(report) <= turn
  /\ stoodStill \in BOOLEAN
=============================================================================
