--------------------------- MODULE EventLog_proof ---------------------------
(***************************************************************************)
(* Proofs about the ring of events of one process and main's unlocked copy *)
(* of it, for a ring of any size.                                          *)
(***************************************************************************)
EXTENDS EventLog, TLAPS

-----------------------------------------------------------------------------
(* The indices of the ring                                                  *)

\* At most once around.
LEMMA RingPlus ==
  ASSUME NEW n \in Nat \ {0}, NEW a \in 0 .. n - 1, NEW i \in 0 .. n
  PROVE  (a + i) % n = IF a + i < n THEN a + i ELSE a + i - n
<1> DEFINE q == (a + i) \div n
           r == (a + i) % n
<1>1. q \in Int /\ r \in 0 .. n - 1 /\ a + i = n * q + r
  OBVIOUS
<1>2. q >= 0
  <2>1. q <= -1 => n * q <= -n
    BY <1>1
  <2> QED
    BY <1>1, <2>1
<1>3. q <= 1
  <2>1. q >= 2 => n * q >= n + n
    BY <1>1
  <2> QED
    BY <1>1, <2>1
<1>4. q = 0 \/ q = 1
  BY <1>1, <1>2, <1>3
<1>5. n * 0 = 0 /\ n * 1 = n
  OBVIOUS
<1> QED
  BY <1>1, <1>4, <1>5

\* The ring in the order in which the report passes over it.
position(i) == (nextSlot + i) % MAX_EVENTS

LEMMA Positions ==
  ASSUME nextSlot \in Slots
  PROVE  /\ \A i \in 0 .. MAX_EVENTS : position(i) \in Slots
         /\ position(0) = nextSlot /\ position(MAX_EVENTS) = nextSlot
         /\ \A i \in 1 .. MAX_EVENTS - 1 : position(i) # nextSlot
<1>1. MAX_EVENTS \in Nat \ {0}
  BY EventLogAssumption
<1>2. \A i \in 0 .. MAX_EVENTS :
        position(i) = IF nextSlot + i < MAX_EVENTS THEN nextSlot + i
                      ELSE nextSlot + i - MAX_EVENTS
  BY <1>1, RingPlus DEF Slots, position
<1> QED
  BY <1>1, <1>2 DEF Slots

-----------------------------------------------------------------------------
(* The ring                                                                 *)

\* What makes TypeOK inductive: an operation is noted, and an entry copied,
\* only if there is one.
TypeInv ==
  /\ TypeOK
  /\ BeingWritten => logged < MaxOperations
  /\ reportAt = "copy" => turn < MAX_EVENTS

FieldNames == {"action", "index", "reason"}

\* The process writes one field of the entry at nextSlot.
LEMMA WritesField ==
  ASSUME TypeOK, NEW from, NEW field \in FieldNames, NEW to,
         writes(from, field, to)
  PROVE  /\ events' \in [Slots -> Event]
         /\ \A i \in Slots \ {nextSlot} : events'[i] = events[i]
         /\ events'[nextSlot][field] = logged + 1
         /\ \A f \in FieldNames \ {field} :
              events'[nextSlot][f] = events[nextSlot][f]
<1> DEFINE entry == [events[nextSlot] EXCEPT ![field] = logged + 1]
<1>1. /\ events \in [Slots -> Event] /\ nextSlot \in Slots /\ logged \in Nat
      /\ events[nextSlot] \in Event
  BY DEF TypeOK
<1>2. events' = [events EXCEPT ![nextSlot] = entry]
  BY <1>1 DEF writes
<1>3. entry \in Event
  BY <1>1 DEF Event, FieldNames
<1>4. /\ entry[field] = logged + 1
      /\ \A f \in FieldNames \ {field} : entry[f] = events[nextSlot][f]
  BY <1>1 DEF Event, FieldNames
<1> HIDE DEF entry
<1> QED
  BY <1>1, <1>2, <1>3, <1>4

LEMMA TypeInit == Init => TypeInv
<1> SUFFICES ASSUME Init PROVE TypeInv
  OBVIOUS
<1>1. events \in [Slots -> Event]
  BY DEF Init, Event, stamp
<1>2. report \in Seq(Event) /\ Len(report) = 0
  BY DEF Init
<1>3. stoodStill \in BOOLEAN
  BY DEF Init
<1> QED
  BY <1>1, <1>2, <1>3, EventLogAssumption DEF Init, TypeInv, TypeOK, Slots,
     BeingWritten

LEMMA TypeStep == TypeInv /\ [Next]_vars => TypeInv'
<1> SUFFICES ASSUME TypeInv, [Next]_vars PROVE TypeInv'
  OBVIOUS
<1> USE EventLogAssumption DEF TypeInv, TypeOK, BeingWritten
<1>1. ASSUME LoggedOperation, stoodStill' = FALSE, UNCHANGED reportVars
      PROVE  TypeInv'
  <2>1. events' \in [Slots -> Event]
    <3>1. WriteAction \/ WriteIndex \/ WriteReason
            => events' \in [Slots -> Event]
      BY WritesField DEF WriteAction, WriteIndex, WriteReason, FieldNames
    <3> QED
      BY <1>1, <3>1 DEF LoggedOperation, logEvent, Advance, Operate
  <2>2. nextSlot' \in Slots
    <3>1. advanced \in Slots
      BY Positions DEF advanced, position
    <3> QED
      BY <1>1, <3>1 DEF LoggedOperation, logEvent, WriteAction, WriteIndex,
         WriteReason, Advance, Operate, writes
  <2>3. UNCHANGED <<slot, reportAt, turn, report>> /\ stoodStill' \in BOOLEAN
    BY <1>1 DEF reportVars
  <2> QED
    BY <1>1, <2>1, <2>2, <2>3 DEF LoggedOperation, logEvent, WriteAction,
       WriteIndex, WriteReason, Advance, Operate, writes
<1>2. CASE StartReport
  BY <1>2 DEF StartReport, writerVars
<1>3. CASE PickSlot
  <2>1. turn < MAX_EVENTS => (nextSlot + turn) % MAX_EVENTS \in Slots
    BY Positions DEF position
  <2> QED
    BY <1>3, <2>1 DEF PickSlot, writerVars
<1>4. CASE CopySlot
  <2>1. report' \in Seq(Event) /\ Len(report') <= Len(report) + 1
    BY <1>4 DEF CopySlot
  <2> QED
    BY <1>4, <2>1 DEF CopySlot, writerVars
<1>5. CASE UNCHANGED vars
  BY <1>5 DEF vars, writerVars, reportVars
<1> QED
  BY <1>1, <1>2, <1>3, <1>4, <1>5 DEF Next, Writer, getAllEvSorted

\* Every index stays inside the ring, and the report inside its array, however
\* large the ring is and wherever the process is while main copies it.
THEOREM EventTypes == EventLogSpec => []TypeOK
<1>1. EventLogSpec => []TypeInv
  BY TypeInit, TypeStep, PTL DEF EventLogSpec
<1> QED
  BY <1>1, PTL DEF TypeInv

\* The fields of the entry being written that are written already.
WrittenSoFar ==
  /\ BeingWritten => events[nextSlot].action = logged + 1
  /\ writerAt \in {"reason", "advance"} => events[nextSlot].index = logged + 1
  /\ writerAt = "advance" => events[nextSlot].reason = logged + 1

RingInv == RingHoldsLast /\ WrittenSoFar

\* What the ring is to hold at the i-th position from nextSlot.
expected(i) == LET k == logged - MAX_EVENTS + 1 + i
               IN  stamp(IF k > 0 THEN k ELSE 0)

LEMMA RingExpected ==
  RingHoldsLast <=>
    \A i \in Slots :
      (i = 0 /\ BeingWritten) \/ events[position(i)] = expected(i)
BY DEF RingHoldsLast, expected, position

LEMMA RingInit == Init => RingInv
<1> SUFFICES ASSUME Init PROVE RingInv
  OBVIOUS
<1>1. nextSlot \in Slots
  BY EventLogAssumption DEF Init, Slots
<1>2. \A i \in Slots : events[position(i)] = stamp(0)
  BY <1>1, Positions, EventLogAssumption DEF Init, Slots
<1>3. \A i \in Slots : expected(i) = stamp(0)
  BY EventLogAssumption DEF Init, Slots, expected
<1>4. WrittenSoFar
  BY DEF Init, WrittenSoFar, BeingWritten
<1> QED
  BY <1>2, <1>3, <1>4, RingExpected DEF RingInv

\* Writing a field disturbs the entry at nextSlot alone, the oldest.
LEMMA WritingKeepsRing ==
  ASSUME TypeOK, RingInv, WriteAction \/ WriteIndex \/ WriteReason
  PROVE  RingInv'
<1>1. /\ \A i \in Slots \ {nextSlot} : events'[i] = events[i]
      /\ UNCHANGED <<nextSlot, logged>> /\ BeingWritten'
  BY WritesField DEF WriteAction, WriteIndex, WriteReason, FieldNames, writes,
     BeingWritten
<1>2. \A i \in Slots \ {0} : /\ position(i) \in Slots \ {nextSlot}
                             /\ position(i)' = position(i)
                             /\ expected(i)' = expected(i)
  <2>1. nextSlot \in Slots /\ MAX_EVENTS \in Nat \ {0}
    BY EventLogAssumption DEF TypeOK
  <2> QED
    BY <1>1, <2>1, Positions DEF Slots, position, expected
<1>3. \A i \in Slots \ {0} : events[position(i)] = expected(i)
  BY RingExpected DEF RingInv
<1>4. \A i \in Slots :
        (i = 0 /\ BeingWritten') \/ events'[position(i)'] = expected(i)'
  BY <1>1, <1>2, <1>3
<1>5. RingHoldsLast'
  BY <1>4 DEF RingHoldsLast, expected, position
<1>6. WrittenSoFar'
  <2>1. CASE WriteAction
    BY <1>1, <2>1, WritesField DEF WriteAction, writes, WrittenSoFar, FieldNames
  <2>2. CASE WriteIndex
    BY <1>1, <2>2, WritesField DEF WriteIndex, writes, RingInv, WrittenSoFar,
       FieldNames, BeingWritten
  <2>3. CASE WriteReason
    BY <1>1, <2>3, WritesField DEF WriteReason, writes, RingInv, WrittenSoFar,
       FieldNames, BeingWritten
  <2> QED
    BY <2>1, <2>2, <2>3
<1> QED
  BY <1>5, <1>6 DEF RingInv

\* The entry written becomes the last, and all others move up by one.
LEMMA AdvancingKeepsRing ==
  ASSUME TypeOK, TypeOK', RingInv, Advance PROVE RingInv'
<1>1. /\ nextSlot' = position(1) /\ logged' = logged + 1
      /\ UNCHANGED events /\ writerAt = "advance" /\ writerAt' = "operation"
  BY DEF Advance, advanced, position
<1>2. /\ nextSlot \in Slots /\ nextSlot' \in Slots /\ logged \in Nat
      /\ MAX_EVENTS \in Nat \ {0}
  BY EventLogAssumption DEF TypeOK
<1>3. events[nextSlot] = stamp(logged + 1)
  <2>1. events[nextSlot] \in Event
    BY <1>2 DEF TypeOK
  <2> QED
    BY <1>1, <2>1 DEF RingInv, WrittenSoFar, BeingWritten, Event, stamp
<1>4. \A i \in Slots : position(i)' = position(i + 1)
  <2>1. \A i \in 0 .. MAX_EVENTS :
          position(i) = IF nextSlot + i < MAX_EVENTS THEN nextSlot + i
                        ELSE nextSlot + i - MAX_EVENTS
    BY <1>2, RingPlus DEF Slots, position
  <2>2. \A i \in 0 .. MAX_EVENTS :
          position(i)' = IF nextSlot' + i < MAX_EVENTS THEN nextSlot' + i
                         ELSE nextSlot' + i - MAX_EVENTS
    BY <1>2, RingPlus DEF Slots, position
  <2>3. nextSlot' = IF nextSlot + 1 < MAX_EVENTS THEN nextSlot + 1
                    ELSE nextSlot + 1 - MAX_EVENTS
    BY <1>1, <1>2, <2>1
  <2> QED
    BY <1>2, <2>1, <2>2, <2>3 DEF Slots
<1>5. ASSUME NEW i \in Slots PROVE events'[position(i)'] = expected(i)'
  <2>1. CASE i = MAX_EVENTS - 1
    <3>1. position(i)' = nextSlot
      BY <1>2, <1>4, <2>1, Positions
    <3>2. expected(i)' = stamp(logged + 1)
      BY <1>1, <1>2, <2>1 DEF expected
    <3> QED
      BY <1>1, <1>3, <3>1, <3>2
  <2>2. CASE i # MAX_EVENTS - 1
    <3>1. i + 1 \in Slots \ {0}
      BY <1>2, <2>2 DEF Slots
    <3>2. events[position(i + 1)] = expected(i + 1)
      BY <3>1, RingExpected DEF RingInv
    <3>3. expected(i)' = expected(i + 1)
      <4>1. logged' - MAX_EVENTS + 1 + i = logged - MAX_EVENTS + 1 + (i + 1)
        BY <1>1, <1>2 DEF Slots
      <4> QED
        BY <4>1 DEF expected
    <3> QED
      BY <1>1, <1>4, <3>2, <3>3
  <2> QED
    BY <2>1, <2>2
<1>6. RingHoldsLast'
  BY <1>5 DEF RingHoldsLast, expected, position
<1>7. WrittenSoFar'
  BY <1>1 DEF WrittenSoFar, BeingWritten
<1> QED
  BY <1>6, <1>7 DEF RingInv

LEMMA RingStep == TypeOK /\ TypeOK' /\ RingInv /\ [Next]_vars => RingInv'
<1> SUFFICES ASSUME TypeOK, TypeOK', RingInv, [Next]_vars PROVE RingInv'
  OBVIOUS
<1>1. CASE WriteAction \/ WriteIndex \/ WriteReason
  BY <1>1, WritingKeepsRing
<1>2. CASE Advance
  BY <1>2, AdvancingKeepsRing
<1>3. CASE Operate
  BY <1>3 DEF Operate, RingInv, RingHoldsLast, WrittenSoFar, BeingWritten
<1>4. CASE getAllEvSorted \/ UNCHANGED vars
  <2>1. UNCHANGED <<events, nextSlot, logged, writerAt>>
    BY <1>4 DEF getAllEvSorted, StartReport, PickSlot, CopySlot, vars, writerVars
  <2> QED
    BY <2>1 DEF RingInv, RingHoldsLast, WrittenSoFar, BeingWritten
<1> QED
  BY <1>1, <1>2, <1>3, <1>4 DEF Next, Writer, LoggedOperation, logEvent

\* However large the ring, it holds the last operations at every moment, whole
\* and in the order in which the report passes over them, except for the oldest
\* while that is being overwritten.
THEOREM RingKeepsLast == EventLogSpec => []RingHoldsLast
<1>1. EventLogSpec => []RingInv
  BY RingInit, RingStep, EventTypes, PTL DEF EventLogSpec
<1> QED
  BY <1>1, PTL DEF RingInv

-----------------------------------------------------------------------------
(* The report                                                               *)

\* The copy has passed over the entries never written, and then copied this
\* many.
copied == IF turn > MAX_EVENTS - known THEN turn - (MAX_EVENTS - known) ELSE 0

lastOnes(n) == [i \in 1 .. n |-> stamp(oldest + i - 1)]

\* A report on a process that stands still is the beginning of the right one.
ReportFits ==
  /\ reportAt = "idle" => turn = 0 /\ report = <<>>
  /\ reportAt # "idle" /\ stoodStill /\ ~BeingWritten =>
       /\ report = lastOnes(copied)
       /\ reportAt = "copy" => slot = position(turn)
       /\ reportAt = "done" => turn = MAX_EVENTS

LEMMA LogTypes ==
  ASSUME TypeOK
  PROVE  /\ MAX_EVENTS \in Nat \ {0} /\ logged \in Nat
         /\ turn \in 0 .. MAX_EVENTS
         /\ known \in 0 .. MAX_EVENTS /\ known <= logged
         /\ known < MAX_EVENTS => known = logged
         /\ oldest = logged - known + 1 /\ oldest \in Nat
         /\ copied \in 0 .. known
BY EventLogAssumption DEF TypeOK, known, oldest, copied

LEMMA NoneCopied == lastOnes(0) = <<>>
BY DEF lastOnes

LEMMA OneMoreCopied ==
  ASSUME NEW n \in Nat, oldest \in Nat
  PROVE  Append(lastOnes(n), stamp(oldest + n)) = lastOnes(n + 1)
<1>1. /\ lastOnes(n) \in Seq(Event) /\ Len(lastOnes(n)) = n
      /\ \A i \in 1 .. n : lastOnes(n)[i] = stamp(oldest + i - 1)
  <2>1. \A i \in 1 .. n : stamp(oldest + i - 1) \in Event
    BY DEF stamp, Event
  <2> QED
    BY <2>1 DEF lastOnes
<1>2. /\ lastOnes(n + 1) \in Seq(Event) /\ Len(lastOnes(n + 1)) = n + 1
      /\ \A i \in 1 .. n + 1 : lastOnes(n + 1)[i] = stamp(oldest + i - 1)
  <2>1. \A i \in 1 .. n + 1 : stamp(oldest + i - 1) \in Event
    BY DEF stamp, Event
  <2> QED
    BY <2>1 DEF lastOnes
<1> DEFINE a == Append(lastOnes(n), stamp(oldest + n))
<1>3. stamp(oldest + n) \in Event
  BY DEF stamp, Event
<1>4. a \in Seq(Event) /\ Len(a) = n + 1 /\ a[n + 1] = stamp(oldest + n)
      /\ \A i \in 1 .. n : a[i] = lastOnes(n)[i]
  BY <1>1, <1>3
<1>5. \A i \in 1 .. n + 1 : a[i] = lastOnes(n + 1)[i]
  BY <1>1, <1>2, <1>4
<1> HIDE DEF a
<1>6. a = lastOnes(n + 1)
  BY <1>2, <1>4, <1>5
<1> QED
  BY <1>6 DEF a

\* Copying an entry of a process that stands still copies the next one, or
\* passes over one never written.
LEMMA CopyingFits ==
  ASSUME TypeInv, RingHoldsLast, ReportFits, CopySlot, stoodStill, ~BeingWritten
  PROVE  report' = lastOnes(copied')
<1>1. /\ turn < MAX_EVENTS /\ turn' = turn + 1 /\ UNCHANGED <<known, oldest>>
      /\ report = lastOnes(copied) /\ slot = position(turn)
  BY DEF TypeInv, ReportFits, CopySlot, writerVars, known, oldest
<1>2. TypeOK /\ turn \in Slots
  BY <1>1, LogTypes DEF TypeInv, Slots
<1>3. events[slot] = expected(turn)
  BY <1>1, <1>2, RingExpected
<1>4. copied' = IF turn + 1 > MAX_EVENTS - known
                THEN turn + 1 - (MAX_EVENTS - known) ELSE 0
  <2>1. copied' = IF turn' > MAX_EVENTS - known'
                  THEN turn' - (MAX_EVENTS - known') ELSE 0
    BY DEF copied
  <2>2. /\ known' = known /\ turn' = turn + 1
        /\ known \in Int /\ turn \in Int /\ MAX_EVENTS \in Int
    BY <1>1, <1>2, LogTypes
  <2> QED
    BY <2>1, <2>2
<1> DEFINE k == logged - MAX_EVENTS + 1 + turn
<1>5. CASE k > 0
  <2>1. events[slot] = stamp(k)
    BY <1>3, <1>5 DEF expected
  <2>2. copied' = copied + 1 /\ k = oldest + copied /\ copied \in Nat
    <3> USE <1>2, LogTypes DEF known, oldest, copied
    <3> QED
      BY <1>4, <1>5
  <2>3. events[slot].action # 0
    BY <1>5, <2>1 DEF stamp
  <2>4. report' = Append(report, stamp(oldest + copied))
    BY <2>1, <2>2, <2>3 DEF CopySlot
  <2>5. oldest \in Nat
    BY <1>2, LogTypes
  <2>6. report' = lastOnes(copied + 1)
    <3> HIDE DEF k
    <3> QED
      BY <1>1, <2>2, <2>4, <2>5, OneMoreCopied
  <2>7. lastOnes(copied + 1) = lastOnes(copied')
    BY <2>2
  <2> QED
    BY <2>6, <2>7
<1>6. CASE ~(k > 0)
  <2>1. events[slot] = stamp(0)
    BY <1>3, <1>6 DEF expected
  <2>2. copied' = 0 /\ copied = 0
    <3> USE <1>2, LogTypes DEF known, copied
    <3> QED
      BY <1>4, <1>6
  <2>3. report' = report
    BY <2>1 DEF CopySlot, stamp
  <2> QED
    BY <1>1, <2>2, <2>3
<1> QED
  BY <1>5, <1>6

LEMMA ReportStep ==
  TypeInv /\ RingHoldsLast /\ ReportFits /\ [Next]_vars => ReportFits'
<1> SUFFICES ASSUME TypeInv, RingHoldsLast, ReportFits, [Next]_vars
             PROVE  ReportFits'
  OBVIOUS
<1>1. UNCHANGED writerVars
        => /\ UNCHANGED <<events, nextSlot, logged, known, oldest, BeingWritten>>
           /\ \A n : lastOnes(n)' = lastOnes(n) /\ position(n)' = position(n)
  BY DEF writerVars, known, oldest, BeingWritten, lastOnes, position
<1>2. CASE Writer
  BY <1>2 DEF Writer, reportVars, ReportFits
<1>3. CASE StartReport
  <2>1. turn' = 0 /\ report' = <<>> /\ reportAt' = "pick"
    BY <1>3 DEF StartReport, ReportFits
  <2>2. copied' = 0
    <3>1. known' = known /\ known \in 0 .. MAX_EVENTS
      BY <1>1, <1>3, LogTypes DEF StartReport, TypeInv
    <3> QED
      BY <2>1, <3>1, EventLogAssumption DEF copied
  <2>3. lastOnes(copied)' = <<>>
    BY <2>2 DEF lastOnes
  <2> QED
    BY <2>1, <2>3 DEF ReportFits
<1>4. CASE PickSlot
  <2>1. /\ UNCHANGED <<turn, report, stoodStill, writerVars>>
        /\ reportAt = "pick" /\ reportAt' \in {"copy", "done"}
        /\ reportAt' = "copy" => slot' = position(turn)
        /\ reportAt' = "done" => ~(turn < MAX_EVENTS)
    BY <1>4 DEF PickSlot, position
  <2>2. UNCHANGED copied
    BY <1>1, <2>1 DEF copied
  <2>3. lastOnes(copied)' = lastOnes(copied) /\ position(turn)' = position(turn)
    BY <1>1, <2>1, <2>2 DEF lastOnes, position
  <2>4. turn \in 0 .. MAX_EVENTS /\ MAX_EVENTS \in Nat
    BY LogTypes DEF TypeInv
  <2> QED
    BY <1>1, <2>1, <2>3, <2>4 DEF ReportFits
<1>5. CASE CopySlot
  <2>1. /\ UNCHANGED <<stoodStill, writerVars>> /\ reportAt' = "pick"
    BY <1>5 DEF CopySlot
  <2>2. stoodStill /\ ~BeingWritten => report' = lastOnes(copied)'
    <3>1. UNCHANGED oldest
      BY <1>1, <2>1
    <3> QED
      BY <1>5, <3>1, CopyingFits DEF lastOnes
  <2> QED
    BY <1>1, <2>1, <2>2 DEF ReportFits
<1>6. CASE UNCHANGED vars
  <2>1. UNCHANGED <<reportAt, turn, slot, report, stoodStill, writerVars>>
    BY <1>6 DEF vars, reportVars
  <2>2. UNCHANGED copied
    BY <1>1, <2>1 DEF copied
  <2>3. lastOnes(copied)' = lastOnes(copied) /\ position(turn)' = position(turn)
    BY <1>1, <2>1, <2>2 DEF lastOnes, position
  <2> QED
    BY <1>1, <2>1, <2>3 DEF ReportFits
<1> QED
  BY <1>2, <1>3, <1>4, <1>5, <1>6 DEF Next, getAllEvSorted

\* If the process has not moved since main began to copy its ring, however
\* large that is, and is not in the middle of noting an operation, the report
\* has its last operations, all of them and in their order, and the summary
\* shows the one in which the process is blocked.
THEOREM BlockedReportExact == EventLogSpec => []ReportOfBlockedIsExact
<1>1. Init => ReportFits
  BY DEF Init, ReportFits
<1>2. EventLogSpec => []TypeInv
  BY TypeInit, TypeStep, PTL DEF EventLogSpec
<1>3. EventLogSpec => []ReportFits
  BY <1>1, <1>2, ReportStep, RingKeepsLast, PTL DEF EventLogSpec
<1>4. TypeInv /\ ReportFits => ReportOfBlockedIsExact
  <2> SUFFICES ASSUME TypeInv, ReportFits, reportAt = "done", stoodStill,
                      ~BeingWritten
               PROVE  /\ printedLog = [i \in 1 .. known |-> stamp(oldest + i - 1)]
                      /\ lastEvent = stamp(logged)
    BY DEF ReportOfBlockedIsExact
  <2>1. known \in Nat /\ logged \in Nat /\ known <= logged
        /\ (known = 0 <=> logged = 0) /\ oldest = logged - known + 1
    BY EventLogAssumption DEF TypeInv, TypeOK, known, oldest
  <2>2. report = lastOnes(known)
    <3>1. turn = MAX_EVENTS /\ report = lastOnes(copied)
      BY DEF ReportFits
    <3>2. copied = known
      BY <3>1, LogTypes DEF TypeInv, copied
    <3> QED
      BY <3>1, <3>2
  <2>3. CASE known = 0
    <3>1. report = <<>>
      BY <2>2, <2>3, NoneCopied
    <3>2. lastEvent = stamp(logged) /\ printedLog = <<>>
      BY <2>1, <2>3, <3>1 DEF lastEvent, printedLog
    <3> QED
      BY <2>3, <3>2, NoneCopied DEF lastOnes
  <2>4. CASE known > 0
    <3>1. Len(report) = known /\ report[known] = stamp(oldest + known - 1)
      BY <2>1, <2>2, <2>4 DEF lastOnes
    <3>2. report # <<>>
      BY <2>4, <3>1
    <3>3. oldest + known - 1 = logged
      BY <2>1
    <3>4. lastEvent = stamp(logged)
      BY <3>1, <3>2, <3>3 DEF lastEvent
    <3>5. stamp(logged) # stamp(0)
      BY <2>1, <2>4 DEF stamp
    <3> QED
      BY <2>2, <3>4, <3>5 DEF printedLog, lastOnes
  <2> QED
    BY <2>1, <2>3, <2>4
<1> QED
  BY <1>2, <1>3, <1>4, PTL
=============================================================================
