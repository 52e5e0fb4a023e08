# Formal model of the Restaurant simulation

The program simulates a restaurant with operating-system processes: `MAXGROUPS`
or fewer groups of guests, a receptionist, a waiter and a chef, which share one
memory region and one set of System V semaphores. A generator process (`main`)
creates the region, the set and the processes, lets them go at once and waits
for them. This directory holds TLA+ modules translated from that code, TLC
configurations that check them on small instances, and proofs that hold for any
number of groups and tables. Sources are cited relative to the repository,
whose code is in its `src/` directory.

## Inventory

| Component | Code | State it keeps | Operations |
|---|---|---|---|
| Shared region and semaphore set | `probDataStruct.h`, `sharedDataSync.h`, `semaphore.c` | `fSt` (states of the entities, `assignedTable`, `groupsWaiting`, `foodOrder`, `foodGroup`, two request slots); 7 single semaphores, one per group, three per table | down, up |
| Group (one process each) | `semSharedMemGroup.c` | its place in the program, the local `table` | `checkInAtReception`, `orderFood`, `waitFood`, `checkOutAtReception` |
| Receptionist | `semSharedMemReceptionist.c` | request counter; `struct record`: status bits of the tables, `n_occupied`, `next_table`, `waitlist` with two indices | `waitForGroup`, `provideTableOrWaitingRoom`, `receivePayment` |
| Waiter | `semSharedMemWaiter.c` | request counter; static ring of `NUMTABLES` orders with two indices and `qlength`; `chef_is_busy` | `waitForClientOrChef`, `informChef`, `takeFoodToTable` |
| Chef | `semSharedMemChef.c` | order counter, `lastGroup` | `waitForOrder`, `processOrder` |
| Generator | `probSemSharedMemRestaurant.c` | pids, number of processes ended | create objects, fork, signal start, wait, timer, kill, destroy |
| Semaphore debugger | `semDebug.h`, `semDebug_sharedDataSync.h` | ring of the last 20 semaphore events of each process | log an event, print a report |
| State log | `logging.c` | the log file | `saveState` |
| Shared memory wrappers | `sharedMemory.c` | does the region exist | create, attach, destroy |
| Build, scripts | `Makefile`, `run/` | none | |

Interactions. Requests travel through two one-place slots. A group claims
`receptionistRequestPossible`, writes `receptionistRequest`, and ups
`receptionistReq`; the receptionist copies the slot and gives the first
semaphore back. The waiter's slot works the same way and has two kinds of
writers, the groups (`FOODREQ`) and the chef (`FOODREADY`). Answers are
semaphores: `waitForTable[group]`, `requestReceived[table]`,
`foodArrived[table]`, `tableDone[table]`. The waiter and the chef use
`foodGroup`, `waitOrder` and `orderReceived`. Every process takes `mutex` to
change its own state and to append the whole of `fSt` to the log, and only for
that: slots, tables and orders are written outside it.

`main` ties these together from outside: every entity passes semaphore 0 (a
down and an up in one call) when `main` has raised it, and `main` waits for
them to end. It forks a timer of five seconds as well. When that ends first,
and the program was built with `SEMDEBUG`, as the Makefile does, `main` reports
the last semaphore events of every process, kills all entities and removes the
objects.

What is hard. Nothing but the protocol keeps two writers out of a slot; the
answers belong to tables, which change hands while a former guest may still be
asleep on them; the waiter stops reading requests while it waits for the chef,
and the chef needs the waiter's slot to get rid of a meal; the waiter works
with a copy of `foodOrder`; two rings are written without a check for room; the
servers stop after a fixed number of requests, so that one request lost or
counted twice leaves somebody waiting for ever. What makes each component
correct:

* slots: no request is overwritten before it was copied;
* receptionist: its private record agrees with `assignedTable`, no table for
  two, first come first served, nobody waits while a table is free, every
  payment wakes up one payer;
* waiter and chef: every order is in exactly one place, the ring does not
  overflow, orders are cooked one at a time in their order, every meal goes to
  the group that ordered it, the two never wait for each other;
* groups: the copies of `table` they use as an index are current until the bill
  is posted, and afterwards still name a table where a receipt comes;
* all: mutual exclusion, termination, nothing left in any semaphore;
* state log: a line shows a state the restaurant was in;
* generator: nobody starts before everything is in place, the set stays while
  an entity uses it, success is returned only after a complete run, and every
  run ends and removes its objects, whichever process fails at whichever call;
* debugger: the ring has the last events in order, and the numbers of
  semaphores are distinct and named right.

The list `hazards` of `PROJECT.json` has each of these at its line.

## Modules

| Module | What it is |
|---|---|
| `SharedData` | constants, the shared region and the semaphores as VARIABLES, their initial values (as `main` leaves them), `semDown`, `semUp` |
| `Group`, `Receptionist`, `Waiter`, `Chef` | one process each (all the groups in one module): private variables and a program place (`groupAt`, ...), one action per semaphore operation |
| `Restaurant` | the four composed by interleaving; state functions, invariants, action and liveness properties |
| `Seating` | abstract: a queue of groups, seated one at a time at any free table, until they pay |
| `Kitchen` | abstract: a queue of orders, cooked one at a time and served to who ordered |
| `RestaurantService` | refinement mappings from `Restaurant` to `Seating` and `Kitchen` |
| `StateLog` | `Restaurant` with the lines of `saveState` composed one field at a time while other processes go on |
| `Launcher` | `Restaurant` inside `main`: objects, forks, start barrier, timer, wait loop, report, signals, destruction, and calls that fail |
| `EventLog` | the ring of events of one process, and `main`'s copy of it |
| `SemLayout` | the numbers of the semaphores and the debugger's way back from number to name |
| `MCRestaurant`, `MCStateLog` | symmetry and the state constraint of the TLC runs |
| `Restaurant_proof` | proofs: types, mutual exclusion, the request slots are written by one process at a time |
| `Reception_proof` | proofs about the receptionist and leaving groups: its record, the waiting list, every table request, receipts, its count |
| `Kitchen_proof` | proofs about the waiter and the chef, and about the end: the hand-over, the ring, every order and meal, who may stop when, what is left over |
| `Service_proof` | proofs of both refinements |
| `Launcher_proof` | proofs about `main` and the processes it forks: the start barrier, what is taken away, what success means |
| `StateLog_proof` | proof: a line of the log is a state of the restaurant |
| `EventLog_proof` | proofs about the ring of events and the copy of it, for a ring of any size |
| `SemLayout_proof` | proofs: every number of the set is that of one semaphore, and is named right |

An action of a process is named for what it does (`CheckInLock`, `CheckInSave`,
...), the disjunction of the actions of a C function has the function's name,
and `PROJECT.json` gives the lines of each definition. Operators marked as
mutants are plausible mistakes in the code; no action uses them, and each
breaks the property it is listed with.

**Granularity.** An action is one down or up together with the text that
follows (or, where it is shorter, precedes) it up to the next operation.
Processes communicate only through semaphores and the region, and the merged
text only touches variables that nobody else may touch at that moment: a slot
between the claim and the up (`RequestSlotsExclusive`), the process's own state
inside the mutex (`MutualExclusion`), `assignedTable[g]`, read by `g` and by
the waiter only between seating and the posting of the bill (`TableReadIsCurrent`
says that those reads do not race with a change). A read of an unprotected variable whose
value is used later is kept apart from that use: the groups' and the waiter's
`table`, the waiter's `chef_is_busy`, the chef's `lastGroup`. The log line that
`saveState` writes inside the mutex is left out of `Restaurant`, where nothing
reads it. `StateLog` adds it: the line is composed between the down and the up
of `mutex`, first `groupsWaiting`, then the table of one group at a time,
interleaved with the steps of all others. (`saveState` reads a table twice, at
`logging.c:144` and 145, but what it prints is what one of the two reads alone
would give. The states of the entities are in
the line, too, but change inside the mutex only.) The order of the groups in a
line is left open, which allows more than the code does and keeps the groups
alike. `EventLog` writes and reads the ring one field, or one entry, at a time.

**Data.** Groups are values of a set, tables are the numbers the code uses,
since `next_table` computes with them. `-1` is `NoTable` or `NoGroup`, a slot
never written is `NoRequest`. The status bits of `struct record` are the set
`occupied`. The `wrongRequest` and `tableNotFound` places are those where the
code takes the mutex and sleeps for ever. Travel, cooking and eating times are
arbitrary: an action need not be taken soon.

**Failures.** In `Launcher` any call of `main` or of an entity may fail while
there are `faults` left (`MaxFaults`), and fails in any case when its object is
gone. An entity whose call fails ends where it is, with the mutex, a claimed
slot or a table that it has. That covers a failing down or up
(`semDebug.h:61`), a log that cannot be opened (`logging.c:45`, always with the
mutex taken), and the failed `shmemAttach`, which returns 1
(`sharedMemory.c:93`) where its callers look for -1: an entity goes on with a
null pointer, and dies of it at its next step. A failing call of `main` leaves
all objects and processes as they are. A process that ends is a zombie
(`ended`) until `main` has waited for it (`reaped`).

## Runs

| Run | Instance | Question |
|---|---|---|
| `restaurant` | 3 groups, 2 tables | Do the processes keep exclusive what they share, keep their records consistent, lose or double no order, acknowledgement or receipt, does a receipt come where each payer sleeps, is there room for every order, and do the servers end only when all are served? |
| `waiting_room` | 4 groups, 1 table | Is the waiting room first come first served (`ImplementsSeating`), never kept waiting with a table free, and does it fit the record; and does it keep the orders to as many as the waiter's ring holds? |
| `kitchen` | 3 groups, 3 tables | Are the waiter and the chef free of circular waiting with orders in the ring, and do they implement `Kitchen`? |
| `everyone_seated` | 2 groups, 1 table, fair | Does every process end, is everyone seated and paid for, through the waiting room, too, and is nothing left over at the end? |
| `everyone_fed` | 2 groups, 2 tables, fair | Does every process end and every order get cooked and served, with orders that arrive while the chef cooks? |
| `state_log` | 3 groups, 1 table | Is every line of the log a state in which the restaurant was, although tables are given and freed without the mutex? |
| `sem_layout` | `MAXGROUPS` 16, 2 tables | Does `main`, for each number of groups, number all semaphores of the set, each once, and does the debugger's inverse name them right? |
| `event_log` | ring of 3, 7 operations | Does the ring hold the last events while it wraps, and is the report on a blocked process exact? |
| `simulation` | 1 group, 1 table, `SEMDEBUG`, 1 fault, fair | Does nobody start early, does the set outlive its users, does success mean that all were served, and does every run end and remove its objects after a failure of any one call of any entity? |
| `paid_before_leaving` | 3 groups, 2 tables | Finding: a violation, below |
| `timer_counted` | 1 group, 1 table, no `SEMDEBUG` | Finding: a violation, below |
| `false_deadlock` | 1 group, 1 table, `SEMDEBUG` | Finding: a violation, below |

Runs of `Restaurant` and `StateLog` check for deadlock, too: the only final
states are those of `Terminated`, where every process has exited. In `Launcher`
`main` must have returned or given up (`MainOver`), in `SemLayout` it must have
come to the creation of the set. `event_log` has deadlocks switched off, since
its process really stops, after `MaxOperations` operations or in a down that
never returns. Behaviours are finite, as every process goes through its program
a bounded number of times, so that `Termination` amounts to deadlock freedom
together with weak fairness.

**Bounds.** Nothing in the restaurant counts without limit, so the constants
are the only bounds there; `MaxFaults` and `MaxOperations` bound what the code
does not. Three groups and two tables are the least with a group in the waiting
room while two others are served; they also have two groups in turn at one
table while the other is in use. Four groups and one table make three groups
wait at once, in every order of arrival. Both instances have more groups than
tables, and so more groups than the waiter's ring has entries: there
`WaiterQueueFits` fails when a table is given out twice (`waiting_room`), or an
order served is not taken out (`restaurant`). Three groups and three tables
put two orders into the ring while the third group's order is cooked; it cannot
overflow there, and `kitchen` does not ask. `UntilMealsEnd` ends that run where
the first group asks for its bill: with as many tables as groups no table is
used again, and what a payer does touches neither the waiter's slot, the
ring nor the chef. Groups are symmetric in the safety runs: no process compares
or orders them. The fair runs use no symmetry. `WAITLIST_LENGTH` is 56 in the
code (`semSharedMemReceptionist.c:54`, with at most 48 bytes behind it); the
runs make it at least the number of groups, as the code does, and in
`restaurant` and `waiting_room` one more, which keeps the end of the ring apart
from its beginning. `WaitlistWithinRecord` shows why the declared length does
not matter: an index never passes the number of groups less the number of
tables. Three groups and one table let a table be freed and a group be called
during one line of `state_log`, with one more group waiting. `sem_layout` has
the constants of the code. The ring of `event_log` has 3 entries where the
code's has 20: writing and reading treat an entry the same in a ring of any
size, and seven operations go around twice, so that the copy meets the ring
empty, partly filled, full, and overtaken. In `simulation` one group at one
table already gives every entity every semaphore operation of its program
except that of being called from the waiting room; a fault or the end of the
timer can come before each of them. Two groups are beyond five minutes. One
fault is enough to stop the restaurant for ever, and with it every other
process that `main` must get rid of.

**Fairness.** `FairSpec` assumes weak fairness of each process: one that can
take a step for ever takes it. The scheduler of the operating system runs every
runnable process. Weak fairness of a down would not promise that a process gets
a semaphore which others keep taking; it is enough here, because each process
takes each a bounded number of times. `FairLauncherSpec` assumes less: while
anybody can proceed, somebody does (weak fairness of `Progress`, which is not
split by process). This includes that the timer elapses, signals arrive and the
user ends the report with ENTER. It is enough because each behaviour is finite.
No fault is forced, except the failure of a call whose object is gone.

## Findings

**Receipts (`paid_before_leaving`).** `checkOutAtReception` says that a group
waits for its payment to be acknowledged (`semSharedMemGroup.c:271`). The
acknowledgement is an up of `tableDone[table]`, of the table and not of the
group. The receptionist frees the table first, and calls the next group right
after. If the payer stays asleep while its successor is seated, eats and asks
for the bill, the successor can take the payer's token, and leave before its
own payment is received. The run `paid_before_leaving` shows a shortest such
behaviour. `ReceiptsBalance` and `ReceiptComesWhereAwaited`, which hold, say
that nobody starves by that: there are always as many receipts, out or to come,
as groups that wait at the table, and every payer sleeps at a table where there
is one. It needs a payer that sleeps through a whole meal after being woken,
which a test will hardly meet.

**The timer as an entity (`timer_counted`).** The comment at
`probSemSharedMemRestaurant.c:251` has the loop wait for the entities. Built
without `SEMDEBUG`, the loop counts the end of the timer with them (line 273).
If the timer elapses before the last entity has ended, `main` leaves the loop
one entity short and removes the semaphores from under it.

**Slow is not deadlocked (`false_deadlock`).** "We're in a deadlock." says line
260 where five seconds have passed. Nothing relates that time to the travel and
meals of `config.txt`: the run shows `main` at its report while entities can go
on. It kills them and returns failure.

Not findings, since no text of the repository says otherwise or no run can show
them: `main` also sends SIGTERM to pids it has already waited for (line 263),
which may be somebody else's by then; a run that `main` gives up leaves its
objects and children, so that the next creation with the same key fails;
without `SEMDEBUG` nothing ends a run in which a process has failed; the report
calls a process exited only if `main` has waited for it
(`semDebug_sharedDataSync.h:211`); `main` does not compare the number of groups
with `MAXGROUPS`; `waitlist` is declared eight bytes longer than the array
behind it.

## Proofs

Every invariant and action property that a passing run checks, and both
refinements without their fairness, is a theorem: for any number of groups and
tables and, where the module has them, of failing calls, of events in a ring and
of operations noted. `Restaurant_proof`, `Reception_proof`, `Kitchen_proof` and
`Service_proof` build on each other in this order, and each theorem follows from
an inductive invariant of its own together with those before it.
`Launcher_proof` rests on `Kitchen_proof`, `StateLog_proof` on
`Restaurant_proof`; the other two stand alone.

*Assumptions* are those the modules make on their constants, and no others: a
finite set of groups without `NoGroup` (`GroupsAssumption`); at least one table
(`TablesAssumption`); the value that `processOrder` leaves in `lastGroup`,
0xFFFF, is no group (`ScrubbedAssumption`); and a waiting list with as many
places as there are groups (`WaitlistAssumption`), since the code declares
`(MAXGROUPS-2)*4` = 56 of them for at most 16 groups. For `Launcher`: the
number of faults is a natural number (`LauncherAssumption`), and a group's id is
not that of another process (`EntitiesAssumption`). A ring of events has at least
one entry (`EventLogAssumption`); the number of tables in `SemLayout` is
positive, that of groups at most `MAXGROUPS` (`LayoutAssumption`, `Init`). Two
theorems are about the program built with `-DSEMDEBUG`, as the Makefile does,
and assume `SEMDEBUG`; without it they are false, for the
reason that the run `timer_counted` shows.

| Theorem | States |
|---|---|
| `Restaurant_proof!TypeCorrect` | `[]TypeOK` |
| `Restaurant_proof!MutexHeldByOne` | `[]MutualExclusion` |
| `Restaurant_proof!SlotsExclusive` | `[]RequestSlotsExclusive` |
| `Reception_proof!RecordAgrees` | `[]TablesConsistent` |
| `Reception_proof!NoTableIdle` | `[]NoIdleTable` |
| `Reception_proof!ListInRecord` | `[]WaitlistWithinRecord` |
| `Reception_proof!TableRequestKept` | `[]TableRequestInOnePlace` |
| `Reception_proof!TableKept` | `TableKeptUntilBill` |
| `Reception_proof!ReceiptForEveryBill` | `[]ReceiptsBalance` |
| `Reception_proof!ReceiptAtPayersTable` | `[]ReceiptComesWhereAwaited` |
| `Kitchen_proof!NoTrap` | `[]NoBugTrap` |
| `Kitchen_proof!RingNeverFull` | `[]WaiterQueueFits` |
| `Kitchen_proof!TableCopies` | `[]TableReadIsCurrent` |
| `Kitchen_proof!OrderKeptInOnePlace` | `[]OrderInOnePlace` |
| `Kitchen_proof!AckForOrder` | `[]AckMatchesOrder` |
| `Kitchen_proof!ChefWaitsForOrder` | `[]ChefFreeWhenInformed` |
| `Kitchen_proof!NobodyEndsEarly` | `[]ServersServeAll` |
| `Kitchen_proof!CleanEnd` | `[]NothingLeftOver` |
| `Service_proof!ReceptionServes` | `ImplementsSeating` |
| `Service_proof!KitchenServes` | `ImplementsKitchen` |
| `Launcher_proof!LauncherTypeCorrect` | `[]LauncherTypeOK` |
| `Launcher_proof!AllStartTogether` | `[]StartsTogether` |
| `Launcher_proof!SetOutlives` | `SEMDEBUG`: `[]SetOutlivesEntities` |
| `Launcher_proof!SuccessServed` | `SEMDEBUG`: `[]SuccessMeansServed` |
| `StateLog_proof!LineIsAState` | `[]LogLineIsAState` |
| `EventLog_proof!EventTypes` | `[]TypeOK` (of `EventLog`) |
| `EventLog_proof!RingKeepsLast` | `[]RingHoldsLast` |
| `EventLog_proof!BlockedReportExact` | `[]ReportOfBlockedIsExact` |
| `SemLayout_proof!NamesFound` | `[]NamesInvertNumbers` |
| `SemLayout_proof!NumbersPartition` | `[]NumbersPartitionSet` |

*Types.* `TypeOK` is not inductive. That a server's counter stays in its range
depends on where it is (`ReceptionistOpen`, `WaiterOpen`, `ChefOpen`: inside
the loop there is a request left to handle); that the chef files a meal for a
group, and that the waiter looks up the table of one, depends on what they were
given (`ChefHolds`, `WaiterHolds`); what the waiter takes out of its ring is a
request because the entries in use are (`RingHolds`), which needs the
arithmetic of the indices (`ModUnique`, `ModPlus`). `TypeInv` is the
conjunction. There is a lemma for the steps of each process, and `TypeStep`
combines them with the private variables that the other processes keep.
`DecidesFreeTable` shows that the receptionist's search returns a free table of
the restaurant, or none, by the least-element lemma `LeastNatural`.

*Mutual exclusion and the slots* are balances. The token of `mutex`, or of a
slot, is in one of its semaphores or with exactly one process. Each server's
steps keep the sum of the semaphores and its own share; a group's step moves
one element into or out of the set of groups that hold the token, with the
library's facts on cardinality. For the waiter's slot the chef is one more
holder.

*The receptionist* (`ReceptionInv`). The record, the waiting list and the table
that is being decided are related to `assignedTable`, which is written at
another moment than the record. The list without wrapping around is the heart
of it: its end is bounded by counting the groups that were ever listed or are
seated (`ListedCount`, `ManySeatedAtOnce`), so that its entries are distinct
groups that wait, and no place is used twice. `NoTableIdle` and `ListInRecord`
follow; `TableRequestKept` adds where each request is on its way through the
slot.

*Leaving groups.* `CopyCurrent` says where a group's local `table` is current:
up to the posting of its bill. From then on the receptionist may clear
`assignedTable` and seat another group while the payer has not slept yet on the
semaphore of its copy; `PayerFits` says that the copy is a table, and that the
payer has that one or none. The balance of receipts (`ReceiptsFit`) counts, for
each table, the payers that sleep there and the bills that the slot and the
receptionist hold for it; since the payer is one of them, it is never zero at
its table, which gives `ReceiptAtPayersTable`. The
number of requests that the receptionist has handled is the number of groups
it has seated or listed plus the number it has been paid by (`CountsRequests`),
which is why it ends when it has served all.

*The hand-over* (`HandoverInv`). The order that `foodOrder` stands for is in
exactly one place: about to be posted, posted, with the chef, or, as a meal, in
the slot or in the waiter's hands (`OneOrderOut`); the chef answers each order
once (`OrderAnswered`); and the waiter's copy `chef_is_busy`, which it makes
outside the mutex, is up to date whenever it matters (`BusyIsCurrent`). `NoTrap`
follows. *Every order* (`OrdersInv`): a group that has ordered has its order or
its meal in one place, and one acknowledgement to come. The ring has room
because its orders are those of different groups, each of which sits at a table
of its own (`AtMostTables`, `RingHasRoom`), an argument about the receptionist,
the groups and the waiter together that no single process of the code knows of.

*The end* (`CountsOrders`). The chef's and the waiter's counters are the
numbers of orders and meals that are done with, so that each of them ends only
after its last request; and when all have ended, the balances above leave
nothing over.

*Refinements.* A step of the restaurant is a step of `Seating`, or of
`Kitchen`, or leaves their variables alone. The proofs do not use the mappings
as they are defined for the runs, but show first that they agree with a
simpler form in reachable states (`SeatingView`, `KitchenView`): who is in
line, and the filed orders in four parts, in the waiter's hands, in its ring,
just taken, and in the slot. An order comes in at the end of the last part,
moves from one part to the next without a change of the whole, and goes out at
the front of the first (`ComesInAtEnd`, `MovesToThird`, `MovesToSecond`,
`MovesToFirst`, `GoesOutAtFront`).

*main.* The proofs about `Restaurant` are used for the entities inside `main`
as they are, through the start barrier. `BarrierInv` says that semaphore 0 is
red until the signal and green after it, and that until then no entity has got
past it, and the region and the set are as `main` has prepared them. So the step
that opens the barrier ends in an initial state of `Restaurant`, and each later
step, a fault or a SIGTERM included, is a step of it or leaves it alone
(`BarrierOpens`): whatever is always true of `Restaurant` is true of `Launcher`
from the signal on. `ObjectsFit` says from where to where the set and the region
exist. With `-DSEMDEBUG`, `CountsReaped` says that `m` is the number of entities
waited for, from which `DoneWithEntities` follows: `main` goes on from its loop
without a report only when it has waited for each of them, by the cardinality of
the set of entities, and after a report only when it has killed each. `EndedDone`
says that without a fault or a report an entity ends only where its program
does, because the objects that its calls need are there (`ObjectsThere`); with
`CleanEnd` this gives `SuccessServed`.

*The state log* (`LogInv`). An unfinished line is `completed` with the tables as
they are now, and the completed line is a state that has passed (`LineFits`). It
is the present state as long as the receptionist is about to decide on a table
or to free one (`AboutToDecide`), because it gets there only with its own up of
`mutex`, before the line was begun, and changes at most one table before it
needs the mutex again (`ReceptionistMayChange`). So whether that table is
already in the line or not, the line is the state before the change or the one
after it.

*The event log.* `RingInv` says of the entry being overwritten which of its
fields are new, besides `RingHoldsLast`. The only arithmetic is that of indices
that go around once (`RingPlus`): the entries passed over by the report are
distinct (`Positions`). `ReportFits` says that the copy of a process that stands
still is always a beginning of the right report (`lastOnes(copied)`).

*The numbers* (`LayoutInv`). The numbers given so far are those of `numberOf`,
whose ranges follow one another. `NameOfNumber` shows, kind by kind, that the
debugger's search gives each its name again. Two semaphores cannot have one
number then, since it has one name only, and counting through the ranges shows
that no number of the set is left out (`NumbersAre`).

Two definitions were changed for the proofs' sake. `seatingQueue` was a `CASE`
with guards that overlap, which TLC resolves by their order but whose meaning
leaves it open; it is an `IF` now. `WaitlistAssumption` only asked for one place
in the waiting list, which no theorem about the list could rest on: with fewer
places than groups, one of them can overwrite another.

*Only model-checked:* liveness (`Termination`, `ImplementsFairSeating`,
`ImplementsFairKitchen`, `EndsClean`), which is out of the prover's reach under
fairness. The runs show it for the smallest restaurants that have every
interaction.

## Not modelled

* The command line, the parsing of `config.txt` and the random distribution of
  times: the number of groups is a constant (an initial value in `SemLayout`),
  assumed to be at most `MAXGROUPS`, and times are arbitrary.
* What the report looks like: the tables of states and requests and their
  labels in `semDebug_sharedDataSync.h` are output without effect on the
  program. Modelled are the ring, its copy, the last event, the lines printed
  from it, and the names of semaphores.
* A report on a process that runs on: the copy takes no lock, so it can mix old
  and new entries. The properties are about a process that stands still, which
  is what the report is for, and (`RingHoldsLast`) about the ring at every
  moment.
* Several runs one after the other: objects left over only make the next
  creation fail, which `MainFails` covers. Other processes of the system that
  may get a pid again are not in the model either.
* The header of the log, and opening and closing the log around each line,
  other than that it may fail.
* Build rules and scripts: they hold no state of the program. The Makefile is
  where `SEMDEBUG` comes from.

## Plan

The modelling and the proofs are done as far as they are planned: every part
that changes state has a module, and every safety property a proof. What a
change of the code would need first is a fair run of the larger instances, which
take longer than the runs here may.
