------------------------------ MODULE Launcher ------------------------------
(***************************************************************************)
(* The generator (probSemSharedMemRestaurant.c) and the lives of the       *)
(* processes it forks: creation of the shared region and of the semaphore  *)
(* set, the start barrier on semaphore 0, the timer, the loop that waits,  *)
(* the deadlock report with its signals, and the destruction of the        *)
(* objects.  Between its start and its end an entity takes the steps of    *)
(* Restaurant.                                                             *)
(*                                                                         *)
(* Any system call may fail, in main and in an entity, as long as there    *)
(* are faults left; a call on an object that is gone fails by itself.      *)
(***************************************************************************)
EXTENDS Restaurant

CONSTANTS
  SEMDEBUG, \* was the program built with -DSEMDEBUG, as the Makefile does?
  MaxFaults \* bound: calls that fail although their object is there

ASSUME LauncherAssumption == SEMDEBUG \in BOOLEAN /\ MaxFaults \in Nat

Entities  == Groups \cup {"waiter", "chef", "receptionist"}
Processes == Entities \cup {"timer"}

\* Every process has an id of its own.
ASSUME EntitiesAssumption ==
  Groups \cap {"waiter", "chef", "receptionist", "timer"} = {}

\* main forks the groups first, then these.
forkStage(p) == CASE p \in Groups -> 1 [] p = "waiter" -> 2 [] p = "chef" -> 3
                  [] p = "receptionist" -> 4 [] p = "timer" -> 5

\* After a report it kills in this order.
killStage(p) == CASE p = "chef" -> 1 [] p = "waiter" -> 2
                  [] p = "receptionist" -> 3 [] p \in Groups -> 4

VARIABLES
  mainAt,       \* where main is in its program
  waited,       \* m, the processes it has counted
  ret,          \* its exit status
  status,       \* of each process it forks
  signalled,    \* the processes main has sent a SIGTERM
  regionExists, \* is there a shared region with the key?
  setExists,    \* is there a semaphore set with the key?
  barrier,      \* semaphore 0
  faults        \* calls that have failed though their object was there

mainVars    == <<mainAt, waited, ret>>
processVars == <<status, signalled>>
objectVars  == <<regionExists, setExists, barrier>>
launcherVars == <<mainVars, processVars, objectVars, faults>>
allVars == <<vars, launcherVars>>

MainLocations ==
  {"createRegion", "configure", "createSet", "enable", "fork", "signal", "wait",
   "report", "kill", "killTimer", "destroySet", "destroyRegion", "returned",
   "aborted"}

\* "forked" until semConnect returns, "connected" until the region is attached,
\* "ended" until main has waited for it, then "reaped".
Statuses == {"none", "forked", "connected", "running", "ended", "reaped"}
are(statuses) == {p \in Processes : status[p] \in statuses}

LauncherInit ==
  /\ RegionInit /\ TableSemsRed
  /\ sem = [s \in SemNames |-> 0]
  /\ GroupInit /\ ReceptionistInit /\ WaiterInit /\ ChefInit
  /\ mainAt = "createRegion"
  /\ waited = 0
  /\ ret = "success"
  /\ status = [p \in Processes |-> "none"]
  /\ signalled = {}
  /\ regionExists = FALSE
  /\ setExists = FALSE
  /\ barrier = 0
  /\ faults = 0

LauncherTypeOK ==
  /\ TypeOK
  /\ mainAt \in MainLocations
  /\ waited \in 0 .. 3 + nGroups
  /\ ret \in {"success", "failure"}
  /\ status \in [Processes -> Statuses]
  /\ signalled \subseteq Processes
  /\ regionExists \in BOOLEAN /\ setExists \in BOOLEAN
  /\ barrier \in 0 .. 1
  /\ faults \in 0 .. MaxFaults

-----------------------------------------------------------------------------
(* semaphore.c and sharedMemory.c: what their calls do when they succeed.   *)
(* Those that create fail if there is an object with the key.               *)

shmemCreate  == ~regionExists /\ regionExists' = TRUE
shmemAttach  == regionExists
shmemDestroy == regionExists' = FALSE

\* Mutant: semaphore 0 is created green.
semCreateGreen == ~setExists /\ setExists' = TRUE /\ barrier' = 1

\* All semaphores of the set are red, semaphore 0 like the others.
semCreate == ~setExists /\ setExists' = TRUE /\ barrier' = 0

semDestroy == setExists' = FALSE

semSignal == setExists /\ barrier' = barrier + 1

\* Mutant: semaphore 0 goes up once more than it goes down.
semConnectTwice == setExists /\ barrier > 0 /\ barrier' = barrier + 1

\* A down and an up of semaphore 0 in one operation.
semConnect == setExists /\ barrier > 0 /\ barrier' = barrier

mainGoesTo(from, to) == mainAt = from /\ mainAt' = to

-----------------------------------------------------------------------------
(* main, up to the start signal                                             *)

CreateRegion ==
  /\ mainGoesTo("createRegion", "configure")
  /\ shmemCreate
  /\ UNCHANGED <<waited, ret, processVars, setExists, barrier, faults, vars>>

\* The region is initialised, config.txt read and the log begun.
Configure ==
  /\ mainGoesTo("configure", "createSet")
  /\ UNCHANGED <<waited, ret, processVars, objectVars, faults, vars>>

CreateSet ==
  /\ mainGoesTo("createSet", "enable")
  /\ semCreate
  /\ UNCHANGED <<waited, ret, processVars, regionExists, faults, vars>>

\* The three ups of main.
EnableRequests ==
  /\ mainGoesTo("enable", "fork")
  /\ sem' = [s \in SemNames |-> sem[s] + enabledSems[s]]
  /\ UNCHANGED <<statVars, tableVars, orderVars, requestVars, waitForTable,
                 requestReceived, foodArrived, tableDone, groupVars,
                 receptionistVars, waiterVars, chefVars, waited, ret,
                 processVars, objectVars, faults>>

Fork(p) ==
  /\ mainAt = "fork"
  /\ status[p] = "none"
  /\ \A q \in are({"none"}) : forkStage(p) <= forkStage(q)
  /\ status' = [status EXCEPT ![p] = "forked"]
  /\ mainAt' = IF p = "timer" THEN "signal" ELSE "fork"
  /\ UNCHANGED <<waited, ret, signalled, objectVars, faults, vars>>

SignalStart ==
  /\ mainGoesTo("signal", "wait")
  /\ semSignal
  /\ UNCHANGED <<waited, ret, processVars, regionExists, setExists, faults, vars>>

-----------------------------------------------------------------------------
(* main, from the start signal on                                           *)

waitLoop(m) == IF m < 3 + nGroups THEN "wait" ELSE "killTimer"

\* Mutant: the loop goes on after the report.
TimerReapedOnly ==
  /\ waited' = waited
  /\ mainAt' = "wait"
  /\ UNCHANGED ret

\* Mutant: the report is made, and success returned.
TimerReapedQuietly ==
  /\ mainAt' = "report"
  /\ UNCHANGED <<waited, ret>>

\* What becomes of main when the process it has waited for is the timer.
TimerReaped ==
  IF SEMDEBUG
  THEN mainAt' = "report" /\ ret' = "failure" /\ UNCHANGED waited
  ELSE /\ waited' = waited + 1
       /\ mainAt' = waitLoop(waited')
       /\ UNCHANGED ret

Wait(p) ==
  /\ mainAt = "wait"
  /\ status[p] = "ended"
  /\ status' = [status EXCEPT ![p] = "reaped"]
  /\ IF p = "timer" THEN TimerReaped
     ELSE /\ waited' = waited + 1
          /\ mainAt' = waitLoop(waited')
          /\ UNCHANGED ret
  /\ UNCHANGED <<signalled, objectVars, faults, vars>>

\* semdebug_print_deadlock ends when the user has pressed ENTER; the entities
\* run on meanwhile.
PressEnter ==
  /\ mainGoesTo("report", "kill")
  /\ UNCHANGED <<waited, ret, processVars, objectVars, faults, vars>>

\* Mutant: the groups are forgotten.
KillServers(p) ==
  /\ mainAt = "kill"
  /\ p \notin signalled
  /\ signalled' = signalled \cup {p}
  /\ mainAt' = IF Entities \subseteq signalled' \cup Groups
               THEN "killTimer" ELSE "kill"
  /\ UNCHANGED <<waited, ret, status, objectVars, faults, vars>>

Kill(p) ==
  /\ mainAt = "kill"
  /\ p \notin signalled
  /\ \A q \in Entities \ signalled : killStage(p) <= killStage(q)
  /\ signalled' = signalled \cup {p}
  /\ mainAt' = IF Entities \subseteq signalled' THEN "killTimer" ELSE "kill"
  /\ UNCHANGED <<waited, ret, status, objectVars, faults, vars>>

KillTimer ==
  /\ mainGoesTo("killTimer", "destroySet")
  /\ signalled' = signalled \cup {"timer"}
  /\ UNCHANGED <<waited, ret, status, objectVars, faults, vars>>

DestroySet ==
  /\ mainGoesTo("destroySet", "destroyRegion")
  /\ semDestroy
  /\ UNCHANGED <<waited, ret, processVars, regionExists, barrier, faults, vars>>

\* After shmemDettach, which changes nothing but main's own address space.
DestroyRegion ==
  /\ mainGoesTo("destroyRegion", "returned")
  /\ shmemDestroy
  /\ UNCHANGED <<waited, ret, processVars, setExists, barrier, faults, vars>>

\* A call of main fails: it exits and leaves everything as it is.
MainFails ==
  /\ mainAt \notin {"report", "kill", "killTimer", "returned", "aborted"}
  /\ faults < MaxFaults
  /\ faults' = faults + 1
  /\ mainAt' = "aborted"
  /\ ret' = "failure"
  /\ UNCHANGED <<waited, processVars, objectVars, vars>>

MainStep ==
  \/ CreateRegion \/ Configure \/ CreateSet \/ EnableRequests
  \/ \E p \in Processes : Fork(p)
  \/ SignalStart
  \/ \E p \in Processes : Wait(p)
  \/ PressEnter
  \/ \E p \in Entities : Kill(p)
  \/ KillTimer \/ DestroySet \/ DestroyRegion

-----------------------------------------------------------------------------
(* The processes                                                            *)

become(p, from, to) ==
  /\ status[p] = from
  /\ status' = [status EXCEPT ![p] = to]
  /\ UNCHANGED <<mainVars, signalled>>

Connect(p) ==
  /\ become(p, "forked", "connected")
  /\ semConnect
  /\ UNCHANGED <<regionExists, setExists, faults, vars>>

Attach(p) ==
  /\ become(p, "connected", "running")
  /\ shmemAttach
  /\ UNCHANGED <<objectVars, faults, vars>>

entityStep(p) ==
  IF p \in Groups THEN GroupStep(p)
  ELSE \/ p = "waiter" /\ WaiterStep
       \/ p = "chef" /\ ChefStep
       \/ p = "receptionist" /\ ReceptionistStep

entityDone(p) ==
  IF p \in Groups THEN groupAt[p] = "exit"
  ELSE \/ p = "waiter" /\ waiterAt = "exit"
       \/ p = "chef" /\ chefAt = "exit"
       \/ p = "receptionist" /\ receptionistAt = "exit"

Step(p) ==
  /\ status[p] = "running"
  /\ setExists
  /\ entityStep(p)
  /\ UNCHANGED launcherVars

End(p) ==
  /\ become(p, "running", "ended")
  /\ entityDone(p)
  /\ UNCHANGED <<objectVars, faults, vars>>

\* The object that the next call of p needs is gone.
objectGone(p) ==
  IF status[p] = "connected" THEN ~regionExists
  ELSE ~setExists /\ ~entityDone(p)

\* A call fails, and the process ends where it is, with what it holds.
Fail(p) ==
  /\ status[p] \in {"forked", "connected", "running"}
  /\ status' = [status EXCEPT ![p] = "ended"]
  /\ \/ objectGone(p) /\ UNCHANGED faults
     \/ faults < MaxFaults /\ faults' = faults + 1
  /\ UNCHANGED <<mainVars, signalled, objectVars, vars>>

\* SIGTERM is not handled.
Terminate(p) ==
  /\ p \in signalled
  /\ status[p] \in {"forked", "connected", "running"}
  /\ status' = [status EXCEPT ![p] = "ended"]
  /\ UNCHANGED <<mainVars, signalled, objectVars, faults, vars>>

\* The timer's sleep ends.
Elapse ==
  /\ become("timer", "forked", "ended")
  /\ UNCHANGED <<objectVars, faults, vars>>

EntityStep(p) == Connect(p) \/ Attach(p) \/ Step(p) \/ End(p)

-----------------------------------------------------------------------------
MainOver == mainAt \in {"returned", "aborted"} /\ UNCHANGED allVars

\* What need not wait for a fault.
Progress ==
  \/ MainStep
  \/ \E p \in Entities : EntityStep(p) \/ (objectGone(p) /\ Fail(p))
  \/ \E p \in Processes : Terminate(p)
  \/ Elapse

LauncherNext ==
  \/ Progress
  \/ MainFails
  \/ \E p \in Entities : Fail(p)
  \/ MainOver

LauncherSpec == LauncherInit /\ [][LauncherNext]_allVars

\* The operating system does not leave everybody waiting while somebody can
\* proceed: it runs the processes, delivers signals and lets the timer elapse;
\* and the user presses ENTER in the end.  Faults need not happen, except of a
\* call whose object is gone.
LauncherFairness == WF_allVars(Progress)

FairLauncherSpec == LauncherSpec /\ LauncherFairness

-----------------------------------------------------------------------------
\* No entity gets past the barrier before main's signal, not even when main
\* gives up on the way there; and what the signal starts is a restaurant in
\* its initial state.  From then on the barrier is open to all.
StartsTogether ==
  /\ barrier = 0 =>
       /\ are({"connected", "running"}) = {}
       /\ GroupInit /\ ReceptionistInit /\ WaiterInit /\ ChefInit
  /\ mainAt = "signal" => Init
  /\ mainAt = "wait" => setExists /\ barrier = 1

\* main removes the semaphore set only when every entity has ended or has been
\* sent a SIGTERM: it never takes the set away from under one that works.
SetOutlivesEntities ==
  ~setExists => Entities \subseteq are({"none", "ended", "reaped"}) \cup signalled

\* When main returns success, it has waited for all the entities and the pid
\* to which it sent the last SIGTERM was still its timer's; and unless one of
\* the entities has failed, everybody was served and nothing is left over.
SuccessMeansServed ==
  mainAt = "returned" /\ ret = "success" =>
    /\ Entities \subseteq are({"reaped"})
    /\ status["timer"] # "reaped"
    /\ faults = 0 => Finished /\ NothingLeftOver

\* Whatever call of an entity fails, and whatever the entity held at that
\* moment, the run ends: main returns, every process ends, and neither the
\* set nor the region is left, unless a call of main itself has failed.
EndsClean ==
  <>[](\/ mainAt = "aborted"
       \/ /\ mainAt = "returned"
          /\ Processes = are({"ended", "reaped"})
          /\ ~setExists /\ ~regionExists)

-----------------------------------------------------------------------------
\* What the comment on the loop says it is for: when main goes on from it, and
\* not because of a deadlock, all the entities have terminated.
WaitsForEntities ==
  mainAt = "killTimer" /\ ret = "success" => Entities \subseteq are({"reaped"})

\* What the comment in the loop concludes from the end of the timer: when main
\* begins its report, no entity can go on.
TimerMeansDeadlock ==
  mainAt = "report" => \A p \in Entities : ~ENABLED EntityStep(p)
=============================================================================
