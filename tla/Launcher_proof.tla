---------------------------- MODULE Launcher_proof ----------------------------
(***************************************************************************)
(* Proofs about main and the lives of the processes it forks, for any      *)
(* number of groups and tables and any number of calls that fail: the      *)
(* start barrier, through which what is proved of Restaurant holds of the  *)
(* entities that main lets go; and, with -DSEMDEBUG, the set that outlives *)
(* the entities and the success main returns.                              *)
(***************************************************************************)
EXTENDS Launcher, Kitchen_proof

\* What main leaves to the entities, apart from the three ups.
AsMainLeavesIt ==
  /\ RegionInit /\ TableSemsRed
  /\ GroupInit /\ ReceptionistInit /\ WaiterInit /\ ChefInit

allRed == [s \in SemNames |-> 0]

\* Where main is before it has created the set, and before it begins to fork,
\* to signal, and to destroy what it has created.
BeforeSet     == {"createRegion", "configure", "createSet"}
BeforeFork    == BeforeSet \cup {"enable"}
BeforeSignal  == BeforeFork \cup {"fork", "signal"}
BeforeDestroy == {"enable", "fork", "signal", "wait", "report", "kill",
                  "killTimer", "destroySet"}
AfterWait     == {"killTimer", "destroySet", "destroyRegion", "returned"}

LauncherTypes ==
  /\ mainAt \in MainLocations
  /\ waited \in 0 .. 3 + nGroups
  /\ mainAt \in BeforeSignal \cup {"wait"} => waited < 3 + nGroups
  /\ ret \in {"success", "failure"}
  /\ status \in [Processes -> Statuses]
  /\ signalled \subseteq Processes
  /\ regionExists \in BOOLEAN /\ setExists \in BOOLEAN
  /\ faults \in 0 .. MaxFaults

\* The barrier is red until main's signal, and green from then on.
BarrierFits ==
  /\ barrier \in 0 .. 1
  /\ mainAt \in BeforeSignal => barrier = 0
  /\ mainAt \notin BeforeSignal \cup {"aborted"} => barrier = 1

\* Until then nobody has begun, and main has done the three ups or none.
NotBegun ==
  barrier = 0 =>
    /\ are({"connected", "running"}) = {}
    /\ AsMainLeavesIt
    /\ sem \in {allRed, enabledSems}
    /\ mainAt \in BeforeFork => sem = allRed
    /\ mainAt \in {"fork", "signal"} => sem = enabledSems

BarrierInv == LauncherTypes /\ BarrierFits /\ NotBegun

\* The barrier is open.
Begun == barrier = 1

\* The two objects are there from when main has created them until it destroys
\* them, and nobody is forked before.
ObjectsFit ==
  /\ mainAt \in BeforeFork => Processes = are({"none"})
  /\ mainAt \in BeforeDestroy => setExists
  /\ mainAt \in (BeforeDestroy \cup {"configure", "createSet", "destroyRegion"})
       => regionExists

Reaped == Entities \cap are({"reaped"})

\* With -DSEMDEBUG main counts the entities alone.
CountsReaped == waited = Cardinality(Reaped)

\* As long as main has nothing to report, it kills no entity and has not waited
\* for the timer.
QuietUntilReport ==
  /\ mainAt \in BeforeSignal \cup {"wait"} => ret = "success"
  /\ mainAt \in {"report", "kill", "aborted"} => ret = "failure"
  /\ ret = "success" =>
       status["timer"] # "reaped" /\ signalled \cap Entities = {}

\* What main has done with the entities before it takes the objects away.
DoneWithEntities ==
  /\ mainAt \in AfterWait /\ ret = "success" => Entities \subseteq Reaped
  /\ mainAt \in AfterWait /\ ret = "failure" => Entities \subseteq signalled

\* Without a fault or a report an entity ends only when it is done.
EndedDone ==
  faults = 0 /\ ret = "success" =>
    \A p \in Entities : status[p] \in {"ended", "reaped"} => entityDone(p)

EndInv ==
  /\ ObjectsFit /\ CountsReaped /\ QuietUntilReport /\ DoneWithEntities
  /\ SetOutlivesEntities /\ EndedDone

-----------------------------------------------------------------------------
(* Steps that leave the restaurant as it is                                 *)

LEMMA RestaurantUnchanged ==
  ASSUME UNCHANGED vars
  PROVE  /\ UNCHANGED <<RegionInit, TableSemsRed, GroupInit, ReceptionistInit,
                        WaiterInit, ChefInit>>
         /\ UNCHANGED <<sem, Init>>
         /\ \A p : entityDone(p)' <=> entityDone(p)
<1> USE DEF vars, sharedVars, statVars, tableVars, orderVars, requestVars,
            semVars, groupVars, receptionistVars, recordVars, waiterVars,
            queueVars, chefVars
<1>1. UNCHANGED <<RegionInit, TableSemsRed>>
  BY DEF RegionInit, TableSemsRed
<1>2. UNCHANGED <<GroupInit, ReceptionistInit, WaiterInit, ChefInit>>
  BY DEF GroupInit, ReceptionistInit, WaiterInit, ChefInit
<1>3. UNCHANGED <<sem, groupAt, waiterAt, chefAt, receptionistAt>>
  BY DEF vars
<1>4. UNCHANGED Init
  BY <1>1, <1>2, <1>3 DEF Init, SharedInit
<1> QED
  BY <1>1, <1>2, <1>3, <1>4 DEF entityDone

\* What main leaves to the entities, with the three ups, is the initial state
\* of Restaurant.
LEMMA LeavesInit ==
  ASSUME AsMainLeavesIt, sem = enabledSems PROVE Init
BY DEF AsMainLeavesIt, Init, SharedInit

\* The three ups of main.
LEMMA ThreeUps ==
  ASSUME sem = allRed
  PROVE  [s \in SemNames |-> sem[s] + enabledSems[s]] = enabledSems
<1>1. \A s \in SemNames : sem[s] + enabledSems[s] = enabledSems[s]
  BY DEF allRed, enabledSems
<1>2. enabledSems = [s \in SemNames |-> enabledSems[s]]
  BY DEF enabledSems
<1> QED
  BY <1>1, <1>2

LEMMA EntityTakesRestaurantStep ==
  ASSUME NEW p \in Entities, entityStep(p)
  PROVE  Next
BY DEF entityStep, Next, Entities

-----------------------------------------------------------------------------
(* The barrier                                                              *)

LEMMA LauncherConstants ==
  /\ nGroups \in Nat /\ MaxFaults \in Nat /\ SEMDEBUG \in BOOLEAN
  /\ IsFiniteSet(Entities) /\ Cardinality(Entities) = 3 + nGroups
  /\ "timer" \notin Entities /\ Entities \subseteq Processes
<1>1. nGroups \in Nat
  BY GroupsAssumption, FS_CardinalityType DEF nGroups
<1> DEFINE A == Groups \cup {"waiter"}
           B == A \cup {"chef"}
<1>2. IsFiniteSet(A) /\ Cardinality(A) = nGroups + 1
  BY GroupsAssumption, EntitiesAssumption, FS_AddElement DEF nGroups
<1>3. IsFiniteSet(B) /\ Cardinality(B) = nGroups + 2
  <2>1. "chef" \notin A
    BY EntitiesAssumption
  <2> HIDE DEF A
  <2> QED
    BY <1>1, <1>2, <2>1, FS_AddElement
<1>4. Entities = B \cup {"receptionist"} /\ "receptionist" \notin B
  BY EntitiesAssumption DEF Entities
<1>5. IsFiniteSet(Entities) /\ Cardinality(Entities) = 3 + nGroups
  <2> HIDE DEF B
  <2> QED
    BY <1>1, <1>3, <1>4, FS_AddElement
<1>6. "timer" \notin Entities /\ Entities \subseteq Processes
  BY EntitiesAssumption DEF Entities, Processes
<1> QED
  BY <1>1, <1>5, <1>6, LauncherAssumption

LEMMA BarrierInit == LauncherInit => BarrierInv
<1> SUFFICES ASSUME LauncherInit PROVE BarrierInv
  OBVIOUS
<1>1. LauncherTypes
  <2>1. status \in [Processes -> Statuses] /\ mainAt \in MainLocations
    BY DEF LauncherInit, Statuses, MainLocations
  <2>2. waited = 0 /\ waited \in 0 .. 3 + nGroups /\ waited < 3 + nGroups
    BY LauncherConstants DEF LauncherInit
  <2>3. regionExists \in BOOLEAN /\ setExists \in BOOLEAN /\ signalled = {}
    BY DEF LauncherInit
  <2>4. faults \in 0 .. MaxFaults /\ ret = "success"
    BY LauncherConstants DEF LauncherInit
  <2> QED
    BY <2>1, <2>2, <2>3, <2>4 DEF LauncherTypes
<1>2. BarrierFits
  BY DEF LauncherInit, BarrierFits, BeforeSignal, BeforeFork, BeforeSet
<1>3. are({"connected", "running"}) = {}
  BY DEF LauncherInit, are
<1>4. NotBegun
  BY <1>3 DEF LauncherInit, NotBegun, AsMainLeavesIt, allRed
<1> QED
  BY <1>1, <1>2, <1>4 DEF BarrierInv

\* main creates, signals, kills, destroys or fails; it forks nobody and waits
\* for nobody.
MainMoves ==
  \/ CreateRegion \/ Configure \/ CreateSet \/ SignalStart \/ PressEnter
  \/ KillTimer \/ DestroySet \/ DestroyRegion \/ MainFails
  \/ \E p \in Entities : Kill(p)

LEMMA MainKeepsBarrier ==
  ASSUME BarrierInv, MainMoves PROVE BarrierInv'
<1> USE LauncherConstants
        DEF MainMoves, mainVars, processVars, objectVars, mainGoesTo
<1>1. UNCHANGED <<vars, waited, status>>
  BY DEF CreateRegion, Configure, CreateSet, SignalStart, PressEnter,
     KillTimer, DestroySet, DestroyRegion, MainFails, Kill
<1>2. LauncherTypes'
  <2>1. regionExists' \in BOOLEAN /\ setExists' \in BOOLEAN
    BY DEF BarrierInv, LauncherTypes, CreateRegion, Configure, CreateSet,
       SignalStart, PressEnter, KillTimer, DestroySet, DestroyRegion, MainFails,
       Kill, shmemCreate, semCreate, semSignal, semDestroy, shmemDestroy
  <2>2. faults' \in 0 .. MaxFaults
    BY DEF BarrierInv, LauncherTypes, CreateRegion, Configure, CreateSet,
       SignalStart, PressEnter, KillTimer, DestroySet, DestroyRegion, MainFails,
       Kill
  <2>3. signalled' \subseteq Processes
    BY DEF BarrierInv, LauncherTypes, CreateRegion, Configure, CreateSet,
       SignalStart, PressEnter, KillTimer, DestroySet, DestroyRegion, MainFails,
       Kill, Processes
  <2>4. /\ mainAt' \in MainLocations /\ ret' \in {"success", "failure"}
        /\ mainAt' \in BeforeSignal \cup {"wait"} =>
             mainAt \in BeforeSignal \cup {"wait"}
    BY DEF BarrierInv, LauncherTypes, CreateRegion, Configure, CreateSet,
       SignalStart, PressEnter, KillTimer, DestroySet, DestroyRegion, MainFails,
       Kill, MainLocations, BeforeSignal, BeforeFork, BeforeSet
  <2> QED
    BY <1>1, <2>1, <2>2, <2>3, <2>4 DEF BarrierInv, LauncherTypes
<1>3. BarrierFits'
  BY DEF BarrierInv, LauncherTypes, BarrierFits, CreateRegion, Configure,
     CreateSet, SignalStart, PressEnter, KillTimer, DestroySet, DestroyRegion,
     MainFails, Kill, semCreate, semSignal, MainLocations, BeforeSignal,
     BeforeFork, BeforeSet
<1>4. NotBegun'
  <2>1. /\ UNCHANGED AsMainLeavesIt
        /\ UNCHANGED <<are({"connected", "running"}), sem>>
    BY <1>1, RestaurantUnchanged DEF AsMainLeavesIt, are
  <2>2. barrier' = 0 => barrier = 0
    BY DEF BarrierInv, BarrierFits, CreateRegion, Configure, CreateSet,
       SignalStart, PressEnter, KillTimer, DestroySet, DestroyRegion, MainFails,
       Kill, semCreate, semSignal, BeforeSignal, BeforeFork, BeforeSet
  <2>3. /\ mainAt' \in BeforeFork => mainAt \in BeforeFork
        /\ mainAt' \in {"fork", "signal"} => mainAt \in {"fork", "signal"}
    BY DEF CreateRegion, Configure, CreateSet, SignalStart, PressEnter,
       KillTimer, DestroySet, DestroyRegion, MainFails, Kill, BeforeFork,
       BeforeSet
  <2> QED
    BY <2>1, <2>2, <2>3 DEF BarrierInv, NotBegun
<1> QED
  BY <1>2, <1>3, <1>4 DEF BarrierInv

LEMMA EnablingKeepsBarrier ==
  ASSUME BarrierInv, EnableRequests PROVE BarrierInv'
<1> USE LauncherConstants
        DEF EnableRequests, mainGoesTo, processVars, objectVars
<1>1. mainAt = "enable" /\ mainAt' = "fork" /\ barrier = 0 /\ sem = allRed
  BY DEF BarrierInv, BarrierFits, NotBegun, BeforeSignal, BeforeFork, BeforeSet
<1>2. sem' = enabledSems
  BY <1>1, ThreeUps
<1>3. UNCHANGED AsMainLeavesIt
  BY DEF AsMainLeavesIt, RegionInit, TableSemsRed, GroupInit, ReceptionistInit,
     WaiterInit, ChefInit, statVars, tableVars, orderVars, requestVars,
     groupVars, receptionistVars, recordVars, waiterVars, queueVars, chefVars
<1>4. UNCHANGED <<are({"connected", "running"}), barrier>>
  BY DEF are
<1>5. LauncherTypes'
  BY <1>1 DEF BarrierInv, LauncherTypes, MainLocations, BeforeSignal, BeforeFork,
     BeforeSet
<1>6. BarrierFits' /\ NotBegun'
  BY <1>1, <1>2, <1>3, <1>4 DEF BarrierInv, BarrierFits, NotBegun, BeforeSignal,
     BeforeFork, BeforeSet
<1> QED
  BY <1>5, <1>6 DEF BarrierInv

LEMMA ForkingKeepsBarrier ==
  ASSUME BarrierInv, NEW p \in Processes, Fork(p) PROVE BarrierInv'
<1> USE DEF Fork, objectVars
<1>1. /\ status' = [status EXCEPT ![p] = "forked"]
      /\ mainAt = "fork" /\ mainAt' \in {"fork", "signal"}
      /\ UNCHANGED <<vars, barrier, waited>>
  OBVIOUS
<1>2. are({"connected", "running"})' \subseteq are({"connected", "running"})
  BY <1>1 DEF BarrierInv, LauncherTypes, are
<1>3. LauncherTypes'
  <2>1. status' \in [Processes -> Statuses]
    BY <1>1 DEF BarrierInv, LauncherTypes, Statuses
  <2> QED
    BY <1>1, <2>1 DEF BarrierInv, LauncherTypes, MainLocations, BeforeSignal,
       BeforeFork, BeforeSet
<1>4. BarrierFits' /\ NotBegun'
  BY <1>1, <1>2, RestaurantUnchanged DEF BarrierInv, BarrierFits, NotBegun,
     AsMainLeavesIt, BeforeSignal, BeforeFork, BeforeSet
<1> QED
  BY <1>3, <1>4 DEF BarrierInv

LEMMA WaitingKeepsBarrier ==
  ASSUME BarrierInv, NEW p \in Processes, Wait(p) PROVE BarrierInv'
<1> USE DEF Wait, objectVars
<1>1. /\ status' = [status EXCEPT ![p] = "reaped"]
      /\ mainAt = "wait" /\ barrier = 1 /\ UNCHANGED barrier
  BY DEF BarrierInv, BarrierFits, BeforeSignal, BeforeFork, BeforeSet
<1>2. /\ mainAt' \in {"wait", "killTimer", "report"}
      /\ ret' \in {"success", "failure"}
      /\ waited' \in 0 .. 3 + nGroups
      /\ mainAt' = "wait" => waited' < 3 + nGroups
  BY <1>1, LauncherConstants DEF BarrierInv, LauncherTypes, TimerReaped, waitLoop
<1>3. LauncherTypes'
  <2>1. status' \in [Processes -> Statuses]
    BY <1>1 DEF BarrierInv, LauncherTypes, Statuses
  <2> QED
    BY <1>2, <2>1 DEF BarrierInv, LauncherTypes, MainLocations, BeforeSignal,
       BeforeFork, BeforeSet
<1>4. BarrierFits' /\ NotBegun'
  BY <1>1, <1>2 DEF BarrierFits, NotBegun, BeforeSignal, BeforeFork, BeforeSet
<1> QED
  BY <1>3, <1>4 DEF BarrierInv

\* A process goes on, or ends, as the operating system lets it.
ProcessMoves(p) ==
  \/ Connect(p) \/ Attach(p) \/ Step(p) \/ End(p) \/ Fail(p) \/ Terminate(p)
  \/ p = "timer" /\ Elapse

\* It changes its own status alone, gets past the barrier only when that is
\* green, and begins its work only then.
LEMMA ProcessMovesAlone ==
  ASSUME BarrierInv, NEW p \in Processes, ProcessMoves(p)
  PROVE  /\ UNCHANGED <<mainAt, waited, ret, signalled, regionExists,
                        setExists, barrier>>
         /\ faults' \in 0 .. MaxFaults /\ faults' >= faults
         /\ \E s \in {"connected", "running", "ended", status[p]} :
              status' = [status EXCEPT ![p] = s]
         /\ status[p] \in {"forked", "connected", "running"}
         /\ barrier = 0 => ~Connect(p) /\ ~Attach(p) /\ ~Step(p)
<1> USE DEF mainVars, processVars, objectVars, launcherVars
<1>1. barrier = 0 => status[p] \notin {"connected", "running"}
  BY DEF BarrierInv, NotBegun, are
<1>2. /\ UNCHANGED <<mainAt, waited, ret, signalled, regionExists, setExists,
                     barrier>>
      /\ faults' \in 0 .. MaxFaults /\ faults' >= faults
  BY LauncherConstants DEF ProcessMoves, Connect, Attach, Step, End, Fail,
     Terminate, Elapse, become, semConnect, BarrierInv, LauncherTypes
<1>3. /\ \E s \in {"connected", "running", "ended", status[p]} :
           status' = [status EXCEPT ![p] = s]
      /\ status[p] \in {"forked", "connected", "running"}
  <2>1. status = [status EXCEPT ![p] = status[p]]
    BY DEF BarrierInv, LauncherTypes
  <2> QED
    BY <2>1 DEF ProcessMoves, Connect, Attach, Step, End, Fail, Terminate,
       Elapse, become
<1>4. barrier = 0 => ~Connect(p) /\ ~Attach(p) /\ ~Step(p)
  BY <1>1 DEF Connect, Attach, Step, become, semConnect
<1> QED
  BY <1>2, <1>3, <1>4

LEMMA ProcessesKeepBarrier ==
  ASSUME BarrierInv, NEW p \in Processes, ProcessMoves(p) PROVE BarrierInv'
<1>1. LauncherTypes' /\ BarrierFits'
  <2>1. status' \in [Processes -> Statuses]
    BY ProcessMovesAlone DEF BarrierInv, LauncherTypes, Statuses
  <2> QED
    BY <2>1, ProcessMovesAlone DEF BarrierInv, LauncherTypes, BarrierFits
<1>2. NotBegun'
  <2> SUFFICES ASSUME barrier' = 0 PROVE NotBegun'
    BY DEF NotBegun
  <2>1. barrier = 0 /\ UNCHANGED mainAt
    BY ProcessMovesAlone
  <2>2. End(p) \/ Fail(p) \/ Terminate(p) \/ (p = "timer" /\ Elapse)
    BY <2>1, ProcessMovesAlone DEF ProcessMoves
  <2>3. status' = [status EXCEPT ![p] = "ended"] /\ UNCHANGED vars
    BY <2>2 DEF End, Fail, Terminate, Elapse, become
  <2>4. are({"connected", "running"})' \subseteq are({"connected", "running"})
    BY <2>3 DEF are, BarrierInv, LauncherTypes
  <2> QED
    BY <2>1, <2>3, <2>4, RestaurantUnchanged DEF BarrierInv, NotBegun,
       AsMainLeavesIt
<1> QED
  BY <1>1, <1>2 DEF BarrierInv

\* What a step of the launcher is.
LEMMA LauncherSteps ==
  ASSUME [LauncherNext]_allVars
  PROVE  \/ MainMoves \/ EnableRequests
         \/ \E p \in Processes : Fork(p) \/ Wait(p) \/ ProcessMoves(p)
         \/ UNCHANGED allVars
BY LauncherConstants DEF LauncherNext, Progress, MainStep, MainOver, EntityStep,
   MainMoves, ProcessMoves, Processes

LEMMA BarrierStep == BarrierInv /\ [LauncherNext]_allVars => BarrierInv'
<1> SUFFICES ASSUME BarrierInv, [LauncherNext]_allVars PROVE BarrierInv'
  OBVIOUS
<1>1. CASE MainMoves
  BY <1>1, MainKeepsBarrier
<1>2. CASE EnableRequests
  BY <1>2, EnablingKeepsBarrier
<1>3. CASE \E p \in Processes : Fork(p) \/ Wait(p) \/ ProcessMoves(p)
  BY <1>3, ForkingKeepsBarrier, WaitingKeepsBarrier, ProcessesKeepBarrier
<1>4. CASE UNCHANGED allVars
  <2>1. UNCHANGED <<vars, mainAt, waited, ret, status, signalled, regionExists,
                    setExists, barrier, faults>>
    BY <1>4 DEF allVars, launcherVars, mainVars, processVars, objectVars
  <2>2. UNCHANGED are({"connected", "running"})
    BY <2>1 DEF are
  <2> QED
    BY <2>1, <2>2, RestaurantUnchanged DEF BarrierInv, LauncherTypes,
       BarrierFits, NotBegun, AsMainLeavesIt
<1> QED
  BY <1>1, <1>2, <1>3, <1>4, LauncherSteps

LEMMA BarrierInvariant == LauncherSpec => []BarrierInv
BY BarrierInit, BarrierStep, PTL DEF LauncherSpec

-----------------------------------------------------------------------------
(* What is proved of Restaurant holds of the entities that main lets go     *)

\* The step that opens the barrier ends in an initial state of Restaurant, and
\* from then on every step is one of Restaurant, or leaves it alone.
LEMMA BarrierOpens ==
  ASSUME BarrierInv, [LauncherNext]_allVars
  PROVE  /\ barrier = 0 /\ barrier' = 1 => Init'
         /\ barrier = 1 => barrier' = 1 /\ [Next]_vars
<1> USE DEF objectVars
<1>1. ASSUME barrier = 0, barrier' = 1 PROVE Init'
  <2>1. CASE MainMoves
    <3>1. SignalStart
      BY <1>1, <2>1 DEF MainMoves, CreateRegion, Configure, CreateSet, PressEnter,
         KillTimer, DestroySet, DestroyRegion, MainFails, Kill, semCreate
    <3>2. mainAt = "signal" /\ UNCHANGED vars
      BY <3>1 DEF SignalStart, mainGoesTo
    <3>3. Init
      BY <1>1, <3>2, LeavesInit DEF BarrierInv, NotBegun
    <3> QED
      BY <3>2, <3>3, RestaurantUnchanged
  <2>2. CASE EnableRequests
    BY <1>1, <2>2 DEF EnableRequests
  <2>3. CASE \E p \in Processes : Fork(p) \/ Wait(p) \/ ProcessMoves(p)
    BY <1>1, <2>3, ProcessMovesAlone DEF Fork, Wait
  <2>4. CASE UNCHANGED allVars
    BY <1>1, <2>4 DEF allVars, launcherVars
  <2> QED
    BY <2>1, <2>2, <2>3, <2>4, LauncherSteps
<1>2. ASSUME barrier = 1 PROVE barrier' = 1 /\ [Next]_vars
  <2>1. CASE MainMoves
    <3>1. UNCHANGED vars
      BY <2>1 DEF MainMoves, CreateRegion, Configure, CreateSet, SignalStart,
         PressEnter, KillTimer, DestroySet, DestroyRegion, MainFails, Kill
    <3>2. UNCHANGED barrier
      BY <1>2, <2>1 DEF MainMoves, CreateRegion, Configure, CreateSet,
         SignalStart, PressEnter, KillTimer, DestroySet, DestroyRegion,
         MainFails, Kill, mainGoesTo, BarrierInv, BarrierFits, BeforeSignal,
         BeforeFork, BeforeSet
    <3> QED
      BY <1>2, <3>1, <3>2
  <2>2. CASE EnableRequests
    BY <1>2, <2>2 DEF EnableRequests, mainGoesTo, BarrierInv, BarrierFits,
       BeforeSignal, BeforeFork
  <2>3. ASSUME NEW p \in Processes, Fork(p) \/ Wait(p)
        PROVE  barrier' = 1 /\ [Next]_vars
    BY <1>2, <2>3 DEF Fork, Wait
  <2>4. ASSUME NEW p \in Processes, ProcessMoves(p)
        PROVE  barrier' = 1 /\ [Next]_vars
    <3>1. CASE p \in Entities /\ Step(p)
      BY <1>2, <2>4, <3>1, EntityTakesRestaurantStep, ProcessMovesAlone DEF Step
    <3>2. CASE ~Step(p)
      BY <1>2, <2>4, <3>2, ProcessMovesAlone DEF ProcessMoves, Connect, Attach,
         End, Fail, Terminate, Elapse
    <3>3. Step(p) => p \in Entities
      BY EntitiesAssumption DEF Step, entityStep, Entities
    <3> QED
      BY <3>1, <3>2, <3>3
  <2>5. CASE UNCHANGED allVars
    BY <1>2, <2>5 DEF allVars, launcherVars
  <2> QED
    BY <2>1, <2>2, <2>3, <2>4, <2>5, LauncherSteps
<1> QED
  BY <1>1, <1>2

\* Before the barrier opens every variable has its type as well.
LEMMA TypesBeforeStart ==
  ASSUME AsMainLeavesIt, sem \in {allRed, enabledSems} PROVE TypeOK
<1> USE ConstantTypes DEF AsMainLeavesIt
<1>1. sem \in [SemNames -> Nat]
  BY DEF allRed, enabledSems
<1>2. SharedTypeOK
  BY <1>1 DEF RegionInit, TableSemsRed, SharedTypeOK, StatTypeOK, TableTypeOK,
     OrderTypeOK, RequestTypeOK, SemTypeOK, GroupStates, ReceptionistStates,
     WaiterStates, ChefStates
<1>3. GroupTypeOK
  BY DEF GroupInit, GroupTypeOK, GroupLocations
<1>4. ReceptionistTypeOK
  BY DEF ReceptionistInit, ReceptionistTypeOK, ReceptionistLocations,
         receptionistLoop, Tables
<1>5. WaiterTypeOK
  <2>1. chefIsBusy \in BOOLEAN
    BY Zenon DEF RegionInit, WaiterInit
  <2> QED
    BY <2>1 DEF WaiterInit, WaiterTypeOK, WaiterLocations, Tables
<1>6. ChefTypeOK
  BY DEF ChefInit, ChefTypeOK, ChefLocations, chefLoop
<1> QED
  BY <1>2, <1>3, <1>4, <1>5, <1>6 DEF TypeOK

\* In every run of the simulation, whichever calls fail, every variable keeps
\* its type: the barrier is raised once, main counts no more processes than
\* there are entities, and what holds of the variables of the entities once
\* they are let go holds before as well.
THEOREM LauncherTypeCorrect == LauncherSpec => []LauncherTypeOK
<1>1. LauncherInit => ~Begun
  BY DEF LauncherInit, Begun
<1>2. BarrierInv /\ [LauncherNext]_allVars
        => (~Begun /\ Begun' => Init') /\ (Begun => Begun' /\ [Next]_vars)
  BY BarrierOpens DEF BarrierInv, BarrierFits, Begun
<1>3. BarrierInv => (~Begun => TypeOK)
  BY TypesBeforeStart DEF BarrierInv, BarrierFits, NotBegun, Begun
<1>4. BarrierInv /\ TypeOK => LauncherTypeOK
  BY DEF BarrierInv, LauncherTypes, BarrierFits, LauncherTypeOK
<1>5. LauncherSpec => [](Begun => TypeOK)
  BY <1>1, <1>2, BarrierInvariant, TypeCorrect, PTL DEF LauncherSpec, Spec
<1> QED
  BY <1>3, <1>4, <1>5, BarrierInvariant, PTL

LEMMA ObjectsInit == LauncherInit => ObjectsFit
BY DEF LauncherInit, ObjectsFit, are, BeforeFork, BeforeSet, BeforeDestroy

LEMMA ObjectsStep ==
  BarrierInv /\ ObjectsFit /\ [LauncherNext]_allVars => ObjectsFit'
<1> SUFFICES ASSUME BarrierInv, ObjectsFit, [LauncherNext]_allVars
             PROVE  ObjectsFit'
  OBVIOUS
<1> USE DEF ObjectsFit, BeforeFork, BeforeSet, BeforeDestroy, mainGoesTo,
            processVars, objectVars
<1>1. CASE MainMoves
  <2>1. UNCHANGED are({"none"})
    BY <1>1 DEF MainMoves, CreateRegion, Configure, CreateSet, SignalStart,
       PressEnter, KillTimer, DestroySet, DestroyRegion, MainFails, Kill, are
  <2> QED
    BY <1>1, <2>1 DEF MainMoves, CreateRegion, Configure, CreateSet,
       SignalStart, PressEnter, KillTimer, DestroySet, DestroyRegion, MainFails,
       Kill, shmemCreate, semCreate, semSignal, semDestroy, shmemDestroy
<1>2. CASE EnableRequests
  BY <1>2 DEF EnableRequests
<1>3. ASSUME NEW p \in Processes, Fork(p) PROVE ObjectsFit'
  BY <1>3 DEF Fork
<1>4. ASSUME NEW p \in Processes, Wait(p) PROVE ObjectsFit'
  BY <1>4 DEF Wait, TimerReaped, waitLoop
<1>5. ASSUME NEW p \in Processes, ProcessMoves(p) PROVE ObjectsFit'
  <2>1. mainAt \notin BeforeFork
    BY <1>5, ProcessMovesAlone DEF are
  <2> QED
    BY <1>5, <2>1, ProcessMovesAlone
<1>6. CASE UNCHANGED allVars
  BY <1>6 DEF allVars, launcherVars, mainVars, are
<1> QED
  BY <1>1, <1>2, <1>3, <1>4, <1>5, <1>6, LauncherSteps

LEMMA ObjectsInvariant == LauncherSpec => []ObjectsFit
BY ObjectsInit, ObjectsStep, BarrierInvariant, PTL DEF LauncherSpec

\* No entity gets past the barrier before main has raised it, not even if main
\* fails on the way there; what it then starts is a restaurant in its initial
\* state, and the barrier stays open to all.
THEOREM AllStartTogether == LauncherSpec => []StartsTogether
<1>1. BarrierInv => (mainAt = "signal" => Init)
  BY LeavesInit DEF BarrierInv, BarrierFits, NotBegun, BeforeSignal
<1>2. BarrierInv /\ ObjectsFit => StartsTogether
  BY <1>1 DEF BarrierInv, BarrierFits, NotBegun, AsMainLeavesIt, BeforeSignal,
     BeforeFork, BeforeSet, ObjectsFit, BeforeDestroy, StartsTogether
<1> QED
  BY <1>2, BarrierInvariant, ObjectsInvariant, PTL

-----------------------------------------------------------------------------
(* Whom main has waited for, with -DSEMDEBUG                                *)

WaitInv == CountsReaped /\ QuietUntilReport /\ DoneWithEntities

LEMMA WaitInit == LauncherInit => WaitInv
<1> SUFFICES ASSUME LauncherInit PROVE WaitInv
  OBVIOUS
<1>1. Reaped = {}
  BY DEF LauncherInit, Reaped, are
<1>2. status["timer"] = "none"
  BY DEF LauncherInit, Processes
<1>3. CountsReaped
  BY <1>1, FS_EmptySet DEF LauncherInit, CountsReaped
<1>4. QuietUntilReport /\ DoneWithEntities
  BY <1>2 DEF LauncherInit, QuietUntilReport, DoneWithEntities, AfterWait
<1> QED
  BY <1>3, <1>4 DEF WaitInv

\* Nobody is reaped but by main.
LEMMA ReapedUnchanged ==
  ASSUME BarrierInv, NEW p \in Processes, Fork(p) \/ ProcessMoves(p)
  PROVE  UNCHANGED <<Reaped, status["timer"] = "reaped">>
<1>1. \E s \in Statuses \ {"reaped"} : status' = [status EXCEPT ![p] = s]
  BY ProcessMovesAlone DEF Fork, Statuses
<1>2. status[p] # "reaped"
  BY ProcessMovesAlone DEF Fork
<1>3. \A q \in Processes : status'[q] = "reaped" <=> status[q] = "reaped"
  BY <1>1, <1>2 DEF BarrierInv, LauncherTypes
<1>4. "timer" \in Processes
  BY DEF Processes
<1> QED
  BY <1>3, <1>4, LauncherConstants DEF Reaped, are

\* Waiting for an entity counts it, and the last one is the last of them all.
LEMMA WaitingCounts ==
  ASSUME BarrierInv, CountsReaped, NEW p \in Entities, Wait(p)
  PROVE  /\ CountsReaped'
         /\ mainAt' = "killTimer" => Entities \subseteq Reaped'
         /\ mainAt' \in {"wait", "killTimer"}
         /\ UNCHANGED <<ret, signalled, status["timer"]>>
<1> USE LauncherConstants
<1>1. /\ status' = [status EXCEPT ![p] = "reaped"] /\ status[p] = "ended"
      /\ waited' = waited + 1 /\ mainAt' = waitLoop(waited')
      /\ UNCHANGED <<ret, signalled>>
  BY DEF Wait
<1>2. Reaped' = Reaped \cup {p} /\ p \notin Reaped
  BY <1>1 DEF Reaped, are, BarrierInv, LauncherTypes
<1>3. IsFiniteSet(Reaped) /\ IsFiniteSet(Reaped')
  BY FS_Subset DEF Reaped
<1>4. Cardinality(Reaped') = waited'
  BY <1>1, <1>2, <1>3, FS_AddElement DEF CountsReaped
<1>5. CountsReaped'
  BY <1>4 DEF CountsReaped
<1>6. ASSUME mainAt' = "killTimer" PROVE Entities \subseteq Reaped'
  <2>1. Cardinality(Reaped') >= 3 + nGroups
    BY <1>1, <1>4, <1>6 DEF waitLoop, BarrierInv, LauncherTypes
  <2>2. Reaped' \subseteq Entities
    BY DEF Reaped
  <2>3. /\ Cardinality(Reaped') \in Nat
        /\ Cardinality(Reaped') <= Cardinality(Entities)
        /\ Cardinality(Reaped') = Cardinality(Entities) => Reaped' = Entities
    BY <1>3, <2>2, FS_Subset, FS_CardinalityType
  <2> QED
    BY <2>1, <2>3
<1>7. mainAt' \in {"wait", "killTimer"}
  BY <1>1 DEF waitLoop
<1>8. status'["timer"] = status["timer"]
  BY <1>1 DEF BarrierInv, LauncherTypes
<1> QED
  BY <1>1, <1>5, <1>6, <1>7, <1>8

LEMMA WaitStep ==
  ASSUME SEMDEBUG
  PROVE  BarrierInv /\ WaitInv /\ [LauncherNext]_allVars => WaitInv'
<1> SUFFICES ASSUME BarrierInv, WaitInv, [LauncherNext]_allVars
             PROVE  WaitInv'
  OBVIOUS
<1> USE LauncherConstants
        DEF mainGoesTo, mainVars, processVars, objectVars
<1>1. CASE MainMoves
  <2>1. UNCHANGED <<status, waited>>
    BY <1>1 DEF MainMoves, CreateRegion, Configure, CreateSet, SignalStart,
       PressEnter, KillTimer, DestroySet, DestroyRegion, MainFails, Kill
  <2>2. UNCHANGED Reaped
    BY <2>1 DEF Reaped, are
  <2>3. CountsReaped'
    BY <2>1, <2>2 DEF WaitInv, CountsReaped
  <2>4. QuietUntilReport'
    BY <1>1, <2>1 DEF WaitInv, QuietUntilReport, MainMoves, CreateRegion,
       Configure, CreateSet, SignalStart, PressEnter, KillTimer, DestroySet,
       DestroyRegion, MainFails, Kill, BeforeSignal, BeforeFork, BeforeSet,
       BarrierInv, LauncherTypes
  <2>5. DoneWithEntities'
    BY <1>1, <2>1, <2>2 DEF WaitInv, QuietUntilReport, DoneWithEntities,
       AfterWait, MainMoves, CreateRegion, Configure, CreateSet, SignalStart,
       PressEnter, KillTimer, DestroySet, DestroyRegion, MainFails, Kill
  <2> QED
    BY <2>3, <2>4, <2>5 DEF WaitInv
<1>2. CASE EnableRequests
  <2>1. UNCHANGED <<waited, ret, status, signalled, Reaped>>
    BY <1>2 DEF EnableRequests, Reaped, are
  <2> QED
    BY <1>2, <2>1 DEF EnableRequests, WaitInv, CountsReaped, QuietUntilReport,
       DoneWithEntities, AfterWait, BeforeSignal, BeforeFork, BeforeSet
<1>3. ASSUME NEW p \in Processes, Fork(p) PROVE WaitInv'
  <2>1. UNCHANGED <<waited, ret, signalled, Reaped, status["timer"] = "reaped">>
    BY <1>3, ReapedUnchanged DEF Fork
  <2> QED
    BY <1>3, <2>1 DEF Fork, WaitInv, CountsReaped, QuietUntilReport,
       DoneWithEntities, AfterWait, BeforeSignal, BeforeFork, BeforeSet
<1>4. ASSUME NEW p \in Entities, Wait(p) PROVE WaitInv'
  <2>1. mainAt = "wait" /\ ret = "success"
    BY <1>4 DEF Wait, WaitInv, QuietUntilReport
  <2> QED
    BY <1>4, <2>1, WaitingCounts DEF WaitInv, QuietUntilReport,
       DoneWithEntities, AfterWait
<1>5. CASE Wait("timer")
  <2>1. mainAt' = "report" /\ ret' = "failure" /\ UNCHANGED waited
    BY <1>5 DEF Wait, TimerReaped
  <2>2. status' = [status EXCEPT !["timer"] = "reaped"]
    BY <1>5 DEF Wait
  <2>3. UNCHANGED Reaped
    BY <2>2 DEF Reaped, are, BarrierInv, LauncherTypes
  <2> QED
    BY <2>1, <2>3 DEF WaitInv, CountsReaped, QuietUntilReport,
       DoneWithEntities, AfterWait, BeforeSignal, BeforeFork, BeforeSet
<1>6. ASSUME NEW p \in Processes, ProcessMoves(p) PROVE WaitInv'
  <2>1. UNCHANGED <<mainAt, waited, ret, signalled, Reaped,
                    status["timer"] = "reaped">>
    BY <1>6, ReapedUnchanged, ProcessMovesAlone
  <2> QED
    BY <2>1 DEF WaitInv, CountsReaped, QuietUntilReport, DoneWithEntities
<1>7. CASE UNCHANGED allVars
  <2>1. UNCHANGED <<mainAt, waited, ret, status, signalled, Reaped>>
    BY <1>7 DEF allVars, launcherVars, Reaped, are
  <2> QED
    BY <2>1 DEF WaitInv, CountsReaped, QuietUntilReport, DoneWithEntities
<1> QED
  BY <1>1, <1>2, <1>3, <1>4, <1>5, <1>6, <1>7, LauncherSteps DEF Processes

LEMMA WaitInvariant ==
  ASSUME SEMDEBUG PROVE LauncherSpec => []WaitInv
BY WaitInit, WaitStep, BarrierInvariant, PTL DEF LauncherSpec

-----------------------------------------------------------------------------
(* What main takes away, and what it returns, with -DSEMDEBUG               *)

LEMMA OutlivesStep ==
  BarrierInv /\ ObjectsFit /\ WaitInv /\ SetOutlivesEntities
    /\ [LauncherNext]_allVars => SetOutlivesEntities'
<1> SUFFICES ASSUME BarrierInv, ObjectsFit, WaitInv, SetOutlivesEntities,
                    [LauncherNext]_allVars, ~setExists',
                    NEW e \in Entities
             PROVE  status'[e] \in {"none", "ended", "reaped"} \/ e \in signalled'
  BY LauncherConstants DEF SetOutlivesEntities, are
<1> USE DEF mainGoesTo, processVars, objectVars
<1>1. e \in Processes
  BY LauncherConstants
<1>2. ~setExists => status[e] \in {"none", "ended", "reaped"} \/ e \in signalled
  BY <1>1 DEF SetOutlivesEntities, are
<1>3. CASE MainMoves
  <2>1. UNCHANGED status /\ signalled \subseteq signalled'
    BY <1>3 DEF MainMoves, CreateRegion, Configure, CreateSet, SignalStart,
       PressEnter, KillTimer, DestroySet, DestroyRegion, MainFails, Kill
  <2>2. CASE ~setExists
    BY <1>2, <2>1, <2>2
  <2>3. CASE setExists
    <3>1. mainAt = "destroySet"
      BY <1>3, <2>3 DEF MainMoves, CreateRegion, Configure, CreateSet,
         SignalStart, PressEnter, KillTimer, DestroySet, DestroyRegion,
         MainFails, Kill, semCreate, semSignal
    <3>2. Entities \subseteq Reaped \/ Entities \subseteq signalled
      BY <3>1 DEF WaitInv, DoneWithEntities, AfterWait, BarrierInv, LauncherTypes
    <3>3. status[e] = "reaped" \/ e \in signalled
      BY <3>2 DEF Reaped, are
    <3> QED
      BY <2>1, <3>3
  <2> QED
    BY <2>2, <2>3
<1>4. CASE EnableRequests
  BY <1>2, <1>4 DEF EnableRequests
<1>5. ASSUME NEW p \in Processes, Fork(p)
      PROVE  status'[e] \in {"none", "ended", "reaped"} \/ e \in signalled'
  BY <1>5 DEF Fork, ObjectsFit, BeforeDestroy
<1>6. ASSUME NEW p \in Processes, Wait(p)
      PROVE  status'[e] \in {"none", "ended", "reaped"} \/ e \in signalled'
  BY <1>1, <1>2, <1>6 DEF Wait, BarrierInv, LauncherTypes
<1>7. ASSUME NEW p \in Processes, ProcessMoves(p)
      PROVE  status'[e] \in {"none", "ended", "reaped"} \/ e \in signalled'
  <2>1. ~setExists /\ UNCHANGED signalled
    BY <1>7, ProcessMovesAlone
  <2>2. status[e] \in {"none", "ended", "reaped"} => status'[e] = status[e]
    <3>1. status[p] \in {"forked", "connected", "running"}
      BY <1>7, ProcessMovesAlone
    <3>2. \E s : status' = [status EXCEPT ![p] = s]
      BY <1>7, ProcessMovesAlone
    <3> QED
      BY <1>1, <3>1, <3>2 DEF BarrierInv, LauncherTypes
  <2> QED
    BY <1>2, <2>1, <2>2
<1>8. CASE UNCHANGED allVars
  BY <1>2, <1>8 DEF allVars, launcherVars
<1> QED
  BY <1>3, <1>4, <1>5, <1>6, <1>7, <1>8, LauncherSteps

\* Built with -DSEMDEBUG, main removes the semaphore set only when every entity
\* has ended or has been sent a SIGTERM: it goes on from its loop when it has
\* waited for as many entities as there are, or has killed them all.
THEOREM SetOutlives ==
  ASSUME SEMDEBUG PROVE LauncherSpec => []SetOutlivesEntities
<1>1. LauncherInit => SetOutlivesEntities
  BY LauncherConstants DEF LauncherInit, SetOutlivesEntities, are
<1> QED
  BY <1>1, OutlivesStep, BarrierInvariant, ObjectsInvariant, WaitInvariant, PTL
     DEF LauncherSpec

\* As long as main has nothing to report, the object that an entity at work
\* needs is there.
LEMMA ObjectsThere ==
  ASSUME BarrierInv, ObjectsFit, WaitInv, ret = "success",
         NEW p \in Entities, status[p] \in {"forked", "connected", "running"}
  PROVE  setExists /\ regionExists
<1>1. p \in Processes
  BY LauncherConstants
<1>2. mainAt \notin BeforeFork
  BY <1>1 DEF ObjectsFit, are
<1>3. mainAt \notin AfterWait
  BY <1>1 DEF WaitInv, DoneWithEntities, Reaped, are
<1>4. mainAt \notin {"report", "kill", "aborted"}
  BY DEF WaitInv, QuietUntilReport
<1>5. mainAt \in {"fork", "signal", "wait"}
  BY <1>2, <1>3, <1>4 DEF BarrierInv, LauncherTypes, MainLocations, BeforeFork,
     BeforeSet, AfterWait
<1> QED
  BY <1>5 DEF ObjectsFit, BeforeDestroy

\* An entity that is done stays so, whatever another does.
LEMMA DoneStays ==
  ASSUME BarrierInv, TypeOK, NEW p \in Processes, Step(p),
         NEW e \in Entities, e # p, entityDone(e)
  PROVE  entityDone(e)'
<1>1. entityStep(p)
  BY DEF Step
<1>2. CASE p \in Groups
  <2>1. GroupStep(p)
    BY <1>1, <1>2 DEF entityStep
  <2>2. \A h \in Groups \ {p} : groupAt'[h] = groupAt[h]
    BY <1>2, <2>1, GroupMovesAlone DEF GroupStep, GroupNext, TypeOK
  <2>3. UNCHANGED <<waiterAt, chefAt, receptionistAt>>
    BY <2>1 DEF GroupStep, receptionistVars, waiterVars, chefVars
  <2> QED
    BY <2>2, <2>3 DEF entityDone
<1>3. CASE p \notin Groups
  BY <1>1, <1>3 DEF entityStep, entityDone, WaiterStep, ChefStep,
     ReceptionistStep, groupVars, receptionistVars, waiterVars, chefVars
<1> QED
  BY <1>2, <1>3

LEMMA EndedStep ==
  ASSUME SEMDEBUG
  PROVE  BarrierInv /\ LauncherTypeOK /\ ObjectsFit /\ WaitInv /\ EndedDone
           /\ [LauncherNext]_allVars => EndedDone'
<1> SUFFICES ASSUME BarrierInv, LauncherTypeOK, ObjectsFit, WaitInv, EndedDone,
                    [LauncherNext]_allVars, faults' = 0, ret' = "success",
                    NEW e \in Entities, status'[e] \in {"ended", "reaped"}
             PROVE  entityDone(e)'
  BY DEF EndedDone
<1> USE LauncherConstants DEF mainGoesTo, mainVars, processVars, objectVars
<1>1. e \in Processes /\ TypeOK
  BY DEF LauncherTypeOK
<1>2. faults = 0 /\ ret = "success" /\ status[e] \in {"ended", "reaped"}
        => entityDone(e)
  BY DEF EndedDone
<1>3. CASE MainMoves
  <2>1. UNCHANGED <<vars, status>> /\ faults = 0 /\ ret = "success"
    BY <1>3 DEF MainMoves, CreateRegion, Configure, CreateSet, SignalStart,
       PressEnter, KillTimer, DestroySet, DestroyRegion, MainFails, Kill,
       BarrierInv, LauncherTypes
  <2> QED
    BY <1>2, <2>1, RestaurantUnchanged
<1>4. CASE EnableRequests
  <2>1. Processes = are({"none"}) /\ UNCHANGED status
    BY <1>4 DEF EnableRequests, ObjectsFit, BeforeFork
  <2> QED
    BY <1>1, <2>1 DEF are
<1>5. ASSUME NEW p \in Processes, Fork(p) PROVE entityDone(e)'
  <2>1. /\ UNCHANGED <<vars, faults, ret>>
        /\ status[e] \in {"ended", "reaped"}
    BY <1>1, <1>5 DEF Fork, BarrierInv, LauncherTypes
  <2> QED
    BY <1>2, <2>1, RestaurantUnchanged
<1>6. ASSUME NEW p \in Processes, Wait(p) PROVE entityDone(e)'
  <2>1. /\ UNCHANGED <<vars, faults>> /\ ret = "success"
        /\ status[e] \in {"ended", "reaped"}
    BY <1>1, <1>6 DEF Wait, BarrierInv, LauncherTypes, TimerReaped
  <2> QED
    BY <1>2, <2>1, RestaurantUnchanged
<1>7. ASSUME NEW p \in Processes, ProcessMoves(p) PROVE entityDone(e)'
  <2>1. faults = 0 /\ ret = "success"
    BY <1>7, ProcessMovesAlone DEF BarrierInv, LauncherTypes
  <2>2. CASE p = e
    <3>1. status[e] \in {"forked", "connected", "running"}
      BY <1>7, <2>2, ProcessMovesAlone
    <3>2. setExists /\ regionExists
      BY <2>1, <3>1, ObjectsThere
    <3>3. ~Fail(p)
      BY <2>1, <2>2, <3>2 DEF Fail, objectGone
    <3>4. ~Terminate(p)
      BY <2>1, <2>2 DEF Terminate, WaitInv, QuietUntilReport
    <3>5. End(p)
      <4>1. status'[e] \notin {"connected", "running"}
        OBVIOUS
      <4>2. ~Connect(p) /\ ~Attach(p)
        BY <1>1, <2>2, <4>1 DEF Connect, Attach, become, BarrierInv, LauncherTypes
      <4>3. ~Step(p)
        BY <2>2, <4>1 DEF Step, launcherVars
      <4> QED
        BY <1>7, <2>2, <3>3, <3>4, <4>2, <4>3 DEF ProcessMoves
    <3> QED
      BY <2>2, <3>5, RestaurantUnchanged DEF End
  <2>3. CASE p # e
    <3>1. status'[e] = status[e]
      <4>1. \E s : status' = [status EXCEPT ![p] = s]
        BY <1>7, ProcessMovesAlone
      <4> QED
        BY <1>1, <2>3, <4>1 DEF BarrierInv, LauncherTypes
    <3>2. entityDone(e)
      BY <1>2, <2>1, <3>1
    <3>3. CASE Step(p)
      BY <1>1, <2>3, <3>2, <3>3, DoneStays
    <3>4. CASE ~Step(p)
      <4>1. UNCHANGED vars
        BY <1>7, <3>4 DEF ProcessMoves, Connect, Attach, End, Fail, Terminate,
           Elapse
      <4> QED
        BY <3>2, <4>1, RestaurantUnchanged
    <3> QED
      BY <3>3, <3>4
  <2> QED
    BY <2>2, <2>3
<1>8. CASE UNCHANGED allVars
  <2>1. UNCHANGED <<vars, status, faults, ret>>
    BY <1>8 DEF allVars, launcherVars
  <2> QED
    BY <1>2, <2>1, RestaurantUnchanged
<1> QED
  BY <1>3, <1>4, <1>5, <1>6, <1>7, <1>8, LauncherSteps

LEMMA EndedInvariant ==
  ASSUME SEMDEBUG PROVE LauncherSpec => []EndedDone
<1>1. LauncherInit => EndedDone
  BY LauncherConstants DEF LauncherInit, EndedDone
<1> QED
  BY <1>1, EndedStep, BarrierInvariant, LauncherTypeCorrect, ObjectsInvariant,
     WaitInvariant, PTL DEF LauncherSpec

\* Built with -DSEMDEBUG, main returns success only when it has waited for all
\* the entities and not for the timer, whose pid it has just sent a SIGTERM;
\* and if no call has failed, everybody was served and nothing is left over.
THEOREM SuccessServed ==
  ASSUME SEMDEBUG PROVE LauncherSpec => []SuccessMeansServed
<1>1. LauncherInit => ~Begun
  BY DEF LauncherInit, Begun
<1>2. BarrierInv /\ [LauncherNext]_allVars
        => (~Begun /\ Begun' => Init') /\ (Begun => Begun' /\ [Next]_vars)
  BY BarrierOpens DEF BarrierInv, BarrierFits, Begun
<1>3. LauncherSpec => [](Begun => NothingLeftOver)
  BY <1>1, <1>2, BarrierInvariant, CleanEnd, PTL DEF LauncherSpec, Spec
<1>4. BarrierInv /\ WaitInv /\ EndedDone /\ (Begun => NothingLeftOver)
        => SuccessMeansServed
  <2> SUFFICES ASSUME BarrierInv, WaitInv, EndedDone, Begun => NothingLeftOver,
                      mainAt = "returned", ret = "success"
               PROVE  /\ Entities \subseteq are({"reaped"})
                      /\ status["timer"] # "reaped"
                      /\ faults = 0 => Finished /\ NothingLeftOver
    BY DEF SuccessMeansServed
  <2>1. Begun
    BY DEF BarrierInv, BarrierFits, Begun, BeforeSignal, BeforeFork, BeforeSet
  <2>2. Entities \subseteq are({"reaped"}) /\ status["timer"] # "reaped"
    BY DEF WaitInv, DoneWithEntities, QuietUntilReport, AfterWait, Reaped
  <2>3. ASSUME faults = 0 PROVE Finished
    <3>1. \A p \in Entities : entityDone(p)
      BY <2>2, <2>3 DEF EndedDone, are
    <3>2. /\ Groups \subseteq Entities
          /\ {"waiter", "chef", "receptionist"} \subseteq Entities \ Groups
      BY EntitiesAssumption DEF Entities
    <3> QED
      BY <3>1, <3>2 DEF entityDone, Finished
  <2> QED
    BY <2>1, <2>2, <2>3
<1> QED
  BY <1>3, <1>4, BarrierInvariant, WaitInvariant, EndedInvariant, PTL
=============================================================================
