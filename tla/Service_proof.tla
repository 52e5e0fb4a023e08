---------------------------- MODULE Service_proof ----------------------------
(***************************************************************************)
(* Proofs that the restaurant implements, step by step, what its servers   *)
(* promise: every step of its processes is a step of Seating and a step of *)
(* Kitchen, or changes nothing there, for any number of groups and tables. *)
(***************************************************************************)
EXTENDS Kitchen_proof, RestaurantService, SequenceTheorems

-----------------------------------------------------------------------------
(* Sequences                                                                *)

\* Two sequences of one length with the same elements are the same.
LEMMA SameSequence ==
  ASSUME NEW D, NEW s \in Seq(D), NEW t \in Seq(D), Len(s) = Len(t),
         \A i \in 1 .. Len(s) : s[i] = t[i]
  PROVE  s = t
BY SeqEqual


LEMMA RangeOfAppend ==
  ASSUME NEW D, NEW s \in Seq(D), NEW e \in D
  PROVE  /\ Append(s, e) \in Seq(D) /\ <<e>> \o s \in Seq(D)
         /\ Range(Append(s, e)) = Range(s) \cup {e}
         /\ Range(<<e>> \o s) = Range(s) \cup {e}
         /\ <<e>> \o s # <<>>
         /\ Head(<<e>> \o s) = e /\ Tail(<<e>> \o s) = s
         /\ s = <<>> => <<e>> \o s = Append(s, e)
<1>1. /\ Len(s) \in Nat /\ DOMAIN s = 1 .. Len(s)
      /\ \A i \in 1 .. Len(s) : s[i] \in D
      /\ <<e>> \in Seq(D) /\ Len(<<e>>) = 1 /\ <<e>>[1] = e
  OBVIOUS
<1> DEFINE a == Append(s, e)
           c == <<e>> \o s
<1>2. /\ a \in Seq(D) /\ Len(a) = Len(s) + 1 /\ DOMAIN a = 1 .. Len(s) + 1
      /\ a[Len(s) + 1] = e /\ \A i \in 1 .. Len(s) : a[i] = s[i]
  BY <1>1
<1>3. /\ c \in Seq(D) /\ Len(c) = Len(s) + 1 /\ DOMAIN c = 1 .. Len(s) + 1
      /\ c[1] = e /\ \A i \in 1 .. Len(s) : c[i + 1] = s[i]
  <2>1. /\ c \in Seq(D) /\ Len(c) = 1 + Len(s)
        /\ \A i \in 1 .. 1 + Len(s) : c[i] = IF i <= 1 THEN <<e>>[i] ELSE s[i - 1]
    BY <1>1, ConcatProperties
  <2>2. DOMAIN c = 1 .. Len(c)
    BY <2>1
  <2> HIDE DEF c
  <2> QED
    BY <1>1, <2>1, <2>2
<1> HIDE DEF a, c
<1>4. Range(s) = {s[i] : i \in 1 .. Len(s)}
  BY <1>1 DEF Range
<1>5. Range(a) = Range(s) \cup {e}
  <2>1. Range(a) = {a[i] : i \in 1 .. Len(s) + 1}
    BY <1>2 DEF Range
  <2>2. \A i \in 1 .. Len(s) + 1 : i \in 1 .. Len(s) \/ i = Len(s) + 1
    BY <1>1
  <2>3. 1 .. Len(s) \subseteq 1 .. Len(s) + 1 /\ Len(s) + 1 \in 1 .. Len(s) + 1
    BY <1>1
  <2> QED
    BY <1>2, <1>4, <2>1, <2>2, <2>3
<1>6. Range(c) = Range(s) \cup {e}
  <2>1. Range(c) = {c[i] : i \in 1 .. Len(s) + 1}
    BY <1>3 DEF Range
  <2>2. \A i \in 1 .. Len(s) + 1 : i = 1 \/ (i - 1 \in 1 .. Len(s) /\ (i - 1) + 1 = i)
    BY <1>1
  <2>3. \A i \in 1 .. Len(s) : i + 1 \in 1 .. Len(s) + 1
    BY <1>1
  <2>4. 1 \in 1 .. Len(s) + 1
    BY <1>1
  <2>5. ASSUME NEW i \in 1 .. Len(s) + 1 PROVE c[i] \in Range(s) \cup {e}
    <3>1. CASE i = 1
      BY <1>3, <3>1
    <3>2. CASE i # 1
      <4>1. i - 1 \in 1 .. Len(s) /\ (i - 1) + 1 = i
        BY <2>2, <3>2
      <4>2. c[i] = s[i - 1]
        BY <1>3, <4>1
      <4> QED
        BY <1>4, <4>1, <4>2
    <3> QED
      BY <3>1, <3>2
  <2>6. \A x \in Range(s) : x \in Range(c)
    BY <1>3, <1>4, <2>1, <2>3
  <2>7. e \in Range(c)
    BY <1>3, <2>1, <2>4
  <2> QED
    BY <2>1, <2>5, <2>6, <2>7
<1>7. c # <<>> /\ Head(c) = e
  BY <1>1, <1>3
<1>8. Tail(c) = s
  <2>1. /\ Tail(c) \in Seq(D) /\ Len(Tail(c)) = Len(c) - 1
        /\ \A i \in 1 .. Len(Tail(c)) : Tail(c)[i] = c[i + 1]
    BY <1>3, <1>7, HeadTailProperties
  <2>2. Len(Tail(c)) = Len(s) /\ \A i \in 1 .. Len(s) : Tail(c)[i] = s[i]
    BY <1>1, <1>3, <2>1
  <2> QED
    BY <2>1, <2>2, SameSequence
<1>9. s = <<>> => c = a
  <2>1. s = <<>> => Len(c) = Len(a) /\ \A i \in 1 .. Len(c) : c[i] = a[i]
    BY <1>2, <1>3
  <2> QED
    BY <1>2, <1>3, <2>1, SameSequence
<1> QED
  BY <1>2, <1>3, <1>5, <1>6, <1>7, <1>8, <1>9 DEF a, c

-----------------------------------------------------------------------------
(* The waiting room                                                         *)

\* Whether g is in line for a table, or called already, and how far it is.
InLine(g) == Waiting(g) \/ Deciding(g)
stageOf(g) ==
  IF HasTable(g) THEN "seated"
  ELSE IF InLine(g) THEN "queued"
  ELSE IF groupAt[g] \in Leaving THEN "gone" ELSE "away"

\* Seating's variables, in terms of the receptionist's list.
SeatingView ==
  /\ waitingRoom \in Seq(Groups) /\ Len(waitingRoom) = groupsWaiting
  /\ \A i \in 1 .. groupsWaiting : waitingRoom[i] = waitlist[listBegin + i - 1]
  /\ seatingStage = [g \in Groups |-> stageOf(g)]

LEMMA SeatingViewHolds == Spec => []SeatingView
<1>1. TypeInv /\ ReceptionInv => SeatingView
  <2> SUFFICES ASSUME TypeOK, ReceptionInv PROVE SeatingView
    BY DEF TypeInv
  <2>1. /\ groupsWaiting \in Nat /\ listBegin \in Nat
        /\ listEnd \in 0 .. WAITLIST_LENGTH - 1
        /\ listBegin + groupsWaiting = listEnd
        /\ \A i \in 0 .. listEnd - 1 : waitlist[i] \in Groups
    BY DEF TypeOK, SharedTypeOK, TableTypeOK, ReceptionistTypeOK, ReceptionInv,
       ListFits
  <2>2. ASSUME NEW i \in 1 .. groupsWaiting
        PROVE  /\ (listBegin + i - 1) % WAITLIST_LENGTH = listBegin + i - 1
               /\ listBegin + i - 1 \in listBegin .. listEnd - 1
               /\ waitlist[listBegin + i - 1] \in Groups
    <3>1. /\ listBegin + i - 1 \in 0 .. WAITLIST_LENGTH - 1
          /\ listBegin + i - 1 \in Nat
          /\ listBegin + i - 1 = WAITLIST_LENGTH * 0 + (listBegin + i - 1)
          /\ listBegin + i - 1 \in listBegin .. listEnd - 1
          /\ listBegin + i - 1 \in 0 .. listEnd - 1
      BY <2>1, ConstantTypes
    <3>2. (listBegin + i - 1) % WAITLIST_LENGTH = listBegin + i - 1
      BY <3>1, ConstantTypes, ModUnique
    <3> QED
      BY <2>1, <3>1, <3>2
  <2>3. waitingRoom = [i \in 1 .. groupsWaiting |-> waitlist[listBegin + i - 1]]
    BY <2>2 DEF waitingRoom
  <2>4. /\ waitingRoom \in Seq(Groups) /\ Len(waitingRoom) = groupsWaiting
        /\ DOMAIN waitingRoom = 1 .. groupsWaiting
        /\ \A i \in 1 .. groupsWaiting : waitingRoom[i] = waitlist[listBegin + i - 1]
    BY <2>1, <2>2, <2>3
  <2>5. \A g \in Groups : g \in Range(waitingRoom) <=> Waiting(g)
    <3>1. Range(waitingRoom) = {waitlist[listBegin + i - 1] : i \in 1 .. groupsWaiting}
      BY <2>4 DEF Range
    <3>2. \A j \in listBegin .. listEnd - 1 :
            /\ j - listBegin + 1 \in 1 .. groupsWaiting
            /\ listBegin + (j - listBegin + 1) - 1 = j
      BY <2>1
    <3>3. ASSUME NEW g \in Groups, Waiting(g) PROVE g \in Range(waitingRoom)
      <4>1. PICK j \in listBegin .. listEnd - 1 : waitlist[j] = g
        BY <3>3 DEF Waiting
      <4> QED
        BY <3>1, <3>2, <4>1
    <3>4. ASSUME NEW g \in Groups, g \in Range(waitingRoom) PROVE Waiting(g)
      BY <2>2, <3>1, <3>4 DEF Waiting
    <3> QED
      BY <3>3, <3>4
  <2>6. ASSUME NEW g \in Groups PROVE g \in Range(seatingQueue) <=> InLine(g)
    <3>1. CASE ~BeingSeated
      <4>1. seatingQueue = waitingRoom
        BY <3>1 DEF seatingQueue
      <4>2. ~Deciding(g)
        BY <3>1 DEF BeingSeated, Deciding
      <4> QED
        BY <2>5, <4>1, <4>2 DEF InLine
    <3>2. CASE BeingSeated
      <4>1. guest \in Groups /\ (Deciding(g) <=> g = guest)
        BY <3>2 DEF ReceptionInv, GuestIsGroup, Deciding, BeingSeated
      <4>2. Range(seatingQueue) = Range(waitingRoom) \cup {guest}
        BY <2>4, <3>2, <4>1, RangeOfAppend DEF seatingQueue
      <4> QED
        BY <2>5, <4>1, <4>2 DEF InLine
    <3> QED
      BY <3>1, <3>2
  <2>7. seatingStage = [g \in Groups |-> stageOf(g)]
    BY <2>6 DEF seatingStage, stageOf, HasTable, Leaving
  <2> QED
    BY <2>4, <2>7 DEF SeatingView
<1> QED
  BY <1>1, TypeInvariant, ReceptionInvariant, PTL

-----------------------------------------------------------------------------
(* Every step is a step of Seating, or leaves it alone                      *)

SeatingUnmoved == UNCHANGED <<seatingStage, seatingQueue, assignedTable>>

\* Who is in line, and where, is told by the receptionist's own variables.
LEMMA LineSame ==
  ASSUME UNCHANGED <<guest, nOccupied, groupsWaiting, waitlist, listBegin, listEnd>>,
         BeingSeated' <=> BeingSeated
  PROVE  /\ waitingRoom' = waitingRoom /\ seatingQueue' = seatingQueue
         /\ \A g : InLine(g)' <=> InLine(g)
<1>1. waitingRoom' = waitingRoom
  BY DEF waitingRoom
<1>2. seatingQueue' = seatingQueue
  BY <1>1 DEF seatingQueue
<1>3. \A g : InLine(g)' <=> InLine(g)
  BY DEF InLine, Waiting, Deciding, BeingSeated
<1> QED
  BY <1>1, <1>2, <1>3

\* Steps of the groups, the waiter and the chef.
LEMMA OthersLeaveSeating ==
  ASSUME TypeOK, ReceptionInv, SeatingView, SeatingView',
         \/ \E g \in Groups : GroupStep(g)
         \/ WaiterStep \/ ChefStep \/ UNCHANGED vars
  PROVE  SeatingUnmoved
<1>1. UNCHANGED <<guest, nOccupied, groupsWaiting, waitlist, listBegin, listEnd,
                  receptionistAt, assignedTable>>
  BY DEF GroupStep, GroupNext, WaiterStep, WaiterNext, ChefStep, ChefNext, vars,
     sharedVars, receptionistVars, recordVars, tableVars
<1>2. /\ seatingQueue' = seatingQueue
      /\ \A g : InLine(g)' <=> InLine(g)
  BY <1>1, LineSame DEF BeingSeated
<1>3. \A g \in Groups : ~HasTable(g) =>
        (groupAt'[g] \in Leaving <=> groupAt[g] \in Leaving)
  <2>1. CASE \E g \in Groups : GroupStep(g)
    BY <2>1, GroupsWait DEF ReceptionInv
  <2>2. CASE WaiterStep \/ ChefStep \/ UNCHANGED vars
    BY <2>2 DEF WaiterStep, ChefStep, vars, groupVars
  <2> QED
    BY <2>1, <2>2
<1>4. ASSUME NEW g \in Groups PROVE stageOf(g)' = stageOf(g)
  <2>1. HasTable(g)' <=> HasTable(g)
    BY <1>1 DEF HasTable
  <2> QED
    BY <1>2, <1>3, <2>1 DEF stageOf
<1>5. seatingStage' = seatingStage
  BY <1>4 DEF SeatingView
<1> QED
  BY <1>1, <1>2, <1>5 DEF SeatingUnmoved

\* Where the groups are is as before: how far a group is told by its table and
\* by the line.
LEMMA StageMoves ==
  ASSUME SeatingView, SeatingView', UNCHANGED groupAt, NEW X \in SUBSET Groups,
         \A g \in Groups \ X : /\ assignedTable'[g] = assignedTable[g]
                               /\ InLine(g)' <=> InLine(g)
  PROVE  /\ \A g \in Groups : seatingStage[g] = stageOf(g)
         /\ \A g \in Groups : seatingStage'[g] = stageOf(g)'
         /\ \A g \in Groups \ X : seatingStage'[g] = seatingStage[g]
         /\ DOMAIN seatingStage = Groups /\ DOMAIN seatingStage' = Groups
         /\ X = {} => seatingStage' = seatingStage
         /\ \A g \in Groups : \A s : X = {g} /\ stageOf(g)' = s =>
              seatingStage' = [seatingStage EXCEPT ![g] = s]
<1>1. /\ seatingStage = [g \in Groups |-> stageOf(g)]
      /\ seatingStage' = [g \in Groups |-> stageOf(g)']
  BY DEF SeatingView
<1>2. ASSUME NEW g \in Groups \ X PROVE stageOf(g)' = stageOf(g)
  <2>1. HasTable(g)' <=> HasTable(g)
    BY DEF HasTable
  <2> QED
    BY <2>1 DEF stageOf
<1> QED
  BY <1>1, <1>2

\* The receptionist takes up a request: a group that asks for a table gets into
\* the line, at its end, and one that pays is not in it.
LEMMA ReadingAsks ==
  ASSUME TypeOK, ReceptionInv, SeatingView, SeatingView', ReadGroupRequest,
         UNCHANGED groupAt
  PROVE  SeatingUnmoved \/ \E g \in Groups : S!AskForTable(g)
<1>1. /\ receptionistAt = "readRequest" /\ ~BeingSeated
      /\ UNCHANGED <<occupied, nOccupied, groupsWaiting, waitlist, listBegin,
                     listEnd, assignedTable>>
  BY DEF ReadGroupRequest, recordVars, tableVars, BeingSeated
<1>2. /\ seatingQueue = waitingRoom /\ waitingRoom' = waitingRoom
      /\ \A h : Waiting(h)' <=> Waiting(h)
      /\ \A h : ~Deciding(h)
  BY <1>1 DEF seatingQueue, waitingRoom, Waiting, Deciding
<1>3. PICK g \in Groups :
        /\ guest' = g
        /\ \/ /\ req = TableRequest(g) /\ receptionistAt' = "provideTable"
              /\ Awaits(g) /\ ~Deciding(g) /\ ~Listed(g)
           \/ /\ req = BillRequest(g) /\ receptionistAt' = "receivePayment"
              /\ Owes(g) /\ ~PaymentOf(g)
  BY ReadsFresh DEF ReceptionInv
<1>4. CASE receptionistAt' = "receivePayment"
  <2>1. ~BeingSeated'
    BY <1>4 DEF BeingSeated
  <2>2. /\ seatingQueue' = seatingQueue
        /\ \A h : InLine(h)' <=> InLine(h)
    BY <1>2, <1>4, <2>1 DEF seatingQueue, InLine, Deciding
  <2> QED
    BY <1>1, <2>2, StageMoves DEF SeatingUnmoved
<1>5. CASE receptionistAt' = "provideTable"
  <2>1. /\ BeingSeated' /\ Awaits(g) /\ ~Listed(g)
        /\ \A h : Deciding(h)' <=> h = g
    BY <1>3, <1>5 DEF BeingSeated, Deciding
  <2>2. ~InLine(g) /\ InLine(g)'
    <3>1. ~Waiting(g)
      BY <2>1 DEF Waiting, Listed, TypeOK, ReceptionistTypeOK
    <3> QED
      BY <1>2, <2>1, <3>1 DEF InLine
  <2>3. \A h \in Groups \ {g} : InLine(h)' <=> InLine(h)
    BY <1>2, <2>1 DEF InLine
  <2>4. /\ ~HasTable(g) /\ ~HasTable(g)' /\ groupAt[g] \notin Leaving
    BY <1>1, <2>1 DEF Awaits, HasTable, Leaving
  <2>5. stageOf(g) = "away" /\ stageOf(g)' = "queued"
    BY <2>2, <2>4 DEF stageOf
  <2>6. /\ seatingStage[g] = "away"
        /\ seatingStage' = [seatingStage EXCEPT ![g] = "queued"]
    BY <1>1, <2>3, <2>5, StageMoves
  <2>7. seatingQueue' = Append(waitingRoom, g)
    <3>1. CASE nOccupied < NUMTABLES
      <4>1. groupsWaiting = 0
        BY <1>1, <1>2, <3>1, ConstantTypes DEF ReceptionInv, TablesInUse, TypeOK,
           ReceptionistTypeOK, SharedTypeOK, TableTypeOK
      <4>2. waitingRoom = <<>> /\ waitingRoom \in Seq(Groups)
        BY <4>1 DEF SeatingView
      <4>3. seatingQueue' = <<g>> \o waitingRoom
        BY <1>1, <1>2, <1>3, <2>1, <3>1 DEF seatingQueue
      <4> QED
        BY <4>2, <4>3, RangeOfAppend
    <3>2. CASE ~(nOccupied < NUMTABLES)
      BY <1>1, <1>2, <1>3, <2>1, <3>2 DEF seatingQueue
    <3> QED
      BY <3>1, <3>2
  <2> QED
    BY <1>1, <1>2, <2>6, <2>7 DEF S!AskForTable
<1> QED
  BY <1>3, <1>4, <1>5

\* The group that is given a table is the first in line, and nobody sits there.
LEMMA SeatingSeats ==
  ASSUME TypeOK, ReceptionInv, SeatingView, SeatingView', SeatGroup,
         UNCHANGED groupAt
  PROVE  S!SeatNext
<1> DEFINE t == decideTableOrWait
<1>1. /\ receptionistAt = "decideTable" /\ BeingSeated
      /\ t # NoTable /\ requestDone
      /\ assignedTable' = [assignedTable EXCEPT ![guest] = t]
      /\ UNCHANGED <<groupsWaiting, waitlist, listBegin, listEnd>>
  BY DEF SeatGroup, BeingSeated
<1>2. /\ guest \in Groups /\ ~HasTable(guest)
      /\ assignedTable \in [Groups -> Tables \cup {NoTable}]
  BY SeatsWaiting DEF TypeOK, SharedTypeOK, TableTypeOK
<1>3. /\ ~BeingSeated' /\ \A h : ~Deciding(h)'
      /\ \A h : Deciding(h) <=> h = guest
      /\ \A h : Waiting(h)' <=> Waiting(h)
  BY <1>1, BackInLoop DEF BeingSeated, Deciding, Waiting
<1>4. t \in Tables \ occupied /\ nOccupied < NUMTABLES
  <2>1. t \in Tables \ occupied /\ nOccupied # NUMTABLES
    BY <1>1, DecidesToSeat DEF TypeOK
  <2>2. nOccupied \in 0 .. NUMTABLES
    BY TablesCount DEF ReceptionInv, TablesConsistent, TypeOK, ReceptionistTypeOK
  <2> QED
    BY <2>1, <2>2, ConstantTypes
<1>5. \A h \in Groups : assignedTable[h] # t
  BY <1>1, <1>4 DEF ReceptionInv, TablesConsistent
<1>6. /\ seatingQueue = <<guest>> \o waitingRoom
      /\ seatingQueue' = waitingRoom /\ waitingRoom \in Seq(Groups)
  BY <1>1, <1>3, <1>4 DEF seatingQueue, waitingRoom, SeatingView
<1>7. /\ seatingQueue # <<>> /\ Head(seatingQueue) = guest
      /\ Tail(seatingQueue) = waitingRoom
  BY <1>2, <1>6, RangeOfAppend
<1>8. seatingStage' = [seatingStage EXCEPT ![guest] = "seated"]
  <2>1. PICK g \in Groups : g = guest
    BY <1>2
  <2>2. stageOf(g)' = "seated"
    BY <1>1, <1>2, <2>1 DEF stageOf, HasTable
  <2>3. \A h \in Groups \ {g} : /\ assignedTable'[h] = assignedTable[h]
                                /\ InLine(h)' <=> InLine(h)
    BY <1>1, <1>2, <1>3, <2>1 DEF InLine
  <2> QED
    BY <2>1, <2>2, <2>3, StageMoves
<1> QED
  BY <1>1, <1>4, <1>5, <1>6, <1>7, <1>8 DEF S!SeatNext

\* A group that is sent to the waiting room was at the end of the line already.
LEMMA ListingLeavesSeating ==
  ASSUME TypeOK, ReceptionInv, SeatingView, SeatingView', PutInWaitingRoom,
         UNCHANGED groupAt
  PROVE  SeatingUnmoved
<1>1. /\ receptionistAt = "decideTable" /\ BeingSeated
      /\ decideTableOrWait = NoTable /\ requestDone
      /\ waitlist' = [waitlist EXCEPT ![listEnd] = guest]
      /\ listEnd' = (listEnd + 1) % WAITLIST_LENGTH
      /\ groupsWaiting' = groupsWaiting + 1
      /\ UNCHANGED <<nOccupied, listBegin, assignedTable>>
  BY DEF PutInWaitingRoom, BeingSeated
<1>2. PICK g \in Groups : /\ g = guest /\ Awaits(g) /\ ~Listed(g)
  <2>1. guest \in Groups /\ Deciding(guest) /\ Awaits(guest)
    BY <1>1 DEF ReceptionInv, GuestIsGroup, GuestFits, Deciding
  <2>2. ~Listed(guest)
    <3>1. nOccupied = NUMTABLES
      BY <1>1, DecidesToWait DEF ReceptionInv, TablesConsistent, TypeOK
    <3> QED
      BY <2>1, <3>1, ConstantTypes DEF ReceptionInv, TablesInUse
  <2> QED
    BY <2>1, <2>2
<1>3. /\ nOccupied = NUMTABLES /\ listEnd + 1 < WAITLIST_LENGTH
      /\ listEnd' = listEnd + 1
  <2>1. nOccupied = NUMTABLES /\ occupied = Tables
    BY <1>1, DecidesToWait DEF ReceptionInv, TablesConsistent, TypeOK
  <2>2. listEnd \in Nat
    BY DEF TypeOK, ReceptionistTypeOK
  <2> QED
    BY <1>1, <1>2, <2>1, <2>2, RoomForOneMore, NoWrap DEF ReceptionInv
<1>4. /\ listBegin \in Nat /\ listEnd \in 0 .. WAITLIST_LENGTH - 1
      /\ groupsWaiting \in Nat /\ listBegin + groupsWaiting = listEnd
      /\ waitlist \in [0 .. WAITLIST_LENGTH - 1 -> Groups \cup {NoGroup}]
  BY DEF TypeOK, SharedTypeOK, TableTypeOK, ReceptionistTypeOK, ReceptionInv,
     ListFits
<1>5. \A i \in 0 .. listEnd' - 1 :
        waitlist'[i] = IF i = listEnd THEN g ELSE waitlist[i]
  BY <1>1, <1>2, <1>3, <1>4, ConstantTypes
<1>6. /\ ~BeingSeated' /\ \A h : ~Deciding(h)'
      /\ \A h : Deciding(h) <=> h = g
  BY <1>1, <1>2, BackInLoop DEF BeingSeated, Deciding
<1>7. \A h \in Groups : Waiting(h)' <=> Waiting(h) \/ h = g
  <2>1. /\ listEnd \in listBegin .. listEnd' - 1
        /\ \A i : i \in listBegin .. listEnd' - 1 <=>
                    i \in listBegin .. listEnd - 1 \/ i = listEnd
        /\ listBegin .. listEnd' - 1 \subseteq 0 .. listEnd' - 1
        /\ listEnd \notin listBegin .. listEnd - 1
    BY <1>3, <1>4
  <2>2. \A h \in Groups : Waiting(h)' <=>
          \E i \in listBegin .. listEnd' - 1 : waitlist'[i] = h
    BY <1>1 DEF Waiting
  <2> QED
    BY <1>5, <2>1, <2>2 DEF Waiting
<1>8. \A h \in Groups : InLine(h)' <=> InLine(h)
  BY <1>6, <1>7 DEF InLine
<1>9. seatingQueue = Append(waitingRoom, g) /\ seatingQueue' = waitingRoom'
  BY <1>1, <1>2, <1>3, <1>6, ConstantTypes DEF seatingQueue
<1>10. waitingRoom' = Append(waitingRoom, g)
  <2> DEFINE r == waitingRoom
             s == waitingRoom'
             a == Append(waitingRoom, g)
  <2>1. /\ r \in Seq(Groups) /\ Len(r) = groupsWaiting
        /\ \A i \in 1 .. groupsWaiting : r[i] = waitlist[listBegin + i - 1]
        /\ s \in Seq(Groups) /\ Len(s) = groupsWaiting + 1
        /\ \A i \in 1 .. groupsWaiting + 1 : s[i] = waitlist'[listBegin + i - 1]
    BY <1>1 DEF SeatingView
  <2>2. /\ a \in Seq(Groups) /\ Len(a) = groupsWaiting + 1
        /\ a[groupsWaiting + 1] = g /\ \A i \in 1 .. groupsWaiting : a[i] = r[i]
    BY <1>4, <2>1
  <2> HIDE DEF r, s, a
  <2>3. s[groupsWaiting + 1] = g
    <3>1. /\ groupsWaiting + 1 \in 1 .. groupsWaiting + 1
          /\ listBegin + (groupsWaiting + 1) - 1 = listEnd
          /\ listEnd \in 0 .. listEnd' - 1
      BY <1>3, <1>4
    <3> QED
      BY <1>5, <2>1, <3>1
  <2>4. ASSUME NEW i \in 1 .. groupsWaiting PROVE s[i] = r[i]
    <3>1. /\ i \in 1 .. groupsWaiting + 1
          /\ listBegin + i - 1 \in 0 .. listEnd' - 1
          /\ listBegin + i - 1 # listEnd
      BY <1>3, <1>4
    <3> QED
      BY <1>5, <2>1, <3>1
  <2>5. \A i \in 1 .. Len(s) : s[i] = a[i]
    <3>1. \A i \in 1 .. groupsWaiting + 1 :
            i \in 1 .. groupsWaiting \/ i = groupsWaiting + 1
      BY <1>4
    <3> QED
      BY <2>1, <2>2, <2>3, <2>4, <3>1
  <2>6. s = a
    BY <2>1, <2>2, <2>5, SameSequence
  <2> QED
    BY <2>6 DEF s, a
<1> QED
  BY <1>1, <1>8, <1>9, <1>10, StageMoves DEF SeatingUnmoved

\* A payer loses its table, and is not in the line.
LEMMA FreeingPays ==
  ASSUME TypeOK, ReceptionInv, SeatingView, SeatingView', FreeTable,
         UNCHANGED groupAt
  PROVE  \E g \in Groups : S!Pay(g)
<1>1. PICK g \in Groups : /\ g = guest /\ groupAt[g] \in Leaving /\ HasTable(g)
  BY FreesLeft
<1>2. /\ receptionistAt = "freeTable" /\ receptionistAt' = "nextGroup"
      /\ assignedTable' = [assignedTable EXCEPT ![g] = NoTable]
      /\ UNCHANGED <<guest, waitlist, listBegin, listEnd, groupsWaiting>>
      /\ assignedTable \in [Groups -> Tables \cup {NoTable}]
  BY <1>1 DEF FreeTable, HasTable, TypeOK, SharedTypeOK, TableTypeOK
<1>3. /\ ~BeingSeated /\ ~BeingSeated'
      /\ \A h : ~Deciding(h) /\ ~Deciding(h)'
      /\ \A h : Waiting(h)' <=> Waiting(h)
  BY <1>2 DEF BeingSeated, Deciding, Waiting
<1>4. ~Waiting(g)
  BY <1>1 DEF Waiting, ReceptionInv, ListFits, Awaits
<1>5. seatingQueue' = seatingQueue
  BY <1>2, <1>3 DEF seatingQueue, waitingRoom
<1>6. stageOf(g) = "seated" /\ stageOf(g)' = "gone"
  BY <1>1, <1>2, <1>3, <1>4 DEF stageOf, HasTable, InLine
<1>7. \A h \in Groups \ {g} : /\ assignedTable'[h] = assignedTable[h]
                              /\ InLine(h)' <=> InLine(h)
  BY <1>2, <1>3 DEF InLine
<1>8. /\ seatingStage[g] = "seated"
      /\ seatingStage' = [seatingStage EXCEPT ![g] = "gone"]
  BY <1>6, <1>7, StageMoves
<1> QED
  BY <1>2, <1>5, <1>8 DEF S!Pay

\* The group that is called stays at the head of the line.
LEMMA CallingLeavesSeating ==
  ASSUME TypeOK, ReceptionInv, SeatingView, SeatingView', CallNextGroup,
         UNCHANGED groupAt
  PROVE  SeatingUnmoved
<1>1. /\ receptionistAt = "nextGroup" /\ receptionistAt' = "provideTable"
      /\ groupsWaiting > 0 /\ groupsWaiting' = groupsWaiting - 1
      /\ guest' = waitlist[listBegin]
      /\ listBegin' = (listBegin + 1) % WAITLIST_LENGTH
      /\ UNCHANGED <<nOccupied, listEnd, waitlist, assignedTable>>
  BY DEF CallNextGroup, receptionistGoesTo
<1>2. /\ listBegin \in Nat /\ listEnd \in 0 .. WAITLIST_LENGTH - 1
      /\ groupsWaiting \in Nat /\ listBegin + groupsWaiting = listEnd
      /\ nOccupied < NUMTABLES
      /\ \A i \in 0 .. listEnd - 1 : waitlist[i] \in Groups
  BY <1>1 DEF TypeOK, SharedTypeOK, TableTypeOK, ReceptionistTypeOK, ReceptionInv,
     ListFits, TablesInUse
<1>3. /\ listBegin' = listBegin + 1
      /\ listBegin \in 0 .. listEnd - 1 /\ waitlist[listBegin] \in Groups
  <2>1. listBegin + 1 < WAITLIST_LENGTH /\ listBegin \in 0 .. listEnd - 1
    BY <1>1, <1>2, ConstantTypes
  <2> QED
    BY <1>1, <1>2, <2>1, NoWrap
<1>4. PICK g \in Groups : g = waitlist[listBegin]
  BY <1>3
<1>5. /\ ~BeingSeated /\ BeingSeated' /\ \A h : ~Deciding(h)
      /\ \A h : Deciding(h)' <=> h = g
  BY <1>1, <1>4 DEF BeingSeated, Deciding
<1>6. \A h \in Groups : InLine(h)' <=> InLine(h)
  <2>1. \A i : i \in listBegin .. listEnd - 1 <=>
                 i \in listBegin' .. listEnd - 1 \/ i = listBegin
    BY <1>2, <1>3
  <2>2. \A h : Waiting(h)' <=> \E i \in listBegin' .. listEnd - 1 : waitlist[i] = h
    BY <1>1 DEF Waiting
  <2> QED
    BY <1>4, <1>5, <2>1, <2>2 DEF InLine, Waiting
<1>7. seatingQueue = waitingRoom /\ seatingQueue' = <<g>> \o waitingRoom'
  BY <1>1, <1>2, <1>4, <1>5 DEF seatingQueue
<1>8. waitingRoom = <<g>> \o waitingRoom'
  <2> DEFINE r == waitingRoom
             s == waitingRoom'
             c == <<g>> \o waitingRoom'
  <2>1. /\ r \in Seq(Groups) /\ Len(r) = groupsWaiting
        /\ \A i \in 1 .. groupsWaiting : r[i] = waitlist[listBegin + i - 1]
        /\ s \in Seq(Groups) /\ Len(s) = groupsWaiting - 1
        /\ \A i \in 1 .. groupsWaiting - 1 : s[i] = waitlist[listBegin + i]
    <3>1. listBegin' + 0 = listBegin + 1
      BY <1>2, <1>3
    <3>2. \A i \in 1 .. groupsWaiting - 1 : (listBegin + 1) + i - 1 = listBegin + i
      BY <1>2
    <3> QED
      BY <1>1, <1>3, <3>2 DEF SeatingView
  <2>2. /\ <<g>> \in Seq(Groups) /\ Len(<<g>>) = 1 /\ <<g>>[1] = g
    OBVIOUS
  <2>3. /\ c \in Seq(Groups) /\ Len(c) = 1 + Len(s)
        /\ \A i \in 1 .. 1 + Len(s) : c[i] = IF i <= 1 THEN <<g>>[i] ELSE s[i - 1]
    BY <2>1, <2>2, ConcatProperties
  <2> HIDE DEF r, s, c
  <2>4. Len(c) = groupsWaiting /\ Len(r) = groupsWaiting
    BY <1>2, <2>1, <2>3
  <2>5. r[1] = g /\ c[1] = g
    <3>1. 1 \in 1 .. groupsWaiting /\ 1 \in 1 .. 1 + Len(s) /\ listBegin + 1 - 1 = listBegin
      BY <1>1, <1>2, <2>1
    <3> QED
      BY <1>4, <2>1, <2>2, <2>3, <3>1
  <2>6. ASSUME NEW i \in 1 .. groupsWaiting, i # 1 PROVE r[i] = c[i]
    <3>1. /\ i - 1 \in 1 .. groupsWaiting - 1 /\ i \in 1 .. 1 + Len(s) /\ ~(i <= 1)
          /\ listBegin + (i - 1) = listBegin + i - 1
      BY <1>2, <2>1, <2>6
    <3>2. c[i] = s[i - 1] /\ s[i - 1] = waitlist[listBegin + (i - 1)]
      BY <2>1, <2>3, <3>1
    <3> QED
      BY <2>1, <3>1, <3>2
  <2>7. r = c
    BY <2>1, <2>3, <2>4, <2>5, <2>6, SameSequence
  <2> QED
    BY <2>7 DEF r, c
<1> QED
  BY <1>1, <1>6, <1>7, <1>8, StageMoves DEF SeatingUnmoved

LEMMA ReceptionistSeats ==
  ASSUME TypeOK, ReceptionInv, SeatingView, SeatingView', ReceptionistStep
  PROVE  \/ SeatingUnmoved \/ S!SeatNext
         \/ \E g \in Groups : S!AskForTable(g) \/ S!Pay(g)
<1>1. UNCHANGED groupAt
  BY DEF ReceptionistStep, groupVars
<1>2. ASSUME UNCHANGED <<guest, nOccupied, groupsWaiting, waitlist, listBegin,
                         listEnd, assignedTable>>,
             BeingSeated' <=> BeingSeated
      PROVE  SeatingUnmoved
  <2>1. seatingQueue' = seatingQueue /\ \A g : InLine(g)' <=> InLine(g)
    BY <1>2, LineSame
  <2>2. seatingStage' = seatingStage
    BY <1>1, <1>2, <2>1, StageMoves
  <2> QED
    BY <1>2, <2>1, <2>2 DEF SeatingUnmoved
<1>3. CASE SavesState /\ UNCHANGED receptionView
  BY <1>2, <1>3 DEF receptionView, recordVars, SavesState, BeingSeated
<1>4. CASE TakeGroupRequest
  BY <1>2, <1>4 DEF TakeGroupRequest, receptionistGoesTo, recordVars, tableVars,
     BeingSeated
<1>5. CASE NobodyWaits
  <2>1. /\ UNCHANGED <<nOccupied, groupsWaiting, waitlist, listBegin, listEnd,
                       assignedTable>>
        /\ ~BeingSeated /\ ~BeingSeated'
    BY <1>5, BackInLoop DEF NobodyWaits, recordVars, tableVars, BeingSeated
  <2>2. /\ seatingQueue' = seatingQueue
        /\ \A g : InLine(g)' <=> InLine(g)
    BY <2>1 DEF seatingQueue, waitingRoom, InLine, Waiting, Deciding, BeingSeated
  <2> QED
    BY <1>1, <2>1, <2>2, StageMoves DEF SeatingUnmoved
<1> QED
  BY <1>1, <1>3, <1>4, <1>5, ReceptionistSteps, ReadingAsks, SeatingSeats,
     ListingLeavesSeating, FreeingPays, CallingLeavesSeating

LEMMA SeatingStarts == Init => S!SeatingInit
<1> SUFFICES ASSUME Init PROVE S!SeatingInit
  OBVIOUS
<1>1. /\ groupsWaiting = 0 /\ receptionistAt \in {"waitForGroup", "exit"}
      /\ assignedTable = [g \in Groups |-> NoTable]
      /\ \A g \in Groups : groupAt[g] = "goToRestaurant"
  BY DEF Init, SharedInit, RegionInit, ReceptionistInit, receptionistLoop,
     GroupInit
<1>2. seatingQueue = <<>>
  <2>1. waitingRoom = <<>>
    BY <1>1 DEF waitingRoom
  <2> QED
    BY <1>1, <2>1 DEF seatingQueue, BeingSeated
<1>3. Range(seatingQueue) = {}
  BY <1>2 DEF Range
<1>4. seatingStage = [g \in Groups |-> "away"]
  BY <1>1, <1>3 DEF seatingStage
<1> QED
  BY <1>1, <1>2, <1>4 DEF S!SeatingInit

\* The receptionist, with its private record, its handlers and its ring of
\* waiting groups, implements a queue of groups that are seated one at a time,
\* the first first, each at a table where nobody sits, until they pay.
THEOREM ReceptionServes == Spec => ImplementsSeating
<1>1. TypeInv /\ ReceptionInv /\ SeatingView /\ SeatingView' /\ [Next]_vars
        => [S!SeatingNext]_(S!seatingVars)
  <2> SUFFICES ASSUME TypeOK, ReceptionInv, SeatingView, SeatingView', [Next]_vars
               PROVE  S!SeatingNext \/ SeatingUnmoved
    BY DEF TypeInv, S!seatingVars, SeatingUnmoved
  <2>1. CASE ReceptionistStep
    BY <2>1, ReceptionistSeats DEF S!SeatingNext
  <2>2. CASE ~ReceptionistStep
    BY <2>2, OthersLeaveSeating DEF Next, Terminated
  <2> QED
    BY <2>1, <2>2
<1> QED
  BY <1>1, SeatingStarts, SeatingViewHolds, TypeInvariant, ReceptionInvariant,
     PTL DEF Spec, ImplementsSeating, S!SeatingSpec

-----------------------------------------------------------------------------
(* Orders in four parts                                                     *)

LEMMA RangeOfConcat ==
  ASSUME NEW D, NEW s \in Seq(D), NEW t \in Seq(D)
  PROVE  s \o t \in Seq(D) /\ Range(s \o t) = Range(s) \cup Range(t)
<1> DEFINE c == s \o t
           m == Len(s)
           n == Len(t)
<1>1. /\ m \in Nat /\ n \in Nat
      /\ DOMAIN s = 1 .. m /\ DOMAIN t = 1 .. n
      /\ c \in Seq(D) /\ DOMAIN c = 1 .. m + n
      /\ \A i \in 1 .. m + n : c[i] = IF i <= m THEN s[i] ELSE t[i - m]
  BY ConcatProperties
<1>2. /\ Range(s) = {s[i] : i \in 1 .. m} /\ Range(t) = {t[i] : i \in 1 .. n}
      /\ Range(c) = {c[i] : i \in 1 .. m + n}
  BY <1>1 DEF Range
<1> HIDE DEF c, m, n
<1>3. ASSUME NEW i \in 1 .. m + n PROVE c[i] \in Range(s) \cup Range(t)
  <2>1. CASE i <= m
    <3>1. i \in 1 .. m
      BY <1>1, <2>1
    <3> QED
      BY <1>1, <1>2, <2>1, <3>1
  <2>2. CASE ~(i <= m)
    <3>1. i - m \in 1 .. n
      BY <1>1, <2>2
    <3> QED
      BY <1>1, <1>2, <2>2, <3>1
  <2> QED
    BY <2>1, <2>2
<1>4. ASSUME NEW i \in 1 .. m PROVE s[i] \in Range(c)
  <2>1. i \in 1 .. m + n /\ i <= m
    BY <1>1
  <2> QED
    BY <1>1, <1>2, <2>1
<1>5. ASSUME NEW i \in 1 .. n PROVE t[i] \in Range(c)
  <2>1. i + m \in 1 .. m + n /\ ~(i + m <= m) /\ (i + m) - m = i
    BY <1>1
  <2>2. c[i + m] = t[i]
    BY <1>1, <2>1
  <2> QED
    BY <1>2, <2>1, <2>2
<1>6. Range(c) = Range(s) \cup Range(t)
  BY <1>2, <1>3, <1>4, <1>5
<1> QED
  BY <1>1, <1>6 DEF c

LEMMA AppendedAtEnd ==
  ASSUME NEW D, NEW s \in Seq(D), NEW e \in D
  PROVE  Append(s, e) = s \o <<e>>
<1> DEFINE a == Append(s, e)
           b == s \o <<e>>
<1>1. <<e>> \in Seq(D)
  OBVIOUS
<1>2. /\ Len(s) \in Nat /\ a \in Seq(D) /\ Len(a) = Len(s) + 1
      /\ a[Len(s) + 1] = e /\ \A i \in 1 .. Len(s) : a[i] = s[i]
  OBVIOUS
<1>3. /\ b \in Seq(D) /\ Len(b) = Len(s) + 1
      /\ \A i \in 1 .. Len(s) + 1 :
           b[i] = IF i <= Len(s) THEN s[i] ELSE <<e>>[i - Len(s)]
  BY <1>1, ConcatProperties
<1>4. b[Len(s) + 1] = e
  <2>1. Len(s) + 1 \in 1 .. Len(s) + 1 /\ ~(Len(s) + 1 <= Len(s))
        /\ (Len(s) + 1) - Len(s) = 1
    BY <1>2
  <2> QED
    BY <1>3, <2>1
<1> HIDE DEF a, b
<1>5. ASSUME NEW i \in 1 .. Len(s) + 1 PROVE a[i] = b[i]
  <2>1. i = Len(s) + 1 \/ (i \in 1 .. Len(s) /\ i <= Len(s))
    BY <1>2
  <2> QED
    BY <1>2, <1>3, <1>4, <2>1
<1>6. a = b
  BY <1>2, <1>3, <1>5, SameSequence
<1> QED
  BY <1>6 DEF a, b

LEMMA AppendToSecond ==
  ASSUME NEW D, NEW s \in Seq(D), NEW t \in Seq(D), NEW e \in D
  PROVE  s \o Append(t, e) = s \o t \o <<e>>
<1>1. <<e>> \in Seq(D)
  OBVIOUS
<1>2. (s \o t) \o <<e>> = s \o (t \o <<e>>)
  BY <1>1, ConcatAssociative
<1> QED
  BY <1>2, AppendedAtEnd

LEMMA FirstOfThree ==
  ASSUME NEW D, NEW s \in Seq(D), NEW t \in Seq(D), NEW e \in D
  PROVE  (<<e>> \o s) \o t = <<e>> \o (s \o t)
<1>1. <<e>> \in Seq(D)
  OBVIOUS
<1> QED
  BY <1>1, ConcatAssociative

inParts(h, r, c, s) == h \o r \o c \o s

LEMMA RangeOfFour ==
  ASSUME NEW D, NEW h \in Seq(D), NEW r \in Seq(D), NEW c \in Seq(D),
         NEW s \in Seq(D)
  PROVE  /\ inParts(h, r, c, s) \in Seq(D)
         /\ Range(inParts(h, r, c, s)) = Range(h) \cup Range(r) \cup Range(c) \cup Range(s)
<1>1. \A x, y \in Seq(D) : /\ x \o y \in Seq(D)
                           /\ Range(x \o y) = Range(x) \cup Range(y)
  BY RangeOfConcat
<1>2. /\ h \o r \in Seq(D) /\ h \o r \o c \in Seq(D)
      /\ h \o r \o c \o s \in Seq(D)
  BY <1>1
<1>3. /\ Range(h \o r) = Range(h) \cup Range(r)
      /\ Range(h \o r \o c) = Range(h \o r) \cup Range(c)
      /\ Range(h \o r \o c \o s) = Range(h \o r \o c) \cup Range(s)
  BY <1>1, <1>2
<1>4. Range(h \o r \o c \o s) = Range(h) \cup Range(r) \cup Range(c) \cup Range(s)
  BY <1>3, Zenon
<1> QED
  BY <1>2, <1>4, Zenon DEF inParts

\* An element comes in at the end, moves from one part to the next, or goes out
\* at the front.
LEMMA ComesInAtEnd ==
  ASSUME NEW D, NEW h \in Seq(D), NEW r \in Seq(D), NEW c \in Seq(D), NEW e \in D
  PROVE  inParts(h, r, c, <<e>>) = Append(inParts(h, r, c, <<>>), e)
<1>1. \A x, y \in Seq(D) : x \o y \in Seq(D)
  BY RangeOfConcat
<1>2. h \o r \in Seq(D) /\ h \o r \o c \in Seq(D)
  BY <1>1
<1>3. h \o r \o c \o <<>> = h \o r \o c
  BY <1>2, ConcatEmptySeq
<1>4. Append(h \o r \o c, e) = h \o r \o c \o <<e>>
  BY <1>2, AppendedAtEnd
<1> QED
  BY <1>3, <1>4, Zenon DEF inParts

LEMMA MovesToThird ==
  ASSUME NEW D, NEW h \in Seq(D), NEW r \in Seq(D), NEW s \in Seq(D)
  PROVE  inParts(h, r, <<>>, s) = inParts(h, r, s, <<>>)
<1>1. \A x, y \in Seq(D) : x \o y \in Seq(D)
  BY RangeOfConcat
<1>2. h \o r \in Seq(D) /\ h \o r \o s \in Seq(D)
  BY <1>1
<1>3. h \o r \o <<>> = h \o r /\ h \o r \o s \o <<>> = h \o r \o s
  BY <1>2, ConcatEmptySeq
<1> QED
  BY <1>3, Zenon DEF inParts

LEMMA MovesToSecond ==
  ASSUME NEW D, NEW h \in Seq(D), NEW r \in Seq(D), NEW s \in Seq(D), NEW e \in D
  PROVE  inParts(h, Append(r, e), <<>>, s) = inParts(h, r, <<e>>, s)
<1>1. \A x, y \in Seq(D) : x \o y \in Seq(D)
  BY RangeOfConcat
<1>2. h \o r \o <<e>> \in Seq(D)
  <2>1. <<e>> \in Seq(D)
    OBVIOUS
  <2> QED
    BY <1>1, <2>1
<1>3. h \o Append(r, e) = h \o r \o <<e>>
  BY AppendToSecond
<1>4. h \o r \o <<e>> \o <<>> = h \o r \o <<e>>
  BY <1>2, ConcatEmptySeq
<1> QED
  BY <1>3, <1>4, Zenon DEF inParts

LEMMA MovesToFirst ==
  ASSUME NEW D, NEW r \in Seq(D), NEW c \in Seq(D), NEW s \in Seq(D), NEW e \in D
  PROVE  inParts(<<>>, <<e>> \o r, c, s) = inParts(<<e>>, r, c, s)
<1>1. <<e>> \o r \in Seq(D)
  BY RangeOfAppend
<1>2. <<>> \o (<<e>> \o r) = <<e>> \o r
  BY <1>1, ConcatEmptySeq
<1> QED
  BY <1>2, Zenon DEF inParts

inFront(e, x, y) == /\ x # <<>> /\ Head(x) = e /\ Tail(x) = y
                    /\ Range(x) = Range(y) \cup {e}

LEMMA GoesOutAtFront ==
  ASSUME NEW D, NEW r \in Seq(D), NEW c \in Seq(D), NEW s \in Seq(D), NEW e \in D
  PROVE  inFront(e, inParts(<<e>>, r, c, s), inParts(<<>>, r, c, s))
<1>1. \A x, y \in Seq(D) : x \o y \in Seq(D)
  BY RangeOfConcat
<1>2. r \o c \in Seq(D) /\ r \o c \o s \in Seq(D)
  BY <1>1
<1>3. <<>> \o r = r
  BY ConcatEmptySeq
<1>4. <<e>> \o r \o c = <<e>> \o (r \o c)
  BY FirstOfThree
<1>5. <<e>> \o (r \o c) \o s = <<e>> \o (r \o c \o s)
  BY <1>2, FirstOfThree
<1>6. /\ <<e>> \o (r \o c \o s) # <<>>
      /\ Head(<<e>> \o (r \o c \o s)) = e
      /\ Tail(<<e>> \o (r \o c \o s)) = r \o c \o s
      /\ Range(<<e>> \o (r \o c \o s)) = Range(r \o c \o s) \cup {e}
  <2> DEFINE x == r \o c \o s
  <2>1. x \in Seq(D)
    BY <1>2
  <2> HIDE DEF x
  <2>2. /\ <<e>> \o x # <<>> /\ Head(<<e>> \o x) = e /\ Tail(<<e>> \o x) = x
        /\ Range(<<e>> \o x) = Range(x) \cup {e}
    BY <2>1, RangeOfAppend
  <2> QED
    BY <2>2 DEF x
<1> QED
  BY <1>3, <1>4, <1>5, <1>6, Zenon DEF inParts, inFront

-----------------------------------------------------------------------------
(* The orders on their way                                                  *)

\* The four parts of filedOrders.
handOrder  == IF waiterAt \in {"informChef", "informingChef"}
              THEN orderOf(outgoing) ELSE <<>>
ringOrders == [i \in 1 .. qlength |->
                 queue[(qreadNext + i - 1) % NUMTABLES].reqGroup]
inOrder    == orderOf(incoming)
slotOrder  == IF waiterSlotHolds(waiterRequest) THEN orderOf(waiterRequest)
              ELSE <<>>

\* The order that the chef has to cook is still on its way to the chef, or with
\* it.
Uncooked == \/ waiterAt = "postOrder" \/ sem["waitOrder"] > 0
            \/ chefAt \in HasOrder \ {"foodReady"}

mealStage(g) ==
  IF BeforeOrdering(g) THEN "none"
  ELSE IF g \in Range(filedOrders) THEN "ordered"
  ELSE IF BeingServed(g) THEN (IF Uncooked THEN "cooking" ELSE "cooked")
  ELSE "served"

\* Kitchen's variables, in terms of what the waiter and the chef have in their
\* hands.
KitchenView ==
  /\ handOrder \in Seq(Groups) /\ ringOrders \in Seq(Groups)
  /\ inOrder \in Seq(Groups) /\ slotOrder \in Seq(Groups)
  /\ filedOrders = inParts(handOrder, ringOrders, inOrder, slotOrder)
  /\ Len(ringOrders) = qlength
  /\ \A i \in 1 .. qlength : FoodRequest(ringOrders[i]) = ringEntry(i - 1)
  /\ \A g \in Groups : Filed(g) => slotOrder = <<g>>
  /\ (\A g \in Groups : ~Filed(g)) => slotOrder = <<>>
  /\ \A g \in Groups :
       g \in Range(filedOrders) => ~BeforeOrdering(g) /\ ~BeingServed(g)
  /\ \A g \in Groups : BeingServed(g) => ~BeforeOrdering(g)
  /\ mealOf = [g \in Groups |-> mealStage(g)]

LEMMA OrderOfRequests ==
  ASSUME NEW g \in Groups
  PROVE  /\ orderOf(FoodRequest(g)) = <<g>> /\ orderOf(Meal(g)) = <<>>
         /\ orderOf(NoRequest) = <<>>
         /\ <<g>> \in Seq(Groups) /\ <<>> \in Seq(Groups)
         /\ Range(<<g>>) = {g} /\ Range(<<>>) = {}
<1>1. Range(<<g>>) = {g} /\ Range(<<>>) = {}
  BY DEF Range
<1> QED
  BY <1>1, OrdersDiffer DEF orderOf, NoRequest

\* What the waiter has in its hands is an order, or none.
LEMMA HandAndInHold ==
  ASSUME TypeOK, HandoverInv
  PROVE  /\ handOrder \in Seq(Groups) /\ inOrder \in Seq(Groups)
         /\ \A g \in Groups : /\ g \in Range(handOrder) \/ g \in Range(inOrder)
                                   => unsent(g) > 0
                              /\ incoming = FoodRequest(g) => inOrder = <<g>>
         /\ waiterAt # "readRequest" => inOrder = <<>>
<1>1. waiterAt \in {"informChef", "informingChef"} =>
        \E g \in Groups : outgoing = FoodRequest(g)
  BY DEF HandoverInv, HandsFit, Informing
<1>2. \/ waiterAt = "readRequest" /\ \E g \in Groups : incoming = FoodRequest(g)
      \/ incoming = Meal(foodGroup) \/ incoming = NoRequest
  BY DEF HandoverInv, HandsFit
<1>3. orderOf(Meal(foodGroup)) = <<>> /\ orderOf(NoRequest) = <<>>
  BY OrdersDiffer DEF orderOf, NoRequest
<1>4. <<>> \in Seq(Groups) /\ Range(<<>>) = {}
  BY DEF Range
<1>5. /\ handOrder \in Seq(Groups)
      /\ \A g \in Groups : g \in Range(handOrder) =>
           waiterAt \in {"informChef", "informingChef"} /\ outgoing = FoodRequest(g)
  <2>1. CASE waiterAt \in {"informChef", "informingChef"}
    <3>1. PICK g \in Groups : outgoing = FoodRequest(g)
      BY <1>1, <2>1
    <3>2. handOrder = <<g>>
      BY <2>1, <3>1, OrderOfRequests DEF handOrder
    <3> QED
      BY <2>1, <3>1, <3>2, OrderOfRequests
  <2>2. CASE waiterAt \notin {"informChef", "informingChef"}
    BY <1>4, <2>2 DEF handOrder
  <2> QED
    BY <2>1, <2>2
<1>6. /\ inOrder \in Seq(Groups)
      /\ \A g \in Groups : g \in Range(inOrder) => incoming = FoodRequest(g)
  <2>1. CASE \E g \in Groups : incoming = FoodRequest(g)
    <3>1. PICK g \in Groups : incoming = FoodRequest(g)
      BY <2>1
    <3>2. inOrder = <<g>>
      BY <3>1, OrderOfRequests DEF inOrder
    <3> QED
      BY <3>1, <3>2, OrderOfRequests
  <2>2. CASE incoming = Meal(foodGroup) \/ incoming = NoRequest
    BY <1>3, <1>4, <2>2 DEF inOrder
  <2> QED
    BY <1>2, <2>1, <2>2
<1>7. ASSUME NEW g \in Groups,
             \/ waiterAt \in {"informChef", "informingChef"}
                /\ outgoing = FoodRequest(g)
             \/ incoming = FoodRequest(g)
      PROVE  unsent(g) > 0
  BY <1>7 DEF unsent, Bit
<1>8. waiterAt # "readRequest" => inOrder = <<>>
  BY <1>3 DEF inOrder, HandoverInv, HandsFit
<1>9. \A g \in Groups : incoming = FoodRequest(g) => inOrder = <<g>>
  BY OrderOfRequests DEF inOrder
<1> QED
  BY <1>5, <1>6, <1>7, <1>8, <1>9

\* Each entry of the ring is an order.
LEMMA RingHoldsOrders ==
  ASSUME TypeOK, HandoverInv
  PROVE  /\ ringOrders \in Seq(Groups) /\ Len(ringOrders) = qlength
         /\ \A i \in 1 .. qlength : FoodRequest(ringOrders[i]) = ringEntry(i - 1)
         /\ \A g \in Groups : g \in Range(ringOrders) => unsent(g) > 0
<1>1. qlength \in Nat /\ qreadNext \in Nat
  BY ConstantTypes DEF TypeOK, WaiterTypeOK, Tables
<1>2. ASSUME NEW i \in 1 .. qlength
      PROVE  \E g \in Groups : /\ queue[(qreadNext + i - 1) % NUMTABLES].reqGroup = g
                               /\ ringEntry(i - 1) = FoodRequest(g)
  <2>1. i - 1 \in 0 .. qlength - 1 /\ qreadNext + (i - 1) = qreadNext + i - 1
    BY <1>1
  <2>2. PICK g \in Groups : ringEntry(i - 1) = FoodRequest(g)
    BY <2>1 DEF HandoverInv, RingFits
  <2> QED
    BY <2>1, <2>2, OrdersDiffer DEF ringEntry
<1>3. /\ ringOrders \in Seq(Groups) /\ Len(ringOrders) = qlength
      /\ DOMAIN ringOrders = 1 .. qlength
      /\ \A i \in 1 .. qlength : FoodRequest(ringOrders[i]) = ringEntry(i - 1)
  <2> DEFINE entry(i) == queue[(qreadNext + i - 1) % NUMTABLES].reqGroup
  <2>1. \A i \in 1 .. qlength :
          entry(i) \in Groups /\ FoodRequest(entry(i)) = ringEntry(i - 1)
    BY <1>2
  <2>2. ringOrders = [i \in 1 .. qlength |-> entry(i)]
    BY DEF ringOrders
  <2> HIDE DEF entry
  <2>3. /\ ringOrders \in Seq(Groups) /\ Len(ringOrders) = qlength
        /\ DOMAIN ringOrders = 1 .. qlength
        /\ \A i \in 1 .. qlength : ringOrders[i] = entry(i)
    BY <1>1, <2>1, <2>2
  <2> QED
    BY <2>1, <2>3
<1>4. ASSUME NEW g \in Groups, g \in Range(ringOrders) PROVE unsent(g) > 0
  <2>1. PICK i \in 1 .. qlength : ringOrders[i] = g
    BY <1>3, <1>4 DEF Range
  <2>2. i - 1 \in 0 .. qlength - 1 /\ ringEntry(i - 1) = FoodRequest(g)
    BY <1>1, <1>3, <2>1
  <2>3. Queued(g)
    BY <2>2 DEF Queued
  <2> QED
    BY <2>3 DEF unsent, Bit
<1> QED
  BY <1>3, <1>4

\* The slot holds an order from when a group has filed it.
LEMMA SlotHoldsOrder ==
  ASSUME TypeOK, RequestSlotsExclusive, HandoverInv
  PROVE  /\ slotOrder \in Seq(Groups)
         /\ \A g \in Groups : Filed(g) => slotOrder = <<g>>
         /\ (\A g \in Groups : ~Filed(g)) => slotOrder = <<>>
         /\ \A g \in Groups : g \in Range(slotOrder) => unsent(g) > 0
<1>1. \A g \in Groups : waiterSlotHolds(FoodRequest(g)) <=> Filed(g)
  BY WaiterSlotHolds
<1>2. ASSUME NEW g \in Groups, Filed(g) PROVE slotOrder = <<g>>
  <2>1. waiterRequest = FoodRequest(g) /\ waiterSlotHolds(waiterRequest)
    BY <1>1, <1>2 DEF waiterSlotHolds
  <2> QED
    BY <2>1, OrderOfRequests DEF slotOrder
<1>3. (\A g \in Groups : ~Filed(g)) => slotOrder = <<>>
  <2> SUFFICES ASSUME \A g \in Groups : ~Filed(g),
                      waiterSlotHolds(waiterRequest)
               PROVE  orderOf(waiterRequest) = <<>>
    BY DEF slotOrder
  <2>1. \A g \in Groups : waiterRequest # FoodRequest(g)
    BY <1>1
  <2>2. waiterRequest = Meal(foodGroup)
    <3>1. CASE sem["waiterRequest"] > 0 \/ chefAt = "postFoodReady"
      BY <2>1, <3>1 DEF HandoverInv, SlotFits
    <3>2. CASE PostingToWaiter # {}
      BY <2>1, <3>2 DEF PostingToWaiter, at, HandoverInv, SlotFits
    <3> QED
      BY <3>1, <3>2 DEF waiterSlotHolds
  <2> QED
    BY <2>2, OrdersDiffer DEF orderOf
<1>4. <<>> \in Seq(Groups) /\ Range(<<>>) = {}
  BY DEF Range
<1>5. CASE \A g \in Groups : ~Filed(g)
  BY <1>3, <1>4, <1>5
<1>6. CASE \E g \in Groups : Filed(g)
  <2>1. PICK g \in Groups : Filed(g)
    BY <1>6
  <2>2. unsent(g) > 0
    BY <2>1 DEF unsent, Bit
  <2>3. slotOrder \in Seq(Groups) /\ Range(slotOrder) = {g}
    BY <1>2, <2>1, OrderOfRequests
  <2> QED
    BY <1>2, <1>3, <2>2, <2>3
<1> QED
  BY <1>5, <1>6

LEMMA KitchenViewHolds == Spec => []KitchenView
<1>1. TypeInv /\ RequestSlotsExclusive /\ HandoverInv /\ OrdersInv
        => KitchenView
  <2> SUFFICES ASSUME TypeOK, RequestSlotsExclusive, HandoverInv, OrdersInv
               PROVE  KitchenView
    BY DEF TypeInv
  <2>1. /\ handOrder \in Seq(Groups) /\ ringOrders \in Seq(Groups)
        /\ inOrder \in Seq(Groups) /\ slotOrder \in Seq(Groups)
    BY HandAndInHold, RingHoldsOrders, SlotHoldsOrder
  <2>2. filedOrders = inParts(handOrder, ringOrders, inOrder, slotOrder)
    BY DEF filedOrders, handOrder, ringOrders, inOrder, slotOrder, inParts
  <2>3. ASSUME NEW g \in Groups, g \in Range(filedOrders)
        PROVE  unsent(g) > 0
    <3>1. g \in Range(handOrder) \cup Range(ringOrders) \cup Range(inOrder)
                  \cup Range(slotOrder)
      BY <2>1, <2>2, <2>3, RangeOfFour
    <3> QED
      BY <3>1, HandAndInHold, RingHoldsOrders, SlotHoldsOrder
  <2>4. ASSUME NEW g \in Groups
        PROVE  /\ unsent(g) > 0 => ~BeforeOrdering(g) /\ ~BeingServed(g)
               /\ BeingServed(g) => ~BeforeOrdering(g)
    BY OrderPlaces DEF OrdersInv, Unfed, Unheard, BeforeOrdering
  <2>5. ASSUME NEW g \in Groups, BeingServed(g)
        PROVE  isCooked(g) <=> ~Uncooked
    <3>1. foodOrder /\ foodGroup = g
      BY <2>5 DEF BeingServed
    <3>2. isCooked(g) <=> \/ MealInSlot \/ incoming = Meal(foodGroup)
                          \/ waiterAt \in Serving \/ chefAt = "foodReady"
      <4>1. waiterSlotHolds(Meal(g)) <=> MealInSlot
        BY <3>1, WaiterSlotHolds
      <4>2. outgoing = Meal(g) <=> waiterAt \in Serving
        BY <3>1, OrdersDiffer DEF HandoverInv, HandsFit
      <4>3. chefAt = "foodReady" => lastGroup = g
        BY <3>1 DEF HandoverInv, HandsFit, HasOrder
      <4> QED
        BY <3>1, <4>1, <4>2, <4>3 DEF isCooked, Meal
    <3>3. "foodReady" \in HasOrder
      BY DEF HasOrder
    <3> QED
      BY <3>1, <3>2, <3>3, OrderOut, KitchenTypes DEF Uncooked
  <2>6. mealOf = [g \in Groups |-> mealStage(g)]
    BY <2>5 DEF mealOf, mealStage, BeingServed
  <2> QED
    BY <2>1, <2>2, <2>3, <2>4, <2>6, RingHoldsOrders, SlotHoldsOrder
       DEF KitchenView
<1> QED
  BY <1>1, TypeInvariant, SlotsExclusive, HandoverInvariant, OrdersInvariant, PTL

-----------------------------------------------------------------------------
(* Every step is a step of Kitchen, or leaves it alone                      *)

KitchenUnmoved == UNCHANGED <<mealOf, filedOrders>>

\* How far the meal of g is, is as before.
MealUnmoved(g) ==
  /\ BeforeOrdering(g)' <=> BeforeOrdering(g)
  /\ g \in Range(filedOrders)' <=> g \in Range(filedOrders)
  /\ BeingServed(g)' <=> BeingServed(g)
  /\ BeingServed(g) => (Uncooked' <=> Uncooked)

LEMMA MealsSame ==
  ASSUME KitchenView, KitchenView', \A g \in Groups : MealUnmoved(g)
  PROVE  mealOf' = mealOf
<1>1. /\ mealOf = [g \in Groups |-> mealStage(g)]
      /\ mealOf' = [g \in Groups |-> mealStage(g)']
  BY DEF KitchenView
<1>2. ASSUME NEW g \in Groups PROVE mealStage(g)' = mealStage(g)
  BY DEF MealUnmoved, mealStage
<1> QED
  BY <1>1, <1>2

LEMMA MealMoves ==
  ASSUME KitchenView, KitchenView', NEW g \in Groups, NEW s,
         mealStage(g)' = s, \A h \in Groups \ {g} : MealUnmoved(h)
  PROVE  mealOf[g] = mealStage(g) /\ mealOf' = [mealOf EXCEPT ![g] = s]
<1>1. /\ mealOf = [h \in Groups |-> mealStage(h)]
      /\ mealOf' = [h \in Groups |-> mealStage(h)']
  BY DEF KitchenView
<1>2. ASSUME NEW h \in Groups \ {g} PROVE mealStage(h)' = mealStage(h)
  BY <1>2 DEF MealUnmoved, mealStage
<1> QED
  BY <1>1, <1>2

\* The same orders in the same parts.
LEMMA SlotSame ==
  ASSUME KitchenView, KitchenView', \A g \in Groups : Filed(g)' <=> Filed(g)
  PROVE  slotOrder' = slotOrder
<1>1. CASE \A g \in Groups : ~Filed(g)
  <2>1. \A g \in Groups : ~Filed(g)'
    BY <1>1
  <2> QED
    BY <1>1, <2>1 DEF KitchenView
<1>2. CASE \E g \in Groups : Filed(g)
  <2>1. PICK g \in Groups : Filed(g)
    BY <1>2
  <2>2. Filed(g)'
    BY <2>1
  <2>3. slotOrder = <<g>> /\ slotOrder' = <<g>>
    BY <2>1, <2>2 DEF KitchenView
  <2> QED
    BY <2>3
<1> QED
  BY <1>1, <1>2

LEMMA PartsSame ==
  ASSUME KitchenView, KitchenView', UNCHANGED <<incoming, outgoing, queue,
                                                qlength, qreadNext>>,
         waiterAt' \in {"informChef", "informingChef"} <=>
           waiterAt \in {"informChef", "informingChef"},
         \A g \in Groups : Filed(g)' <=> Filed(g)
  PROVE  filedOrders' = filedOrders
<1>1. handOrder' = handOrder
  BY DEF handOrder, orderOf
<1>2. ringOrders' = ringOrders /\ inOrder' = inOrder
  BY DEF ringOrders, inOrder, orderOf
<1>3. slotOrder' = slotOrder
  BY SlotSame
<1> QED
  BY <1>1, <1>2, <1>3 DEF KitchenView

\* Nobody orders, and nothing is begun, cooked or served.
LEMMA KitchenStays ==
  ASSUME KitchenView, KitchenView', filedOrders' = filedOrders,
         UNCHANGED <<foodOrder, foodGroup>>,
         \A g \in Groups : BeforeOrdering(g)' <=> BeforeOrdering(g),
         foodOrder => (Uncooked' <=> Uncooked)
  PROVE  KitchenUnmoved
<1>1. \A g \in Groups : MealUnmoved(g)
  BY DEF MealUnmoved, BeingServed
<1>2. mealOf' = mealOf
  BY <1>1, MealsSame
<1> QED
  BY <1>2 DEF KitchenUnmoved

LEMMA BeforeOrderingSame ==
  ASSUME UNCHANGED groupAt
  PROVE  \A g : BeforeOrdering(g)' <=> BeforeOrdering(g)
BY DEF BeforeOrdering

\* A group files its order, behind all others.
LEMMA FilingFiles ==
  ASSUME KitchenView, KitchenView', NEW g \in Groups, FilesOrder(g),
         Filed(g)', \A x \in Groups : ~Filed(x),
         \A h \in Groups \ {g} : groupAt'[h] = groupAt[h],
         UNCHANGED <<waiterVars, chefVars, orderVars>>
  PROVE  K!File(g)
<1>1. /\ UNCHANGED <<waiterAt, incoming, outgoing, queue, qlength, qreadNext,
                     foodOrder, foodGroup>>
      /\ groupAt[g] = "requestFood" /\ groupAt'[g] = "postFoodRequest"
  BY DEF waiterVars, queueVars, orderVars, FilesOrder
<1>2. /\ handOrder' = handOrder /\ ringOrders' = ringOrders /\ inOrder' = inOrder
  BY <1>1 DEF handOrder, orderOf, ringOrders, inOrder
<1>3. slotOrder = <<>> /\ slotOrder' = <<g>>
  BY DEF KitchenView
<1>4. /\ handOrder \in Seq(Groups) /\ ringOrders \in Seq(Groups)
      /\ inOrder \in Seq(Groups)
      /\ filedOrders = inParts(handOrder, ringOrders, inOrder, <<>>)
      /\ filedOrders' = inParts(handOrder, ringOrders, inOrder, <<g>>)
  BY <1>2, <1>3 DEF KitchenView
<1>5. /\ filedOrders' = Append(filedOrders, g)
      /\ Range(filedOrders') = Range(filedOrders) \cup {g}
  <2> DEFINE h == handOrder
             r == ringOrders
             c == inOrder
             n == filedOrders'
  <2>1. /\ h \in Seq(Groups) /\ r \in Seq(Groups) /\ c \in Seq(Groups)
        /\ filedOrders = inParts(h, r, c, <<>>) /\ n = inParts(h, r, c, <<g>>)
    BY <1>4
  <2> HIDE DEF h, r, c, n
  <2>2. inParts(h, r, c, <<g>>) = Append(inParts(h, r, c, <<>>), g)
    BY <2>1, ComesInAtEnd
  <2>3. n = Append(filedOrders, g)
    BY <2>1, <2>2
  <2>4. /\ Range(n) = Range(h) \cup Range(r) \cup Range(c) \cup Range(<<g>>)
        /\ Range(filedOrders) = Range(h) \cup Range(r) \cup Range(c) \cup Range(<<>>)
    <3> DEFINE x == <<g>>
               y == <<>>
    <3>1. x \in Seq(Groups) /\ y \in Seq(Groups)
      OBVIOUS
    <3> HIDE DEF x, y
    <3>2. /\ Range(inParts(h, r, c, x))
               = Range(h) \cup Range(r) \cup Range(c) \cup Range(x)
          /\ Range(inParts(h, r, c, y))
               = Range(h) \cup Range(r) \cup Range(c) \cup Range(y)
      BY <2>1, <3>1, RangeOfFour
    <3> QED
      BY <2>1, <3>2 DEF x, y
  <2>5. Range(n) = Range(filedOrders) \cup {g}
    BY <2>4, OrderOfRequests
  <2> QED
    BY <2>3, <2>5 DEF n
<1>6. mealStage(g) = "none" /\ mealStage(g)' = "ordered"
  BY <1>1, <1>5 DEF mealStage, BeforeOrdering
<1>7. Uncooked' <=> Uncooked
  <2>1. sem'["waitOrder"] = sem["waitOrder"]
    BY KitchenSemsSame DEF FilesOrder
  <2> QED
    BY <1>1, <2>1 DEF Uncooked, chefVars
<1>8. \A h \in Groups \ {g} : MealUnmoved(h)
  BY <1>1, <1>5, <1>7 DEF MealUnmoved, BeforeOrdering, BeingServed
<1>9. mealOf[g] = "none" /\ mealOf' = [mealOf EXCEPT ![g] = "ordered"]
  BY <1>6, <1>8, MealMoves
<1> QED
  BY <1>5, <1>9 DEF K!File

\* Steps of the groups.
LEMMA GroupsFile ==
  ASSUME TypeOK, RequestSlotsExclusive, HandoverInv, KitchenView, KitchenView',
         NEW g \in Groups, GroupStep(g)
  PROVE  KitchenUnmoved \/ K!File(g)
<1>1. /\ InKitchen(g)
      /\ UNCHANGED <<waiterVars, chefVars, orderVars>>
      /\ \A h \in Groups \ {g} : groupAt'[h] = groupAt[h]
  BY GroupInKitchen, GroupMovesAlone DEF GroupStep, GroupNext, TypeOK
<1>2. CASE FilesOrder(g)
  <2>1. Filed(g)' /\ \A x \in Groups : ~Filed(x)
    BY <1>2, GroupFiles
  <2> QED
    BY <1>1, <1>2, <2>1, FilingFiles
<1>3. CASE ~FilesOrder(g)
  <2>1. \A x \in Groups : Filed(x)' <=> Filed(x)
    BY <1>3, GroupFiles
  <2>2. UNCHANGED <<waiterAt, incoming, outgoing, queue, qlength, qreadNext,
                    foodOrder, foodGroup, chefAt>>
    BY <1>1 DEF waiterVars, queueVars, chefVars, orderVars
  <2>3. filedOrders' = filedOrders
    BY <2>1, <2>2, PartsSame
  <2>4. BeforeOrdering(g)' <=> BeforeOrdering(g)
    BY <1>1, <1>3 DEF InKitchen, AnnouncesOrder, HearsOfOrder, GetsMeal,
       OutsideKitchen, BeforeOrdering, Hungry, Expecting, Fed
  <2>5. \A x \in Groups : BeforeOrdering(x)' <=> BeforeOrdering(x)
    BY <1>1, <2>4 DEF BeforeOrdering
  <2>6. sem'["waitOrder"] = sem["waitOrder"]
    <3>1. CASE AnnouncesOrder(g)
      <4>1. kitchenSems'["waitOrder"] = kitchenSems["waitOrder"]
        BY <3>1 DEF AnnouncesOrder, kitchenSems, KitchenNames
      <4> QED
        BY <4>1 DEF kitchenSems, KitchenNames
    <3>2. CASE HearsOfOrder(g) \/ GetsMeal(g) \/ OutsideKitchen(g)
      BY <3>2, KitchenSemsSame DEF HearsOfOrder, GetsMeal, OutsideKitchen
    <3> QED
      BY <1>1, <1>3, <3>1, <3>2 DEF InKitchen
  <2>7. Uncooked' <=> Uncooked
    BY <2>2, <2>6 DEF Uncooked
  <2> QED
    BY <2>2, <2>3, <2>5, <2>7, KitchenStays
<1> QED
  BY <1>2, <1>3

\* Steps of the receptionist, which the kitchen does not see.
LEMMA ReceptionLeavesKitchen ==
  ASSUME TypeOK, KitchenView, KitchenView', ReceptionistStep \/ UNCHANGED vars
  PROVE  KitchenUnmoved
<1>1. UNCHANGED handoverView /\ UNCHANGED groupAt
  BY ReceptionistOutsideKitchen DEF vars, handoverView, kitchenSems, sharedVars,
     requestVars, semVars, groupVars
<1>2. /\ sem'["waiterRequest"] = sem["waiterRequest"]
      /\ sem'["waitOrder"] = sem["waitOrder"]
      /\ UNCHANGED <<waiterAt, incoming, outgoing, queue, qlength, qreadNext,
                     foodOrder, foodGroup, chefAt, waiterRequest, groupAt>>
  BY <1>1, KitchenSemsSame DEF handoverView, waiterVars, queueVars, chefVars,
     orderVars
<1>3. \A g \in Groups : Filed(g)' <=> Filed(g)
  BY <1>2 DEF Filed, FoodRequest
<1>4. filedOrders' = filedOrders
  BY <1>2, <1>3, PartsSame
<1>5. Uncooked' <=> Uncooked
  BY <1>2 DEF Uncooked
<1> QED
  BY <1>2, <1>4, <1>5, KitchenStays, BeforeOrderingSame

\* The first order of the ring goes into the waiter's hands.
LEMMA TakeQueuedLeavesKitchen ==
  ASSUME TypeOK, HandoverInv, KitchenView, KitchenView', TakeQueued,
         UNCHANGED waiterLeaves
  PROVE  KitchenUnmoved
<1>1. /\ waiterAt = "poll" /\ waiterAt' = "informChef"
      /\ UNCHANGED <<incoming, foodOrder, foodGroup, sem, waiterRequest, chefAt,
                     groupAt>>
  BY DEF TakeQueued, waiterGoesTo, orderVars, semVars, waiterLeaves
<1>2. PICK g \in Groups : outgoing' = FoodRequest(g)
  BY RingLosesFirst DEF HandoverInv, RingFits
<1>3. handOrder = <<>> /\ handOrder' = <<g>>
  BY <1>1, <1>2, OrderOfRequests DEF handOrder
<1>4. inOrder' = inOrder
  BY <1>1 DEF inOrder
<1>5. slotOrder' = slotOrder
  BY <1>1, SlotSame DEF Filed, FoodRequest
<1>6. ringOrders = <<g>> \o ringOrders'
  <2> DEFINE r == ringOrders
             q == ringOrders'
             c == <<g>> \o ringOrders'
  <2>1. /\ qlength \in Nat /\ qlength > 0 /\ r \in Seq(Groups) /\ Len(r) = qlength
        /\ q \in Seq(Groups) /\ Len(q) = qlength - 1
    BY RingLosesFirst DEF KitchenView
  <2>2. \A i \in 1 .. qlength : FoodRequest(r[i]) = ringEntry(i - 1)
    BY DEF KitchenView
  <2>3. ASSUME NEW i \in 1 .. qlength - 1
        PROVE  FoodRequest(q[i]) = ringEntry(i)
    <3>1. /\ i \in 1 .. qlength' /\ i - 1 \in 0 .. qlength' - 1
          /\ (i - 1) + 1 = i
      BY <2>1, RingLosesFirst
    <3>2. FoodRequest(q[i]) = queue'[(qreadNext' + (i - 1)) % NUMTABLES]
      BY <3>1 DEF KitchenView, ringEntry, FoodRequest
    <3> QED
      BY <3>1, <3>2, RingLosesFirst
  <2>4. FoodRequest(g) = ringEntry(0)
    BY <1>2, RingLosesFirst
  <2>5. /\ c \in Seq(Groups) /\ Len(c) = 1 + Len(q) /\ c[1] = g
        /\ \A i \in 1 .. Len(q) : c[i + 1] = q[i]
    <3>1. <<g>> \in Seq(Groups) /\ Len(<<g>>) = 1 /\ <<g>>[1] = g
      OBVIOUS
    <3>2. /\ c \in Seq(Groups) /\ Len(c) = 1 + Len(q)
          /\ \A i \in 1 .. 1 + Len(q) : c[i] = IF i <= 1 THEN <<g>>[i] ELSE q[i - 1]
      BY <2>1, <3>1, ConcatProperties
    <3> HIDE DEF c, q
    <3>3. /\ Len(q) \in Nat /\ 1 \in 1 .. 1 + Len(q)
          /\ \A i \in 1 .. Len(q) : /\ i + 1 \in 1 .. 1 + Len(q)
                                    /\ ~(i + 1 <= 1) /\ (i + 1) - 1 = i
      BY <2>1
    <3> QED
      BY <3>1, <3>2, <3>3
  <2> HIDE DEF r, q, c
  <2>6. ASSUME NEW i \in 1 .. qlength PROVE r[i] = c[i]
    <3>1. CASE i = 1
      <4>1. FoodRequest(r[1]) = ringEntry(0)
        BY <2>2, <3>1
      <4> QED
        BY <2>4, <2>5, <3>1, <4>1, OrdersDiffer
    <3>2. CASE i # 1
      <4>1. i - 1 \in 1 .. qlength - 1 /\ (i - 1) + 1 = i
        BY <2>1, <3>2
      <4>2. FoodRequest(q[i - 1]) = ringEntry(i - 1)
        BY <2>3, <4>1
      <4>3. c[i] = q[i - 1]
        BY <2>1, <2>5, <4>1
      <4>4. FoodRequest(r[i]) = FoodRequest(q[i - 1])
        BY <2>2, <4>2
      <4> QED
        BY <4>3, <4>4, OrdersDiffer
    <3> QED
      BY <3>1, <3>2
  <2>7. r = c
    <3>1. Len(c) = qlength
      BY <2>1, <2>5
    <3> QED
      BY <2>1, <2>5, <2>6, <3>1, SameSequence
  <2> QED
    BY <2>7 DEF r, c
<1>7. filedOrders' = filedOrders
  <2> DEFINE q == ringOrders'
             c == inOrder
             s == slotOrder
  <2>1. /\ q \in Seq(Groups) /\ c \in Seq(Groups) /\ s \in Seq(Groups)
        /\ filedOrders = inParts(<<>>, <<g>> \o q, c, s)
        /\ filedOrders' = inParts(<<g>>, q, c, s)
    BY <1>3, <1>4, <1>5, <1>6 DEF KitchenView
  <2> HIDE DEF q, c, s
  <2>2. inParts(<<>>, <<g>> \o q, c, s) = inParts(<<g>>, q, c, s)
    BY <2>1, MovesToFirst
  <2> QED
    BY <2>1, <2>2
<1>8. Uncooked' <=> Uncooked
  BY <1>1 DEF Uncooked
<1> QED
  BY <1>1, <1>7, <1>8, KitchenStays, BeforeOrderingSame

\* An order, or a meal, goes from the slot into the waiter's hands.
LEMMA TakingLeavesKitchen ==
  ASSUME TypeOK, RequestSlotsExclusive, HandoverInv, KitchenView, KitchenView',
         TakeRequest, UNCHANGED waiterLeaves
  PROVE  KitchenUnmoved
<1>1. /\ waiterAt \in {"poll", "takeRequest"} /\ waiterAt' = "readRequest"
      /\ sem["waiterRequest"] > 0
      /\ sem'["waiterRequest"] = sem["waiterRequest"] - 1
      /\ sem'["waitOrder"] = sem["waitOrder"]
      /\ incoming' = waiterRequest
      /\ UNCHANGED <<outgoing, queue, qlength, qreadNext, foodOrder, foodGroup,
                     waiterRequest, groupAt, chefAt>>
  BY KitchenTypes, DownMoves DEF TakeRequest, waiterLeaves, queueVars, orderVars,
     SemNames
<1>2. waiterToken = 1 /\ sem["waiterRequest"] \in Nat
  BY KitchenTypes DEF RequestSlotsExclusive, waiterToken
<1>3. /\ sem'["waiterRequest"] = 0
      /\ \A h \in Groups : groupAt[h] # "postFoodRequest"
  BY <1>1, <1>2, WaiterSlotHolder DEF PostingToWaiter, at
<1>4. handOrder = <<>> /\ handOrder' = <<>> /\ ringOrders' = ringOrders
  BY <1>1 DEF handOrder, ringOrders
<1>5. inOrder = <<>>
  BY <1>1, HandAndInHold
<1>6. slotOrder = inOrder'
  <2>1. waiterSlotHolds(waiterRequest)
    BY <1>1 DEF waiterSlotHolds
  <2> QED
    BY <1>1, <2>1 DEF slotOrder, inOrder, orderOf
<1>7. slotOrder' = <<>>
  <2>1. \A g \in Groups : ~Filed(g)'
    BY <1>1, <1>3 DEF Filed
  <2> QED
    BY <2>1 DEF KitchenView
<1>8. filedOrders' = filedOrders
  <2> DEFINE h == handOrder
             r == ringOrders
             s == slotOrder
  <2>1. /\ h \in Seq(Groups) /\ r \in Seq(Groups) /\ s \in Seq(Groups)
        /\ filedOrders = inParts(h, r, <<>>, s)
        /\ filedOrders' = inParts(h, r, s, <<>>)
    BY <1>4, <1>5, <1>6, <1>7 DEF KitchenView
  <2> HIDE DEF h, r, s
  <2>2. inParts(h, r, <<>>, s) = inParts(h, r, s, <<>>)
    BY <2>1, MovesToThird
  <2> QED
    BY <2>1, <2>2
<1>9. Uncooked' <=> Uncooked
  BY <1>1 DEF Uncooked
<1> QED
  BY <1>1, <1>8, <1>9, KitchenStays, BeforeOrderingSame

LEMMA SavingLeavesKitchen ==
  ASSUME KitchenView, KitchenView', WaiterSavesState, UNCHANGED waiterLeaves
  PROVE  KitchenUnmoved
<1>1. /\ sem'["waiterRequest"] = sem["waiterRequest"]
      /\ sem'["waitOrder"] = sem["waitOrder"]
      /\ UNCHANGED <<incoming, outgoing, queue, qlength, qreadNext, chefAt,
                     foodOrder, foodGroup, waiterRequest, groupAt>>
  BY KitchenSemsSame DEF WaiterSavesState, waiterLeaves, queueVars, orderVars
<1>2. /\ waiterAt' = "postOrder" <=> waiterAt = "postOrder"
      /\ waiterAt' \in {"informChef", "informingChef"} <=>
           waiterAt \in {"informChef", "informingChef"}
  BY DEF WaiterSavesState
<1>3. \A g \in Groups : Filed(g)' <=> Filed(g)
  BY <1>1 DEF Filed, FoodRequest
<1>4. filedOrders' = filedOrders
  BY <1>1, <1>2, <1>3, PartsSame
<1>5. Uncooked' <=> Uncooked
  BY <1>1, <1>2 DEF Uncooked
<1> QED
  BY <1>1, <1>4, <1>5, KitchenStays, BeforeOrderingSame

\* An order goes from the waiter's hands to the end of its ring, and a meal is
\* kept in its hands.
LEMMA OrderAtEndOfRing ==
  ASSUME TypeInv, KitchenView, KitchenView', enqueueIncoming,
         qlength < NUMTABLES, NEW g \in Groups, incoming = FoodRequest(g)
  PROVE  ringOrders' = Append(ringOrders, g)
<1> DEFINE r == ringOrders
           q == ringOrders'
           a == Append(ringOrders, g)
<1>1. /\ r \in Seq(Groups) /\ Len(r) = qlength
      /\ q \in Seq(Groups) /\ Len(q) = qlength + 1
      /\ \A i \in 1 .. qlength : FoodRequest(r[i]) = ringEntry(i - 1)
      /\ qlength \in Nat /\ qlength' = qlength + 1
  BY RingGainsLast DEF KitchenView
<1>2. ASSUME NEW i \in 1 .. qlength + 1
      PROVE  FoodRequest(q[i]) = queue'[(qreadNext' + (i - 1)) % NUMTABLES]
  BY <1>1 DEF KitchenView, ringEntry, FoodRequest
<1>3. /\ a \in Seq(Groups) /\ Len(a) = qlength + 1 /\ a[qlength + 1] = g
      /\ \A i \in 1 .. qlength : a[i] = r[i]
  BY <1>1
<1> HIDE DEF r, q, a
<1>4. ASSUME NEW i \in 1 .. qlength PROVE q[i] = a[i]
  <2>1. i - 1 \in 0 .. qlength - 1 /\ i \in 1 .. qlength + 1
    BY <1>1
  <2>2. FoodRequest(q[i]) = ringEntry(i - 1)
    BY <1>2, <2>1, RingGainsLast
  <2>3. FoodRequest(q[i]) = FoodRequest(r[i])
    BY <1>1, <2>2
  <2> QED
    BY <1>3, <2>3, OrdersDiffer
<1>5. q[qlength + 1] = a[qlength + 1]
  <2>1. qlength + 1 \in 1 .. qlength + 1 /\ (qlength + 1) - 1 = qlength
    BY <1>1
  <2>2. FoodRequest(q[qlength + 1]) = FoodRequest(g)
    BY <1>2, <2>1, RingGainsLast
  <2> QED
    BY <1>3, <2>2, OrdersDiffer
<1>6. ASSUME NEW i \in 1 .. qlength + 1 PROVE q[i] = a[i]
  <2>1. i \in 1 .. qlength \/ i = qlength + 1
    BY <1>1
  <2> QED
    BY <1>4, <1>5, <2>1
<1>7. q = a
  BY <1>1, <1>3, <1>6, SameSequence
<1> QED
  BY <1>7 DEF q, a

LEMMA ReadingLeavesKitchen ==
  ASSUME TypeInv, TypeOK, ReceptionInv, HandoverInv, OrdersInv, KitchenView,
         KitchenView', ReadRequest, UNCHANGED waiterLeaves
  PROVE  KitchenUnmoved
<1>1. /\ waiterAt = "readRequest" /\ incoming' = NoRequest
      /\ sem'["waiterRequest"] = sem["waiterRequest"]
      /\ sem'["waitOrder"] = sem["waitOrder"]
      /\ UNCHANGED <<chefAt, foodOrder, foodGroup, waiterRequest, groupAt>>
  BY KitchenTypes, UpMoves DEF ReadRequest, waiterLeaves, orderVars, SemNames
<1>2. slotOrder' = slotOrder
  BY <1>1, SlotSame DEF Filed, FoodRequest
<1>3. inOrder' = <<>>
  BY <1>1, OrdersDiffer DEF inOrder, orderOf, NoRequest
<1>4. CASE \E g \in Groups : incoming = FoodRequest(g)
  <2>1. PICK g \in Groups : incoming = FoodRequest(g)
    BY <1>4
  <2>2. enqueueIncoming /\ qlength < NUMTABLES
    BY <2>1, OrdersDiffer, RingHasRoom DEF ReadRequest
  <2>3. waiterAt' = "poll"
    BY <2>2 DEF enqueueIncoming
  <2>4. ringOrders' = Append(ringOrders, g)
    BY <2>1, <2>2, OrderAtEndOfRing
  <2>5. inOrder = <<g>> /\ handOrder = <<>> /\ handOrder' = <<>>
    BY <1>1, <2>1, <2>3, HandAndInHold DEF handOrder
  <2>6. filedOrders' = filedOrders
    <3> DEFINE r == ringOrders
               s == slotOrder
               h == <<>>
    <3>1. /\ r \in Seq(Groups) /\ s \in Seq(Groups) /\ h \in Seq(Groups)
          /\ filedOrders = inParts(h, r, <<g>>, s)
          /\ filedOrders' = inParts(h, Append(r, g), <<>>, s)
      BY <1>2, <1>3, <2>4, <2>5 DEF KitchenView
    <3> HIDE DEF r, s, h
    <3>2. inParts(h, Append(r, g), <<>>, s) = inParts(h, r, <<g>>, s)
      BY <3>1, MovesToSecond
    <3> QED
      BY <3>1, <3>2
  <2>7. Uncooked' <=> Uncooked
    BY <1>1, <2>3 DEF Uncooked
  <2> QED
    BY <1>1, <2>6, <2>7, KitchenStays, BeforeOrderingSame
<1>5. CASE incoming = Meal(foodGroup)
  <2>1. /\ waiterAt' = "takeFoodToTable"
        /\ UNCHANGED <<queue, qlength, qreadNext>>
    BY <1>5, OrdersDiffer DEF ReadRequest, queueVars
  <2>2. /\ inOrder = <<>> /\ ringOrders' = ringOrders
        /\ handOrder = <<>> /\ handOrder' = <<>>
    BY <1>1, <1>5, <2>1, OrdersDiffer DEF inOrder, orderOf, ringOrders, handOrder
  <2>3. filedOrders' = filedOrders
    BY <1>2, <1>3, <2>2 DEF KitchenView
  <2>4. Uncooked' <=> Uncooked
    BY <1>1, <2>1 DEF Uncooked
  <2> QED
    BY <1>1, <2>3, <2>4, KitchenStays, BeforeOrderingSame
<1> QED
  BY <1>1, <1>4, <1>5 DEF HandoverInv, HandsFit

\* The first of all orders is announced to the chef, when nothing is cooking.
LEMMA InformingBegins ==
  ASSUME TypeOK, HandoverInv, KitchenView, KitchenView', InformSave,
         UNCHANGED waiterLeaves
  PROVE  K!Begin
<1>1. /\ waiterAt = "informingChef" /\ waiterAt' = "postOrder"
      /\ foodGroup' = outgoing.reqGroup /\ foodOrder'
      /\ sem'["waiterRequest"] = sem["waiterRequest"]
      /\ UNCHANGED <<incoming, outgoing, queue, qlength, qreadNext,
                     waiterRequest, groupAt>>
  BY KitchenTypes, UpMoves DEF InformSave, waiterGoesTo, waiterSame,
     queueVars, waiterLeaves, SemNames
<1>2. PICK g \in Groups : outgoing = FoodRequest(g)
  BY <1>1 DEF HandoverInv, HandsFit, Informing
<1>3. ~foodOrder /\ foodGroup' = g
  BY <1>1, <1>2, OrdersDiffer DEF HandoverInv, BusyIsCurrent
<1>4. handOrder = <<g>> /\ handOrder' = <<>>
  BY <1>1, <1>2, OrderOfRequests DEF handOrder
<1>5. ringOrders' = ringOrders /\ inOrder' = inOrder /\ slotOrder' = slotOrder
  BY <1>1, SlotSame DEF ringOrders, inOrder, orderOf, Filed, FoodRequest
<1>6. /\ filedOrders # <<>> /\ Head(filedOrders) = g
      /\ filedOrders' = Tail(filedOrders)
      /\ Range(filedOrders) = Range(filedOrders') \cup {g}
  <2> DEFINE r == ringOrders
             c == inOrder
             s == slotOrder
  <2>1. /\ r \in Seq(Groups) /\ c \in Seq(Groups) /\ s \in Seq(Groups)
        /\ filedOrders = inParts(<<g>>, r, c, s)
        /\ filedOrders' = inParts(<<>>, r, c, s)
    BY <1>4, <1>5 DEF KitchenView
  <2> HIDE DEF r, c, s
  <2>2. inFront(g, inParts(<<g>>, r, c, s), inParts(<<>>, r, c, s))
    BY <2>1, GoesOutAtFront
  <2>3. inFront(g, filedOrders, filedOrders')
    BY <2>1, <2>2
  <2> QED
    BY <2>3 DEF inFront
<1>7. mealStage(g)' = "cooking"
  <2>1. BeingServed(g)' /\ Uncooked'
    BY <1>1, <1>3 DEF BeingServed, Uncooked
  <2>2. ~BeforeOrdering(g)' /\ ~(g \in Range(filedOrders))'
    BY <2>1 DEF KitchenView
  <2> QED
    BY <2>1, <2>2 DEF mealStage
<1>8. ASSUME NEW h \in Groups \ {g} PROVE MealUnmoved(h)
  <2>1. (h \in Range(filedOrders))' <=> h \in Range(filedOrders)
    BY <1>6 DEF Range
  <2>2. ~BeingServed(h) /\ ~BeingServed(h)'
    BY <1>3 DEF BeingServed
  <2> QED
    BY <1>1, <2>1, <2>2, BeforeOrderingSame DEF MealUnmoved
<1>9. mealOf' = [mealOf EXCEPT ![g] = "cooking"]
  BY <1>7, <1>8, MealMoves
<1>10. \A h \in Groups : mealOf[h] \notin {"cooking", "cooked"}
  BY <1>3 DEF KitchenView, mealStage, BeingServed
<1> QED
  BY <1>6, <1>9, <1>10 DEF K!Begin

\* It is on its way to the chef until the chef has it; its group hears of it.
LEMMA HandingOverLeavesKitchen ==
  ASSUME TypeOK, HandoverInv, KitchenView, KitchenView',
         PostOrder \/ WaitForChef, UNCHANGED waiterLeaves
  PROVE  KitchenUnmoved
<1>1. /\ waiterAt' \notin {"informChef", "informingChef"}
      /\ waiterAt \notin {"informChef", "informingChef"}
      /\ sem'["waiterRequest"] = sem["waiterRequest"]
      /\ UNCHANGED <<incoming, outgoing, queue, qlength, qreadNext, foodOrder,
                     foodGroup, waiterRequest, groupAt, chefAt>>
  BY KitchenTypes, UpMoves, DownMoves DEF PostOrder, WaitForChef,
     waiterGoesTo, waiterSame, queueVars, orderVars, waiterLeaves, SemNames
<1>2. \A g \in Groups : Filed(g)' <=> Filed(g)
  BY <1>1 DEF Filed, FoodRequest
<1>3. filedOrders' = filedOrders
  BY <1>1, <1>2, PartsSame
<1>4. Uncooked' <=> Uncooked
  <2>1. CASE PostOrder
    <3>1. /\ waiterAt = "postOrder" /\ sem["waitOrder"] \in Nat
          /\ sem'["waitOrder"] = sem["waitOrder"] + 1
      BY <2>1, KitchenTypes, UpMoves DEF PostOrder, waiterGoesTo, SemNames
    <3>2. sem'["waitOrder"] > 0
      BY <3>1
    <3> QED
      BY <3>1, <3>2 DEF Uncooked
  <2>2. CASE WaitForChef
    <3>1. /\ waiterAt = "waitForChef" /\ waiterAt' = "informGroup"
          /\ sem'["waitOrder"] = sem["waitOrder"]
      BY <2>2, KitchenTypes, DownMoves DEF WaitForChef, waiterGoesTo, SemNames
    <3> QED
      BY <1>1, <3>1 DEF Uncooked
  <2> QED
    BY <2>1, <2>2
<1> QED
  BY <1>1, <1>3, <1>4, KitchenStays, BeforeOrderingSame

\* A handler ends with no order in the waiter's hands.
LEMMA HandlerLeavesOrders ==
  ASSUME KitchenView, KitchenView', UNCHANGED waiterLeaves,
         waiterAt \in {"informGroup", "serveFood"}, waiterAt' \in {"poll", "exit"},
         UNCHANGED <<incoming, queue, qlength, qreadNext, sem>>
  PROVE  filedOrders' = filedOrders /\ (Uncooked' <=> Uncooked)
<1>1. handOrder = <<>> /\ handOrder' = <<>>
  BY DEF handOrder
<1>2. ringOrders' = ringOrders /\ inOrder' = inOrder /\ slotOrder' = slotOrder
  BY SlotSame DEF ringOrders, inOrder, orderOf, Filed, FoodRequest, waiterLeaves
<1> QED
  BY <1>1, <1>2 DEF KitchenView, Uncooked, waiterLeaves

LEMMA TellingLeavesKitchen ==
  ASSUME KitchenView, KitchenView', InformGroup, UNCHANGED waiterLeaves
  PROVE  KitchenUnmoved
<1>1. /\ waiterAt = "informGroup" /\ waiterAt' \in {"poll", "exit"}
      /\ UNCHANGED <<incoming, queue, qlength, qreadNext, sem, foodOrder,
                     foodGroup, groupAt>>
  BY DEF InformGroup, handled, queueVars, orderVars, waiterLeaves
<1> QED
  BY <1>1, HandlerLeavesOrders, KitchenStays, BeforeOrderingSame

\* A meal is put on the table of the group that ordered it.
LEMMA ServingServes ==
  ASSUME TypeOK, HandoverInv, KitchenView, KitchenView', ServeFood,
         UNCHANGED waiterLeaves
  PROVE  \E g \in Groups : K!Serve(g)
<1>1. /\ waiterAt = "serveFood" /\ waiterAt' \in {"poll", "exit"} /\ ~foodOrder'
      /\ UNCHANGED <<incoming, queue, qlength, qreadNext, sem, foodGroup, groupAt>>
  BY DEF ServeFood, handled, queueVars, waiterLeaves
<1>2. filedOrders' = filedOrders
  BY <1>1, HandlerLeavesOrders
<1>3. foodOrder /\ foodGroup \in Groups
  BY <1>1 DEF HandoverInv, BusyIsCurrent, OneOrderOut, Serving
<1>4. ~Uncooked
  BY <1>1, OrderOut, KitchenTypes DEF Uncooked, Serving
<1>5. /\ BeingServed(foodGroup) /\ ~BeforeOrdering(foodGroup)
      /\ foodGroup \notin Range(filedOrders)
  BY <1>3 DEF BeingServed, KitchenView
<1>6. ASSUME NEW h \in Groups PROVE ~BeingServed(h)'
  BY <1>1 DEF BeingServed
<1>7. PICK g \in Groups : g = foodGroup
  BY <1>3
<1>8. mealStage(g) = "cooked" /\ mealStage(g)' = "served"
  BY <1>1, <1>2, <1>4, <1>5, <1>6, <1>7, BeforeOrderingSame DEF mealStage, Range
<1>9. \A h \in Groups \ {g} : MealUnmoved(h)
  BY <1>1, <1>2, <1>6, <1>7, BeforeOrderingSame DEF MealUnmoved, BeingServed, Range
<1>10. mealOf[g] = "cooked" /\ mealOf' = [mealOf EXCEPT ![g] = "served"]
  BY <1>8, <1>9, MealMoves
<1>11. K!Serve(g)
  BY <1>2, <1>10 DEF K!Serve
<1> QED
  BY <1>11

\* Steps of the waiter.
LEMMA WaiterBeginsAndServes ==
  ASSUME TypeInv, TypeOK, RequestSlotsExclusive, ReceptionInv, HandoverInv,
         OrdersInv, KitchenView, KitchenView', WaiterStep
  PROVE  KitchenUnmoved \/ K!Begin \/ \E g \in Groups : K!Serve(g)
BY WaiterSteps, WaiterLeaves, SavingLeavesKitchen, TakeQueuedLeavesKitchen,
   TakingLeavesKitchen, ReadingLeavesKitchen, InformingBegins,
   HandingOverLeavesKitchen, TellingLeavesKitchen, ServingServes

\* The chef is done with a meal when it stops resting.
LEMMA ChefFinishes ==
  ASSUME TypeOK, RequestSlotsExclusive, HandoverInv, KitchenView, KitchenView',
         ChefStep
  PROVE  KitchenUnmoved \/ \E g \in Groups : K!Finish(g)
<1>1. UNCHANGED <<waiterAt, incoming, outgoing, queue, qlength, qreadNext,
                  foodOrder, foodGroup, groupAt>>
  BY ChefLeaves DEF chefLeaves, waiterVars, queueVars
<1>2. filedOrders' = filedOrders
  BY <1>1, ChefFilesNothing, PartsSame
<1>3. (Uncooked' <=> Uncooked) => KitchenUnmoved
  BY <1>1, <1>2, KitchenStays, BeforeOrderingSame
<1>4. CASE ChefSavesState
  <2>1. sem'["waitOrder"] = sem["waitOrder"]
    BY <1>4, KitchenSemsSame DEF ChefSavesState
  <2>2. CASE chefAt' # "foodReady" \/ chefAt = "foodReady"
    <3>1. chefAt' \in HasOrder \ {"foodReady"} <=> chefAt \in HasOrder \ {"foodReady"}
      BY <1>4, <2>2 DEF ChefSavesState, HasOrder
    <3> QED
      BY <1>1, <1>3, <2>1, <3>1 DEF Uncooked
  <2>3. CASE chefAt' = "foodReady" /\ chefAt # "foodReady"
    <3>1. chefAt \in HasOrder \ {"foodReady"}
      BY <1>4, <2>3 DEF ChefSavesState, HasOrder
    <3>2. /\ foodOrder /\ sem["waitOrder"] = 0 /\ waiterAt # "postOrder"
          /\ foodGroup \in Groups
      BY <3>1, OrderOut DEF HandoverInv, OneOrderOut
    <3>3. Uncooked /\ ~Uncooked'
      BY <1>1, <2>1, <2>3, <3>1, <3>2 DEF Uncooked
    <3>4. PICK g \in Groups : g = foodGroup
      BY <3>2
    <3>5. /\ BeingServed(g) /\ ~BeforeOrdering(g) /\ g \notin Range(filedOrders)
          /\ BeingServed(g)' /\ ~BeforeOrdering(g)' /\ ~(g \in Range(filedOrders))'
      BY <1>1, <3>2, <3>4 DEF BeingServed, KitchenView
    <3>6. mealStage(g) = "cooking" /\ mealStage(g)' = "cooked"
      BY <3>3, <3>5 DEF mealStage
    <3>7. \A h \in Groups \ {g} : MealUnmoved(h)
      BY <1>1, <1>2, <3>4, BeforeOrderingSame DEF MealUnmoved, BeingServed, Range
    <3>8. mealOf[g] = "cooking" /\ mealOf' = [mealOf EXCEPT ![g] = "cooked"]
      BY <3>6, <3>7, MealMoves
    <3>9. K!Finish(g)
      BY <1>2, <3>8 DEF K!Finish
    <3> QED
      BY <3>9
  <2> QED
    BY <2>2, <2>3
<1>5. CASE TakeOrder
  <2>1. /\ sem["waitOrder"] > 0 /\ chefAt' = "acknowledgeOrder"
    BY <1>5, KitchenTypes, DownMoves DEF TakeOrder, chefGoesTo, SemNames
  <2>2. Uncooked /\ Uncooked'
    BY <2>1 DEF Uncooked, HasOrder
  <2> QED
    BY <1>3, <2>2
<1>6. CASE AcknowledgeOrder
  <2>1. chefAt = "acknowledgeOrder"
    BY <1>6 DEF AcknowledgeOrder
  <2>2. lastGroup \in Groups
    BY <2>1, OrderOut DEF HandoverInv, HandsFit, OneOrderOut, HasOrder
  <2>3. chefAt' = "processOrder"
    BY <1>6, <2>2, ConstantTypes DEF AcknowledgeOrder
  <2>4. Uncooked /\ Uncooked'
    BY <2>1, <2>3 DEF Uncooked, HasOrder
  <2> QED
    BY <1>3, <2>4
<1>7. CASE FoodReady \/ PostFoodReady
  <2>1. /\ chefAt \in {"foodReady", "postFoodReady"}
        /\ chefAt' \in {"postFoodReady", "waitForOrder", "exit"}
        /\ sem'["waitOrder"] = sem["waitOrder"]
    BY <1>7, KitchenTypes, UpMoves, DownMoves DEF FoodReady, PostFoodReady,
       chefGoesTo, chefLoop, SemNames
  <2>2. Uncooked' <=> Uncooked
    BY <1>1, <2>1 DEF Uncooked, HasOrder
  <2> QED
    BY <1>3, <2>2
<1> QED
  BY <1>4, <1>5, <1>6, <1>7, ChefSteps

LEMMA KitchenStarts == Init => K!KitchenInit
<1> SUFFICES ASSUME Init PROVE K!KitchenInit
  OBVIOUS
<1>1. /\ waiterAt \in {"poll", "exit"} /\ chefAt \in {"waitForOrder", "exit"}
      /\ sem["waiterRequest"] = 0 /\ incoming = NoRequest /\ qlength = 0
      /\ \A g \in Groups : groupAt[g] = "goToRestaurant"
  BY DEF Init, WaiterInit, ChefInit, chefLoop, SharedInit, RegionInit,
     enabledSems, SemNames, GroupInit
<1>2. filedOrders = <<>>
  <2>1. handOrder = <<>> /\ ringOrders = <<>> /\ inOrder = <<>>
    BY <1>1, OrdersDiffer DEF handOrder, ringOrders, inOrder, orderOf, NoRequest
  <2>2. slotOrder = <<>>
    BY <1>1 DEF slotOrder, waiterSlotHolds, PostingToWaiter, at
  <2>3. filedOrders = inParts(<<>>, <<>>, <<>>, <<>>)
    BY <2>1, <2>2 DEF filedOrders, handOrder, ringOrders, inOrder, slotOrder,
       inParts
  <2>4. <<>> \o <<>> = <<>>
    OBVIOUS
  <2> QED
    BY <2>3, <2>4 DEF inParts
<1>3. mealOf = [g \in Groups |-> "none"]
  BY <1>1 DEF mealOf, BeforeOrdering
<1> QED
  BY <1>2, <1>3 DEF K!KitchenInit

\* The waiter and the chef, with the one slot that orders and meals share, the
\* ring of orders and the hand-over of an order without the mutex, implement a
\* kitchen that cooks the orders one at a time, in the order in which they were
\* filed, and serves each to the group that filed it.
THEOREM KitchenServes == Spec => ImplementsKitchen
<1>1. TypeInv /\ RequestSlotsExclusive /\ ReceptionInv /\ HandoverInv
        /\ OrdersInv /\ KitchenView /\ KitchenView' /\ [Next]_vars
        => [K!KitchenNext]_(K!kitchenVars)
  <2> SUFFICES ASSUME TypeInv, TypeOK, RequestSlotsExclusive, ReceptionInv,
                      HandoverInv, OrdersInv, KitchenView, KitchenView',
                      [Next]_vars
               PROVE  K!KitchenNext \/ KitchenUnmoved
    BY DEF TypeInv, K!kitchenVars, KitchenUnmoved
  <2>1. ASSUME NEW g \in Groups, GroupStep(g)
        PROVE  K!KitchenNext \/ KitchenUnmoved
    BY <2>1, GroupsFile DEF K!KitchenNext
  <2>2. CASE ReceptionistStep \/ UNCHANGED vars
    BY <2>2, ReceptionLeavesKitchen
  <2>3. CASE WaiterStep
    BY <2>3, WaiterBeginsAndServes DEF K!KitchenNext
  <2>4. CASE ChefStep
    BY <2>4, ChefFinishes DEF K!KitchenNext
  <2> QED
    BY <2>1, <2>2, <2>3, <2>4 DEF Next, Terminated
<1> QED
  BY <1>1, KitchenStarts, KitchenViewHolds, TypeInvariant, SlotsExclusive,
     ReceptionInvariant, HandoverInvariant, OrdersInvariant,
     PTL DEF Spec, ImplementsKitchen, K!KitchenSpec
=============================================================================
