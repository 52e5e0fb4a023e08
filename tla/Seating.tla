------------------------------ MODULE Seating -------------------------------
(***************************************************************************)
(* What the receptionist promises: groups are seated one at a time, in the *)
(* order in which it took their requests, each at a table of its own that  *)
(* it keeps until it pays.  Which free table a group gets is left open.    *)
(***************************************************************************)
EXTENDS Integers, Sequences

CONSTANTS
  Groups,
  Tables,
  NoTable  \* what a group without a table has; not a member of Tables

VARIABLES
  stage,  \* how far each group is
  queue,  \* the groups that asked for a table and have none, oldest first
  table   \* where each group sits

seatingVars == <<stage, queue, table>>

SeatingInit ==
  /\ stage = [g \in Groups |-> "away"]
  /\ queue = <<>>
  /\ table = [g \in Groups |-> NoTable]

AskForTable(g) ==
  /\ stage[g] = "away"
  /\ stage' = [stage EXCEPT ![g] = "queued"]
  /\ queue' = Append(queue, g)
  /\ UNCHANGED table

SeatNext ==
  /\ queue # <<>>
  /\ \E t \in Tables :
       /\ \A h \in Groups : table[h] # t
       /\ table' = [table EXCEPT ![Head(queue)] = t]
  /\ stage' = [stage EXCEPT ![Head(queue)] = "seated"]
  /\ queue' = Tail(queue)

Pay(g) ==
  /\ stage[g] = "seated"
  /\ stage' = [stage EXCEPT ![g] = "gone"]
  /\ table' = [table EXCEPT ![g] = NoTable]
  /\ UNCHANGED queue

SeatingNext == (\E g \in Groups : AskForTable(g) \/ Pay(g)) \/ SeatNext

SeatingFairness ==
  /\ WF_seatingVars(SeatNext)
  /\ \A g \in Groups : WF_seatingVars(AskForTable(g)) /\ WF_seatingVars(Pay(g))

SeatingSpec     == SeatingInit /\ [][SeatingNext]_seatingVars
FairSeatingSpec == SeatingSpec /\ SeatingFairness
=============================================================================
