------------------------------ MODULE Kitchen -------------------------------
(***************************************************************************)
(* What the waiter and the chef promise together: orders are cooked one at *)
(* a time, in the order in which the groups filed them, the next one only  *)
(* when the last meal is on its table, and every group gets its own meal.  *)
(***************************************************************************)
EXTENDS Integers, Sequences

CONSTANT Groups

VARIABLES
  meal,   \* how far the meal of each group is
  orders  \* the orders filed and not begun, oldest first

kitchenVars == <<meal, orders>>

KitchenInit ==
  /\ meal = [g \in Groups |-> "none"]
  /\ orders = <<>>

File(g) ==
  /\ meal[g] = "none"
  /\ meal' = [meal EXCEPT ![g] = "ordered"]
  /\ orders' = Append(orders, g)

Begin ==
  /\ orders # <<>>
  /\ \A g \in Groups : meal[g] \notin {"cooking", "cooked"}
  /\ meal' = [meal EXCEPT ![Head(orders)] = "cooking"]
  /\ orders' = Tail(orders)

Finish(g) ==
  /\ meal[g] = "cooking"
  /\ meal' = [meal EXCEPT ![g] = "cooked"]
  /\ UNCHANGED orders

Serve(g) ==
  /\ meal[g] = "cooked"
  /\ meal' = [meal EXCEPT ![g] = "served"]
  /\ UNCHANGED orders

KitchenNext == (\E g \in Groups : File(g) \/ Finish(g) \/ Serve(g)) \/ Begin

KitchenFairness ==
  /\ WF_kitchenVars(Begin)
  /\ \A g \in Groups : /\ WF_kitchenVars(File(g))
                       /\ WF_kitchenVars(Finish(g))
                       /\ WF_kitchenVars(Serve(g))

KitchenSpec     == KitchenInit /\ [][KitchenNext]_kitchenVars
FairKitchenSpec == KitchenSpec /\ KitchenFairness
=============================================================================
