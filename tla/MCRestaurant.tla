---------------------------- MODULE MCRestaurant ----------------------------
(***************************************************************************)
(* Bounded instances of the restaurant for TLC.  Groups are model values.  *)
(***************************************************************************)
EXTENDS RestaurantService, TLC

\* No process treats one group differently from another.
GroupSymmetry == Permutations(Groups)

\* Explore no further than the first group that asks for the bill: what the
\* waiter and the chef do does not depend on what happens afterwards, unless
\* a table is used twice.
UntilMealsEnd == at({"checkingOut"}) = {}
=============================================================================
