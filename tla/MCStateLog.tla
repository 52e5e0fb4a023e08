----------------------------- MODULE MCStateLog -----------------------------
(***************************************************************************)
(* Bounded instances of the log for TLC.                                   *)
(***************************************************************************)
EXTENDS StateLog, TLC

\* saveState takes the groups in any order, so that none differs from another.
GroupSymmetry == Permutations(Groups)
=============================================================================
