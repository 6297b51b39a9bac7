------------------------------ MODULE Reputation ------------------------------
(***************************************************************************)
(* The running average of AgentsRegistryUpgradeable.addRating: after the   *)
(* rating is counted, the reputation is the old reputation weighted by the *)
(* earlier ratings, plus the new rating, divided by the count.  uint256    *)
(* division drops the remainder at every step.                             *)
(***************************************************************************)
EXTENDS Integers

MaxRating == 100

\* Faulty variant of Averaged: weighted by the new count instead of the old.
AveragedByNewCount(reputation, count, rating) ==
  (reputation * (count + 1) + rating) \div (count + 1)

\* reputation after count earlier ratings and one more
Averaged(reputation, count, rating) ==
  (reputation * count + rating) \div (count + 1)
=============================================================================
