----------------------------- MODULE MCInventory -----------------------------
(***************************************************************************)
(* Instances of Inventory for TLC.                                         *)
(***************************************************************************)
EXTENDS Inventory, TLC

CONSTANTS p1, p2

Symmetry == Permutations(Clients) \cup Permutations(Locations) \cup Permutations(Orders) \cup Permutations(Reservations) \cup
            Permutations(Transfers) \cup Permutations(Levels)

PlusMinus == {-1, 2}
UpToTwo == [p \in Locations |-> 2]
AllRoutes == Locations \X Locations

(* Stock comes in at one place and moves to the other.                     *)
OneAtP1 == [p \in Locations |-> IF p = p1 THEN 1 ELSE 0]
FromP1ToP2 == {<<p1, p2>>}
=============================================================================
