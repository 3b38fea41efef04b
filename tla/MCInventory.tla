---------------------------- MODULE MCInventory ----------------------------
(* A small inventory for TLC: wood makes two planks in any grid; an axe takes
   two planks side by side, which the small grid has no room for, or a wood
   and a plank anywhere.                                                    *)
EXTENDS Inventory

CONSTANTS anna, ben, small, big, chest, wood, plank, axe

MCItems == {wood, plank, axe}
MCWild == {plank}
MCSize == (anna :> 2) @@ (ben :> 1) @@ (small :> 1) @@ (big :> 2) @@ [c \in Chests |-> 1]
MCRecipes == {
    [shaped |-> FALSE, output |-> plank, amount |-> 2,
     inputs |-> <<[item |-> wood, count |-> 1, slot |-> 0]>>],
    [shaped |-> TRUE, output |-> axe, amount |-> 1,
     inputs |-> <<[item |-> plank, count |-> 1, slot |-> 1],
                  [item |-> plank, count |-> 1, slot |-> 2]>>],
    [shaped |-> FALSE, output |-> axe, amount |-> 1,
     inputs |-> <<[item |-> wood, count |-> 1, slot |-> 0],
                  [item |-> plank, count |-> 1, slot |-> 0]>>]}
MCLoot == {[i \in {1} |-> Empty], [i \in {1} |-> [item |-> wood, count |-> 1]]}
=============================================================================
