---------------------------- MODULE MCItemMerge ----------------------------
(***************************************************************************)
(* Two devices: one holds the item from the start, the other is new to it. *)
(***************************************************************************)
EXTENDS ItemMerge

CONSTANTS a, b

MCOrder == [d \in Devices |-> IF d = a THEN 1 ELSE 2]

MCWallTimes == [d \in Devices |-> IF d = b THEN {1} ELSE {0}]
=============================================================================
