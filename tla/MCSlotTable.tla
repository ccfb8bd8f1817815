---------------------------- MODULE MCSlotTable ----------------------------
(* Instances of SlotTable for TLC. *)
EXTENDS SlotTable, TLC

CONSTANTS a, b, c

Two == {a, b}
Three == {a, b, c}
AnyTwo == Permutations(Two)
AnyThree == Permutations(Three)
=============================================================================
