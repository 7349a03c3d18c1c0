--------------------------- MODULE MCSlotMemory ---------------------------
(* SlotMemory with one static slot, one register, one object member and a  *)
(* stack of four: setObjectMember takes three arguments.                   *)
EXTENDS SlotMemory, TLC

CONSTANTS r0, s1, m1

MCStatic == {s1}
MCReg == {r0}
MCMember == {m1}

Blocks == Permutations(Key)
=============================================================================
