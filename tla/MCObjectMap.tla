---------------------------- MODULE MCObjectMap ----------------------------
(* ObjectMap on tables of 2 to 32 slots with chains of two.                *)
EXTENDS ObjectMap, TLC

CONSTANTS a, b, c

MCKey == {a, b, c}

(* a and b share a chain in tables of up to 16 slots, c wraps into it.     *)
MCHash == (a :> 6) @@ (b :> 22) @@ (c :> 7)
=============================================================================
