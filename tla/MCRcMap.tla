------------------------------ MODULE MCRcMap ------------------------------
(* RcMap on tables of 2 to 32 slots with chains of two.                    *)
EXTENDS RcMap, TLC

CONSTANTS a, b, c, d, e

MCValue == 0 .. MaxCount

MCKey == {a, b, c, d, e}

(* c's chain wraps to slot 0 of a table of eight when a and b are there.   *)
(* Doubling such a table puts c back first and leaves b no slot among 16:  *)
(* the rehash starts another one.                                          *)
MCHash == (a :> 6) @@ (b :> 22) @@ (c :> 7) @@ (d :> 3) @@ (e :> 11)
=============================================================================
