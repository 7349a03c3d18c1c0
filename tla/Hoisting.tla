------------------------------ MODULE Hoisting ------------------------------
(***************************************************************************)
(* The order Parser::parse gives its statements to the iterator in: the    *)
(* definitions of macros come first, the rest follows as it was written.   *)
(***************************************************************************)
EXTENDS Integers, Sequences

(* The statements at the places I, in their order.                         *)
Chosen(s, I) ==
  LET chosen[n \in 0 .. Len(s)] ==
        IF n = 0 THEN << >>
        ELSE IF n \in I THEN Append(chosen[n - 1], s[n]) ELSE chosen[n - 1]
  IN chosen[Len(s)]

HoistFrom(s, macros) == Chosen(s, macros) \o Chosen(s, DOMAIN s \ macros)
=============================================================================
