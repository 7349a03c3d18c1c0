----------------------------- MODULE MCCodegen -----------------------------
(* Codegen over two registers, a static slot and a stack of four, numbers  *)
(* of two bytes and an int of nine bits.                                   *)
EXTENDS Codegen

r0 == Loc("R", 0)
r1 == Loc("R", 1)
s0 == Loc("S", 0)
top == Loc("L", -1)

Places == {r0, r1, s0, top}
Sources == Places \cup {Lit(n) : n \in Literal}

Calls == UNION {[1 .. n -> Sources] : n \in 0 .. 2}

Pairs(op) == [stmt : {op}, left : Sources, right : Sources]

AllStatements ==
  Pairs("cmp") \cup [stmt : BinOps, left : Places, right : Sources]
    \cup [stmt : {"mov"}, left : Places, right : Sources]
    \cup [stmt : {"push"}, left : Sources]
    \cup [stmt : {"call"}, left : Places, args : Calls]
    \cup [stmt : {"pop"}, count : {1}]
    \cup [stmt : {"print"}, args : [1 .. 2 -> {s0, top} \cup {Lit(n) : n \in Literal}]]
    \cup [stmt : {"jmp"}, mode : {"jmp", "je", "jne", "jg"}, left : {s0}]

MCDisjoint == {s \in AllStatements : Disjoint(s)}

(* The statements of the loop of lib/while.bb8.                            *)
MCWhile ==
  [stmt : {"mov"}, left : {r0, r1}, right : {Lit(n) : n \in Literal}]
    \cup [stmt : {"cmp"}, left : {r0, r1}, right : {Lit(0)}]
    \cup [stmt : {"jmp"}, mode : {"je"}, left : {s0}]
=============================================================================
