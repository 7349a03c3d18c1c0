-------------------------------- MODULE Flow --------------------------------
(***************************************************************************)
(* What a program of labels, jumps and prints means: control passes from   *)
(* statement to statement, and a jump passes it to the statement after the *)
(* label.  The bytecode that bcparse emits and the interpreter executes    *)
(* implements this module (Labels).                                        *)
(***************************************************************************)
EXTENDS Naturals, Sequences

VARIABLES
  source,   \* the program: statements [stmt, arg]
  at        \* the statement to execute next, past the end when it is over

(* Where control really goes from place i: labels do nothing.              *)
Landing(i) ==
  CHOOSE j \in i .. Len(source) + 1 :
    /\ j = Len(source) + 1 \/ source[j].stmt # "label"
    /\ \A k \in i .. j - 1 : source[k].stmt = "label"

Declaration(l) ==
  CHOOSE i \in DOMAIN source : source[i].stmt = "label" /\ source[i].arg = l

Begin == at = Landing(1)

Forward == at' = Landing(at + 1)

(* A jump is taken or, when it is conditional, not.                        *)
Jump == at' = Landing(Declaration(source[at].arg))

Step ==
  /\ at \in DOMAIN source
  /\ \/ source[at].stmt \in {"print", "je"} /\ Forward
     \/ source[at].stmt \in {"jmp", "je"} /\ Jump
  /\ UNCHANGED source

Spec == Begin /\ [][Step]_<<source, at>>
=============================================================================
