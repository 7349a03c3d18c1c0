----------------------------- MODULE MCLabels -----------------------------
(* Labels on every program of up to MaxLength statements that declares its *)
(* labels once, as the parser requires.                                    *)
EXTENDS Labels, FiniteSets, TLC

CONSTANTS short, long, MaxLength

MCString == {short, long}
MCLength == short :> 2 @@ long :> 14

Declared(p) == {i \in DOMAIN p : p[i].stmt = "label"}

MCPrograms ==
  {p \in UNION {[1 .. n -> [stmt : {"label", "jmp", "je"}, arg : Label]
                            \cup [stmt : {"print"}, arg : MCString]]
                : n \in 1 .. MaxLength} :
     /\ {p[i].arg : i \in DOMAIN p} \cap Label = {p[i].arg : i \in Declared(p)}
     /\ Cardinality(Declared(p)) = Cardinality({p[i].arg : i \in Declared(p)})}
=============================================================================
