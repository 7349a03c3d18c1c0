------------------------------ MODULE MCScopes ------------------------------
(* Scopes on programs of two macros, each of a few statements, a variable, *)
(* and two uses, and on programs that include files.                       *)
EXTENDS Scopes

Lit(n) == [kind |-> "lit", value |-> n]
Sym(n) == [kind |-> "sym", name |-> n]
Ref(n) == [kind |-> "ref", name |-> n]
Deref(n) == [kind |-> "deref", name |-> n]

Declare(e) == [stmt |-> "var", target |-> e]
Assign(e, v) == [stmt |-> "set", target |-> e, value |-> v]
Show(v) == [stmt |-> "emit", value |-> v]
Mark(n) == [stmt |-> "label", name |-> n]
Debug(v) == [stmt |-> "debug", value |-> v]
Take(p) == [stmt |-> "include", path |-> p]
Define(n, b) == [stmt |-> "macro", name |-> n, body |-> b]
Apply(n, a, b) == [stmt |-> "use", name |-> n, args |-> a, body |-> b]

(* The conditional of lib/if.bb8.                                          *)
If ==
  Define("if",
    <<Declare(Sym("alt")), Show(Ref("_0")), Show(Ref("else")), Show(Ref("body")),
      Mark("else"), Show(Ref("alt")),
      Define("else", <<Assign(Sym("alt"), Ref("body"))>>)>>)

(* What the macro f may consist of: it declares and sets x, and the        *)
(* variable its argument names, uses its body, and uses g.                 *)
InF ==
  {Declare(Sym("x")), Assign(Sym("x"), Lit(1)), Assign(Sym("x"), Ref("body")),
   Assign(Ref("_0"), Lit(2)), Show(Ref("x")), Show(Ref("_0")),
   Show(Deref("_0")), Show(Ref("body")), Apply("g", <<Ref("x")>>, <<Show(Lit(8))>>)}

InG ==
  {<<Declare(Sym("w")), Assign(Sym("w"), Ref("_0")), Show(Ref("w"))>>,
   <<Mark("l"), Show(Ref("body")), Show(Ref("l")), Show(Ref("_0"))>>,
   <<Define("h", <<Assign(Sym("w"), Ref("body"))>>),
     Apply("h", << >>, <<Show(Lit(4))>>), Show(Ref("w"))>>}

Blocks ==
  {<< >>,
   <<Apply("g", <<Lit(5)>>, <<Show(Ref("y"))>>), Apply("g", <<Ref("y")>>, << >>)>>,
   <<Apply("if", <<Ref("y")>>, <<Show(Ref("y")), Apply("else", << >>, <<Show(Lit(6))>>)>>)>>}

(* A body placed twice would have its labels at two places.                *)
FBodies ==
  UNION {[1 .. n -> InF] : n \in 1 .. 2} \ {<<Show(Ref("body")), Show(Ref("body"))>>}

MCMacros ==
  {<<If, Assign(Sym("y"), Lit(3)), Apply("f", <<a>>, b), Show(Ref("y")), Define("f", f),
     Define("g", g)>> :
     f \in FBodies, g \in InG, a \in {Ref("y"), Sym("y")}, b \in Blocks}

MCBuiltins == {"exit"}

(* A file with a macro, that can be included once, and one without.        *)
MCFiles ==
  [lib |-> <<Assign(Sym("x"), Lit(4)), Mark("l"), Show(Ref("l")), Take("vars"),
             Define("k", <<Declare(Sym("w")), Show(Ref("_0")), Show(Ref("body"))>>)>>,
   vars |-> <<Assign(Sym("x"), Ref("exit")), Mark("l"), Show(Ref("l"))>>]

Including ==
  {Take("lib"), Take("vars"), Take("none"), Declare(Sym("x")), Assign(Sym("exit"), Lit(2)),
   Show(Ref("x")), Show(Ref("l")), Debug(Ref("x")), Mark("l"),
   Apply("k", <<Ref("x")>>, <<Take("vars"), Show(Ref("x")), Show(Ref("l"))>>),
   Apply("k", <<Lit(1)>>, <<Take("none")>>)}

MCIncludes ==
  {p \in UNION {[1 .. n -> Including] : n \in 1 .. 3} :
     Cardinality({i \in DOMAIN p : p[i] = Take("lib")}) <= 1}

(* A macro that is passed the name of its other argument.                  *)
MCNames ==
  {<<Assign(Sym("y"), Lit(3)), Apply("f", <<Sym("_1"), Ref("y")>>, << >>),
     Define("f", <<s, t>>)>> :
     s, t \in {Show(Deref("_0")), Show(Ref("_1")), Assign(Deref("_0"), Lit(2)),
              Assign(Sym("_1"), Deref("_0"))}}

(* A variable that is set to one not declared yet.                         *)
MCUndeclared ==
  {<<Assign(Sym("l"), Ref("x")), s, Show(Ref("l"))>> :
     s \in {Declare(Sym("x")), Assign(Sym("x"), Lit(2)), Mark("l")}}

MCPrograms == MCMacros \cup MCIncludes \cup MCNames \cup MCUndeclared

(* A macro with a variable of its own, named as the one passed to it.      *)
MCCapture ==
  {<<Assign(Sym("x"), Lit(3)),
     Define("f", <<Declare(Sym("x")), s, Show(Ref("_0"))>>),
     Apply("f", <<Ref("x")>>, << >>)>> :
     s \in {Assign(Sym("x"), Lit(1)), Show(Lit(5))}}

(* The statements of these programs and files, and of the bodies in them.  *)
Parts(s) == IF s.stmt \in {"macro", "use"} THEN Range(s.body) ELSE {}

Within(S) == {s : s \in S \cup UNION {Parts(t) : t \in S}}

Outermost ==
  {p[i] : p \in MCMacros, i \in 1 .. 6} \cup Including
    \cup UNION {Range(p) : p \in MCCapture \cup MCNames \cup MCUndeclared \cup Range(MCFiles)}

MCStatement == Within(Within(Within(Outermost)))
=============================================================================
