----------------------------- MODULE MCHygiene -----------------------------
(* Scopes on programs that leave alone what they pass to their macros, for *)
(* the hypothesis and the invariant of the theorem ArgumentsAsPassed: they *)
(* pass y, and declare and set it in the outermost list only.              *)
EXTENDS MCScopes, ScopesProofs

(* A macro gives its own variable a value, and then uses it or what it was *)
(* passed.                                                                 *)
Giving ==
  {Declare(Sym("w")), Assign(Sym("w"), Ref("body")), Assign(Sym("w"), Ref("_0")),
   Assign(Ref("_0"), Lit(2)), Take("vars")}

Using ==
  {Show(Ref("w")), Show(Ref("_0")), Show(Deref("_0")), Show(Ref("body")),
   Apply("g", <<Ref("y")>>, <<Show(Lit(8))>>)}

OwnMacros == {<<s, t>> : s \in Giving, t \in Using}

InOwn ==
  {<<Show(Ref("_0")), Show(Ref("body"))>>,
   <<Declare(Sym("w")), Assign(Sym("w"), Ref("_0")), Show(Ref("w"))>>}

Between == {Assign(Sym("y"), Lit(9)), Declare(Sym("y")), Take("vars")}

HygienicPrograms ==
  {<<If, Assign(Sym("y"), Lit(3)), Apply("f", <<a>>, b), m, Apply("f", <<a>>, << >>),
     Define("f", f), Define("g", g)>> :
     f \in OwnMacros, g \in InOwn, a \in {Ref("y"), Sym("w")}, b \in Blocks, m \in Between}

HygienicFiles == [vars |-> <<Assign(Sym("w"), Ref("y")), Mark("l"), Show(Ref("l"))>>]

HygienicStatement ==
  Within(Within(Within(
    {p[i] : p \in HygienicPrograms, i \in 1 .. 7} \cup Range(HygienicFiles["vars"]))))
=============================================================================
