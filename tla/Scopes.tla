------------------------------- MODULE Scopes -------------------------------
(***************************************************************************)
(* The expansion of a program's directives: the analysis (analyzer.cpp)    *)
(* that visits each statement once, opening a compilation unit with a      *)
(* scope of its own (bound_variables.cpp) for every macro used and every   *)
(* code body visited, and the compilation (compiler.cpp) that then builds  *)
(* the same tree.  Scopes are dynamic: the parent of a scope is the unit   *)
(* that visits, so that the units being visited are the chain of scopes.   *)
(* An included file is a list of statements of its own, but of the unit    *)
(* that includes it.                                                       *)
(*                                                                         *)
(* Statements are records [stmt, ...]; expressions are literals, symbols,  *)
(* interpolations #{name} ("ref") and #{#{name}} ("deref").                *)
(***************************************************************************)
EXTENDS Integers, SequencesExt, Hoisting

CONSTANTS
  Statement,    \* the statements that programs, files and bodies consist of
  Programs,     \* the programs compiled, sequences of statements
  Files,        \* the files they may include, by their paths: statements
  Builtins,     \* the names of the functions of the virtual machine
  MaxDepth      \* lists open at once before the C++ stack overflows

ASSUME DepthAssumption == MaxDepth \in Nat \ {0}
ASSUME BuiltinsAssumption == IsFiniteSet(Builtins)

(* The expressions a statement visits.                                     *)
Exprs(s) ==
  CASE s.stmt = "var" -> <<s.target>>
    [] s.stmt = "set" -> <<s.target, s.value>>
    [] s.stmt \in {"emit", "debug"} -> <<s.value>>
    [] OTHER -> << >>

(* What the parser makes: bodies are the braces of a definition and of a   *)
(* use, and no expression is a body, a label or a node.                    *)
IsExpression(e) == e.kind \in {"lit", "sym", "ref", "deref"}

(* An argument #{#{name}} is left out: each visit to it makes and visits a *)
(* variable anew, in the scope of the visitor, and deletes the one of the  *)
(* visit before, whose value may be in use.                                *)
IsArgument(e) == e.kind \in {"lit", "sym", "ref"}

ASSUME StatementsAssumption ==
  /\ \A s \in Statement :
       /\ s.stmt \in {"var", "set", "emit", "debug", "label", "macro", "use", "include"}
       /\ \A j \in DOMAIN Exprs(s) : IsExpression(Exprs(s)[j])
       /\ s.stmt = "use" =>
            IsFiniteSet(DOMAIN s.args) /\ \A j \in DOMAIN s.args : IsArgument(s.args[j])
       /\ s.stmt \in {"macro", "use"} => s.body \in Seq(Statement)
  /\ \A p \in Programs : p \in Seq(Statement)
  /\ \A f \in DOMAIN Files : Files[f] \in Seq(Statement)

VARIABLES
  units,      \* the compilation units: their bound variables and macros
  lists,      \* the statements of each AstIterator
  active,     \* the lists being visited or built, with the unit and the
              \* place in each
  bodies,     \* the AstCodeBody nodes: their statements and list, 0 before
              \* the first visit
  used,       \* the list of each use of a macro and of each include
  memo,       \* the value of each interpolation visited
  failed,     \* the units with an error in their list
  phase,      \* "analyze", "build", "done", "failed", "crash"
  out,        \* what has been built
  meant       \* what each argument meant when its macro was used: a history
              \* variable

vars == <<units, lists, active, bodies, used, memo, failed, phase, out, meant>>

tree == <<units, lists, bodies, used, memo, meant>>

-----------------------------------------------------------------------------
(* Values besides literals and symbols.                                    *)
Unset == [kind |-> "unset"]
Undeclared(n) == [kind |-> "undeclared", name |-> n]
Body(b) == [kind |-> "body", id |-> b]
Label(l, i) == [kind |-> "label", list |-> l, at |-> i]
Node(id, n) == [kind |-> "node", id |-> id, name |-> n]

(* A variable that @set has bound to a name: it is looked up at each visit,*)
(* as an interpolation without a place, which remembers nothing, would be. *)
NoPlace == << >>
Variable(n) == Node(NoPlace, n)

Missing(v) == v.kind \in {"unset", "undeclared"}

IsRef(e) == e.kind \in {"ref", "deref"}

(* A function, and what is put on top of it.                               *)
Over(f, g) == [x \in DOMAIN f \cup DOMAIN g |-> IF x \in DOMAIN f THEN f[x] ELSE g[x]]

Put(f, x, v) == [y \in DOMAIN f \cup {x} |-> IF y = x THEN v ELSE f[y]]

(* Parser::parse puts macro definitions first, and Parser::parseLabel binds*)
(* the labels of a unit before anything is visited.                        *)
Hoisted(stmts) == HoistFrom(stmts, {i \in DOMAIN stmts : stmts[i].stmt = "macro"})

Marking(stmts, n) ==
  {i \in DOMAIN stmts : stmts[i].stmt = "label" /\ stmts[i].name = n}

LabelNames(stmts) == {s.name : s \in {t \in Range(stmts) : t.stmt = "label"}}

(* Mistaken form of LabelsOf: all lists share their labels.                *)
LabelsShared(l, stmts) ==
  [n \in LabelNames(stmts) |-> Label(1, Max(Marking(Hoisted(stmts), n)))]

(* Each declaration has its own, the last one of a name is bound.          *)
LabelsOf(l, stmts) ==
  [n \in LabelNames(stmts) |-> Label(l, Max(Marking(Hoisted(stmts), n)))]

Unit(l, stmts, bound) ==
  [vars |-> Over(LabelsOf(l, stmts), bound), macros |-> << >>]

(* defineBuiltinFunction: each is bound to its place in static data.       *)
Builtin == [n \in Builtins |-> [kind |-> "data", name |-> n]]

Init ==
  /\ \E p \in Programs :
       units = <<Unit(1, p, Builtin)>> /\ lists = <<Hoisted(p)>>
  /\ active = <<[unit |-> 1, list |-> 1, at |-> 1]>>
  /\ bodies = << >> /\ used = << >> /\ memo = << >> /\ failed = {}
  /\ phase = "analyze" /\ out = << >> /\ meant = << >>

-----------------------------------------------------------------------------
Depth == Len(active)
Top == active[Depth]
Here == Top.unit
Stmts == lists[Top.list]
Stmt == Stmts[Top.at]

AtStatement(p, kinds) ==
  phase = p /\ Top.at <= Len(Stmts) /\ Stmt.stmt \in kinds

Scope(i) == units[active[i].unit]

(* Mistaken form of Lookup: the scopes around this one are not searched.   *)
LookupHere(n) ==
  IF n \in DOMAIN units[Here].vars THEN units[Here].vars[n] ELSE Undeclared(n)

(* BoundVariables::get, bubbling.                                          *)
Lookup(n) ==
  LET holders == {i \in 1 .. Depth : n \in DOMAIN Scope(i).vars}
  IN IF holders = {} THEN Undeclared(n) ELSE Scope(Max(holders)).vars[n]

(* BoundVariables::lookupMacro.                                            *)
Macros(n) == {i \in 1 .. Depth : n \in DOMAIN Scope(i).macros}

(* The interpolations that a variable in scope stands for.                 *)
Nodes ==
  {v \in UNION {{Scope(i).vars[n] : n \in DOMAIN Scope(i).vars} : i \in 1 .. Depth} :
     v.kind = "node"}

(* The values met from v on, each the value of the variable that the one   *)
(* before it interpolates: AstVariable::visit visits what it finds in the  *)
(* scope it is in, a second AstInterpolation::visit finds its own value.   *)
Links(v) ==
  LET link[k \in 0 .. Cardinality(Nodes) + 1] ==
        IF k = 0 THEN v
        ELSE LET x == link[k - 1]
             IN IF x.kind # "node" THEN x
                ELSE IF x.id \in DOMAIN memo THEN memo[x.id] ELSE Lookup(x.name)
  IN link

(* A value that is still a node stands for itself.                         *)
Resolved(v) == Links(v)[Cardinality(Nodes) + 1]

(* The interpolations met on the way, which are visited with it.           *)
Passed(v) ==
  LET links == Links(v)
      nodes == {k \in DOMAIN links : links[k].kind = "node"}
  IN {links[k].id : k \in nodes}

(* The interpolations of a statement are told apart by their place.        *)
Place(j) == <<Top.list, Top.at, j>>

Unvisited(j) == IsRef(Exprs(Stmt)[j]) /\ Place(j) \notin DOMAIN memo

(* What an expression stands for, #{#{name}} the variable its symbol names.*)
Itself(e, id) == IF IsRef(e) THEN Node(id, e.name) ELSE e

Twice(e, v) == e.kind = "deref" /\ v.kind = "sym"

Stands(e, id) ==
  LET v == Resolved(Itself(e, id))
  IN IF Twice(e, v) THEN Resolved(Lookup(v.name)) ELSE v

(* The interpolations met on the way from the symbol.                      *)
PassedAgain(e, id) ==
  LET v == Resolved(Itself(e, id))
  IN IF Twice(e, v) THEN Passed(Lookup(v.name)) ELSE {}

-----------------------------------------------------------------------------
(* The visitor goes on behind the statement, or comes back to it.          *)
Passing == [active EXCEPT ![Depth].at = @ + 1]

Advance == active' = Passing

Crash == phase' = "crash" /\ UNCHANGED <<active, failed, out, tree>>

(* A list is parsed, to be visited in the given unit.                      *)
NewList == Len(lists) + 1

Start(stmts, unit, visitor) ==
  /\ lists' = Append(lists, Hoisted(stmts))
  /\ active' = Append(visitor, [unit |-> unit, list |-> NewList, at |-> 1])

(* A unit is opened, whose scope lies within that of the visitor.          *)
Open(stmts, bound, visitor) ==
  /\ units' = Append(units, Unit(NewList, stmts, bound))
  /\ Start(stmts, Len(units) + 1, visitor)

Unopened(v) == v.kind = "body" /\ bodies[v.id].list = 0

(* AstInterpolation::visit of the j-th expression.  A code body is visited *)
(* where it is used first, and once; a node that stands for itself is      *)
(* followed without end.                                                   *)
VisitExpression(j) ==
  LET e == Exprs(Stmt)[j]
      v == Stands(e, Place(j))
      inner == Resolved(Node(Place(j), e.name))
      first == Passed(Node(Place(j), e.name))
      visited == (first \cup PassedAgain(e, Place(j))) \ {NoPlace}
  IN /\ Unvisited(j) /\ \A i \in 1 .. j - 1 : ~ Unvisited(i)
     /\ IF v.kind = "node" \/ (Unopened(v) /\ Depth = MaxDepth) THEN Crash
        ELSE /\ memo' = [id \in DOMAIN memo \cup visited |->
                           IF id \in DOMAIN memo THEN memo[id]
                           ELSE IF id = Place(j) \/ id \notin first THEN v
                           ELSE inner]
             /\ failed' = failed \cup (IF Missing(v) THEN {Here} ELSE {})
             /\ IF Unopened(v)
                  THEN /\ Open(bodies[v.id].stmts, << >>, active)
                       /\ bodies' = [bodies EXCEPT ![v.id].list = NewList]
                  ELSE UNCHANGED <<units, lists, active, bodies>>
             /\ UNCHANGED <<used, phase, out, meant>>

Visit ==
  /\ AtStatement("analyze", {"var", "set", "emit", "debug"})
  /\ \E j \in DOMAIN Exprs(Stmt) : VisitExpression(j)

Visited(kind) ==
  AtStatement("analyze", {kind}) /\ \A j \in DOMAIN Exprs(Stmt) : ~ Unvisited(j)

ValueOf(j) ==
  LET e == Exprs(Stmt)[j] IN IF IsRef(e) THEN memo[Place(j)] ELSE e

NotASymbol ==
  /\ failed' = failed \cup {Here}
  /\ Advance
  /\ UNCHANGED <<phase, out, tree>>

Bind(u, n, v) == units' = [units EXCEPT ![u].vars = Put(@, n, v)]

(* AstVarDirective::visit.                                                 *)
Var ==
  /\ Visited("var")
  /\ IF ValueOf(1).kind # "sym" THEN NotASymbol
     ELSE /\ Bind(Here, ValueOf(1).name, Unset)
          /\ Advance
          /\ UNCHANGED <<lists, bodies, used, memo, failed, phase, out, meant>>

(* Mistaken form of SetScope: the scopes in between are passed over.       *)
SetScopeGlobal(n) == IF n \in DOMAIN units[Here].vars THEN Here ELSE active[1].unit

(* The innermost scope with the variable, the global one when none has it. *)
SetScope(n) ==
  LET holders == {i \in 1 .. Depth : n \in DOMAIN Scope(i).vars}
  IN active[IF holders = {} THEN 1 ELSE Max(holders)].unit

(* A code body's clone is unvisited.  A variable without a value stands for*)
(* itself (AstVariable::getValueOf).                                       *)
Clone(v) ==
  IF v.kind = "body" THEN Body(Len(bodies) + 1)
  ELSE IF v.kind = "undeclared" THEN Variable(v.name)
  ELSE v

(* AstSetDirective::visit binds a clone.                                   *)
Set ==
  /\ Visited("set")
  /\ IF ValueOf(1).kind # "sym" THEN NotASymbol
     ELSE LET v == ValueOf(2)
          IN /\ bodies' = IF v.kind = "body"
                            THEN Append(bodies, [bodies[v.id] EXCEPT !.list = 0])
                            ELSE bodies
             /\ Bind(SetScope(ValueOf(1).name), ValueOf(1).name, Clone(v))
             /\ Advance
             /\ UNCHANGED <<lists, used, memo, failed, phase, out, meant>>

(* Mistaken form of MacroKnown: macros of scopes that were closed count.   *)
MacroKnownEver(n) == \E u \in DOMAIN units : n \in DOMAIN units[u].macros

MacroKnown(n) == Macros(n) # {}

(* AstMacroDirective::visit.  The constructor of the error for a macro that*)
(* is already defined calls itself without end (CompilerError).            *)
Macro ==
  /\ AtStatement("analyze", {"macro"})
  /\ IF MacroKnown(Stmt.name) THEN Crash
     ELSE /\ IF Stmt.body = << >>
               THEN failed' = failed \cup {Here} /\ UNCHANGED units
               ELSE /\ units' = [units EXCEPT
                                   ![Here].macros = Put(@, Stmt.name, Stmt.body)]
                    /\ UNCHANGED failed
          /\ Advance
          /\ UNCHANGED <<lists, bodies, used, memo, phase, out, meant>>

(* What the macro's scope binds: arguments, unvisited, and the body.       *)
ArgName == <<"_0", "_1">>

Argument(j) == Itself(Stmt.args[j], Place(j))

Bound ==
  [n \in {ArgName[j] : j \in DOMAIN Stmt.args} \cup {"body"} |->
     IF n = "body" THEN Body(Len(bodies) + 1)
     ELSE Argument(CHOOSE j \in DOMAIN Stmt.args : ArgName[j] = n)]

(* AstDirective::visit and AstUserDefinedDirective::visit.                 *)
Use ==
  /\ AtStatement("analyze", {"use"})
  /\ IF Macros(Stmt.name) = {}
       THEN /\ failed' = failed \cup {Here} /\ Advance
            /\ UNCHANGED <<phase, out, tree>>
     ELSE IF Depth = MaxDepth THEN Crash
     ELSE /\ Open(Scope(Max(Macros(Stmt.name))).macros[Stmt.name], Bound, Passing)
          /\ bodies' = Append(bodies, [stmts |-> Stmt.body, list |-> 0])
          /\ used' = Put(used, <<Top.list, Top.at>>, NewList)
          /\ meant' = Over([id \in {Place(j) : j \in DOMAIN Stmt.args} |->
                              Resolved(Argument(id[3]))], meant)
          /\ UNCHANGED <<memo, failed, phase, out>>

(* AstIncludeDirective::visit: the file is parsed into the unit that       *)
(* includes it, once for each include.                                     *)
Include ==
  /\ AtStatement("analyze", {"include"})
  /\ IF Stmt.path \notin DOMAIN Files
       THEN failed' = failed \cup {Here} /\ Advance /\ UNCHANGED <<phase, out, tree>>
     ELSE IF Depth = MaxDepth THEN Crash
     ELSE /\ Start(Files[Stmt.path], Here, Passing)
          /\ units' = [units EXCEPT
                         ![Here].vars = Over(LabelsOf(NewList, Files[Stmt.path]), @)]
          /\ used' = Put(used, <<Top.list, Top.at>>, NewList)
          /\ UNCHANGED <<bodies, memo, failed, phase, out, meant>>

(* Printing, placing and debugging an expression only visit it, a label    *)
(* has its own.                                                            *)
Emit ==
  /\ Visited("emit") \/ Visited("debug") \/ AtStatement("analyze", {"label"})
  /\ Advance
  /\ UNCHANGED <<failed, phase, out, tree>>

AtEnd(p) == phase = p /\ Top.at > Len(Stmts)

(* Mistaken form of Errors: the errors of a unit stay in its own list.     *)
ErrorsKept == failed

(* The errors of a unit are copied to the visitor's.                       *)
Errors ==
  IF Here \in failed THEN failed \cup {active[Depth - 1].unit} ELSE failed

(* Mistaken form of Return: the outermost unit is left as the others are.  *)
ReturnOnce ==
  /\ AtEnd("analyze")
  /\ active' = SubSeq(active, 1, Depth - 1)
  /\ UNCHANGED <<failed, phase, out, tree>>

Return ==
  /\ AtEnd("analyze") /\ Depth > 1
  /\ active' = SubSeq(active, 1, Depth - 1)
  /\ failed' = Errors
  /\ UNCHANGED <<phase, out, tree>>

HasFatalErrors == Here \in failed

(* buildSourceFile compiles when the outermost list has no errors.         *)
Analyzed ==
  /\ AtEnd("analyze") /\ Depth = 1
  /\ phase' = IF HasFatalErrors THEN "failed" ELSE "build"
  /\ active' = <<[Top EXCEPT !.at = 1]>>
  /\ UNCHANGED <<failed, out, tree>>

-----------------------------------------------------------------------------
(* Compiler::compile, which resets an iterator: a body that contains       *)
(* itself is built without end.                                            *)
Building(l) == \E i \in 1 .. Depth : active[i].list = l

BuildList(l) ==
  IF Building(l) \/ Depth = MaxDepth THEN Crash
  ELSE /\ active' = Append(Passing, [unit |-> Here, list |-> l, at |-> 1])
       /\ UNCHANGED <<failed, phase, out, tree>>

Built == LET e == Stmt.value IN IF IsRef(e) THEN memo[Place(1)] ELSE e

BuildEmit ==
  /\ AtStatement("build", {"emit"})
  /\ IF Built.kind = "body" THEN BuildList(bodies[Built.id].list)
     ELSE /\ out' = Append(out, Built)
          /\ Advance
          /\ UNCHANGED <<failed, phase, tree>>

(* AstUserDefinedDirective::build, AstIncludeDirective::build.             *)
BuildUse ==
  /\ AtStatement("build", {"use", "include"})
  /\ BuildList(used[<<Top.list, Top.at>>])

(* AstLabelDecl::build marks the place.                                    *)
BuildLabel ==
  /\ AtStatement("build", {"label"})
  /\ out' = Append(out, [kind |-> "marker", list |-> Top.list, at |-> Top.at])
  /\ Advance
  /\ UNCHANGED <<failed, phase, tree>>

BuildNothing ==
  /\ AtStatement("build", {"var", "set", "macro", "debug"})
  /\ Advance
  /\ UNCHANGED <<failed, phase, out, tree>>

BuildReturn ==
  /\ AtEnd("build")
  /\ IF Depth = 1
       THEN phase' = "done" /\ UNCHANGED active
       ELSE active' = SubSeq(active, 1, Depth - 1) /\ UNCHANGED phase
  /\ UNCHANGED <<failed, out, tree>>

Next ==
  \/ Visit \/ Var \/ Set \/ Macro \/ Use \/ Include \/ Emit \/ Return \/ Analyzed
  \/ BuildEmit \/ BuildUse \/ BuildLabel \/ BuildNothing \/ BuildReturn

(* The compiler is one thread and runs until it stops.                     *)
Spec == Init /\ [][Next]_vars /\ WF_vars(Next)

-----------------------------------------------------------------------------
TypeOK ==
  /\ phase \in {"analyze", "build", "done", "failed", "crash"}
  /\ Depth \in 1 .. MaxDepth
  /\ \A i \in 1 .. Depth :
       /\ active[i].unit \in DOMAIN units
       /\ active[i].at \in 1 .. Len(lists[active[i].list]) + 1
  /\ failed \subseteq DOMAIN units
  /\ \A b \in DOMAIN bodies : bodies[b].list \in 0 .. Len(lists)

(* The assertions of the build hold: whatever is built was visited and has *)
(* a value, for the errors of every unit reach the one that decides        *)
(* whether to build (AstVariable, AstCodeBody, AstUserDefinedDirective and *)
(* AstIncludeDirective assert so).                                         *)
BuildReady ==
  /\ AtStatement("build", {"emit"}) =>
       /\ IsRef(Stmt.value) => Place(1) \in DOMAIN memo
       /\ ~ Missing(Built)
       /\ Built.kind = "body" => bodies[Built.id].list # 0
  /\ AtStatement("build", {"use", "include"}) => <<Top.list, Top.at>> \in DOMAIN used

(* A comment on the scope of a macro says "_0 is m_arguments[0]": wherever *)
(* a macro uses its arguments, they have the values they had where the     *)
(* macro was used.                                                         *)
ArgumentsMeant ==
  \A id \in DOMAIN memo \cap DOMAIN meant : memo[id] = meant[id]

(* A variable that is set has a clone of the value, as seen from the very  *)
(* scope, so that @set binds where a lookup will find it.                  *)
SetSeen ==
  [][ \A n \in UNION {DOMAIN units[u].vars : u \in DOMAIN units}' :
        Set /\ ValueOf(1) = [kind |-> "sym", name |-> n] =>
          Lookup(n)' = Clone(ValueOf(2)) ]_vars

(* Every label that the code refers to is at one place in it: expansions   *)
(* of one macro have labels of their own, a code body that is visited      *)
(* several times is built with the labels of the visit its code is from.   *)
Marks(l) == {i \in DOMAIN out : out[i] = [l EXCEPT !.kind = "marker"]}

LabelsPlaced ==
  phase = "done" =>
    \A i \in DOMAIN out : out[i].kind = "label" => Cardinality(Marks(out[i])) = 1

(* Every expansion comes to an end, with a file or with errors.            *)
Finishes == <>(phase \in {"done", "failed"})
=============================================================================
