# Verification of bixbyte-lang

bixbyte-lang is an assembler-like language (`.bb8`).  The compiler `bcparse`
(C++, `src/src/bcparse`) expands the directives of a program and writes
bytecode (`.bin`); the virtual machine `vm` (C, `src/src/vm`) executes it, with
reference counts for raw data and a mark-and-sweep heap for objects.  The
repository has no README and no tests: what the code promises is in its
comments, its assertions and the library of the language, `src/lib/*.bb8`.

This directory holds TLA+ modules translated from that code, the
configurations that check them with TLC, and proofs that TLAPS checks.
`PROJECT.json` lists for each definition the lines it stands for.

    tlc -config MCScopes.cfg MCScopes        # one run
    tlapm ScopesProofs.tla                   # the proofs of one component

## 1. The system

Both programs are sequential.  `main` of the VM starts a thread for the
interpreter and joins it before it starts the collector's, whose function is
empty.  What is hard is therefore not concurrency but order and sharing: calls
that re-enter themselves, nodes of a tree that several places share, operands
of one instruction that live in the same register, references that two slots
hold, addresses written into a stream before they are known.

| Component | State | Operations | Right when |
|---|---|---|---|
| Lexer (`lexer.cpp`, `source_stream.cpp`) | position in the source, tokens | `nextToken` and one reader per class | every character is in one token or one error |
| Parser (`parser.cpp`, `token_stream.cpp`) | position in the tokens, statements | one method per form | each statement is parsed or reported; it stops at the end |
| Scopes, variables, macros, `@include` (`bound_variables.cpp`, `ast/directives/*`, `ast_code_body.cpp`, `ast_interpolation.cpp`, `ast_variable.cpp`) | a chain of scopes, a compilation unit for each use of a macro and each body, what each interpolation found | `@var`, `@set`, `@macro`, uses, `#{...}`, then the build of the same tree | names mean what the scopes say; nothing is built that has no value; the expansion ends |
| Encoding (`emit/op_*.cpp`, `bytecode_stream.hpp`, `obj_loc.*`) | the bytes of the stream | one `accept` per instruction | the interpreter reads each instruction as wide as it was written |
| Include, driver (`main.cpp`, `ast_include_directive.cpp`, `error_list.cpp`) | the stages of a file, the errors | `buildSourceFile` | a file is written only when there is no error |
| Code generation (`ast/ast_*_statement.cpp`, `ast_data_location.cpp`, literals, `register_usage.hpp`, `relative_stack_offset.hpp`) | register usage, stack shift | `build` of each statement | the instructions leave the values the statement means |
| Labels, static data, emission (`ast_label*.cpp`, `emit/*`) | `m_values`, the stream, two maps of labels | visit, build, emit | a label's slot holds its address and no instruction is damaged |
| Interpreter (`interpreter.c`) | program counter, flags, registers, stack, static data | one case per opcode | it stays at the beginning of an instruction, and computes and jumps as the program says |
| Values and reference counts (`value.c`, `runtime.c`, builtins of `vm.c`) | slots, counts, allocated blocks | copy, destroy, claim, release | no slot refers to a freed block, nothing is freed twice |
| Reference-count table (`rc.c`) | open addressing, doubling | put, get, remove, rehash | it is a counter |
| Object members (`object.c`) | the same table | put, get | it is a dictionary |
| Heap (`heap.c`, `datatable.c`) | doubly linked list, marks | alloc, mark, sweep, destroy | what the stack held stays, the rest is freed once |

They interact as follows.  The parser binds the labels of a unit and puts its
macro definitions first; the analyzer visits each statement, which opens
further units, each with a parser and an analyzer of its own; the compiler
builds the tree it leaves and the emitter walks the chunks, with the static data
in front.  The VM loads static data by executing those first instructions.
Every load, move, push, pop and call goes through `value.c`, which claims and
releases through `runtime.c`, which keeps its counts in the table of `rc.c`.

### Hazards

`PROJECT.json` lists them at their lines.  In short:

* *re-entrance*: `rcmap_put` rehashes, rehash puts, that put may rehash again;
  holes left by removals lie in front of other keys of the chain;
* *sharing without a claim*: `mov` and `setObjectMember` leave two references
  with one claim; `value_copyValue` destroys before it claims; calls store over
  a register without destroying it;
* *newlines*: the lexer puts them in and leaves them out, the parser skips to them
  after an error, and both must agree on what a statement is;
* *a token that is missing*: an operand or a brace, and what is dropped with it, in
  silence or not; every loop must take something, whatever the text holds;
* *widths*: a field of an instruction, a count, an int that holds a difference;
* *operands that share a register or a moving stack*: a literal takes a register
  that another operand may live in, the arguments of a call raise the stack that
  locations are relative to;
* *addresses before they are known*: labels write into a stream already emitted;
* *stages*: an error in a nested unit or in an included file must reach the decision
  to build, and nothing may be built that was not visited;
* *dynamic scope and memoization*: arguments are bound unvisited and found late,
  bodies belong to the scope that used them first, errors have to travel outward;
* *the end*: expansions, rehashes and the loops of the reader must come to an end.

## 2. Plan

In this order; the first ten are done but for what is said there.

1. `ChainTable`, `RcMap`, `ObjectMap` with the abstractions `RefCounts`, `Members`.
2. `SlotMemory`, over `RefCounts`, and its proofs.
3. `Codegen`: statements to instructions to values.
4. `Labels`, with the abstraction `Flow`.
5. `Heap`.
6. `Scopes`.
7. `Lexer` and `Parser`: from characters to statements, with the units that bodies
   and interpolations hold.
8. In `Scopes`: the stages of the driver, files that include each other, builtins,
   `@debug`.
9. `Encoding`, and `Codegen` over it: instructions are emitted as bytes and read back;
   all operators on integers, and `print`.
10. Proofs: the hash tables for every hash, with both refinements; the list of the heap for
    every number of nodes; reference counts, and what a careful program loses; the reader for
    every text; the expansion of every program, and of careful ones what their macros are passed;
    the emission of labels with the refinement of
    `Flow`; the code of each statement, from its bytes to the values it leaves.  Done.
11. Doubles, the coercions between them, unsigned and boolean constants.

The abstract specifications worth stating: the counter and the dictionary behind
the hash tables, the flow of control behind the bytecode (all three stated and
checked), and the meaning of a statement behind its instructions (stated in
`Codegen` with history variables).

## 3. The modules

**`ChainTable`** is the hash table that `rc.c` and `object.c` both write out.
State: `tableSize`, `data`, `size` as in the code, and `calls`, the activations
of put, since put and rehash call each other.  An activation holds the pair it
stores and the table its rehash is emptying.  Steps: `Put` (a call begins),
`Grow` (no slot: rehash allocates a table twice the size), `Reinsert` (rehash
puts back its next entry, a nested call), `Store` (a slot is found, the call
returns), `Change` and `Remove`.  **`RcMap`** adds the callers in `runtime.c`: `ClaimKnown`,
`ClaimMissing`, `Release`.  **`ObjectMap`** adds
`object_put`, which stores over a key that is there and counts it again.
`object_remove` is called by nothing and is left out.  **`RefCounts`** is a count
for each address, **`Members`** a value for each key.

**`SlotMemory`**: static data, stack, registers and members of objects are slots;
a slot holds a reference to a counted block or a plain value.  One action per
instruction or builtin that changes slots (`LoadConst`, `LoadNull`, `LoadData`,
`Mov`, `AdjustSp`, `PushConst`, `PushData`, `PushCopy`, `Pop`, `CallPlain`,
`CallFresh`, `CallGetMember`, `CallSetMember`), written with `value_destroy`
(`CountLess`, `MemLess`), `value_copyValue` (`CopyValue`) and their like.  Since
the code lets two references share one claim, the history variable `loan` marks
a slot that came by its reference without a claim, and the constant `Program`
says which of five dangerous uses the program makes.  With
`Program = {"overwrite"}` a program may store over claimed references (every
call does that to register 0) but destroys no copy on loan.

**`Lexer`** cuts a text into tokens: `text`, `pos` and `line` are the source stream,
`tokens` its result, `failed` whether an error was reported.  A text is a sequence of
characters, in which a word that the program tells from others is one letter.  There
is an operator for each reader (`StringAt` is `readStringLiteral`, `NumberAt`,
`CommentAt`, `InterpolationAt` and so on), an action for each test of `nextToken`
(`ReadString` ... `ReadUnknown`), and one step is one turn of the loop of `analyze`:
the token, the space behind it, and the newline that is put behind the token unless `{`
or `.` follows.

**`Parser`** goes on with the tokens (`at`, `stmts`).  One step is one call of
`parseStatement`: `ParseDirective`, `ParseLabel`, `ParseCommand`, `ParsePop`, `ParseList`,
`ParseWord`, `ParseExpression`, `ParseEnd`, each with the operands it misses and
`expectEndOfStmt`; a statement that is not finished ends the unit (`Stop`).  A unit that
is parsed may be entered: `OpenBody` parses the tokens between braces, `OpenInterpolation`
begins a lexer on what an interpolation holds and a parser in variable mode, whose
lexer's errors are lost (`parser.cpp:578`).  `phase` says whether the unit is
being cut, parsed or finished.

**`Hoisting`** is the order in which `Parser::parse` leaves its statements, macro
definitions first.  `Parser` and `Scopes` both use it.

**`Encoding`** has no state.  `EncodeLoad` ... `EncodePrint` are the `accept` methods,
`Location` is `acceptObjLoc`, a number is cut to the width of its field; `Read`,
`Opcode`, `Flags`, `StoreOf`, `IsAbsolute`, `Distance` and `Size` are the reading side in
`interpreter.c` and `obj_loc.c`.  The numbers of the opcodes are written down twice, as
in the code.  `Power` is the power of two naturals as a recursive function, of which the
provers know more than of the operator of `Naturals`.

**`Codegen`**: one statement at a time: `Build` gives the instructions the AST class
builds, `Begin` emits their bytes into `code`, and `OpLoad` ... `OpCall` read them
from there and execute them.  `store` holds registers, static data and stack; it
begins with zeros that the program has stored.  Numbers have `LongBytes` bytes, and the
difference of `cmp` passes through `IntBits`, as does a number that is printed.  `OpBinary`
is every operator on integers; `Defined` leaves out what C leaves undefined, a division
by zero among it, which traps.  `Builds` leaves out `or`, on which the compiler ends.
`meant` and `compared` are history variables: what the statement means in the
state it began in.  The constant `Statement` holds what the parser can make of a line;
`Disjoint` says of a statement that the code of one operand leaves the others alone.

**`Labels`**: five phases of one program: visit, build, the loads of static data,
emission with the labels writing their addresses, execution.  The stream is a
sequence of cells, one a byte, each with the instruction it is a byte of; an
address written at the wrong place therefore shows as an instruction that no
longer is whole.  `ProgramsAssumption` says of a program that a jump finds the label it names, declared once.
**`Flow`** says what labels and jumps mean.

**`Heap`**: the list of `heap.c` with its head, links and size, the mark from the
stack, which empties it, the sweep from the newest node on, and the destruction.  The
program ends with `Halt`, which is `exit(0)` in the interpreter's thread and leaves all as it is;
the emitter ends every file with an `OP_HALT` (`emitter.cpp:15`).  `main` collects and destroys (`Exit`) only
after a file whose bytes end without one.

**`Scopes`**: `units` are the compilation units with their variables and macros,
`lists` the statements each iterator holds: a unit has one list of its own and one
more for each file it includes, for `@include` parses into the unit it stands in.  `active`
is the stack of the lists being visited, with their units, which is the chain of
scopes, as the parent of a scope is its visitor's.  `memo` is what an
interpolation found when it was visited, those included that a visit meets on its way, also on the second
way of `#{#{name}}`, from the symbol on; `bodies` are the `AstCodeBody` nodes,
with the list of the first visit; `used` is the list of each use of a macro and of each
include.  `Visit` visits one expression and may open a body; `Var`, `Set`, `Macro`,
`Use`, `Include`, `Emit` (which is `@debug` and a label too) visit a statement; `Return`
leaves a list and copies its errors; `Analyzed` is the decision of `buildSourceFile`;
the `Build...` actions are the second walk.  A label is known by its list and place,
so that two expansions of one macro have labels of their own.  Recursion without end is
the phase `"crash"`: an interpolation that finds itself, as a variable does that `@set x #{x}` has bound while
`x` was undeclared (`Clone`, `Variable`), a macro defined twice (the
error's constructor calls itself), more than `MaxDepth` lists open.  The constant
`Statement` is the set of statements that programs, files and bodies are made of, whatever
they are; `StatementsAssumption` says what the parser makes of each.

The proofs are in modules named after the component's, and what several of them need is
in **`Induction`** (naturals, sequences, recursive functions); **`TableProofs`** has both tables.

## 4. What the runs check

| Run | Instance | Shows |
|---|---|---|
| `rcmap` | 5 addresses, tables of 2 to 32 slots, chains of 2 | entries lie in their chains (`InChain`), none is twice anywhere, not even during nested rehashes (`Distinct`), `size` is exact, the table implements `RefCounts` (`CounterRefined`), every put returns |
| `objects` | 3 keys, 2 values, tables to 32 | as a dictionary (`MembersKept`), half unused although `size` counts overwrites (`HalfUnused`) |
| `slots` | 4 stack slots, 1 register, 1 static slot, 1 member, 2 blocks | references are backed by claims of their own (`RefsBacked`), what is counted is what is allocated, nothing dangles, and a claim is lost only where an instruction stores over the reference that made it (`LostOnlyByStoring`) |
| `codegen` | 2 registers, 1 static slot, stack of 4, 3 statements, locations and numbers of 2 bytes, int of 9 bits | operands mean what they meant before the statement's own literals were loaded (`ResultMeant`), arguments arrive in order and the stack is restored (`ArgumentsMeant`), the function called is the one named and a jump goes where its label is (`CalleeMeant`), arguments are printed in order (`PrintsMeant`), instructions are read as wide as they were written (`InStep`), jumps follow the last cmp (`JumpsAsCompared`) |
| `labels` | all programs of up to 5 statements with 1 label and 2 strings | the interpreter meets whole instructions (`Decodes`), slots of labels hold addresses (`StaticMeant`), labels find their own load (`OffsetsByLabel`), the bytecode implements `Flow` (`FlowKept`) |
| `heap` | 4 nodes, stack of 3 | the list is linked both ways (`WellLinked`), complete, and as long as `size` says (`AllReached`), a sweep keeps what the stack held and clears the marks (`Collected`) |
| `scopes` | 1602 programs of two macros of up to two and four statements, three bodies and `@if` of the library; all programs of up to three of eleven statements that include two files or a missing one; a macro that is passed the name of its other argument, and a variable set to one that is not declared | what is built was visited and has a value (`BuildReady`), arguments mean what they meant (`ArgumentsMeant`), labels are placed once (`LabelsPlaced`), `@set` binds where lookups find it (`SetSeen`), the expansion ends (`Finishes`) |
| `reader` | files of two of the lines of `MCParser`, or three of seven of them, with blank lines and comments between | messages name the right line (`Located`), a line is a statement (`LinesAreStatements`), nothing is dropped without an error (`NothingDropped`), directives and interpolations end at their own brace (`BracesMatch`), reading resumes at a line (`Resumes`) and ends (`Ends`) |

Each property also has a mutant, a mistaken form of one mapped definition (a
dropped guard, a wrong order, a missing reset) under which TLC finds it violated.

### Where the code does otherwise

| Run | Property | The program |
|---|---|---|
| `slot_mov` | `NoDangling` | a reference is moved, then the copy is destroyed: the block is freed under the original |
| `codegen_while` | `JumpsAsCompared` | `@while $r[1]` of `lib/while.bb8`: the literal 0 is loaded into `$r[1]` and 0 is compared with 0 |
| `labels_two` | `OffsetsByLabel` | a second label: both write over the first load of the stream, as offsets are kept by position and looked up by id |
| `scopes_arguments` | `ArgumentsMeant` | a macro declares a variable named as the one passed to it and captures it |

The runs that pass are over programs without these uses, and where they leave a
program out the MC module says so (`Disjoint` in `Codegen`, one label in
`MCLabels.cfg`, `FBodies` and `MCIncludes` in `MCScopes`).  Met while modelling, and without a run:

* `setObjectMember` claims once for the member and its result (`vm.c:287`); destroying
  register 0 frees the member's block.  It is the use `"member"` of `SlotMemory`.
* `jge` tests both flag bits at once (`interpreter.c:227`), which no comparison sets;
  it never jumps.  `Taken` in `Codegen` has it as it is.
* `cmp` stores a 64-bit difference in an `int` (`interpreter.c:186`); `JumpsAsCompared`
  is about differences that fit.
* An argument forwarded to another macro as `#{_0}` is bound to `_0` and finds itself:
  the compiler overflows its stack.  So does the definition of a macro that an
  enclosing scope defines, because `CompilerError::makeMessage` calls itself for a
  `std::string`; a nested `@if` of `lib/if.bb8` defines `@else` twice.  Both are
  `Crash` in `Scopes`, and both were seen with the built compiler.
* A file that defines a macro cannot be included twice in scopes that see each other,
  for the same reason.
* `call $l[-1] "hello"`: the argument is pushed first, and is what gets called
  (`ast_call_statement.cpp:52`); `Disjoint` leaves it out.
* The operator `or`: `ast_binop_statement.cpp:80` takes the fourth letter of every name on,
  and the compiler ends with `std::out_of_range`.
* A jump to a bare symbol has the location -1 of a storage -1, which decodes as
  `$r[1]` (`ast_jmp_statement.cpp:26`); only `#{name}` jumps to a label.
* A parenthesis or a bracket where an operand is wanted ends the unit, and the rest of the
  file with it, without an error (`parser.cpp:230`); `NothingDropped` names it.
* A backslash in a string, and `0x`, take the character that follows whatever it is.  When it is
  the end of the line, that line is not counted: `Swallows` in `Parser`.
* Errors of the lexer within an interpolation are dropped with its unit (`parser.cpp:578`).
* `print` shows an integer of 64 bits with `%d`.
* A body placed twice has one set of labels; their markers take the second place.
* `@if` of `lib/if.bb8` falls through into its else body.

### Bounds

* `rcmap`: the hashes are chosen so that a chain wraps around the end of a table of
  8 and a rehash of it begins another rehash.  Chains of 2 instead of 8 and an
  initial table of 2 instead of 256 (8 for the members of an object) make the same cases with fewer keys.  A count
  goes to 2, enough to tell the last release from the others.
* `slots`: `setObjectMember` needs three arguments on the stack, so it has four slots;
  two blocks and a count of 2 give two holders of one block while another is freed.
* `codegen`: three statements are a cmp, something in between and a jump.  The literals 1
  and 200 make sums, products and differences that fit in an int of nine bits and such
  that do not; two bytes hold every location used, static data at 128 among them.
* `labels`: five statements hold a loop with a conditional jump and a print before and
  after; the two strings are shorter and longer than a label's number.
* `heap`: with four nodes a sweep removes head, middle, neighbours and tail.
* `scopes`: eight lists are open at most; `MaxDepth = 12` is never reached in
  these programs.  It stands for the C++ stack.  Three statements hold an include, something
  that changes what it means, and a use of what it left.
* `reader`: what a line leaves behind reaches the next line, and a brace the line after; the
  lines are one for each rule of the lexer and the parser, right and wrong.
* Deadlock is checked except where the system stops: `objects` at its largest table,
  `codegen` after its last statement, `scopes` when the compiler exits, `reader` when
  nothing is left to open.

### Fairness

`RcMap` and `ObjectMap`: `WF` of `Running`, since a put is a C call that runs to its
end.  `Scopes` and `Parser`: `WF` of
`Next`, since the compiler is one thread, and its loops have no exit but their end.  No other module has a liveness property.

## 5. What is proved

Each theorem is about every value of the constants that meets the assumptions named in the
modules, which TLC evaluates on every run.  No safety property below is inductive as it stands;
the inductive invariant, and what it adds, is said for each component.  TLC finds the
invariants of the heap, the reader, the expansion and the labels (`HeapProofs!IInv`, `Reader`, `Expanding`,
`LabelsProofs!IInv`) true of the instances of their runs too, and that of the arguments (`PassedUnchanged`)
of 900 programs that its hypothesis is about (`tlc -config MCHygiene.cfg MCHygiene`: `y` is passed to two macros,
once or twice, with three bodies, `@if` of the library and an included file).

**The hash tables** (`TableProofs`), for any keys, any
hash, any initial size and any bound of the chains (`HashAssumption`, `SizeAssumption`,
`NoneAssumption`; `CountAssumption` for the counter).

* the counts, `Spec`: `TypeCorrect` (`Spec => []TypeOK`), `AlwaysInChain` (`[]InChain`), `NeverTwice`
  (`[]Distinct`), `SizeAlwaysExact` (`[]SizeExact`), `CounterImplemented` (`CounterRefined`: the
  table implements `RefCounts`).
* the members of an object, `MemberSpec`: `HalfAlwaysUnused` (`[]HalfUnused`), `MembersImplemented` (`MembersKept`: the
  table implements `Members`).

A pair may be in a slot, in an activation of put that has yet to store it, or in the part of an old
table that a rehash has yet to move; `Spot` enumerates these places.  `Apart` says that no two
places hold one key, and this is what makes the abstract value of a key well defined
in the middle of nested rehashes: `RunningKeepsValues` shows that no step of a put or a rehash
changes it, and so each step maps to one of the abstract specification or to a stutter.  The counter
needs `InChain` besides, since removals leave holes in chains; an object has no removals
but overwrites, and needs `NoHoles` instead: the first slot that fits a key is the key's own
if it has one (`OwnSlot`).  `HalfUnused` needs that `size`, which counts overwrites again, never
falls short of the slots used (`Enough`).

**Reference counts** (`SlotMemoryProofs`), for any numbers of slots and blocks and any `MaxCount`,
under the assumptions of `SlotMemory` (finitely many slots, register 0 is not a member, a plain
value is no block) and `Careful == Program \subseteq {"overwrite"}`, the programs of the run:

* `TypeCorrect` (`[]TypeOK`), `CountsSound` (`[](RefsBacked /\ CountedAllocated)`),
  `CountedMeansAllocated` (`[]CountedAllocated`), `NeverDangling` (`[]NoDangling`);
* `LossesStored`: `LostOnlyByStoring`, an action property.

`NoDangling` is not inductive: that a slot refers to an allocated block says
nothing of the counts, and a release elsewhere could free it.  The inductive invariant is
`IInv == TypeOK /\ RefsBacked /\ CountedAllocated`: a block has at least as many claims
as slots that own a reference to it, and it is allocated exactly while it has one.
Instructions destroy a slot and then store into it, so the proof has a lemma for
each half: `DestroyBacked` (destroying an owner leaves the other owners backed, as
one holder and one claim go together) and `PutBacked` (a store claims what it puts).
`PushCopyStep` uses that the block pushed is not the one whose last claim lies just
above the stack, which is the order in `value_copyValue`; `PopStep` counts the
holders popped; `SetMemberStep` has one claim for two slots, of which one is on loan.
For `LossesStored` the same halves are counted exactly (`DestroyExact`, `PutExact`, `PopExact`):
the claims without an owner stay as many as they were.
Without `Careful` the theorems are false: that is `slot_mov`.

**The heap** (`HeapProofs`), for any finite set of nodes and any stack: `ListWellLinked`
(`[]WellLinked`), `CollectedExactly` (`[]Collected`), `NothingLost` (`[]AllReached`).  What the links say
locally does not survive the removal of a node by itself: the neighbours of a neighbour matter.
The invariant (`Listed`) therefore asks for a rank of each node, rising with age of allocation, such that
`prev` is the next lower rank (`Ordered`) and `next` its mirror image (`Mirrored`); a node that is
added gets the highest rank (`AddNewest`), a node that is taken out leaves all other ranks as they
are (`TakeOut`), and only its neighbours need a look.  `SweptTo` says how far the sweep has come in that order.
`NothingLost` then counts down the ranks from the head.

**The reader** (`ParserProofs`), for every set of files over any letters (`LettersAssumption`,
`CharactersAssumption`, `TextsAssumption`): `LinesNamed` (`[]Located`), `StatementsAreLines`
(`[]LinesAreStatements`), `NothingLeftOut` (`[]NothingDropped`), `BracesAlwaysMatch`
(`[]BracesMatch`), `AlwaysResumes` (`Resumes`).  Each reader of the lexer leaves what is `Sound`: its
place, the lines it has counted, no newline in an interpolation.  A turn of the lexer's loop keeps the tokens
`InStep` with the lines: lines never fall, and two tokens in a row are on one line unless one of them is a newline
or the second goes on with a statement.  From there the parser keeps statements `Proper` and apart, and between two of them
(`Midway`) it stands at the beginning of a line with everything before it in some statement
or reported.  A unit that is opened begins with tokens that are in step as well (`Inside`), so
that the invariant, `Reader`, holds at any depth of bodies and interpolations.

**The expansion** (`ScopesProofs`), for every program and every set of files made of any statements
(`StatementsAssumption`), any finite set of builtins and any `MaxDepth`: `TypeCorrect` (`[]TypeOK`),
`BuiltIsReady` (`[]BuildReady`), `SetIsSeen` (`SetSeen`, an action property), and `ArgumentsAsPassed`, of which below.  `BuildReady` is about the
build, and nothing of it holds while the analysis goes on: what an error leaves without a value stays so
until the end.  The invariant, `Expanding`, is:

* `Shape`: units, lists, bodies, visitors and what they refer to exist; no interpolation stands
  for a body that was never visited;
* `Progress`: while no unit being visited has an error, every interpolation has a value and
  every statement behind the visitors is ready to be built.  A list that is left, with an error,
  passes it to the unit below (`ReturnKeeps`), so that the condition cannot become true again for a
  tree that lacks something;
* `Complete`: once the build has begun, all statements of all lists are ready.

`AnalyzedKeeps` goes from the second to the third: the outermost list is at its end and its unit has no error,
and so everything is behind.  For `SetIsSeen`, the innermost scope with the name after the step is
the one it was bound in, also when one unit holds several lists of the chain, as a file's and its includer's are.

`ArgumentsAsPassed` (`[](failed = {} => ArgumentsMeant)`) has a hypothesis, `Hygienic`, about the statements: the variables that
some argument interpolates are declared and set in the outermost list only, not in a macro, a body or a file; none
is a label of an inner list, the name of a parameter or `body`; and none is itself a value, a symbol through which
an inner list could declare or set it after all.  `if` of the library, used with a variable of the program, is such
a case.  Without the hypothesis the statement is false (`scopes_arguments`).  It is about programs without an error so far, since
`@set` may otherwise have bound a variable that is not declared, which is looked up wherever it is met; and about the
arguments of `IsArgument`, to which `#{#{name}}` does not belong: its symbol is looked up by whoever visits it, and a macro with a
variable of that name captures it however the program passes it.  It says less than the run `scopes`, whose macros also hand their own variables on to others,
and which the theorem leaves out, as it does `#{_0}` handed on.

What makes it hard is that an argument is bound unvisited: it is a node that the macro, or any body or macro used
within it, may be the first to visit, each in its own scope, and what the first finds is kept.  The invariant,
`Steady` (`PassedNotTouched`, `[]PassedUnchanged`), is:

* `Outside`, `Unnamed`: the outermost unit alone holds the variables passed, and no value in any scope is such a
  name, so that a lookup finds the same variable from everywhere (`GlobalFound`);
* `Inside`: what is still to be visited below, in lists, bodies and macros, keeps to the hypothesis;
* `Holding`: every node in scope is the argument of a use, has a meaning, and until it is visited the meaning is
  what the variable has now.  While a node is in scope a list other than the outermost is being visited, which is why
  the variable cannot be set in between (`ReplacedSteady`);
* `Remembered`: what was visited has a value that is no node.

A node therefore resolves in one step, and an expression whose variable is an argument in two (`OneLink`, `TwoLinks`,
`VisitedMeans`), whatever the number of nodes that bounds the chain.

**Labels** (`LabelsProofs`), for programs of any length over any labels, strings and lengths of strings
(`LengthAssumption`, `OffsetAssumption`, `KindsAssumption`, `ProgramsAssumption`), with two hypotheses:
`OneLabel`, that no program has a second label, and `FewValues`, that it needs no more static slots than
`StaticOffset` (128).  Both are needed.  The emitter keeps the offsets of loads by place and looks them up by slot
number, finds nothing, and takes 0, the offset of the first load, which is right for one label only, as labels are
visited before strings are built (`labels_two` has two); and a place beyond 128 would be found in the map of
another.

* `InstructionsWhole` (`[]Decodes`), `LabelsFindLoads` (`[]OffsetsByLabel`), `StaticLoaded` (`[]StaticMeant`);
* `FlowImplemented`: `FlowKept`, the refinement of `Flow`, whose state is the statement that `pc` stands at.

The invariant has a formula for each phase (`Visiting`, `Building`, `Storing`, `Emitting`, `Executing`) and
`Placed`, by which places in static data and values are one to one.  `Written` is the heart of it: a load for each
value, an instruction for each statement emitted, each at the sum of the sizes before it (`ValueAt`,
`StatementAt`), and the load of the label holds the address once the label has come by, the placeholder until
then.  A label's write changes the bytes of that load and no others, since pieces laid one behind another do not
overlap (`LaidApart`).  The interpreter is then at the beginning of some load with the ones before it done (`AtValue`), or of some
statement with all of them done (`AtStatement`).

**Code generation** (`CodegenProofs`), for any registers, static slots, size of the stack and widths of fields
in which addresses and literals fit (`StorageAssumption`, `AddressAssumption`, `LiteralAssumption`), and
statements with any number of operands (`StatementsAssumption`):

* `InterpreterInStep` (`[]InStep`), for every program whatever;
* under `AllDisjoint`, that every statement is `Disjoint`: `ExecutionTyped` (`[]TypeOK`), `ResultsKept`
  (`[]ResultMeant`), `PrintsKept` (`[]PrintsMeant`), `CalleeKept` (`[]CalleeMeant`);
* with `CountsFit` as well, that a call has fewer arguments than the two bytes of a pop can count:
  `ArgumentsKept` (`[]ArgumentsMeant`);
* with `NoJge` as well: `JumpsFollow` (`[]JumpsAsCompared`).

`codegen_while` and `call $l[-1] "hello"` show what becomes of a program that is not disjoint; the stack of the VM
is large enough for more arguments than a pop can take off; and `jge` is the mode that never jumps.

The proof has three layers.  What is emitted is read as it was written: `EncodeAll` is taken apart from the left,
although it is defined from the right, and a field, a location and an opcode are decoded to what was encoded when it
fits.  Then bytes can be forgotten, and a step does to the storages what the first of the instructions
that are left says (`Does`).  Last, `Staged` says for each kind of statement how far its execution is: the operands
that were loaded hold their values where the instruction will look for them and no store since has changed a
register that a later operand reads (`Simple`), the arguments printed, or pushed, are the ones meant, and the stack has risen by
as many (`Printing`, `Calling`).  The flags belong to the last cmp except while another is under way (`Signed`).
The invariant asks for a sequence of instructions whose bytes are in `code`, and so it is not
one that TLC can evaluate.

The library's induction theorems take operators as parameters, which the provers cannot instantiate.  `LeastNatural`,
`SetInduction` (in `Induction`) and `FirstPlace` (in `ParserProofs`) say the same of a set, and the
recursive functions of the model are reasoned about with them (`Chosen`, `Links`, what a list reaches).

Model-checked only:

* liveness, which is out of the prover's reach: `PutReturns`, `Finishes`, `Ends`;
* `LabelsPlaced` of `Scopes`: it is true of the programs of the run, not of every program (a body placed twice is
  one for which it is not), and it counts places in what is built; and `ArgumentsMeant` of programs that are not `Hygienic`.

## 6. What is not modelled

* Doubles, their operators and the coercions; unsigned and boolean constants; string
  literals among the operands (their place in static data is in `Labels`).
* Columns, the values of numbers, UTF-8 and the wording of messages.
* The command line, paths and the output file.  A path is a name in `Scopes`.
* `$sp` as an operand of `add` and `sub` in `Codegen`; `SlotMemory` has it (`AdjustSp`).
* `object_remove`, `value_getID`, `OP_JIT`, the C generator, `runtime_throwException`: nothing
  calls them or they are empty.
* `datatable_markTable` treats any value of an odd type as a heap node (`metadata & 1`);
  `Heap` puts objects and values of even types on the stack only, since the rest
  is undefined behaviour.
* The end of the process: `runtime_destroy` frees the counter before the table it
  counts, `datatable_destroy` frees the array of lengths that it goes on to read.
* Pops of more than the stack holds: they wrap the stack pointer and destroy
  whatever lies before the stack.
* Contents of strings, files, text output, colours.
* Threads: `main` joins the interpreter's before it starts the collector's, which is empty.
* In `Scopes`: an interpolation of an interpolation as an argument (`#{#{name}}`; elsewhere it is modelled).  Each use
  of the parameter visits it anew, makes a variable, looks it up in the scope of that use, and deletes the one made before
  (`ast_interpolation.cpp:114`), whose value the earlier use may still refer to.  `StatementsAssumption` leaves it out.
* In `Scopes`, after an error: a variable that `@set x #{x}` has bound while `x` was undeclared keeps in the code what it
  found at one visit when a later visit finds nothing; the model looks it up anew.  The error was reported, and nothing is built.
* In `Scopes`: wrong numbers of arguments, macros that use themselves and files that
  include themselves, which never end as the language has no conditional expansion.
