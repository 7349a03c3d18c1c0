------------------------------ MODULE Codegen ------------------------------
(***************************************************************************)
(* One statement of a program at a time: the instructions the AST classes  *)
(* of bcparse build for it (ast_mov_statement.cpp and its neighbours) and  *)
(* the interpreter reading and executing them one by one, from the bytes   *)
(* they are emitted as (Encoding).  An operand written as a literal is     *)
(* loaded into the register RegisterUsage names, and the stack offsets of  *)
(* a call's arguments are shifted by RelativeStackOffset: both are places  *)
(* where the code of one operand may disturb another.                      *)
(***************************************************************************)
EXTENDS Encoding

CONSTANTS
  Literal,        \* the numbers the program writes
  Reg, Static,    \* the registers and static slots it uses
  Depth,          \* slots of the stack
  StaticTop,      \* VM_STATIC_DATA_POINTER: 128
  IntBits,        \* width of int
  Statements,     \* the statements it may consist of
  MaxStatements   \* bound on the statements executed

ASSUME IntAssumption == IntBits \in Nat \ {0}

ASSUME StorageAssumption ==
  /\ {0, 1} \subseteq Reg /\ Reg \cup Static \subseteq Nat
  /\ {StaticTop, MaxStatements} \subseteq Nat /\ Depth \in Nat \ {0}

(* Every slot has an address, every literal is an int64_t.                 *)
ASSUME AddressAssumption ==
  \A n \in Reg \cup Static \cup {StaticTop, Depth} : 16 * n + 16 <= Power(256, LocBytes)
ASSUME LiteralAssumption == \A n \in Literal : n \in Int /\ Long(n) = n

(* What the parser makes of operands and statements.                       *)
Locations == [kind : {"loc"}, store : {"R", "S", "L"}, at : Int]

Readable == Locations \cup [kind : {"lit"}, value : Literal]

Statement ==
  [stmt : {"cmp"}, left : Readable, right : Readable]
    \cup [stmt : {"mov"} \cup BinOps, left : Locations, right : Readable]
    \cup [stmt : {"push"}, left : Readable]
    \cup [stmt : {"call"}, left : Locations, args : Seq(Readable)]
    \cup [stmt : {"print"}, args : Seq(Readable)]
    \cup [stmt : {"jmp"}, mode : DOMAIN JumpMode, left : Locations]
    \cup [stmt : {"pop"}, count : Nat]

ASSUME StatementsAssumption == Statements \subseteq Statement

VARIABLES
  store,      \* the numbers in registers, static data and stack
  sp,         \* VM_STACK_POINTER
  flags,      \* it->flags
  code,       \* the bytes of the statement still to execute
  jumped,     \* whether the statement has jumped
  called,     \* the function it called, or the address it jumped to
  seen,       \* the arguments the function found, or what was printed
  meant,      \* what the statement being executed means, from the state
              \* it began in: a history variable
  compared,   \* the two numbers of the last cmp statement, likewise
  done        \* statements begun

vars == <<store, sp, flags, code, jumped, called, seen, meant, compared, done>>

heard == <<called, seen>>

Slots == ({"R"} \X Reg) \cup ({"S"} \X Static) \cup ({"L"} \X (0 .. Depth - 1))

-----------------------------------------------------------------------------
(* Operands: a literal, or a data location, whose negative offsets on the  *)
(* stack are relative to its top.                                          *)
Lit(n) == [kind |-> "lit", value |-> n]
Loc(s, i) == [kind |-> "loc", store |-> s, at |-> i]

(* The location an operand's code leaves its value in (m_objLoc), with the *)
(* given register usage and relative stack offset.                         *)
ObjLoc(o, usage, shift) ==
  IF o.kind = "lit" THEN Loc("R", usage)
  ELSE IF o.at < 0 THEN Loc(o.store, o.at - shift) ELSE o

Operand(o, usage) ==
  IF o.kind = "lit"
    THEN <<[op |-> "load", to |-> Loc("R", usage), value |-> o.value]>>
    ELSE << >>

(* AstMovStatement does not count the register its left operand may use.   *)
BuildMov(s) ==
  Operand(s.left, 0) \o Operand(s.right, 0) \o
    <<[op |-> "mov", to |-> ObjLoc(s.left, 0, 0), from |-> ObjLoc(s.right, 0, 0)]>>

(* Mistaken form of BuildPair: the left operand's register is not counted. *)
BuildPairUncounted(s) ==
  Operand(s.left, 0) \o Operand(s.right, 0) \o
    <<[op |-> s.stmt, to |-> ObjLoc(s.left, 0, 0), from |-> ObjLoc(s.right, 0, 0)]>>

(* AstCmpStatement.                                                        *)
BuildPair(s) ==
  Operand(s.left, 0) \o Operand(s.right, 1) \o
    <<[op |-> s.stmt, to |-> ObjLoc(s.left, 0, 0), from |-> ObjLoc(s.right, 1, 0)]>>

(* AstBinOpStatement, of the operators on integers: the same.              *)
BuildBinOp(s) == BuildPair(s)

(* Its build takes the variant of the operator from the fourth letter of   *)
(* the name on, and throws on `or`, which has two: the compiler ends there.*)
Builds(s) == s.stmt # "or"

(* Mistaken form of BuildPush: the arguments pushed before are not counted.*)
BuildPushUnshifted(o, usage, shift) ==
  Operand(o, usage) \o <<[op |-> "push", of |-> ObjLoc(o, usage, 0)]>>

BuildPush(o, usage, shift) ==
  Operand(o, usage) \o <<[op |-> "push", of |-> ObjLoc(o, usage, shift)]>>

CallCode(s, usage) ==
  LET n == Len(s.args)
      pushes[i \in 0 .. n] ==
        IF i = 0 THEN << >>
        ELSE pushes[i - 1] \o BuildPush(s.args[n + 1 - i], usage, i - 1)
  IN pushes[n] \o <<[op |-> "call", of |-> ObjLoc(s.left, 0, 0)]>>
       \o (IF n > 0 THEN <<[op |-> "pop", count |-> n]>> ELSE << >>)

(* Mistaken form of BuildCall: the function's register is not counted.     *)
BuildCallUncounted(s) == CallCode(s, 0)

(* AstCallStatement: the location of the function is taken first, then the *)
(* arguments are pushed from the last to the first, the offset growing     *)
(* with each of them, and popped after the call.                           *)
BuildCall(s) == CallCode(s, 1)

(* Mistaken form of BuildPrint: the literals are loaded first.             *)
BuildPrintAfter(s) ==
  LET all[i \in 0 .. 2 * Len(s.args)] ==
        IF i = 0 THEN << >>
        ELSE all[i - 1] \o
               (IF i <= Len(s.args) THEN Operand(s.args[i], 0)
                ELSE <<[op |-> "print", of |-> ObjLoc(s.args[i - Len(s.args)], 0, 0)]>>)
  IN all[2 * Len(s.args)]

(* AstPrintStatement: each argument is shown before the next is loaded.    *)
BuildPrint(s) ==
  LET shows[i \in 0 .. Len(s.args)] ==
        IF i = 0 THEN << >>
        ELSE shows[i - 1] \o Operand(s.args[i], 0)
               \o <<[op |-> "print", of |-> ObjLoc(s.args[i], 0, 0)]>>
  IN shows[Len(s.args)]

(* AstJmpStatement: a label has its place in static data.                  *)
BuildJmp(s) == <<[op |-> "jmp", mode |-> s.mode, of |-> s.left]>>

Build(s) ==
  CASE s.stmt = "mov" -> BuildMov(s)
    [] s.stmt = "cmp" -> BuildPair(s)
    [] s.stmt \in BinOps -> BuildBinOp(s)
    [] s.stmt = "push" -> BuildPush(s.left, 0, 0)
    [] s.stmt = "call" -> BuildCall(s)
    [] s.stmt = "print" -> BuildPrint(s)
    [] s.stmt = "jmp" -> BuildJmp(s)
    [] s.stmt = "pop" -> <<[op |-> "pop", count |-> s.count]>>

-----------------------------------------------------------------------------
(* What a relative location counts down from: the length of its storage.   *)
Top(s) == CASE s = "L" -> sp [] s = "S" -> StaticTop [] OTHER -> 0

(* The slot a location of the program stands for.                          *)
Addr(l) == <<l.store, IF l.at < 0 THEN Top(l.store) + l.at ELSE l.at>>

Value(o) == IF o.kind = "lit" THEN o.value ELSE store[Addr(o)]

(* The quotient of C, which rounds towards zero.                           *)
Quotient(l, r) ==
  LET q == Magnitude(l) \div Magnitude(r) IN IF (l < 0) = (r < 0) THEN q ELSE -q

(* A number of the bits of which Test holds.                               *)
Bit(x, i) == (x \div Power(2, i)) % 2

Bits(Test(_, _), l, r) ==
  LET sum[i \in 0 .. LongBits] ==
        IF i = 0 THEN 0
        ELSE sum[i - 1]
               + (IF Test(Bit(l, i - 1), Bit(r, i - 1)) THEN Power(2, i - 1) ELSE 0)
  IN sum[LongBits]

Differ(a, b) == a # b
Both(a, b) == a = 1 /\ b = 1
Either(a, b) == a = 1 \/ b = 1

(* What OP_ADD and its like leave on the left, of two integers.            *)
Result(op, l, r) ==
  Long(CASE op = "add" -> l + r [] op = "sub" -> l - r [] op = "mul" -> l * r
         [] op = "div" -> Quotient(l, r)
         [] op = "mod" -> l - r * Quotient(l, r)
         [] op = "xor" -> Bits(Differ, l, r)
         [] op = "and" -> Bits(Both, l, r)
         [] op = "or" -> Bits(Either, l, r)
         [] op = "shl" -> l * Power(2, r)
         [] op = "shr" -> l \div Power(2, r))

(* C gives the operation a meaning: OP_DIV and the shifts test nothing.    *)
Least == -Power(2, LongBits - 1)

Defined(op, l, r) ==
  CASE op \in {"div", "mod"} -> r # 0 /\ <<l, r>> # <<Least, -1>>
    [] op \in {"shl", "shr"} -> l >= 0 /\ r \in 0 .. LongBits - 1
    [] OTHER -> TRUE

(* OP_CMP on integers: the difference passes through an int before its     *)
(* sign is taken; 0, 1 and 2 stand for less, equal and greater.            *)
Sign(x) == IF x < 0 THEN -1 ELSE IF x > 0 THEN 1 ELSE 0

CmpFlags(l, r) == Sign(Wrap(l - r, IntBits)) + 1

(* OP_JMP: the modes test the bits of it->flags, EQUAL is 1, GREATER is 2. *)
Equal == {1, 3}
Greater == {2, 3}

(* Mistaken form of Taken: jg is taken on equal numbers as well.           *)
TakenLoosely(mode, f) ==
  CASE mode = "jmp" -> TRUE
    [] mode = "je" -> f \in Equal
    [] mode = "jne" -> f \notin Equal
    [] mode = "jg" -> f \in Greater \cup Equal
    [] mode = "jge" -> f \in Greater \cap Equal

Taken(mode, f) ==
  CASE mode = "jmp" -> TRUE
    [] mode = "je" -> f \in Equal
    [] mode = "jne" -> f \notin Equal
    [] mode = "jg" -> f \in Greater
    [] mode = "jge" -> f \in Greater \cap Equal

-----------------------------------------------------------------------------
(* The program has stored zeros; it->flags starts as a comparison of a     *)
(* smaller number leaves it.                                               *)
Init ==
  /\ store = [s \in Slots |-> 0]
  /\ sp = 0 /\ flags = 0
  /\ code = << >> /\ jumped = FALSE /\ called = 0 /\ seen = << >>
  /\ meant = [stmt |-> "none"] /\ compared = <<0, 1>> /\ done = 0

(* What a statement means, by the values its operands have before it.      *)
Meaning(s) ==
  CASE s.stmt = "mov" ->
         [stmt |-> "mov", at |-> Addr(s.left), value |-> Value(s.right)]
    [] s.stmt \in BinOps ->
         [stmt |-> "binop", at |-> Addr(ObjLoc(s.left, 0, 0)),
          value |-> Result(s.stmt, Value(s.left), Value(s.right))]
    [] s.stmt = "push" ->
         [stmt |-> "push", at |-> <<"L", sp>>, value |-> Value(s.left)]
    [] s.stmt = "call" ->
         [stmt |-> "call", left |-> Value(s.left),
          args |-> [i \in DOMAIN s.args |-> Value(s.args[i])],
          sp |-> sp]
    [] s.stmt = "print" ->
         [stmt |-> "print", args |-> [i \in DOMAIN s.args |-> Value(s.args[i])]]
    [] s.stmt = "jmp" ->
         [stmt |-> "jmp", mode |-> s.mode, left |-> Value(s.left)]
    [] OTHER -> [stmt |-> s.stmt]

(* The operands of a statement lie in the storages.                        *)
Operands(s) ==
  CASE s.stmt \in BinOps \cup {"mov", "cmp"} -> {s.left, s.right}
    [] s.stmt \in {"push", "jmp"} -> {s.left}
    [] s.stmt = "print" -> {s.args[i] : i \in DOMAIN s.args}
    [] s.stmt = "call" -> {s.left} \cup {s.args[i] : i \in DOMAIN s.args}
    [] OTHER -> {}

(* How far a statement raises the stack.                                   *)
Raises(s) ==
  CASE s.stmt = "push" -> 1 [] s.stmt = "call" -> Len(s.args) [] OTHER -> 0

Begin(s) ==
  /\ code = << >> /\ done < MaxStatements /\ Builds(s)
  /\ \A o \in Operands(s) : o.kind = "loc" => Addr(o) \in Slots
  /\ sp + Raises(s) < Depth
  /\ s.stmt = "pop" => s.count <= sp
  /\ s.stmt \in BinOps => Defined(s.stmt, Value(s.left), Value(s.right))
  /\ code' = EncodeAll(Build(s))
  /\ meant' = Meaning(s)
  /\ compared' =
       IF s.stmt = "cmp" THEN <<Value(s.left), Value(s.right)>> ELSE compared
  /\ done' = done + 1
  /\ jumped' = FALSE /\ called' = 0 /\ seen' = << >>
  /\ UNCHANGED <<store, sp, flags>>

-----------------------------------------------------------------------------
(* The first instruction is one of op, which the interpreter reads whole.  *)
Instruction(op) ==
  /\ code # << >> /\ Opcode(Head(code)) = Named[op]
  /\ code' = SubSeq(code, Size(op) + 1, Len(code))
  /\ UNCHANGED <<meant, compared, done>>

(* datatable_getValue of the i-th location of the instruction.             *)
SlotAt(i) ==
  LET payload == Read(code, 1 + (i - 1) * LocBytes, LocBytes)
      s == StoreOf(payload)
  IN <<s, IF IsAbsolute(payload) THEN Distance(payload) ELSE Top(s) - Distance(payload)>>

Set(a, v) == store' = [store EXCEPT ![a] = v]

OpLoad ==
  /\ Instruction("load")
  /\ Set(SlotAt(1), Long(Read(code, 1 + LocBytes, LongBytes)))
  /\ UNCHANGED <<sp, flags, jumped, heard>>

OpMov ==
  /\ Instruction("mov")
  /\ Set(SlotAt(1), store[SlotAt(2)])
  /\ UNCHANGED <<sp, flags, jumped, heard>>

(* The operators on integers are read and written alike.                   *)
OpBinary ==
  /\ \E op \in BinOps :
       /\ Instruction(op)
       /\ Set(SlotAt(1), Result(op, store[SlotAt(1)], store[SlotAt(2)]))
  /\ UNCHANGED <<sp, flags, jumped, heard>>

OpCmp ==
  /\ Instruction("cmp")
  /\ flags' = CmpFlags(store[SlotAt(1)], store[SlotAt(2)])
  /\ UNCHANGED <<store, sp, jumped, heard>>

OpJmp ==
  /\ Instruction("jmp")
  /\ \E mode \in DOMAIN JumpMode :
       /\ JumpMode[mode] = Flags(Head(code))
       /\ jumped' = Taken(mode, flags)
  /\ called' = IF jumped' THEN store[SlotAt(1)] ELSE called
  /\ UNCHANGED <<store, sp, flags, seen>>

OpPush ==
  /\ Instruction("push")
  /\ Set(<<"L", sp>>, store[SlotAt(1)])
  /\ sp' = sp + 1
  /\ UNCHANGED <<flags, jumped, heard>>

(* Mistaken form of OpPop: one value too many.                             *)
OpPopOneMore ==
  /\ Instruction("pop")
  /\ sp' = sp - Read(code, 1, CountBytes) - 1
  /\ UNCHANGED <<store, flags, jumped, heard>>

OpPop ==
  /\ Instruction("pop")
  /\ sp' = sp - Read(code, 1, CountBytes)
  /\ UNCHANGED <<store, flags, jumped, heard>>

(* printf of "%d" takes an int of the number.                              *)
OpPrint ==
  /\ Instruction("print")
  /\ seen' = Append(seen, Wrap(store[SlotAt(1)], IntBits))
  /\ UNCHANGED <<store, sp, flags, jumped, called>>

(* args_getArg finds the arguments from the top of the stack down.         *)
Arg(index) == store[<<"L", sp - 1 - index>>]

(* A builtin looks at its arguments and leaves a result in register 0.     *)
OpCall ==
  /\ Instruction("call")
  /\ called' = store[SlotAt(1)]
  /\ seen' = [i \in 1 .. sp |-> Arg(i - 1)]
  /\ \E v \in Literal : Set(<<"R", 0>>, v)
  /\ UNCHANGED <<sp, flags, jumped>>

Next ==
  \/ \E s \in Statements : Begin(s)
  \/ OpLoad \/ OpMov \/ OpBinary \/ OpCmp \/ OpJmp \/ OpPush \/ OpPop \/ OpPrint
  \/ OpCall

Spec == Init /\ [][Next]_vars

-----------------------------------------------------------------------------
(* What a program has to respect for the code of one operand to leave the  *)
(* others alone: a literal is loaded into a register that no operand read  *)
(* after it names; a call takes the stack relative to its top and the      *)
(* other storages by absolute locations, and its function, when it has     *)
(* arguments, not from the stack.                                          *)
Disjoint(s) ==
  CASE s.stmt \in BinOps \cup {"cmp"} ->
         /\ s.left.kind = "lit" => s.right # Loc("R", 0)
         /\ s.right.kind = "lit" => s.left # Loc("R", 1)
    [] s.stmt = "print" ->
         \A i, j \in DOMAIN s.args :
           j < i /\ s.args[j].kind = "lit" => s.args[i] # Loc("R", 0)
    [] s.stmt = "call" ->
         /\ s.left.store = "L" => s.args = << >>
         /\ \A j \in DOMAIN s.args :
              IF s.args[j].kind = "lit"
                THEN s.left # Loc("R", 1) /\ \A i \in 1 .. j - 1 : s.args[i] # Loc("R", 1)
                ELSE s.args[j].store = "L" <=> s.args[j].at < 0
    [] OTHER -> TRUE

TypeOK ==
  /\ store \in [Slots -> Int]
  /\ sp \in 0 .. Depth - 1
  /\ flags \in 0 .. 2
  /\ jumped \in BOOLEAN
  /\ done \in 0 .. MaxStatements

Finished(kinds) == code = << >> /\ meant.stmt \in kinds

(* A mov, a binary operation or a push leaves at its destination the value *)
(* its operands had before the statement, whatever registers their         *)
(* literals took.                                                          *)
ResultMeant ==
  Finished({"mov", "binop", "push"}) => store[meant.at] = meant.value

(* A function finds the arguments of its call in the order they are        *)
(* written, with the values they had before the first of them was pushed,  *)
(* and the stack is as high after the call as before it.                   *)
ArgumentsMeant ==
  Finished({"call"}) =>
    /\ \A i \in DOMAIN meant.args : seen[i] = meant.args[i]
    /\ sp = meant.sp

(* The function called is the one its location named when the statement    *)
(* began: no argument is loaded over it, nor pushed between it and the top *)
(* of the stack.  A jump that is taken goes where its label is.            *)
CalleeMeant ==
  Finished({"call", "jmp"}) /\ (meant.stmt = "jmp" => jumped) =>
    called = meant.left

(* What is printed are the values before the statement, of its arguments   *)
(* in the order they are written, when they fit in an int                  *)
(* (AstPrintStatement::build, OP_PRINT).                                   *)
PrintsMeant ==
  Finished({"print"}) =>
    /\ Len(seen) = Len(meant.args)
    /\ \A i \in DOMAIN seen :
         meant.args[i] = Wrap(meant.args[i], IntBits) => seen[i] = meant.args[i]

(* The interpreter is always at the beginning of an instruction: each of   *)
(* them reads as many bytes as its accept method wrote.                    *)
InStep == Whole(code)

(* cmp leaves the sign of the difference of the numbers written, when it   *)
(* fits in an int, and a later jump that tests it is taken accordingly,    *)
(* whatever statements lie between the two.                                *)
Fits(x) == x = Wrap(x, IntBits)

Holds(mode) ==
  LET l == compared[1]  r == compared[2]
  IN CASE mode = "je" -> l = r [] mode = "jne" -> l # r
       [] mode = "jg" -> l > r [] mode = "jge" -> l >= r

JumpsAsCompared ==
  Finished({"jmp"}) /\ meant.mode # "jmp" /\ Fits(compared[1] - compared[2])
    => jumped = Holds(meant.mode)
=============================================================================
