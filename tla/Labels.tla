------------------------------- MODULE Labels -------------------------------
(***************************************************************************)
(* From the statements of a program to control flow in the VM: the pass    *)
(* that gives labels their places in static data (ast_label.cpp), the pass *)
(* that builds instructions (compiler.cpp), the emission of the stream     *)
(* with the loads of static data in front (data_storage.cpp), the labels   *)
(* writing their addresses into it (label_marker.cpp), and the interpreter *)
(* loading static data and jumping by it (interpreter.c).                  *)
(*                                                                         *)
(* The stream is a sequence of cells, one a byte, that say which byte of   *)
(* which instruction they are.                                             *)
(***************************************************************************)
EXTENDS Integers, Sequences

CONSTANTS
  Label,
  String,           \* the string literals
  Length,           \* their lengths
  StaticOffset,     \* DataStorage::STATIC_DATA_OFFSET
  Programs,         \* the programs compiled
  Placeholder,      \* the number a label holds before its address is known
  Null              \* what a static slot holds before it is loaded

ASSUME LengthAssumption == Length \in [String -> Nat]
ASSUME OffsetAssumption == StaticOffset \in Nat /\ Placeholder \in Nat
ASSUME KindsAssumption == String \cap (Label \cup Nat) = {} /\ Null \notin Nat

Statement ==
  [stmt : {"label", "jmp", "je"}, arg : Label] \cup [stmt : {"print"}, arg : String]

(* A label is the AstLabel that Parser::parseLabel makes for one           *)
(* declaration; jumps find it among the bound globals.                     *)
ASSUME ProgramsAssumption ==
  \A p \in Programs :
    /\ p \in Seq(Statement) /\ p # << >>
    /\ \A i \in DOMAIN p : p[i].arg \in Label =>
         \E d \in DOMAIN p : p[d] = [stmt |-> "label", arg |-> p[i].arg]
    /\ \A d, e \in DOMAIN p : p[d].stmt = "label" /\ p[d] = p[e] => d = e

VARIABLES
  source,       \* the program, a sequence of [stmt, arg]
  phase,        \* "visit", "build", "storage", "emit", "run"
  next,         \* statement or value the phase has come to
  values,       \* DataStorage::m_values
  place,        \* index in `values` of the labels and strings visited
  chunk,        \* the instructions and markers built
  stream,       \* BytecodeStream::m_data
  offsetMap,    \* m_labelOffsetMap
  addressMap,   \* m_labelAddressMap
  static,       \* the VM's static data
  pc            \* VM_PROGRAM_COUNTER

vars == <<source, phase, next, values, place, chunk, stream, offsetMap,
          addressMap, static, pc>>

compiled == <<source, values, place, chunk, stream, offsetMap, addressMap>>

-----------------------------------------------------------------------------
(* Instructions, and the bytes they take: an opcode with its flags, object *)
(* locations of four bytes, numbers of eight.                              *)
Load(id, v) == [op |-> "load", id |-> id, value |-> v]
Jmp(id) == [op |-> "jmp", id |-> id]
Je(id) == [op |-> "je", id |-> id]
Show(id) == [op |-> "print", id |-> id]
Halt == [op |-> "halt"]
Marker(id) == [op |-> "marker", id |-> id]

Size(i) ==
  CASE i.op = "load" -> 13 + (IF i.value \in String THEN Length[i.value] ELSE 0)
    [] i.op \in {"jmp", "je", "print"} -> 5
    [] i.op = "halt" -> 1

Bytes(i) == [b \in 1 .. Size(i) |-> [of |-> i, byte |-> b]]

(* DataStorage::addStaticData: strings share a value, labels do not.       *)
Place(x) ==
  IF x \in DOMAIN place
    THEN UNCHANGED <<values, place>>
    ELSE /\ values' = Append(values, IF x \in Label THEN Placeholder ELSE x)
         /\ place' = [y \in DOMAIN place \cup {x} |->
                        IF y = x THEN Len(values) ELSE place[y]]

Id(x) == StaticOffset + place[x]

-----------------------------------------------------------------------------
Init ==
  /\ source \in Programs
  /\ phase = "visit" /\ next = 1
  /\ values = << >> /\ place = << >> /\ chunk = << >> /\ stream = << >>
  /\ offsetMap = << >> /\ addressMap = << >>
  /\ static = << >> /\ pc = 0

Advance(to, n) ==
  IF next < n THEN next' = next + 1 /\ UNCHANGED phase
  ELSE next' = 1 /\ phase' = to

(* Mistaken form of Visit: labels have to wait for their places until they *)
(* are built.                                                              *)
VisitNone ==
  /\ phase = "visit"
  /\ Advance("build", Len(source))
  /\ UNCHANGED <<source, values, place, chunk, stream, offsetMap, addressMap, static, pc>>

(* AstLabel::visit, from a declaration or from a jump that comes before it.*)
Visit ==
  /\ phase = "visit"
  /\ IF source[next].arg \in Label
       THEN Place(source[next].arg) ELSE UNCHANGED <<values, place>>
  /\ Advance("build", Len(source))
  /\ UNCHANGED <<source, chunk, stream, offsetMap, addressMap, static, pc>>

(* Compiler::compile; AstStringLiteral::build places its string.           *)
Build ==
  /\ phase = "build"
  /\ LET s == source[next]
     IN /\ Place(s.arg)
        /\ chunk' = Append(chunk,
             LET id == StaticOffset + place'[s.arg]
             IN CASE s.stmt = "label" -> Marker(id)
                  [] s.stmt = "jmp" -> Jmp(id)
                  [] s.stmt = "je" -> Je(id)
                  [] s.stmt = "print" -> Show(id))
  /\ Advance("storage", Len(source))
  /\ UNCHANGED <<source, stream, offsetMap, addressMap, static, pc>>

(* DataStorage::accept, prepended to the program: one load for each value. *)
(* The map is filled by the position of the value, not by its id.          *)
EmitValue ==
  /\ phase = "storage"
  /\ offsetMap' = [i \in DOMAIN offsetMap \cup {next - 1} |->
                     IF i = next - 1 THEN Len(stream) ELSE offsetMap[i]]
  /\ stream' = stream \o Bytes(Load(StaticOffset + next - 1, values[next]))
  /\ Advance("emit", Len(values))
  /\ UNCHANGED <<source, values, place, chunk, addressMap, static, pc>>

(* std::map::operator[] inserts 0 for a key it misses.                     *)
OffsetOf(id) == IF id \in DOMAIN offsetMap THEN offsetMap[id] ELSE 0

(* Mistaken forms of Patch: without the opcode; with the old number.       *)
PatchHeadless(id) == Tail(Bytes(Load(id, Len(stream))))

PatchStale(id) == Bytes(Load(id, Placeholder))

(* The sub-stream of a label: the load of the address it is at.            *)
Patch(id) == Bytes(Load(id, Len(stream)))

(* LabelMarker::accept writes the load of its address over the stream.     *)
Mark(id) ==
  LET patch == Patch(id)
  IN /\ stream' = [b \in DOMAIN stream |->
                     IF b - OffsetOf(id) \in DOMAIN patch
                       THEN patch[b - OffsetOf(id)] ELSE stream[b]]
     /\ offsetMap' = [i \in DOMAIN offsetMap \cup {id} |-> OffsetOf(i)]
     /\ addressMap' = [i \in DOMAIN addressMap \cup {id} |->
                         IF i = id THEN Len(stream) ELSE addressMap[i]]

EmitOp ==
  /\ phase = "emit" /\ next <= Len(chunk)
  /\ IF chunk[next].op = "marker"
       THEN Mark(chunk[next].id)
       ELSE /\ stream' = stream \o Bytes(chunk[next])
            /\ UNCHANGED <<offsetMap, addressMap>>
  /\ next' = next + 1
  /\ UNCHANGED <<source, phase, values, place, chunk, static, pc>>

(* Emitter::emit ends the stream with a halt; the VM then reads the file.  *)
EmitHalt ==
  /\ phase = "emit" /\ next > Len(chunk)
  /\ stream' = stream \o Bytes(Halt)
  /\ phase' = "run"
  /\ static' = [id \in StaticOffset .. StaticOffset + Len(values) - 1 |-> Null]
  /\ UNCHANGED <<source, next, values, place, chunk, offsetMap, addressMap, pc>>

-----------------------------------------------------------------------------
(* The instruction the interpreter reads at p, when the bytes are one.     *)
Whole(p) ==
  /\ p < Len(stream)
  /\ LET i == stream[p + 1].of
     IN /\ p + Size(i) <= Len(stream)
        /\ SubSeq(stream, p + 1, p + Size(i)) = Bytes(i)

At(p) == stream[p + 1].of

Executes(op) == phase = "run" /\ Whole(pc) /\ At(pc).op = op

Past == pc + Size(At(pc))

OpLoad ==
  /\ Executes("load")
  /\ static' = [static EXCEPT ![At(pc).id] = At(pc).value]
  /\ pc' = Past
  /\ UNCHANGED <<compiled, phase, next>>

OpPrint ==
  /\ Executes("print")
  /\ pc' = Past
  /\ UNCHANGED <<compiled, phase, next, static>>

(* Mistaken form of Seek: relative to the instruction after the jump.      *)
SeekOn ==
  pc' = IF static[At(pc).id] = Null THEN 0 ELSE static[At(pc).id] + Size(At(pc))

(* interpreter_seek to the number in the label's slot, 0 when it is null.  *)
Seek == pc' = IF static[At(pc).id] = Null THEN 0 ELSE static[At(pc).id]

OpJmp ==
  /\ Executes("jmp")
  /\ Seek
  /\ UNCHANGED <<compiled, phase, next, static>>

OpJe ==
  /\ Executes("je")
  /\ Seek \/ pc' = Past
  /\ UNCHANGED <<compiled, phase, next, static>>

(* OP_HALT exits the process.                                              *)
OpHalt == Executes("halt") /\ UNCHANGED vars

Next ==
  \/ Visit \/ Build \/ EmitValue \/ EmitOp \/ EmitHalt
  \/ OpLoad \/ OpPrint \/ OpJmp \/ OpJe \/ OpHalt

Spec == Init /\ [][Next]_vars

-----------------------------------------------------------------------------
(* Where in the stream the load of the i-th value begins.                  *)
ValueAt(i) ==
  LET begins[j \in 1 .. Len(values) + 1] ==
        IF j = 1 THEN 0
        ELSE begins[j - 1] + Size(Load(StaticOffset, values[j - 1]))
  IN begins[i]

Body == ValueAt(Len(values) + 1)

(* Where the code of the i-th statement begins; labels have none.          *)
StatementAt(i) ==
  LET begins[j \in 1 .. Len(chunk) + 1] ==
        IF j = 1 THEN Body
        ELSE begins[j - 1] +
               (IF chunk[j - 1].op = "marker" THEN 0 ELSE Size(chunk[j - 1]))
  IN begins[i]

(* The interpreter meets whole instructions only: no label has written     *)
(* over a part of one.                                                     *)
Decodes == phase = "run" => Whole(pc)

(* A comment on the stream calls m_labelOffsetMap a "map from label ID to  *)
(* starting index": a label that looks itself up finds the load of its own *)
(* place in static data.                                                   *)
OffsetsByLabel ==
  phase = "emit" =>
    \A l \in DOMAIN place \cap Label : OffsetOf(Id(l)) = ValueAt(place[l] + 1)

(* When the first statement is reached, and ever after, each label's slot  *)
(* holds the address of the statement after it, each string's the string.  *)
StaticMeant ==
  phase = "run" /\ pc >= Body =>
    \A x \in DOMAIN place :
      static[Id(x)] =
        IF x \in Label
          THEN StatementAt(CHOOSE i \in DOMAIN source :
                             source[i] = [stmt |-> "label", arg |-> x])
          ELSE x

(* The statement about to be executed, in the sense of Flow; 0 when the VM *)
(* is between statements.                                                  *)
AtStart == phase # "run" \/ pc < Body

Here ==
  {i \in 1 .. Len(source) + 1 :
     /\ StatementAt(i) = pc
     /\ i <= Len(source) => source[i].stmt # "label"}

Control ==
  INSTANCE Flow WITH
    at <- IF ~ AtStart
            THEN IF Here = {} THEN 0 ELSE CHOOSE i \in Here : TRUE
            ELSE CHOOSE i \in 1 .. Len(source) + 1 :
                   /\ i <= Len(source) => source[i].stmt # "label"
                   /\ \A j \in 1 .. i - 1 : source[j].stmt = "label"

(* The emitted bytecode, executed, passes control as the program says.     *)
FlowKept == Control!Spec
=============================================================================
