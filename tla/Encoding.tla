------------------------------ MODULE Encoding ------------------------------
(***************************************************************************)
(* Instructions as bytes: what the accept methods of the Op classes of     *)
(* bcparse write (emit/op_*.cpp over bytecode_stream.hpp), and the reading *)
(* of opcodes, flags and locations by the interpreter (interpreter.c,      *)
(* obj_loc.c).  A field is written as memory holds it, the low byte first. *)
(***************************************************************************)
EXTENDS Integers, Sequences

CONSTANTS
  LocBytes,     \* size of an object location: 4
  LongBytes,    \* size of an int64_t: 8
  CountBytes    \* size of a pop's count: 2

ASSUME WidthsAssumption == {LocBytes, LongBytes, CountBytes} \subseteq Nat \ {0}

LongBits == 8 * LongBytes

Power(b, n) ==
  LET power[i \in 0 .. n] == IF i = 0 THEN 1 ELSE b * power[i - 1] IN power[n]

(* Two's complement of a number on the given number of bits.               *)
Wrap(x, bits) ==
  LET m == Power(2, bits) IN ((x + m \div 2) % m) - m \div 2

Long(x) == Wrap(x, LongBits)

-----------------------------------------------------------------------------
(* acceptBytes: the bytes of a number, which is cut to the field.          *)
Field(n, width) == [i \in 1 .. width |-> (n \div Power(256, i - 1)) % 256]

(* acceptInstruction: five bits of opcode, three of flags.                 *)
Code(opcode, flags) == <<opcode * 8 + flags>>

(* acceptObjLoc: the low bits name the storage, the fourth and third say   *)
(* whether the location is absolute, above them is its distance.           *)
StoreNumber == [V |-> 0, S |-> 1, L |-> 2, R |-> 3]

Magnitude(x) == IF x < 0 THEN -x ELSE x

Payload(l) ==
  Magnitude(l.at) * 16 + StoreNumber[l.store] + (IF l.at < 0 THEN 8 ELSE 12)

Location(l) == Field(Payload(l), LocBytes)

(* The opcodes as the accept methods write them.                           *)
Arithmetic == [add |-> 8, sub |-> 9, mul |-> 10, div |-> 11, mod |-> 12]
Bitwise == [xor |-> 13, and |-> 14, or |-> 15, shl |-> 16, shr |-> 17]

Operator(op) ==
  IF op \in DOMAIN Arithmetic THEN Arithmetic[op] ELSE Bitwise[op]

BinOps == DOMAIN Arithmetic \cup DOMAIN Bitwise

(* AstJmpStatement::JumpMode, of which Op_Jmp makes its flags.             *)
JumpMode == [jmp |-> 0, je |-> 1, jne |-> 2, jg |-> 3, jge |-> 4]

(* Op_Load: of a Value of type I64.                                        *)
EncodeLoad(i) == Code(1, 2) \o Location(i.to) \o Field(i.value, LongBytes)

EncodeMov(i) == Code(2, 0) \o Location(i.to) \o Location(i.from)

EncodeCmp(i) == Code(4, 0) \o Location(i.to) \o Location(i.from)

EncodeJmp(i) == Code(5, JumpMode[i.mode]) \o Location(i.of)

EncodePush(i) == Code(6, 0) \o Location(i.of)

(* Mistaken form of EncodePop: the count is as wide as the size_t it is.   *)
EncodePopWide(i) == Code(7, 0) \o Field(i.count, LongBytes)

EncodePop(i) == Code(7, 0) \o Field(i.count, CountBytes)

EncodeBinOp(i) == Code(Operator(i.op), 0) \o Location(i.to) \o Location(i.from)

EncodeCall(i) == Code(20, 0) \o Location(i.of)

EncodePrint(i) == Code(21, 0) \o Location(i.of)

Encode(i) ==
  CASE i.op = "load" -> EncodeLoad(i)
    [] i.op = "mov" -> EncodeMov(i)
    [] i.op = "cmp" -> EncodeCmp(i)
    [] i.op = "jmp" -> EncodeJmp(i)
    [] i.op = "push" -> EncodePush(i)
    [] i.op = "pop" -> EncodePop(i)
    [] i.op \in BinOps -> EncodeBinOp(i)
    [] i.op = "call" -> EncodeCall(i)
    [] i.op = "print" -> EncodePrint(i)

(* BytecodeChunk::accept: one after the other.                             *)
EncodeAll(is) ==
  LET stream[i \in 0 .. Len(is)] ==
        IF i = 0 THEN << >> ELSE stream[i - 1] \o Encode(is[i])
  IN stream[Len(is)]

-----------------------------------------------------------------------------
(* interpreter_read: a number of so many bytes, after the first skip ones. *)
Read(bytes, skip, width) ==
  LET sum[i \in 0 .. width] ==
        IF i = 0 THEN 0 ELSE sum[i - 1] + bytes[skip + i] * Power(256, i - 1)
  IN sum[width]

(* The byte an instruction begins with.                                    *)
Opcode(byte) == byte \div 8
Flags(byte) == byte % 8

(* obj_loc_parse and the tests of datatable_getValue, for a payload read.  *)
Storage == <<"V", "S", "L", "R">>

Distance(payload) == payload \div 16
StoreOf(payload) == Storage[(payload % 4) + 1]
IsAbsolute(payload) == (payload \div 4) % 4 = 3

(* The INSTRUCTIONS of the interpreter, by their numbers.                  *)
Named ==
  [load |-> 1, mov |-> 2, cmp |-> 4, jmp |-> 5, push |-> 6, pop |-> 7,
   add |-> 8, sub |-> 9, mul |-> 10, div |-> 11, mod |-> 12,
   xor |-> 13, and |-> 14, or |-> 15, shl |-> 16, shr |-> 17,
   call |-> 20, print |-> 21]

(* What the interpreter reads for each of them, its first byte included.   *)
Size(op) ==
  CASE op = "load" -> 1 + LocBytes + LongBytes
    [] op \in {"mov", "cmp"} \cup BinOps -> 1 + 2 * LocBytes
    [] op \in {"jmp", "push", "call", "print"} -> 1 + LocBytes
    [] op = "pop" -> 1 + CountBytes

(* Bytes that are whole instructions to the interpreter, up to their end.  *)
Whole(bytes) ==
  LET whole[p \in 1 .. Len(bytes) + 1] ==
        \/ p = Len(bytes) + 1
        \/ \E op \in DOMAIN Named :
             /\ Named[op] = Opcode(bytes[p])
             /\ p + Size(op) <= Len(bytes) + 1
             /\ whole[p + Size(op)]
  IN whole[1]
=============================================================================
