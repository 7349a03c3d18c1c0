---------------------------- MODULE SlotMemory ----------------------------
(***************************************************************************)
(* The interpreter's storage as the reference counter sees it: static      *)
(* data, stack, registers and object members are slots, a slot holds a     *)
(* reference to a counted block or a plain value (number, object pointer,  *)
(* function, null), and each instruction destroys, copies or overwrites    *)
(* slots as interpreter.c, value.c and the builtins of vm.c do.            *)
(*                                                                         *)
(* Instructions that only read slots, jump or compute on plain values      *)
(* leave this state alone and have no action.                              *)
(***************************************************************************)
EXTENDS Naturals, FiniteSets

CONSTANTS
  Key,        \* the blocks malloc may return
  Plain,      \* a value without a claim
  Static,     \* the slots of AT_DATA the program uses
  Reg, R0,    \* the registers, and the one a call leaves its result in
  Member,     \* the members of the objects the program creates
  Depth,      \* slots in STACK_SIZE_BYTES
  MaxCount,   \* bound on a count (a size_t in the code)
  Program     \* the uses of references below that the program makes

(* An instruction that copies the bytes of a reference leaves two slots    *)
(* with one claim; the copy is then on loan, and it is for the program to  *)
(* mind it.                                                                *)
(*   "overwrite"  a reference is overwritten without value_destroy         *)
(*   "mov"        a copy made by a mov is destroyed                        *)
(*   "member"     the copy setObjectMember leaves in R0 is destroyed       *)
(*   "stale"      a copy is pushed after its block was freed               *)
(*   "top"        the block pushed has its last claim just above the stack *)
Uses == {"overwrite", "mov", "member", "stale", "top"}

Stack == 0 .. Depth - 1

Slot == Stack \cup Static \cup Reg \cup Member

ASSUME PlainAssumption == Plain \notin Key
ASSUME SlotAssumption ==
  /\ IsFiniteSet(Static) /\ IsFiniteSet(Reg) /\ IsFiniteSet(Member)
  /\ R0 \in Reg /\ R0 \notin Member
  /\ Depth \in Nat \ {0} /\ MaxCount \in Nat
ASSUME ProgramAssumption == Program \subseteq Uses

VARIABLES
  slot,       \* what each slot holds
  sp,         \* VM_STACK_POINTER
  count,      \* the reference counts, see RefCounts
  mem,        \* the blocks that are allocated
  loan        \* how a slot came by a reference without a claim: a history
              \* variable, the code keeps no such record

vars == <<slot, sp, count, mem, loan>>

RC == INSTANCE RefCounts

TypeOK ==
  /\ slot \in [Slot -> Key \cup {Plain}]
  /\ sp \in Stack
  /\ count \in [Key -> Nat]
  /\ mem \subseteq Key
  /\ loan \in [Slot -> {"none", "mov", "member"}]

Init ==
  /\ slot = [s \in Slot |-> Plain]
  /\ sp = 0
  /\ RC!Init
  /\ mem = {}
  /\ loan = [s \in Slot |-> "none"]

-----------------------------------------------------------------------------
IsRef(v) == v \in Key

(* value_destroy of slot s: the claim of the reference it holds is         *)
(* released, and the block freed with its last claim.                      *)
CountLess(s) == IF IsRef(slot[s]) THEN RC!Released(count, slot[s]) ELSE count

(* Mistaken forms of MemLess: any release frees the block; none does.      *)
MemLessAlways(s) == IF IsRef(slot[s]) THEN mem \ {slot[s]} ELSE mem

MemLessNever(s) == mem

MemLess(s) ==
  IF IsRef(slot[s]) /\ RC!LastClaim(count, slot[s])
    THEN mem \ {slot[s]} ELSE mem

(* Mistaken form of Holding: a copy makes no claim.                        *)
HoldingNone(c, v) == c

(* What a copy of the value v claims.                                      *)
Holding(c, v) == IF IsRef(v) THEN RC!Claimed(c, v) ELSE c

Put(s, v) ==
  /\ slot' = [slot EXCEPT ![s] = v]
  /\ loan' = [loan EXCEPT ![s] = "none"]

(* What the program takes care of.                                         *)
MayDestroy(s) == loan[s] # "none" => loan[s] \in Program

MayOverwrite(s) ==
  IsRef(slot[s]) /\ loan[s] = "none" => "overwrite" \in Program

MayCopy(s) ==
  IsRef(slot[s]) => /\ count[slot[s]] < MaxCount
                    /\ slot[s] \in mem \/ "stale" \in Program

(* value_setInt and its like.                                              *)
SetPlain(s) ==
  /\ MayDestroy(s)
  /\ count' = CountLess(s)
  /\ mem' = MemLess(s)
  /\ Put(s, Plain)

(* value_setRefCounted of a block malloc has just returned.                *)
SetFresh(s, k) ==
  /\ MayDestroy(s) /\ k \notin mem
  /\ count' = RC!Claimed(CountLess(s), k)
  /\ mem' = MemLess(s) \cup {k}
  /\ Put(s, k)

(* value_copyValue: the destination is destroyed before the source is      *)
(* claimed.                                                                *)
CopyValue(d, s) ==
  /\ MayDestroy(d) /\ MayCopy(s)
  /\ count' = Holding(CountLess(d), slot[s])
  /\ mem' = MemLess(d)
  /\ Put(d, slot[s])

-----------------------------------------------------------------------------
(* OP_LOAD of a number or a boolean.                                       *)
LoadConst(s) == SetPlain(s) /\ UNCHANGED sp

(* OP_LOAD of none or null zeroes the slot without destroying it.          *)
LoadNull(s) ==
  /\ MayOverwrite(s)
  /\ Put(s, Plain)
  /\ UNCHANGED <<sp, count, mem>>

(* OP_LOAD of raw data.                                                    *)
LoadData(s, k) == SetFresh(s, k) /\ UNCHANGED sp

(* OP_MOV to static data, the stack or a register copies the bytes of the  *)
(* source: all three storages have a bit of AT_REG.                        *)
Mov(d, s) ==
  /\ d # s
  /\ MayOverwrite(d)
  /\ slot' = [slot EXCEPT ![d] = slot[s]]
  /\ loan' = [loan EXCEPT ![d] = IF IsRef(slot[s]) THEN "mov" ELSE "none"]
  /\ UNCHANGED <<sp, count, mem>>

(* OP_MOV, OP_ADD and OP_SUB on $sp.                                       *)
AdjustSp(n) == sp' = n /\ UNCHANGED <<slot, count, mem, loan>>

(* Mistaken form of Pushed: the stack is not checked.                      *)
PushedUnchecked == sp' = sp + 1

(* OP_PUSH fails its assertion on the last slot of the stack.              *)
Pushed == sp + 1 < Depth /\ sp' = sp + 1

PushConst == SetPlain(sp) /\ Pushed

PushData(k) == SetFresh(sp, k) /\ Pushed

PushCopy(s) ==
  /\ slot[s] = slot[sp] /\ IsRef(slot[s]) /\ RC!LastClaim(count, slot[s])
       => "top" \in Program
  /\ CopyValue(sp, s)
  /\ Pushed

(* Mistaken form of Pop: the values popped are forgotten, not destroyed.   *)
PopForgetting(n) ==
  LET popped == sp - n .. sp - 1
  IN /\ n <= sp
     /\ sp' = sp - n
     /\ slot' = [s \in Slot |-> IF s \in popped THEN Plain ELSE slot[s]]
     /\ loan' = [s \in Slot |-> IF s \in popped THEN "none" ELSE loan[s]]
     /\ UNCHANGED <<count, mem>>

(* OP_POP of n values destroys them from the top down.                     *)
Holders(S, k) == {s \in S : slot[s] = k}

Pop(n) ==
  LET popped == sp - n .. sp - 1
      drops(k) == Cardinality(Holders(popped, k))
  IN /\ n <= sp
     /\ \A s \in popped : MayDestroy(s)
     /\ sp' = sp - n
     /\ slot' = [s \in Slot |-> IF s \in popped THEN Plain ELSE slot[s]]
     /\ loan' = [s \in Slot |-> IF s \in popped THEN "none" ELSE loan[s]]
     /\ count' = [k \in Key |->
                    IF drops(k) < count[k] THEN count[k] - drops(k) ELSE 0]
     /\ mem' = mem \ {k \in Key : 0 < count[k] /\ count[k] <= drops(k)}

-----------------------------------------------------------------------------
(* OP_CALL stores the result of the function over R0 without destroying    *)
(* what R0 holds.                                                          *)
Returns(v) == MayOverwrite(R0) /\ Put(R0, v)

(* createObject, strlen, fopen and the other builtins that claim nothing,  *)
(* and the early returns of those that may.                                *)
CallPlain == Returns(Plain) /\ UNCHANGED <<sp, count, mem>>

(* fread returns a block of its own.                                       *)
CallFresh(k) ==
  /\ k \notin mem
  /\ Returns(k)
  /\ count' = RC!Claimed(count, k)
  /\ mem' = mem \cup {k}
  /\ UNCHANGED sp

(* getObjectMember, of an object and a key, returns a copy of the member.  *)
CallGetMember(m) ==
  /\ sp >= 2 /\ ~ IsRef(slot[sp - 1])
  /\ MayCopy(m)
  /\ Returns(slot[m])
  /\ count' = Holding(count, slot[m])
  /\ UNCHANGED <<sp, mem>>

(* setObjectMember claims its third argument once, and both the member and *)
(* R0 receive it; object_put overwrites the member.                        *)
CallSetMember(m) ==
  LET arg == sp - 3
  IN /\ sp >= 3 /\ ~ IsRef(slot[sp - 1])
     /\ MayCopy(arg) /\ MayOverwrite(m) /\ MayOverwrite(R0)
     /\ count' = Holding(count, slot[arg])
     /\ slot' = [slot EXCEPT ![m] = slot[arg], ![R0] = slot[arg]]
     /\ loan' = [loan EXCEPT
                   ![m] = "none",
                   ![R0] = IF IsRef(slot[arg]) THEN "member" ELSE "none"]
     /\ UNCHANGED <<sp, mem>>

-----------------------------------------------------------------------------
(* The slots an instruction can name.                                      *)
Named == Stack \cup Static \cup Reg

Next ==
  \/ \E s \in Named : LoadConst(s) \/ LoadNull(s) \/ PushCopy(s)
  \/ \E s \in Named, k \in Key : LoadData(s, k)
  \/ \E d, s \in Named : Mov(d, s)
  \/ \E n \in Stack : AdjustSp(n) \/ Pop(n)
  \/ PushConst
  \/ \E k \in Key : PushData(k) \/ CallFresh(k)
  \/ CallPlain
  \/ \E m \in Member : CallGetMember(m) \/ CallSetMember(m)

Spec == Init /\ [][Next]_vars

-----------------------------------------------------------------------------
(* The slots whose references the program need not mind.                   *)
Owners == {s \in Slot : loan[s] = "none"}

(* Every reference that is not on loan is backed by a claim of its own, so *)
(* that no sequence of loads, pushes, pops and calls can drop the claim of *)
(* another slot.                                                           *)
RefsBacked == \A k \in Key : Cardinality(Holders(Owners, k)) <= count[k]

(* What is counted is what is allocated: runtime_release frees a block with*)
(* its last claim, neither before, nor twice, nor when malloc has handed it*)
(* out again.                                                              *)
CountedAllocated == \A k \in Key : count[k] > 0 <=> k \in mem

(* No slot refers to a block that was freed: the data of a string is       *)
(* "managed by refcounter" and stays while a slot with a claim holds it.   *)
NoDangling == \A s \in Owners : IsRef(slot[s]) => slot[s] \in mem

(* The claims of a block that no slot accounts for; a block with one stays *)
(* for ever.                                                               *)
Unheld(k) == count[k] - Cardinality(Holders(Owners, k))

(* The instructions that store over slot s without value_destroy.          *)
StoredOver(s) ==
  \/ LoadNull(s)
  \/ \E d \in Named : Mov(s, d)
  \/ s = R0 /\ (CallPlain \/ \E k \in Key : CallFresh(k))
  \/ \E m \in Member : s = R0 /\ CallGetMember(m)
  \/ \E m \in Member : s \in {R0, m} /\ CallSetMember(m)

(* A claim is lost only where an instruction stores over the very          *)
(* reference that made it: a program that overwrites no claimed reference  *)
(* leaks nothing, whatever it loads, pushes, pops and calls.               *)
LostOnlyByStoring ==
  [][ \A k \in Key :
        Unheld(k)' > Unheld(k) => \E s \in Owners : slot[s] = k /\ StoredOver(s) ]_vars
=============================================================================
