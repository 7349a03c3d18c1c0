------------------------- MODULE SlotMemoryProofs -------------------------
(***************************************************************************)
(* Reference counting is sound for every number of slots and blocks, as    *)
(* long as the program destroys no copy on loan, pushes no stale copy and  *)
(* pushes no block whose last claim lies just above the stack.  The proof  *)
(* follows value_destroy and the store that comes after it: destroying     *)
(* slot s leaves every other claimed reference backed (DestroyBacked), and *)
(* a store claims what it puts into s (PutBacked).                         *)
(***************************************************************************)
EXTENDS SlotMemory, FiniteSetTheorems, TLAPS

(* The slots, and so the holders of a block, are finitely many.            *)
LEMMA SlotFinite == IsFiniteSet(Slot) /\ \A S \in SUBSET Slot : IsFiniteSet(S)
<1>1. IsFiniteSet(Stack)
  BY SlotAssumption, FS_Interval DEF Stack
<1>2. IsFiniteSet(Slot)
  BY <1>1, SlotAssumption, FS_Union DEF Slot
<1>3. QED
  BY <1>2, FS_Subset

(* Cardinalities of the holders of a block among some of the slots.        *)
LEMMA HoldersCard ==
  ASSUME NEW S \in SUBSET Slot, NEW k
  PROVE  /\ IsFiniteSet(Holders(S, k))
         /\ Cardinality(Holders(S, k)) \in Nat
<1>1. Holders(S, k) \in SUBSET Slot
  BY DEF Holders
<1>2. QED
  BY <1>1, SlotFinite, FS_CardinalityType

(* The same of the owners after a step.                                    *)
LEMMA OwnersCard == \A k : Cardinality(Holders(Owners, k)) \in Nat
  BY HoldersCard DEF Owners

LEMMA OwnersCardNext == (\A k : Cardinality(Holders(Owners, k)) \in Nat)'
  BY OwnersCard, PTL

(* Fewer slots have fewer holders.                                         *)
LEMMA HoldersMonotone ==
  ASSUME NEW S \in SUBSET Slot, NEW T \in SUBSET S, NEW k
  PROVE  Cardinality(Holders(T, k)) <= Cardinality(Holders(S, k))
<1>1. Holders(T, k) \in SUBSET Holders(S, k)
  BY DEF Holders
<1>2. QED
  BY <1>1, HoldersCard, FS_Subset

(* Setting one slot aside removes it from the holders of what it holds.    *)
LEMMA HoldersRemove ==
  ASSUME NEW S \in SUBSET Slot, NEW s \in S, NEW k
  PROVE  Cardinality(Holders(S \ {s}, k)) =
           IF slot[s] = k THEN Cardinality(Holders(S, k)) - 1
                          ELSE Cardinality(Holders(S, k))
<1>1. Holders(S \ {s}, k) = Holders(S, k) \ {s}
  BY DEF Holders
<1>2. s \in Holders(S, k) <=> slot[s] = k
  BY DEF Holders
<1>3. Cardinality(Holders(S, k) \ {s}) =
        IF s \in Holders(S, k) THEN Cardinality(Holders(S, k)) - 1
                               ELSE Cardinality(Holders(S, k))
  <2>1. IsFiniteSet(Holders(S, k))
    BY HoldersCard
  <2>2. QED
    BY <2>1, FS_RemoveElement
<1>4. QED
  BY <1>1, <1>2, <1>3

-----------------------------------------------------------------------------
(* The inductive invariant.                                                *)
IInv == TypeOK /\ RefsBacked /\ CountedAllocated

(* A program that destroys, or pushes, no copy on loan it should not.      *)
Careful == Program \subseteq {"overwrite"}

(* value_destroy of an owner keeps the other owners' references backed and *)
(* frees nothing that is still counted.                                    *)
LEMMA DestroyBacked ==
  ASSUME IInv, NEW s \in Owners
  PROVE  /\ CountLess(s) \in [Key -> Nat]
         /\ MemLess(s) \in SUBSET mem
         /\ \A k \in Key :
              /\ Cardinality(Holders(Owners \ {s}, k)) <= CountLess(s)[k]
              /\ CountLess(s)[k] > 0 <=> k \in MemLess(s)
<1> USE DEF IInv
<1>1. Owners \in SUBSET Slot
  BY DEF Owners
<1>2. CASE slot[s] \notin Key
  <2>1. CountLess(s) = count /\ MemLess(s) = mem
    BY <1>2 DEF CountLess, MemLess, IsRef
  <2>2. \A k \in Key : Cardinality(Holders(Owners \ {s}, k)) <= count[k]
    <3> TAKE k \in Key
    <3>1. Cardinality(Holders(Owners \ {s}, k)) = Cardinality(Holders(Owners, k))
      BY <1>1, <1>2, HoldersRemove
    <3>2. QED
      BY <3>1 DEF RefsBacked
  <2>3. QED
    BY <2>1, <2>2 DEF TypeOK, CountedAllocated
<1>3. CASE slot[s] \in Key
  <2> DEFINE h == slot[s]
  <2>1. Cardinality(Holders(Owners \ {s}, h)) = Cardinality(Holders(Owners, h)) - 1
    BY <1>1, HoldersRemove
  <2>2. \A k \in Key \ {h} :
          Cardinality(Holders(Owners \ {s}, k)) = Cardinality(Holders(Owners, k))
    BY <1>1, HoldersRemove
  <2>3. Cardinality(Holders(Owners \ {s}, h)) \in Nat
        /\ Cardinality(Holders(Owners, h)) \in Nat
    BY <1>1, HoldersCard
  <2>4. count[h] \in Nat /\ Cardinality(Holders(Owners, h)) <= count[h]
    BY <1>3 DEF TypeOK, RefsBacked
  <2>5. count[h] > 0
    BY <2>1, <2>3, <2>4
  <2>6. CountLess(s) = [count EXCEPT ![h] = @ - 1]
    BY <1>3, <2>4, <2>5 DEF CountLess, IsRef, RC!Released
  <2>7. MemLess(s) = IF count[h] = 1 THEN mem \ {h} ELSE mem
    BY <1>3 DEF MemLess, IsRef, RC!LastClaim
  <2>8. CountLess(s) \in [Key -> Nat]
    BY <1>3, <2>4, <2>5, <2>6 DEF TypeOK
  <2>9. \A k \in Key :
          Cardinality(Holders(Owners \ {s}, k)) <= CountLess(s)[k]
    <3> SUFFICES ASSUME NEW k \in Key
                 PROVE  Cardinality(Holders(Owners \ {s}, k)) <= CountLess(s)[k]
      OBVIOUS
    <3>1. CASE k = h
      BY <3>1, <2>1, <2>3, <2>4, <2>6 DEF TypeOK
    <3>2. CASE k # h
      BY <3>2, <2>2, <2>6 DEF TypeOK, RefsBacked
    <3>3. QED
      BY <3>1, <3>2
  <2>10. \A k \in Key : CountLess(s)[k] > 0 <=> k \in MemLess(s)
    BY <1>3, <2>4, <2>5, <2>6, <2>7 DEF TypeOK, CountedAllocated
  <2>11. QED
    BY <2>7, <2>8, <2>9, <2>10
<1>4. QED
  BY <1>2, <1>3

(* A store of v into s, with the counts c that back the other owners, is   *)
(* backed once v is claimed.                                               *)
LEMMA PutBacked ==
  ASSUME TypeOK, NEW s \in Slot, NEW v \in Key \cup {Plain}, Put(s, v),
         NEW c \in [Key -> Nat], count' = Holding(c, v),
         \A k \in Key : Cardinality(Holders(Owners \ {s}, k)) <= c[k]
  PROVE  /\ RefsBacked'
         /\ count' \in [Key -> Nat]
         /\ slot' \in [Slot -> Key \cup {Plain}]
         /\ loan' \in [Slot -> {"none", "mov", "member"}]
         /\ \A k \in Key : count'[k] > 0 <=> (c[k] > 0 \/ k = v)
<1>1. /\ slot' \in [Slot -> Key \cup {Plain}]
      /\ loan' \in [Slot -> {"none", "mov", "member"}]
  BY DEF TypeOK, Put
<1>2. /\ count' \in [Key -> Nat]
      /\ \A k \in Key : count'[k] = IF k = v THEN c[k] + 1 ELSE c[k]
  BY PlainAssumption DEF Holding, IsRef, RC!Claimed
<1>3. \A k \in Key : Cardinality(Holders(Owners, k)') <= count'[k]
  <2> SUFFICES ASSUME NEW k \in Key
               PROVE  Cardinality(Holders(Owners, k)') <= count'[k]
    OBVIOUS
  <2> DEFINE H == Holders(Owners \ {s}, k)
  <2>1. IsFiniteSet(H) /\ Cardinality(H) \in Nat
    BY HoldersCard DEF Owners
  <2>2. Cardinality(H) <= c[k]
    OBVIOUS
  <2>3. Owners' = Owners \cup {s}
    BY DEF Owners, Put, TypeOK
  <2>4. Holders(Owners, k)' = IF k = v THEN H \cup {s} ELSE H
    BY <2>3 DEF Holders, Put, TypeOK, Owners
  <2>5. s \notin H
    BY DEF Holders
  <2>6. Cardinality(H \cup {s}) = Cardinality(H) + 1
    <3> HIDE DEF H
    <3> QED BY <2>1, <2>5, FS_AddElement
  <2>7. c[k] \in Nat /\ count'[k] = IF k = v THEN c[k] + 1 ELSE c[k]
    BY <1>2
  <2> HIDE DEF H
  <2>8. CASE k = v
    BY <2>1, <2>2, <2>4, <2>6, <2>7, <2>8
  <2>9. CASE k # v
    BY <2>2, <2>4, <2>7, <2>9
  <2>10. QED
    BY <2>8, <2>9
<1>4. QED
  BY <1>1, <1>2, <1>3 DEF RefsBacked
-----------------------------------------------------------------------------
(* value_setInt and its like keep the invariant.                           *)
LEMMA SetPlainStep ==
  ASSUME Careful, IInv, NEW s \in Slot, SetPlain(s), sp' \in Stack
  PROVE  IInv'
<1>1. s \in Owners
  BY DEF SetPlain, MayDestroy, Careful, Owners, IInv, TypeOK
<1>2. /\ Put(s, Plain)
      /\ count' = Holding(CountLess(s), Plain)
      /\ mem' = MemLess(s)
  BY PlainAssumption DEF SetPlain, Holding, IsRef
<1>3. /\ CountLess(s) \in [Key -> Nat]
      /\ MemLess(s) \in SUBSET mem
      /\ \A k \in Key :
           /\ Cardinality(Holders(Owners \ {s}, k)) <= CountLess(s)[k]
           /\ CountLess(s)[k] > 0 <=> k \in MemLess(s)
  BY <1>1, DestroyBacked
<1>4. TypeOK
  BY DEF IInv
<1> HIDE DEF IInv
<1>5. /\ RefsBacked'
      /\ count' \in [Key -> Nat]
      /\ slot' \in [Slot -> Key \cup {Plain}]
      /\ loan' \in [Slot -> {"none", "mov", "member"}]
      /\ \A k \in Key : count'[k] > 0 <=> (CountLess(s)[k] > 0 \/ k = Plain)
  BY <1>2, <1>3, <1>4, PutBacked
<1>6. TypeOK' /\ CountedAllocated'
  BY <1>2, <1>3, <1>4, <1>5, PlainAssumption DEF TypeOK, CountedAllocated
<1>7. QED
  BY <1>5, <1>6 DEF IInv

(* value_setRefCounted of a new block keeps the invariant.                 *)
LEMMA SetFreshStep ==
  ASSUME Careful, IInv, NEW s \in Slot, NEW k \in Key, SetFresh(s, k),
         sp' \in Stack
  PROVE  IInv'
<1>1. s \in Owners
  BY DEF SetFresh, MayDestroy, Careful, Owners, IInv, TypeOK
<1>2. /\ Put(s, k)
      /\ count' = Holding(CountLess(s), k)
      /\ mem' = MemLess(s) \cup {k}
  BY DEF SetFresh, Holding, IsRef
<1>3. /\ CountLess(s) \in [Key -> Nat]
      /\ MemLess(s) \in SUBSET mem
      /\ \A j \in Key :
           /\ Cardinality(Holders(Owners \ {s}, j)) <= CountLess(s)[j]
           /\ CountLess(s)[j] > 0 <=> j \in MemLess(s)
  BY <1>1, DestroyBacked
<1>4. TypeOK
  BY DEF IInv
<1>5. /\ RefsBacked'
      /\ count' \in [Key -> Nat]
      /\ slot' \in [Slot -> Key \cup {Plain}]
      /\ loan' \in [Slot -> {"none", "mov", "member"}]
      /\ \A j \in Key : count'[j] > 0 <=> (CountLess(s)[j] > 0 \/ j = k)
  BY <1>2, <1>3, <1>4, PutBacked
<1>6. TypeOK' /\ CountedAllocated'
  BY <1>2, <1>3, <1>4, <1>5 DEF TypeOK, CountedAllocated
<1>7. QED
  BY <1>5, <1>6 DEF IInv

(* OP_PUSH of a slot keeps the invariant: destroying the slot above the    *)
(* stack does not free the block that is copied into it.                   *)
LEMMA PushCopyStep ==
  ASSUME Careful, IInv, NEW s \in Slot, PushCopy(s), sp' \in Stack
  PROVE  IInv'
<1> DEFINE v == slot[s]
<1>1. sp \in Slot /\ sp \in Owners /\ v \in Key \cup {Plain}
  BY DEF PushCopy, CopyValue, MayDestroy, Careful, Owners, IInv, TypeOK, Slot
<1>2. /\ Put(sp, v)
      /\ count' = Holding(CountLess(sp), v)
      /\ mem' = MemLess(sp)
  BY DEF PushCopy, CopyValue
<1>3. /\ CountLess(sp) \in [Key -> Nat]
      /\ MemLess(sp) \in SUBSET mem
      /\ \A k \in Key :
           /\ Cardinality(Holders(Owners \ {sp}, k)) <= CountLess(sp)[k]
           /\ CountLess(sp)[k] > 0 <=> k \in MemLess(sp)
  BY <1>1, DestroyBacked
<1>4. TypeOK
  BY DEF IInv
<1>5. /\ RefsBacked'
      /\ count' \in [Key -> Nat]
      /\ slot' \in [Slot -> Key \cup {Plain}]
      /\ loan' \in [Slot -> {"none", "mov", "member"}]
      /\ \A k \in Key : count'[k] > 0 <=> (CountLess(sp)[k] > 0 \/ k = v)
  BY <1>1, <1>2, <1>3, <1>4, PutBacked
<1>6. v \in Key => v \in mem
  BY DEF PushCopy, CopyValue, MayCopy, IsRef, Careful
<1>7. v \in Key => v \in MemLess(sp)
  BY <1>6 DEF PushCopy, MemLess, IsRef, Careful, RC!LastClaim
<1>8. TypeOK' /\ CountedAllocated'
  BY <1>2, <1>3, <1>4, <1>5, <1>7 DEF TypeOK, CountedAllocated
<1>9. QED
  BY <1>5, <1>8 DEF IInv

(* A store that destroys nothing keeps every other reference backed.       *)
LEMMA OverwriteBacked ==
  ASSUME IInv, NEW s \in Slot
  PROVE  \A k \in Key : Cardinality(Holders(Owners \ {s}, k)) <= count[k]
<1> TAKE k \in Key
<1>1. Owners \in SUBSET Slot /\ Owners \ {s} \in SUBSET Owners
  BY DEF Owners
<1>2. Cardinality(Holders(Owners \ {s}, k)) <= Cardinality(Holders(Owners, k))
  BY <1>1, HoldersMonotone
<1>3. /\ Cardinality(Holders(Owners \ {s}, k)) \in Nat
      /\ Cardinality(Holders(Owners, k)) \in Nat
      /\ count[k] \in Nat
  BY <1>1, HoldersCard DEF IInv, TypeOK
<1>4. QED
  BY <1>2, <1>3 DEF IInv, RefsBacked

(* A store over s of a value claimed once keeps the invariant.             *)
LEMMA OverwriteStep ==
  ASSUME IInv, NEW s \in Slot, NEW v \in Key \cup {Plain}, Put(s, v),
         count' = Holding(count, v), mem' \in SUBSET Key, mem \subseteq mem',
         mem' \subseteq mem \cup {v}, v \in Key => v \in mem',
         sp' \in Stack
  PROVE  IInv'
<1>1. TypeOK /\ count \in [Key -> Nat]
  BY DEF IInv, TypeOK
<1>2. \A k \in Key : Cardinality(Holders(Owners \ {s}, k)) <= count[k]
  BY OverwriteBacked
<1>3. /\ RefsBacked'
      /\ count' \in [Key -> Nat]
      /\ slot' \in [Slot -> Key \cup {Plain}]
      /\ loan' \in [Slot -> {"none", "mov", "member"}]
      /\ \A k \in Key : count'[k] > 0 <=> (count[k] > 0 \/ k = v)
  BY <1>1, <1>2, PutBacked
<1>4. TypeOK' /\ CountedAllocated'
  BY <1>1, <1>3 DEF IInv, TypeOK, CountedAllocated
<1>5. QED
  BY <1>3, <1>4 DEF IInv

(* OP_MOV claims nothing and what it copies is on loan.                    *)
LEMMA MovStep ==
  ASSUME IInv, NEW d \in Slot, NEW s \in Slot, Mov(d, s), sp' \in Stack
  PROVE  IInv'
<1>1. /\ slot' \in [Slot -> Key \cup {Plain}]
      /\ loan' \in [Slot -> {"none", "mov", "member"}]
      /\ UNCHANGED <<count, mem>>
  BY DEF Mov, IInv, TypeOK
<1>2. TypeOK' /\ CountedAllocated'
  BY <1>1 DEF IInv, TypeOK, CountedAllocated
<1>3. ASSUME NEW k \in Key
      PROVE  Holders(Owners, k)' = Holders(Owners \ {d}, k)
  BY PlainAssumption DEF Holders, Owners, Mov, IInv, TypeOK, IsRef
<1>4. RefsBacked'
  BY <1>1, <1>3, OverwriteBacked DEF RefsBacked
<1>5. QED
  BY <1>2, <1>4 DEF IInv

(* setObjectMember claims the reference it stores once; the copy in R0 is  *)
(* on loan.                                                                *)
LEMMA SetMemberStep ==
  ASSUME Careful, IInv, NEW m \in Member, CallSetMember(m)
  PROVE  IInv'
<1> DEFINE v == slot[sp - 3]
<1>1. m \in Slot /\ R0 \in Slot /\ m # R0 /\ sp - 3 \in Slot
  BY SlotAssumption DEF Slot, Stack, CallSetMember, IInv, TypeOK
<1>2. /\ v \in Key \cup {Plain}
      /\ v \in Key => v \in mem
  BY <1>1 DEF CallSetMember, MayCopy, IsRef, Careful, IInv, TypeOK
<1> HIDE DEF v
<1>3. /\ slot' = [slot EXCEPT ![m] = v, ![R0] = v]
      /\ loan' = [loan EXCEPT ![m] = "none",
                              ![R0] = IF v \in Key THEN "member" ELSE "none"]
      /\ count' = Holding(count, v)
      /\ UNCHANGED <<sp, mem>>
  BY DEF CallSetMember, IsRef, v
<1>4. /\ count' \in [Key -> Nat]
      /\ \A k \in Key : count'[k] = IF k = v THEN count[k] + 1 ELSE count[k]
  BY <1>3, PlainAssumption, <1>2 DEF Holding, IsRef, RC!Claimed, IInv, TypeOK
<1>5. TypeOK' /\ CountedAllocated'
  BY <1>1, <1>2, <1>3, <1>4 DEF IInv, TypeOK, CountedAllocated
<1>6. ASSUME NEW k \in Key
      PROVE  Cardinality(Holders(Owners, k)') <= count'[k]
  <2> DEFINE H == Holders(Owners \ {m}, k)
             G == Holders((Owners \ {m}) \ {R0}, k)
  <2>1. /\ IsFiniteSet(H) /\ Cardinality(H) \in Nat
        /\ IsFiniteSet(G) /\ Cardinality(G) \in Nat
        /\ Cardinality(G) <= Cardinality(H)
    BY HoldersCard, HoldersMonotone DEF Owners
  <2>2. Cardinality(H) <= count[k]
    BY <1>1, OverwriteBacked
  <2>3. Holders(Owners, k)' = IF k = v THEN G \cup {m} ELSE G
    BY <1>1, <1>3, PlainAssumption, <1>2 DEF Holders, Owners, IInv, TypeOK
  <2>4. m \notin G
    BY DEF Holders
  <2> HIDE DEF H, G
  <2>5. Cardinality(G \cup {m}) = Cardinality(G) + 1
    BY <2>1, <2>4, FS_AddElement
  <2>6. count[k] \in Nat /\ count'[k] = IF k = v THEN count[k] + 1 ELSE count[k]
    BY <1>4 DEF IInv, TypeOK
  <2>7. CASE k = v
    BY <2>1, <2>2, <2>3, <2>5, <2>6, <2>7
  <2>8. CASE k # v
    BY <2>1, <2>2, <2>3, <2>6, <2>8
  <2>9. QED
    BY <2>7, <2>8
<1>7. QED
  BY <1>5, <1>6 DEF IInv, RefsBacked

(* OP_POP releases one claim for each reference it removes.                *)
LEMMA PopStep ==
  ASSUME Careful, IInv, NEW n \in Stack, Pop(n)
  PROVE  IInv'
<1> DEFINE popped == sp - n .. sp - 1
           drops(k) == Cardinality(Holders(popped, k))
<1>1. popped \in SUBSET Stack /\ popped \in SUBSET Slot /\ sp' \in Stack
  BY SlotAssumption DEF Pop, Stack, Slot, IInv, TypeOK
<1>2. popped \in SUBSET Owners
  BY <1>1 DEF Pop, MayDestroy, Careful, Owners, IInv, TypeOK
<1>3. /\ slot' = [s \in Slot |-> IF s \in popped THEN Plain ELSE slot[s]]
      /\ loan' = [s \in Slot |-> IF s \in popped THEN "none" ELSE loan[s]]
      /\ count' = [k \in Key |->
                     IF drops(k) < count[k] THEN count[k] - drops(k) ELSE 0]
      /\ mem' = mem \ {k \in Key : 0 < count[k] /\ count[k] <= drops(k)}
  BY DEF Pop
<1>4. \A k \in Key : drops(k) \in Nat /\ count[k] \in Nat
  BY <1>1, HoldersCard DEF IInv, TypeOK
<1> HIDE DEF popped
<1>5. TypeOK'
  BY <1>1, <1>3, <1>4 DEF IInv, TypeOK
<1>6. CountedAllocated'
  BY <1>3, <1>4 DEF IInv, CountedAllocated
<1>7. ASSUME NEW k \in Key
      PROVE  Cardinality(Holders(Owners, k)') <= count'[k]
  <2> DEFINE H == Holders(Owners, k)
             D == Holders(popped, k)
  <2>1. IsFiniteSet(H) /\ Cardinality(H) \in Nat
    BY HoldersCard DEF Owners
  <2>2. Holders(Owners, k)' = H \ D
    BY <1>2, <1>3, PlainAssumption DEF Holders, Owners, IInv, TypeOK
  <2>3. D \cap H = D
    BY <1>2 DEF Holders
  <2>4. Cardinality(H) <= count[k]
    BY DEF IInv, RefsBacked
  <2>5. count'[k] = IF Cardinality(D) < count[k] THEN count[k] - Cardinality(D)
                                                 ELSE 0
    BY <1>3
  <2>6. Cardinality(D) \in Nat
    BY <1>4
  <2> HIDE DEF H, D
  <2>7. Cardinality(H \ D) = Cardinality(H) - Cardinality(D)
    BY <2>1, <2>3, FS_Difference
  <2>8. Cardinality(H \ D) \in Nat
    BY <2>1, FS_Difference, FS_CardinalityType
  <2>9. QED
    BY <1>4, <2>1, <2>2, <2>4, <2>5, <2>6, <2>7, <2>8
<1>8. QED
  BY <1>5, <1>6, <1>7 DEF IInv, RefsBacked
-----------------------------------------------------------------------------
(* datatable_create leaves no reference in any slot.                       *)
LEMMA InitIInv == Init => IInv
<1> SUFFICES ASSUME Init PROVE IInv
  OBVIOUS
<1>1. TypeOK /\ CountedAllocated
  BY SlotAssumption DEF Init, RC!Init, TypeOK, CountedAllocated, Stack
<1>2. \A k \in Key : Holders(Owners, k) = {} /\ count[k] = 0
  BY PlainAssumption DEF Init, RC!Init, Holders, Owners
<1>3. RefsBacked
  BY <1>2, FS_EmptySet DEF RefsBacked
<1>4. QED
  BY <1>1, <1>3 DEF IInv

(* Every instruction keeps the invariant.                                  *)
LEMMA NextIInv == ASSUME Careful PROVE IInv /\ [Next]_vars => IInv'
<1> SUFFICES ASSUME IInv, [Next]_vars PROVE IInv'
  OBVIOUS
<1>1. sp \in Stack /\ sp \in Slot /\ Named \subseteq Slot /\ Member \subseteq Slot
      /\ R0 \in Slot /\ TypeOK
  BY SlotAssumption DEF IInv, TypeOK, Slot, Named
<1>2. ASSUME Pushed PROVE sp' \in Stack
  BY <1>1, <1>2, SlotAssumption DEF Pushed, Stack
<1>3. ASSUME NEW s \in Named, LoadConst(s) PROVE IInv'
  BY <1>1, <1>3, SetPlainStep DEF LoadConst
<1>4. ASSUME NEW s \in Named, LoadNull(s) PROVE IInv'
  <2>1. /\ Put(s, Plain) /\ count' = Holding(count, Plain)
        /\ UNCHANGED <<sp, mem>>
    BY <1>4, PlainAssumption DEF LoadNull, Holding, IsRef
  <2>2. QED
    BY <1>1, <2>1, OverwriteStep, PlainAssumption DEF TypeOK
<1>5. ASSUME NEW s \in Named, PushCopy(s) PROVE IInv'
  BY <1>1, <1>2, <1>5, PushCopyStep DEF PushCopy
<1>6. ASSUME NEW s \in Named, NEW k \in Key, LoadData(s, k) PROVE IInv'
  BY <1>1, <1>6, SetFreshStep DEF LoadData
<1>7. ASSUME NEW d \in Named, NEW s \in Named, Mov(d, s) PROVE IInv'
  BY <1>1, <1>7, MovStep DEF Mov
<1>8. ASSUME NEW n \in Stack, AdjustSp(n) PROVE IInv'
  BY <1>8 DEF AdjustSp, IInv, TypeOK, RefsBacked, CountedAllocated, Owners,
              Holders
<1>9. ASSUME NEW n \in Stack, Pop(n) PROVE IInv'
  BY <1>9, PopStep
<1>10. CASE PushConst
  BY <1>1, <1>2, <1>10, SetPlainStep DEF PushConst
<1>11. ASSUME NEW k \in Key, PushData(k) PROVE IInv'
  BY <1>1, <1>2, <1>11, SetFreshStep DEF PushData
<1>12. ASSUME NEW k \in Key, CallFresh(k) PROVE IInv'
  <2>1. /\ Put(R0, k) /\ count' = Holding(count, k) /\ mem' = mem \cup {k}
        /\ UNCHANGED sp
    BY <1>12 DEF CallFresh, Returns, Holding, IsRef
  <2>2. QED
    BY <1>1, <2>1, OverwriteStep DEF TypeOK
<1>13. CASE CallPlain
  <2>1. /\ Put(R0, Plain) /\ count' = Holding(count, Plain)
        /\ UNCHANGED <<sp, mem>>
    BY <1>13, PlainAssumption DEF CallPlain, Returns, Holding, IsRef
  <2>2. QED
    BY <1>1, <2>1, OverwriteStep, PlainAssumption DEF TypeOK
<1>14. ASSUME NEW m \in Member, CallGetMember(m) PROVE IInv'
  <2>1. /\ Put(R0, slot[m]) /\ count' = Holding(count, slot[m])
        /\ UNCHANGED <<sp, mem>>
        /\ slot[m] \in Key => slot[m] \in mem
    BY <1>14 DEF CallGetMember, Returns, MayCopy, IsRef, Careful
  <2>2. slot[m] \in Key \cup {Plain}
    BY <1>1 DEF TypeOK
  <2>3. QED
    BY <1>1, <2>1, <2>2, OverwriteStep DEF TypeOK
<1>15. ASSUME NEW m \in Member, CallSetMember(m) PROVE IInv'
  BY <1>15, SetMemberStep
<1>16. CASE UNCHANGED vars
  BY <1>16 DEF vars, IInv, TypeOK, RefsBacked, CountedAllocated, Owners, Holders
<1>17. QED
  BY <1>3, <1>4, <1>5, <1>6, <1>7, <1>8, <1>9, <1>10, <1>11, <1>12, <1>13,
     <1>14, <1>15, <1>16 DEF Next

(* The slots hold references or plain values and the stack pointer stays   *)
(* on the stack: OP_PUSH checks the one, OP_POP of what was pushed the     *)
(* other.                                                                  *)
THEOREM TypeCorrect == ASSUME Careful PROVE Spec => []TypeOK
<1>1. Init => IInv
  BY InitIInv
<1>2. IInv /\ [Next]_vars => IInv'
  BY NextIInv
<1>3. IInv => TypeOK
  BY DEF IInv
<1>4. QED
  BY <1>1, <1>2, <1>3, PTL DEF Spec

(* Every step a careful program takes leaves each reference that is not on *)
(* loan with a claim of its own, and every counted block allocated.        *)
THEOREM CountsSound == ASSUME Careful PROVE Spec => [](RefsBacked /\ CountedAllocated)
<1>1. Init => IInv
  BY InitIInv
<1>2. IInv /\ [Next]_vars => IInv'
  BY NextIInv
<1>3. IInv => RefsBacked /\ CountedAllocated
  BY DEF IInv
<1>4. QED
  BY <1>1, <1>2, <1>3, PTL DEF Spec

(* A counted block is allocated, and an allocated one is counted: the      *)
(* table of counts and the C heap agree (runtime.c's claim and release).   *)
THEOREM CountedMeansAllocated == ASSUME Careful PROVE Spec => []CountedAllocated
<1>1. (RefsBacked /\ CountedAllocated) => CountedAllocated
  OBVIOUS
<1>2. QED
  BY <1>1, CountsSound, PTL

(* A reference that is not on loan never refers to a freed block: its      *)
(* holder keeps the count above zero, and what is counted is allocated.    *)
THEOREM NeverDangling == ASSUME Careful PROVE Spec => []NoDangling
<1>1. Init => IInv
  BY InitIInv
<1>2. IInv /\ [Next]_vars => IInv'
  BY NextIInv
<1>3. IInv => NoDangling
  <2> SUFFICES ASSUME IInv, NEW s \in Owners, slot[s] \in Key
               PROVE  slot[s] \in mem
    BY DEF NoDangling, IsRef
  <2> DEFINE H == Holders(Owners, slot[s])
  <2>1. IsFiniteSet(H) /\ Cardinality(H) \in Nat
    BY HoldersCard DEF Owners
  <2>2. s \in H
    BY DEF Holders
  <2>3. Cardinality(H) <= count[slot[s]] /\ count[slot[s]] \in Nat
    BY DEF IInv, RefsBacked, TypeOK
  <2> HIDE DEF H
  <2>4. Cardinality(H) # 0
    BY <2>1, <2>2, FS_EmptySet
  <2>5. QED
    BY <2>1, <2>3, <2>4 DEF IInv, CountedAllocated
<1>4. QED
  BY <1>1, <1>2, <1>3, PTL DEF Spec

-----------------------------------------------------------------------------
(* What a claim without an owner is worth: destroying an owner of k drops  *)
(* one of each.                                                            *)
LEMMA DestroyExact ==
  ASSUME IInv, NEW s \in Owners, NEW k \in Key
  PROVE  CountLess(s)[k] - Cardinality(Holders(Owners \ {s}, k)) = Unheld(k)
<1> DEFINE h == slot[s]
<1>1. Owners \in SUBSET Slot
  BY DEF Owners
<1>2. Cardinality(Holders(Owners \ {s}, k)) =
        IF h = k THEN Cardinality(Holders(Owners, k)) - 1
                 ELSE Cardinality(Holders(Owners, k))
  BY <1>1, HoldersRemove
<1>3. /\ Cardinality(Holders(Owners \ {s}, k)) \in Nat
      /\ Cardinality(Holders(Owners, k)) \in Nat
      /\ count \in [Key -> Nat]
  BY <1>1, HoldersCard DEF IInv, TypeOK
<1>4. CASE h = k
  <2>1. count[k] > 0
    BY <1>2, <1>3, <1>4 DEF IInv, RefsBacked
  <2>2. CountLess(s)[k] = count[k] - 1
    BY <1>3, <1>4, <2>1 DEF CountLess, IsRef, RC!Released
  <2>3. QED
    BY <1>2, <1>3, <1>4, <2>2 DEF Unheld
<1>5. CASE h # k
  <2>1. CountLess(s)[k] = count[k]
    BY <1>3, <1>5 DEF CountLess, IsRef, RC!Released
  <2>2. QED
    BY <1>2, <1>5, <2>1 DEF Unheld
<1>6. QED
  BY <1>4, <1>5

(* A store that claims what it stores adds one of each.                    *)
LEMMA PutExact ==
  ASSUME TypeOK, NEW s \in Slot, NEW v \in Key \cup {Plain}, Put(s, v),
         NEW c \in [Key -> Nat], count' = Holding(c, v), NEW k \in Key
  PROVE  Unheld(k)' = c[k] - Cardinality(Holders(Owners \ {s}, k))
<1> DEFINE H == Holders(Owners \ {s}, k)
<1>1. IsFiniteSet(H) /\ Cardinality(H) \in Nat /\ s \notin H
  <2>1. Owners \ {s} \in SUBSET Slot
    BY DEF Owners
  <2>2. QED
    BY <2>1, HoldersCard DEF Holders
<1>2. count'[k] = IF k = v THEN c[k] + 1 ELSE c[k]
  BY PlainAssumption DEF Holding, IsRef, RC!Claimed
<1>3. Owners' = Owners \cup {s}
  BY DEF Owners, Put, TypeOK
<1>4. Holders(Owners, k)' = IF k = v THEN H \cup {s} ELSE H
  BY <1>3 DEF Holders, Put, TypeOK, Owners
<1>5. Unheld(k)' = count'[k] - Cardinality(Holders(Owners, k)')
  BY DEF Unheld
<1>6. c[k] \in Nat
  OBVIOUS
<1> HIDE DEF H
<1>7. Cardinality(H \cup {s}) = Cardinality(H) + 1
  BY <1>1, FS_AddElement
<1>8. Unheld(k)' = c[k] - Cardinality(H)
  BY <1>1, <1>2, <1>4, <1>5, <1>6, <1>7
<1>9. QED
  BY <1>8 DEF H

(* value_destroy and a store after it lose no claim and make up none.      *)
LEMMA ReplaceExact ==
  ASSUME IInv, NEW s \in Owners, NEW v \in Key \cup {Plain}, Put(s, v),
         count' = Holding(CountLess(s), v), NEW k \in Key
  PROVE  Unheld(k)' = Unheld(k)
<1>1. TypeOK /\ s \in Slot
  BY DEF IInv, Owners
<1>2. CountLess(s) \in [Key -> Nat]
  BY DestroyBacked
<1>3. Unheld(k)' = CountLess(s)[k] - Cardinality(Holders(Owners \ {s}, k))
  BY <1>1, <1>2, PutExact
<1>4. QED
  BY <1>3, DestroyExact

(* A slot that is left out was among the holders, if they are fewer now.   *)
LEMMA FewerHolders ==
  ASSUME IInv, NEW S \in SUBSET Owners, NEW k \in Key,
         \A s \in Owners \ S : slot[s] # k
  PROVE  count[k] - Cardinality(Holders(S, k)) = Unheld(k)
<1>1. Holders(S, k) = Holders(Owners, k)
  BY DEF Holders
<1>2. QED
  BY <1>1 DEF Unheld

(* A store that destroys nothing loses the claim of what it stores over,   *)
(* and no other.                                                           *)
LEMMA OverwriteLoses ==
  ASSUME IInv, NEW s \in Slot, NEW v \in Key \cup {Plain}, Put(s, v),
         count' = Holding(count, v), NEW k \in Key, Unheld(k)' # Unheld(k)
  PROVE  s \in Owners /\ slot[s] = k
<1>1. TypeOK /\ count \in [Key -> Nat]
  BY DEF IInv, TypeOK
<1>2. Unheld(k)' = count[k] - Cardinality(Holders(Owners \ {s}, k))
  BY <1>1, PutExact
<1>3. ~ \A t \in Owners \ (Owners \ {s}) : slot[t] # k
  BY <1>2, FewerHolders
<1>4. QED
  BY <1>3

(* Nor does OP_MOV, which claims nothing for the copy it leaves.           *)
LEMMA MovLoses ==
  ASSUME IInv, NEW d \in Slot, NEW s \in Slot, Mov(d, s), NEW k \in Key,
         Unheld(k)' # Unheld(k)
  PROVE  d \in Owners /\ slot[d] = k
<1>1. Holders(Owners, k)' = Holders(Owners \ {d}, k)
  BY PlainAssumption DEF Holders, Owners, Mov, IInv, TypeOK, IsRef
<1>2. Unheld(k)' = count[k] - Cardinality(Holders(Owners \ {d}, k))
  BY <1>1 DEF Unheld, Mov
<1>3. ~ \A t \in Owners \ (Owners \ {d}) : slot[t] # k
  BY <1>2, FewerHolders
<1>4. QED
  BY <1>3

(* setObjectMember stores over the member and register 0, and claims once. *)
LEMMA SetMemberLoses ==
  ASSUME IInv, NEW m \in Member, CallSetMember(m), NEW k \in Key,
         Unheld(k)' # Unheld(k)
  PROVE  \E s \in {R0, m} : s \in Owners /\ slot[s] = k
<1> DEFINE v == slot[sp - 3]
           G == Holders((Owners \ {m}) \ {R0}, k)
<1>1. m \in Slot /\ R0 \in Slot /\ m # R0 /\ sp - 3 \in Slot
  BY SlotAssumption DEF Slot, Stack, CallSetMember, IInv, TypeOK
<1>2. v \in Key \cup {Plain}
  BY <1>1 DEF IInv, TypeOK
<1>3. /\ slot' = [slot EXCEPT ![m] = v, ![R0] = v]
      /\ loan' = [loan EXCEPT ![m] = "none",
                              ![R0] = IF v \in Key THEN "member" ELSE "none"]
      /\ count' = Holding(count, v)
  BY DEF CallSetMember, IsRef
<1> HIDE DEF v
<1>4. count[k] \in Nat /\ count'[k] = IF k = v THEN count[k] + 1 ELSE count[k]
  BY <1>2, <1>3, PlainAssumption DEF Holding, IsRef, RC!Claimed, IInv, TypeOK
<1>5. Holders(Owners, k)' = IF k = v THEN G \cup {m} ELSE G
  BY <1>1, <1>2, <1>3, PlainAssumption DEF Holders, Owners, IInv, TypeOK
<1>6. IsFiniteSet(G) /\ Cardinality(G) \in Nat /\ m \notin G
  <2>1. (Owners \ {m}) \ {R0} \in SUBSET Slot
    BY DEF Owners
  <2>2. QED
    BY <2>1, HoldersCard DEF Holders
<1>7. Unheld(k)' = count'[k] - Cardinality(Holders(Owners, k)')
  BY DEF Unheld
<1> HIDE DEF G
<1>8. Cardinality(G \cup {m}) = Cardinality(G) + 1
  BY <1>6, FS_AddElement
<1>9. Unheld(k)' = count[k] - Cardinality(G)
  BY <1>4, <1>5, <1>6, <1>7, <1>8
<1>10. ~ \A t \in Owners \ ((Owners \ {m}) \ {R0}) : slot[t] # k
  BY <1>9, FewerHolders DEF G
<1>11. QED
  BY <1>10

(* OP_POP releases a claim for each reference it removes.                  *)
LEMMA PopExact ==
  ASSUME Careful, IInv, NEW n \in Stack, Pop(n), NEW k \in Key
  PROVE  Unheld(k)' = Unheld(k)
<1> DEFINE popped == sp - n .. sp - 1
           H == Holders(Owners, k)
           D == Holders(popped, k)
<1>1. popped \in SUBSET Stack /\ popped \in SUBSET Slot
  BY SlotAssumption DEF Pop, Stack, Slot, IInv, TypeOK
<1>2. popped \in SUBSET Owners
  BY <1>1 DEF Pop, MayDestroy, Careful, Owners, IInv, TypeOK
<1>3. /\ slot' = [s \in Slot |-> IF s \in popped THEN Plain ELSE slot[s]]
      /\ loan' = [s \in Slot |-> IF s \in popped THEN "none" ELSE loan[s]]
      /\ count'[k] = IF Cardinality(D) < count[k]
                       THEN count[k] - Cardinality(D) ELSE 0
  BY DEF Pop
<1>4. IsFiniteSet(H) /\ Cardinality(H) \in Nat /\ Cardinality(D) \in Nat
      /\ count[k] \in Nat /\ Cardinality(H) <= count[k]
  BY <1>1, HoldersCard DEF Owners, IInv, TypeOK, RefsBacked
<1>5. D \cap H = D
  BY <1>2 DEF Holders
<1> HIDE DEF popped
<1>6. Holders(Owners, k)' = H \ D
  BY <1>2, <1>3, PlainAssumption DEF Holders, Owners, IInv, TypeOK
<1>7. Unheld(k) = count[k] - Cardinality(H)
  BY DEF Unheld
<1>8. Unheld(k)' = count'[k] - Cardinality(Holders(Owners, k)')
  BY DEF Unheld
<1> HIDE DEF H, D
<1>9. IsFiniteSet(H \ D) /\ Cardinality(H \ D) = Cardinality(H) - Cardinality(H \cap D)
  BY <1>4, FS_Difference
<1>10. H \cap D = D /\ Cardinality(H \ D) \in Nat
  BY <1>5, <1>9, FS_CardinalityType
<1>11. Cardinality(H \ D) = Cardinality(H) - Cardinality(D)
  BY <1>9, <1>10
<1>12. QED
  BY <1>3, <1>4, <1>6, <1>7, <1>8, <1>10, <1>11

(* Each instruction, and whose claim it may lose.                          *)
LEMMA NextLoses ==
  ASSUME Careful, IInv, Next, NEW k \in Key, Unheld(k)' # Unheld(k)
  PROVE  \E s \in Owners : slot[s] = k /\ StoredOver(s)
<1>1. sp \in Stack /\ sp \in Slot /\ Named \subseteq Slot /\ Member \subseteq Slot
      /\ R0 \in Slot /\ TypeOK /\ slot \in [Slot -> Key \cup {Plain}]
  BY SlotAssumption DEF IInv, TypeOK, Slot, Named
<1>2. ASSUME NEW s \in Slot, MayDestroy(s) PROVE s \in Owners
  BY <1>1, <1>2 DEF MayDestroy, Careful, Owners, TypeOK
<1>3. ASSUME NEW s \in Slot, SetPlain(s) PROVE FALSE
  <2>1. s \in Owners
    BY <1>2, <1>3 DEF SetPlain
  <2>2. Put(s, Plain) /\ count' = Holding(CountLess(s), Plain)
    BY <1>3, PlainAssumption DEF SetPlain, Holding, IsRef
  <2>3. QED
    BY <2>1, <2>2, ReplaceExact
<1>4. ASSUME NEW s \in Slot, NEW j \in Key, SetFresh(s, j) PROVE FALSE
  <2>1. s \in Owners
    BY <1>2, <1>4 DEF SetFresh
  <2>2. Put(s, j) /\ count' = Holding(CountLess(s), j)
    BY <1>4 DEF SetFresh, Holding, IsRef
  <2>3. QED
    BY <2>1, <2>2, ReplaceExact
<1>5. ASSUME NEW s \in Named, PushCopy(s) PROVE FALSE
  <2>1. sp \in Owners
    BY <1>1, <1>2, <1>5 DEF PushCopy, CopyValue
  <2>2. Put(sp, slot[s]) /\ count' = Holding(CountLess(sp), slot[s])
    BY <1>5 DEF PushCopy, CopyValue
  <2>3. slot[s] \in Key \cup {Plain}
    BY <1>1
  <2>4. QED
    BY <2>1, <2>2, <2>3, ReplaceExact
<1>6. ASSUME NEW s \in Named, LoadNull(s)
      PROVE  s \in Owners /\ slot[s] = k /\ StoredOver(s)
  <2>1. Put(s, Plain) /\ count' = Holding(count, Plain)
    BY <1>6, PlainAssumption DEF LoadNull, Holding, IsRef
  <2>2. s \in Owners /\ slot[s] = k
    BY <1>1, <2>1, OverwriteLoses
  <2>3. QED
    BY <1>6, <2>2 DEF StoredOver
<1>7. ASSUME NEW d \in Named, NEW s \in Named, Mov(d, s)
      PROVE  d \in Owners /\ slot[d] = k /\ StoredOver(d)
  <2>1. d \in Owners /\ slot[d] = k
    BY <1>1, <1>7, MovLoses
  <2>2. QED
    BY <1>7, <2>1 DEF StoredOver
<1>8. ASSUME NEW n \in Stack, AdjustSp(n) PROVE FALSE
  BY <1>8 DEF AdjustSp, Unheld, Holders, Owners
<1>9. ASSUME NEW n \in Stack, Pop(n) PROVE FALSE
  BY <1>9, PopExact
<1>10. ASSUME NEW j \in Key, CallFresh(j)
       PROVE  R0 \in Owners /\ slot[R0] = k /\ StoredOver(R0)
  <2>1. Put(R0, j) /\ count' = Holding(count, j)
    BY <1>10 DEF CallFresh, Returns, Holding, IsRef
  <2>2. R0 \in Owners /\ slot[R0] = k
    BY <1>1, <2>1, OverwriteLoses
  <2>3. QED
    BY <1>10, <2>2 DEF StoredOver
<1>11. ASSUME CallPlain
       PROVE  R0 \in Owners /\ slot[R0] = k /\ StoredOver(R0)
  <2>1. Put(R0, Plain) /\ count' = Holding(count, Plain)
    BY <1>11, PlainAssumption DEF CallPlain, Returns, Holding, IsRef
  <2>2. R0 \in Owners /\ slot[R0] = k
    BY <1>1, <2>1, OverwriteLoses
  <2>3. QED
    BY <1>11, <2>2 DEF StoredOver
<1>12. ASSUME NEW m \in Member, CallGetMember(m)
       PROVE  R0 \in Owners /\ slot[R0] = k /\ StoredOver(R0)
  <2>1. Put(R0, slot[m]) /\ count' = Holding(count, slot[m])
    BY <1>12 DEF CallGetMember, Returns
  <2>2. slot[m] \in Key \cup {Plain}
    BY <1>1
  <2>3. R0 \in Owners /\ slot[R0] = k
    BY <1>1, <2>1, <2>2, OverwriteLoses
  <2>4. QED
    BY <1>12, <2>3 DEF StoredOver
<1>13. ASSUME NEW m \in Member, CallSetMember(m)
       PROVE  \E s \in Owners : slot[s] = k /\ StoredOver(s)
  <2>1. PICK s \in {R0, m} : s \in Owners /\ slot[s] = k
    BY <1>13, SetMemberLoses
  <2>2. StoredOver(s)
    BY <1>13, <2>1 DEF StoredOver
  <2>3. QED
    BY <2>1, <2>2
<1>14. CASE \E s \in Named : LoadConst(s) \/ LoadNull(s) \/ PushCopy(s)
  BY <1>1, <1>3, <1>5, <1>6, <1>14 DEF LoadConst
<1>15. CASE \E s \in Named, j \in Key : LoadData(s, j)
  BY <1>1, <1>4, <1>15 DEF LoadData
<1>16. CASE \E d, s \in Named : Mov(d, s)
  BY <1>7, <1>16
<1>17. CASE \E n \in Stack : AdjustSp(n) \/ Pop(n)
  BY <1>8, <1>9, <1>17
<1>18. CASE PushConst
  BY <1>1, <1>3, <1>18 DEF PushConst
<1>19. CASE \E j \in Key : PushData(j) \/ CallFresh(j)
  BY <1>1, <1>4, <1>10, <1>19 DEF PushData
<1>20. CASE CallPlain
  BY <1>11, <1>20
<1>21. CASE \E m \in Member : CallGetMember(m) \/ CallSetMember(m)
  BY <1>12, <1>13, <1>21
<1>22. QED
  BY <1>14, <1>15, <1>16, <1>17, <1>18, <1>19, <1>20, <1>21 DEF Next

(* A claim is lost only where an instruction stores over the reference     *)
(* that made it: loads, pushes, pops and calls lose none of their own.     *)
THEOREM LossesStored == ASSUME Careful PROVE Spec => LostOnlyByStoring
<1>1. Init => IInv
  BY InitIInv
<1>2. IInv /\ [Next]_vars => IInv'
  BY NextIInv
<1>3. IInv /\ [Next]_vars =>
        [ \A k \in Key :
            Unheld(k)' > Unheld(k) =>
              \E s \in Owners : slot[s] = k /\ StoredOver(s) ]_vars
  <2> SUFFICES ASSUME IInv, Next, NEW k \in Key, Unheld(k)' > Unheld(k)
               PROVE  \E s \in Owners : slot[s] = k /\ StoredOver(s)
    OBVIOUS
  <2>1. Unheld(k) \in Int /\ Unheld(k)' \in Int
    <3>1. IInv'
      BY NextIInv
    <3>2. count[k] \in Nat /\ Cardinality(Holders(Owners, k)) \in Nat
      BY HoldersCard DEF IInv, TypeOK, Owners
    <3>3. count'[k] \in Nat /\ Cardinality(Holders(Owners, k)') \in Nat
      BY <3>1, OwnersCardNext DEF IInv, TypeOK
    <3>4. QED
      BY <3>2, <3>3 DEF Unheld
  <2>2. Unheld(k)' # Unheld(k)
    BY <2>1
  <2>3. QED
    BY <2>2, NextLoses
<1>4. QED
  BY <1>1, <1>2, <1>3, PTL DEF Spec, LostOnlyByStoring
=============================================================================
