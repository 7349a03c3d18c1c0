----------------------------- MODULE ChainTable -----------------------------
(***************************************************************************)
(* The hash table that rc.c and object.c both write out: open addressing   *)
(* over a table that doubles, a key kept within MaxChain slots of its hash,*)
(* no tombstones.  A put calls rehash when no slot will do, and rehash     *)
(* calls put for every entry of the old table, which may rehash again: the *)
(* calls in progress are the stack `calls`.  One step is one probe of a    *)
(* put.  RcMap and ObjectMap add the operations of each user.              *)
(***************************************************************************)
EXTENDS Integers, Sequences, FiniteSets

CONSTANTS
  Key,
  None,         \* the key of an unused slot
  Value,
  Zero,         \* the value of a slot that calloc or memset has cleared
  Hash,         \* hash6432shift of a key
  InitialSize,  \* RC_INITIAL_SIZE, OBJECT_INITIAL_SIZE
  MaxChain      \* RC_MAX_CHAIN_LENGTH, OBJECT_MAX_CHAIN_LENGTH

ASSUME HashAssumption == Hash \in [Key -> Nat]
ASSUME SizeAssumption == InitialSize \in Nat \ {0} /\ MaxChain \in Nat \ {0}
ASSUME NoneAssumption == None \notin Key

VARIABLES
  tableSize,    \* slots of the table
  data,         \* an entry for each index below tableSize
  size,         \* the used slots the table believes it has
  calls         \* the activations of put, outermost first

vars == <<tableSize, data, size, calls>>

Entry == [key : Key \cup {None}, value : Value \cup {Zero}]

Unused == [key |-> None, value |-> Zero]

(* An activation of put: the pair it stores, and the table its rehash is   *)
(* emptying (as a sequence), from place `next` on.                         *)
Call == [key : Key, value : Value, old : Seq(Entry), next : Nat]

TypeOK ==
  /\ tableSize \in Nat \ {0}
  /\ data \in [0 .. tableSize - 1 -> Entry]
  /\ size \in Nat
  /\ calls \in Seq(Call)

-----------------------------------------------------------------------------
(* The slots a key may use, in the order they are probed.                  *)
Probe(k, i) == (Hash[k] + i) % tableSize

Chain == 0 .. MaxChain - 1

(* The first probe of k that meets one of the keys in S.                   *)
FirstProbe(k, S) ==
  CHOOSE i \in Chain :
    /\ data[Probe(k, i)].key \in S
    /\ \A j \in 0 .. i - 1 : data[Probe(k, j)].key \notin S

(* Mistaken form of Known: the search ends at the first unused slot.       *)
KnownToHole(k) ==
  \E i \in Chain : /\ data[Probe(k, i)].key = k
                   /\ \A j \in 0 .. i - 1 : data[Probe(k, j)].key # None

(* getPtr looks at the whole chain, past unused slots.                     *)
Known(k) == \E i \in Chain : data[Probe(k, i)].key = k

SlotOf(k) == Probe(k, FirstProbe(k, {k}))

(* RC_MAP_FULL, OBJECT_FULL: the table is half used or the chain used up.  *)
Full(k) ==
  \/ size >= tableSize \div 2
  \/ \A i \in Chain : data[Probe(k, i)].key \notin {k, None}

FreeSlot(k) == Probe(k, FirstProbe(k, {k, None}))

-----------------------------------------------------------------------------
Init ==
  /\ tableSize = InitialSize
  /\ data = [i \in 0 .. InitialSize - 1 |-> Unused]
  /\ size = 0
  /\ calls = << >>

Idle == calls = << >>

PutOf(k, v) == [key |-> k, value |-> v, old |-> << >>, next |-> 1]

(* A put is called.                                                        *)
Put(k, v) ==
  /\ Idle
  /\ calls' = <<PutOf(k, v)>>
  /\ UNCHANGED <<tableSize, data, size>>

(* The caller changes the value getPtr found.                              *)
Change(k, v) ==
  /\ Idle /\ Known(k)
  /\ data' = [data EXCEPT ![SlotOf(k)].value = v]
  /\ UNCHANGED <<tableSize, size, calls>>

(* The slot is cleared; what lies behind it in other chains stays there.   *)
Remove(k) ==
  /\ Idle /\ Known(k)
  /\ data' = [data EXCEPT ![SlotOf(k)] = Unused]
  /\ size' = size - 1
  /\ UNCHANGED <<tableSize, calls>>

-----------------------------------------------------------------------------
Top == calls[Len(calls)]

(* The entries the rehash of activation c has still to put back.           *)
Left(c) == {i \in DOMAIN c.old : i >= c.next /\ c.old[i].key # None}

(* Mistaken form of Reinsert: the place after an entry is passed over.     *)
ReinsertSkipping ==
  /\ ~ Idle
  /\ \E i \in Left(Top) :
       /\ \A j \in Left(Top) : i <= j
       /\ calls' = Append([calls EXCEPT ![Len(calls)].next = i + 2],
                          PutOf(Top.old[i].key, Top.old[i].value))
  /\ UNCHANGED <<tableSize, data, size>>

(* The rehash of the top activation puts back its next entry.              *)
Reinsert ==
  /\ ~ Idle
  /\ \E i \in Left(Top) :
       /\ \A j \in Left(Top) : i <= j
       /\ calls' = Append([calls EXCEPT ![Len(calls)].next = i + 1],
                          PutOf(Top.old[i].key, Top.old[i].value))
  /\ UNCHANGED <<tableSize, data, size>>

(* rehash of the table the top activation found full into new slots.       *)
Rehash(slots, newSize, counted) ==
  /\ ~ Idle /\ Left(Top) = {} /\ Full(Top.key)
  /\ tableSize' = newSize
  /\ data' = slots
  /\ size' = counted
  /\ calls' = [calls EXCEPT
                 ![Len(calls)].old = [i \in 1 .. tableSize |-> data[i - 1]],
                 ![Len(calls)].next = 1]

Cleared(n) == [i \in 0 .. n - 1 |-> Unused]

(* Mistaken forms of Grow: calloc of the old size; the table not doubled;  *)
(* size kept; the old entries kept where they were.                        *)
GrowShort == Rehash(Cleared(tableSize), 2 * tableSize, 0)

GrowNot == Rehash(Cleared(tableSize), tableSize, 0)

GrowCounted == Rehash(Cleared(2 * tableSize), 2 * tableSize, size)

GrowInPlace ==
  Rehash([i \in 0 .. 2 * tableSize - 1 |->
            IF i < tableSize THEN data[i] ELSE Unused],
         2 * tableSize, 0)

(* A put finds no slot: rehash starts on a table twice the size.           *)
Grow == Rehash(Cleared(2 * tableSize), 2 * tableSize, 0)

StoreAt(slot, counted) ==
  /\ ~ Idle /\ Left(Top) = {} /\ ~ Full(Top.key)
  /\ data' = [data EXCEPT ![slot] = [key |-> Top.key, value |-> Top.value]]
  /\ size' = counted
  /\ calls' = SubSeq(calls, 1, Len(calls) - 1)
  /\ UNCHANGED tableSize

(* Mistaken form of Store: the entries a rehash puts back are not counted. *)
StoreUncounted ==
  StoreAt(FreeSlot(Top.key), IF Len(calls) = 1 THEN size + 1 ELSE size)

(* A put finds a slot, new or its key's own, stores its pair and returns.  *)
Store == StoreAt(FreeSlot(Top.key), size + 1)

Running == Reinsert \/ Grow \/ Store

-----------------------------------------------------------------------------
UsedSlots == {i \in 0 .. tableSize - 1 : data[i].key # None}

(* Every entry lies where getPtr looks for it, although a removal leaves   *)
(* holes in chains and a rehash may be interrupted by another.             *)
InChain ==
  \A i \in UsedSlots : \E j \in Chain : i = Probe(data[i].key, j)

(* No key has two slots, though put takes the first hole of its chain and  *)
(* removals make holes in front of other keys.                             *)
OneSlot == \A i, j \in UsedSlots : data[i].key = data[j].key => i = j

(* The entries in the table, waiting in an old one, or being put back.     *)
Entries ==
  {data[i] : i \in UsedSlots}
    \cup {[key |-> calls[c].key, value |-> calls[c].value] :
            c \in 2 .. Len(calls)}
    \cup UNION {{calls[c].old[i] : i \in Left(calls[c])} : c \in DOMAIN calls}

(* The value of a key: the one being put, or else that of its entry.       *)
ValueOf(k) ==
  IF calls # << >> /\ calls[1].key = k THEN calls[1].value
  ELSE IF \E e \in Entries : e.key = k
    THEN (CHOOSE e \in Entries : e.key = k).value ELSE Zero

(* The chain of rehashes that a put may start comes to an end.             *)
PutReturns == ~ Idle ~> Idle
=============================================================================
