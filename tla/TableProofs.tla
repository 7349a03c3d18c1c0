---------------------------- MODULE TableProofs ----------------------------
(***************************************************************************)
(* The two users of the hash table, for any keys, any hash and any sizes:  *)
(* the reference-count table implements the plain counter, the table of an *)
(* object implements the plain record of members.                          *)
(*                                                                         *)
(* What both share comes first.  A pair is at a spot: a slot of the table, *)
(* an activation of put that is to store it, or a place of an old table    *)
(* that a rehash has still to move.  Every step of a put moves pairs from  *)
(* spot to spot and loses none.  Only the proofs about RcMap use           *)
(* CountAssumption: an object's values are any.                            *)
(***************************************************************************)
EXTENDS RcMap, ObjectMap, Induction

(* Spot <<0, j>> is slot j of the table, <<c, 0>> what activation c puts,  *)
(* and <<c, j>> place j of the old table of activation c.  An object may   *)
(* put a key that is in its table, so that its outermost activation is     *)
(* left out, with m = 2; the reference counter never does, m = 1.          *)
Spot(m, c, j) ==
  \/ c = 0 /\ j \in UsedSlots
  \/ c \in DOMAIN calls /\ c >= m /\ j = 0
  \/ c \in DOMAIN calls /\ j \in Left(calls[c])

EntryAt(c, j) ==
  IF c = 0 THEN data[j]
  ELSE IF j = 0 THEN [key |-> calls[c].key, value |-> calls[c].value]
  ELSE calls[c].old[j]

(* No two spots have the same key.                                         *)
Apart(m) ==
  \A c, d, i, j \in Nat :
    Spot(m, c, i) /\ Spot(m, d, j) /\ EntryAt(c, i).key = EntryAt(d, j).key
      => c = d /\ i = j

(* The values in use are in V.                                             *)
Valued(V) == \A c, j \in Nat : Spot(1, c, j) => EntryAt(c, j).value \in V

-----------------------------------------------------------------------------
(* Every probe is a slot of the table.                                     *)
LEMMA ProbeIsSlot ==
  ASSUME TypeOK, NEW k \in Key, NEW i \in Chain
  PROVE  Probe(k, i) \in 0 .. tableSize - 1
<1>1. Hash[k] + i \in Nat /\ tableSize \in Nat \ {0}
  BY HashAssumption, SizeAssumption DEF TypeOK, Chain
<1>2. QED
  BY <1>1 DEF Probe

(* FirstProbe finds the first probe that meets a key in S, if there is one.*)
LEMMA FirstProbeMeets ==
  ASSUME NEW k, NEW S, NEW i \in Chain, data[Probe(k, i)].key \in S
  PROVE  /\ FirstProbe(k, S) \in Chain
         /\ data[Probe(k, FirstProbe(k, S))].key \in S
         /\ \A j \in 0 .. FirstProbe(k, S) - 1 : data[Probe(k, j)].key \notin S
<1> DEFINE B == {j \in Chain : data[Probe(k, j)].key \in S}
<1>1. B \in SUBSET Nat /\ B # {}
  BY SizeAssumption DEF Chain
<1>2. PICK f \in B : \A j \in B : f <= j
  <2> HIDE DEF B
  <2> QED BY <1>1, LeastNatural
<1>3. f \in Chain /\ data[Probe(k, f)].key \in S
  OBVIOUS
<1>4. \A j \in 0 .. f - 1 : data[Probe(k, j)].key \notin S
  <2> SUFFICES ASSUME NEW j \in 0 .. f - 1, data[Probe(k, j)].key \in S
               PROVE  FALSE
    OBVIOUS
  <2>1. j \in Chain /\ f \in Nat
    BY SizeAssumption, <1>3 DEF Chain
  <2>2. j \in B
    BY <2>1
  <2>3. f <= j
    BY <2>2, <1>2
  <2>4. QED
    BY <2>1, <2>3
<1>5. QED
  BY <1>3, <1>4 DEF FirstProbe

(* SlotOf is a slot with the key, FreeSlot one with the key or none.       *)
LEMMA SlotOfHolds ==
  ASSUME TypeOK, NEW k \in Key, Known(k)
  PROVE  SlotOf(k) \in 0 .. tableSize - 1 /\ data[SlotOf(k)].key = k
<1>1. PICK i \in Chain : data[Probe(k, i)].key \in {k}
  BY DEF Known
<1>2. QED
  BY <1>1, FirstProbeMeets, ProbeIsSlot DEF SlotOf

LEMMA FreeSlotFits ==
  ASSUME TypeOK, NEW k \in Key, ~ Full(k)
  PROVE  /\ FreeSlot(k) \in 0 .. tableSize - 1
         /\ data[FreeSlot(k)].key \in {k, None}
         /\ \E i \in Chain :
              /\ FreeSlot(k) = Probe(k, i)
              /\ \A j \in 0 .. i - 1 : data[Probe(k, j)].key \notin {k, None}
<1>1. PICK i \in Chain : data[Probe(k, i)].key \in {k, None}
  BY DEF Full
<1>2. /\ FirstProbe(k, {k, None}) \in Chain
      /\ data[Probe(k, FirstProbe(k, {k, None}))].key \in {k, None}
      /\ \A j \in 0 .. FirstProbe(k, {k, None}) - 1 : data[Probe(k, j)].key \notin {k, None}
  BY <1>1, FirstProbeMeets
<1>3. QED
  BY <1>2, ProbeIsSlot DEF FreeSlot

(* The used slots are finitely many.                                       *)
LEMMA SlotsFinite ==
  ASSUME TypeOK
  PROVE  /\ UsedSlots \in SUBSET (0 .. tableSize - 1) /\ UsedSlots \in SUBSET Nat
         /\ IsFiniteSet(UsedSlots) /\ Cardinality(UsedSlots) \in Nat
<1>1. IsFiniteSet(0 .. tableSize - 1)
  BY FS_Interval DEF TypeOK
<1>2. UsedSlots \in SUBSET (0 .. tableSize - 1) /\ UsedSlots \in SUBSET Nat
  BY DEF UsedSlots, TypeOK
<1>3. QED
  BY <1>1, <1>2, FS_Subset, FS_CardinalityType

(* The activation in progress.                                             *)
LEMMA TopCall ==
  ASSUME TypeOK, ~ Idle
  PROVE  /\ Len(calls) \in Nat \ {0} /\ Len(calls) \in DOMAIN calls
         /\ DOMAIN calls = 1 .. Len(calls)
         /\ \A c \in DOMAIN calls : calls[c] \in Call
         /\ Top = calls[Len(calls)] /\ Top \in Call
<1>1. calls \in Seq(Call) /\ calls # << >>
  BY DEF TypeOK, Idle
<1>2. Len(calls) \in Nat \ {0} /\ DOMAIN calls = 1 .. Len(calls)
  BY <1>1
<1>3. Len(calls) \in DOMAIN calls
  BY <1>2
<1>4. \A c \in DOMAIN calls : calls[c] \in Call
  BY <1>1
<1>5. QED
  BY <1>2, <1>3, <1>4 DEF Top

(* The fields of an activation, and the places its rehash has left.        *)
LEMMA CallFields ==
  ASSUME NEW c \in Call
  PROVE  /\ c.key \in Key /\ c.value \in Value /\ c.old \in Seq(Entry) /\ c.next \in Nat
         /\ Left(c) \in SUBSET DOMAIN c.old /\ Left(c) \in SUBSET (Nat \ {0})
         /\ \A i \in Left(c) : c.old[i] \in Entry /\ c.old[i].key \in Key
<1>1. /\ c.key \in Key /\ c.value \in Value /\ c.old \in Seq(Entry) /\ c.next \in Nat
  BY DEF Call
<1>2. DOMAIN c.old = 1 .. Len(c.old) /\ Len(c.old) \in Nat
  BY <1>1
<1>3. \A i \in DOMAIN c.old : c.old[i] \in Entry
  BY <1>1
<1>4. QED
  BY <1>1, <1>2, <1>3 DEF Left, Entry

(* Reinsert moves the pair at one place of the old table to a new          *)
(* activation.                                                             *)
LEMMA ReinsertMoves ==
  ASSUME TypeOK, Valued(Value), Reinsert
  PROVE  \E i \in Left(Top) :
           LET n == Len(calls)
           IN  /\ Len(calls') = n + 1 /\ DOMAIN calls' = 1 .. n + 1 /\ calls' \in Seq(Call)
               /\ \A c \in 1 .. n - 1 : calls'[c] = calls[c]
               /\ calls'[n] = [Top EXCEPT !.next = i + 1]
               /\ Left(calls'[n]) = Left(Top) \ {i}
               /\ calls'[n + 1] = PutOf(Top.old[i].key, Top.old[i].value)
               /\ Left(calls'[n + 1]) = {}
<1> DEFINE n == Len(calls)
<1>1. PICK i \in Left(Top) :
        /\ \A j \in Left(Top) : i <= j
        /\ calls' = Append([calls EXCEPT ![n].next = i + 1],
                           PutOf(Top.old[i].key, Top.old[i].value))
  BY DEF Reinsert
<1>2. n \in Nat \ {0} /\ n \in DOMAIN calls /\ DOMAIN calls = 1 .. n /\ Top = calls[n] /\ Top \in Call
  BY TopCall DEF Reinsert
<1> HIDE DEF n
<1>3. i \in Nat \ {0} /\ Top.old[i] \in Entry /\ Top.old[i].key \in Key
  BY <1>1, <1>2, CallFields
<1>4. Top.old[i].value \in Value
  BY <1>1, <1>2, <1>3 DEF Valued, Spot, EntryAt
<1> DEFINE top == [Top EXCEPT !.next = i + 1]
           new == PutOf(Top.old[i].key, Top.old[i].value)
           changed == [calls EXCEPT ![n] = top]
<1>5. top \in Call /\ top.old = Top.old /\ top.next = i + 1
  BY <1>2, <1>3 DEF Call
<1>6. new \in Call /\ new.old = << >>
  BY <1>3, <1>4 DEF Call, PutOf
<1>7. changed \in Seq(Call) /\ Len(changed) = n
  BY <1>2, <1>5 DEF TypeOK, n
<1>8. calls' = Append(changed, new)
  BY <1>1, <1>2
<1>9. /\ Len(calls') = n + 1 /\ calls' \in Seq(Call) /\ DOMAIN calls' = 1 .. n + 1
      /\ calls'[n + 1] = new /\ \A c \in 1 .. n : calls'[c] = changed[c]
  <2> HIDE DEF changed, new
  <2> QED BY <1>2, <1>6, <1>7, <1>8
<1>10. calls'[n] = top /\ \A c \in 1 .. n - 1 : calls'[c] = calls[c]
  <2> HIDE DEF top
  <2>1. changed[n] = top /\ \A c \in 1 .. n - 1 : changed[c] = calls[c]
    <3>1. calls = [c \in 1 .. n |-> calls[c]]
      BY <1>2 DEF TypeOK
    <3>2. \A c \in 1 .. n - 1 : c \in 1 .. n /\ c # n
      BY <1>2
    <3>3. QED
      BY <1>2, <3>1, <3>2
  <2> HIDE DEF changed
  <2>2. QED
    BY <1>2, <1>9, <2>1
<1>11. Left(top) = Left(Top) \ {i}
  <2>1. \A j \in DOMAIN Top.old : j \in Nat
    BY <1>2 DEF Call
  <2>2. \A j \in DOMAIN Top.old : j >= i + 1 /\ Top.old[j].key # None => j \in Left(Top) /\ j # i
    BY <1>1, <1>2, <1>3, <2>1, CallFields DEF Left
  <2>3. \A j \in Left(Top) : j # i => j >= i + 1
    BY <1>1, <1>2, <1>3, CallFields
  <2>4. QED
    BY <1>5, <2>2, <2>3, <1>2, CallFields DEF Left
<1>12. Left(new) = {}
  BY <1>6 DEF Left
<1>13. QED
  BY <1>1, <1>9, <1>10, <1>11, <1>12 DEF n

(* What a step that moves pairs does to them: at every spot afterwards is  *)
(* a pair that was at its origin before, and no two have the same origin.  *)
(* Reinserted: the pair of place i of the top activation is now put by the *)
(* activation above it.                                                    *)
LEMMA ReinsertSpots ==
  ASSUME TypeOK, Valued(Value), Reinsert, NEW m \in {1, 2}
  PROVE  \E i \in Nat \ {0} :
           LET n == Len(calls)
           IN  /\ n \in Nat \ {0} /\ Spot(m, n, i) /\ \A j \in Nat : ~ Spot(m, n + 1, j)
               /\ \A c, j \in Nat :
                    Spot(m, c, j)' <=> \/ c = n + 1 /\ j = 0
                                       \/ Spot(m, c, j) /\ ~ (c = n /\ j = i)
               /\ \A c, j \in Nat :
                    Spot(m, c, j)' => EntryAt(c, j)' = IF c = n + 1 THEN EntryAt(n, i)
                                                      ELSE EntryAt(c, j)
<1> DEFINE n == Len(calls)
<1>1. PICK i \in Left(Top) :
        /\ Len(calls') = n + 1 /\ DOMAIN calls' = 1 .. n + 1 /\ calls' \in Seq(Call)
        /\ \A c \in 1 .. n - 1 : calls'[c] = calls[c]
        /\ calls'[n] = [Top EXCEPT !.next = i + 1]
        /\ Left(calls'[n]) = Left(Top) \ {i}
        /\ calls'[n + 1] = PutOf(Top.old[i].key, Top.old[i].value)
        /\ Left(calls'[n + 1]) = {}
  BY ReinsertMoves
<1>2. n \in Nat \ {0} /\ n \in DOMAIN calls /\ DOMAIN calls = 1 .. n /\ Top = calls[n] /\ Top \in Call
  BY TopCall DEF Reinsert
<1> HIDE DEF n
<1>3. i \in Nat \ {0} /\ Top.old[i] \in Entry
  BY <1>1, <1>2, CallFields
<1>4. UsedSlots' = UsedSlots /\ data' = data
  BY DEF Reinsert, UsedSlots
<1>5. /\ calls'[n].old = Top.old /\ calls'[n].key = Top.key /\ calls'[n].value = Top.value
      /\ calls'[n + 1].key = Top.old[i].key /\ calls'[n + 1].value = Top.old[i].value
  BY <1>1, <1>2 DEF PutOf, Call
<1>6. Spot(m, n, i) /\ \A j \in Nat : ~ Spot(m, n + 1, j)
  BY <1>1, <1>2, <1>3 DEF Spot
<1>7. ASSUME NEW c \in Nat, NEW j \in Nat
      PROVE  Spot(m, c, j)' <=> \/ c = n + 1 /\ j = 0
                                \/ Spot(m, c, j) /\ ~ (c = n /\ j = i)
  <2>1. CASE c = 0
    BY <2>1, <1>1, <1>2, <1>4 DEF Spot
  <2>2. CASE c \in 1 .. n - 1
    BY <2>2, <1>1, <1>2 DEF Spot
  <2>3. CASE c = n
    BY <2>3, <1>1, <1>2, <1>3 DEF Spot
  <2>4. CASE c = n + 1
    <3>1. c # 0 /\ c # n /\ c \notin DOMAIN calls /\ c \in DOMAIN calls' /\ c >= m
      BY <2>4, <1>1, <1>2
    <3>2. Left(calls'[c]) = {}
      BY <2>4, <1>1
    <3>3. QED
      BY <2>4, <3>1, <3>2 DEF Spot
  <2>5. CASE c > n + 1
    BY <2>5, <1>1, <1>2 DEF Spot
  <2>6. QED
    BY <2>1, <2>2, <2>3, <2>4, <2>5, <1>2
<1>8. ASSUME NEW c \in Nat, NEW j \in Nat, Spot(m, c, j)'
      PROVE  EntryAt(c, j)' = IF c = n + 1 THEN EntryAt(n, i) ELSE EntryAt(c, j)
  <2>1. CASE c = 0
    BY <2>1, <1>2, <1>4 DEF EntryAt
  <2>2. CASE c \in 1 .. n - 1
    BY <2>2, <1>1, <1>2 DEF EntryAt
  <2>3. CASE c = n
    BY <2>3, <1>2, <1>5 DEF EntryAt
  <2>4. CASE c = n + 1
    <3>1. j = 0
      BY <2>4, <1>8, <1>7, <1>1, <1>2 DEF Spot
    <3>2. EntryAt(c, j)' = [key |-> Top.old[i].key, value |-> Top.old[i].value]
      BY <3>1, <2>4, <1>2, <1>5 DEF EntryAt
    <3>3. EntryAt(n, i) = Top.old[i]
      BY <1>2, <1>3 DEF EntryAt
    <3>4. QED
      BY <3>2, <3>3, <2>4, <1>3 DEF Entry
  <2>5. QED
    BY <2>1, <2>2, <2>3, <2>4, <1>8, <1>1, <1>2 DEF Spot
<1>9. QED
  BY <1>2, <1>3, <1>6, <1>7, <1>8 DEF n

(* Rehashed: what was in slot j is now in place j + 1 of the old table of  *)
(* the top activation, and the table is empty.                             *)
LEMMA GrowMoves ==
  ASSUME TypeOK, Grow
  PROVE  LET n == Len(calls)
         IN  /\ calls' \in Seq(Call) /\ Len(calls') = n /\ DOMAIN calls' = 1 .. n
             /\ \A c \in 1 .. n - 1 : calls'[c] = calls[c]
             /\ calls'[n].key = Top.key /\ calls'[n].value = Top.value
             /\ \A j \in 0 .. tableSize - 1 : calls'[n].old[j + 1] = data[j]
             /\ Left(calls'[n]) = {j + 1 : j \in UsedSlots}
             /\ UsedSlots' = {}
<1> DEFINE n == Len(calls)
           old == [i \in 1 .. tableSize |-> data[i - 1]]
           top == [Top EXCEPT !.old = old, !.next = 1]
<1>1. n \in Nat \ {0} /\ n \in DOMAIN calls /\ DOMAIN calls = 1 .. n /\ Top = calls[n] /\ Top \in Call
  BY TopCall DEF Grow, Rehash
<1> HIDE DEF n
<1>2. tableSize \in Nat \ {0} /\ data \in [0 .. tableSize - 1 -> Entry]
  BY DEF TypeOK
<1>3. old \in Seq(Entry) /\ DOMAIN old = 1 .. tableSize
      /\ \A j \in 0 .. tableSize - 1 : j + 1 \in 1 .. tableSize /\ old[j + 1] = data[j]
  <2>1. \A i \in 1 .. tableSize : i - 1 \in 0 .. tableSize - 1
    BY <1>2
  <2>2. old \in [1 .. tableSize -> Entry]
    BY <1>2, <2>1
  <2>3. QED
    BY <1>2, <2>2
<1> HIDE DEF old
<1>4. /\ top \in Call /\ top.key = Top.key /\ top.value = Top.value
      /\ top.old = old /\ top.next = 1
  BY <1>1, <1>3 DEF Call
<1>5. calls' = [calls EXCEPT ![n] = top]
  BY <1>1, <1>2 DEF Grow, Rehash, old, n, Call
<1>6. Left(top) = {j + 1 : j \in UsedSlots}
  <2>1. ASSUME NEW i \in Left(top)
        PROVE  i - 1 \in UsedSlots /\ i = (i - 1) + 1
    BY <1>2, <1>3, <1>4 DEF Left, UsedSlots
  <2>2. ASSUME NEW j \in UsedSlots
        PROVE  j + 1 \in Left(top)
    BY <1>2, <1>3, <1>4 DEF Left, UsedSlots
  <2>3. QED
    BY <2>1, <2>2
<1>7. UsedSlots' = {}
  BY <1>2 DEF Grow, Rehash, Cleared, Unused, UsedSlots
<1> HIDE DEF top
<1>8. /\ calls' \in Seq(Call) /\ Len(calls') = n /\ DOMAIN calls' = 1 .. n
      /\ calls'[n] = top /\ \A c \in 1 .. n - 1 : calls'[c] = calls[c]
  BY <1>1, <1>4, <1>5 DEF TypeOK, n
<1>9. QED
  BY <1>3, <1>4, <1>6, <1>7, <1>8 DEF n

LEMMA GrowSpots ==
  ASSUME TypeOK, Grow, NEW m \in {1, 2}
  PROVE  LET n == Len(calls)
         IN  /\ n \in Nat \ {0}
             /\ \A j \in Nat \ {0} : ~ Spot(m, n, j)
             /\ \A c, j \in Nat :
                  Spot(m, c, j)' <=> \/ c # 0 /\ Spot(m, c, j)
                                     \/ c = n /\ j # 0 /\ Spot(m, 0, j - 1)
             /\ \A c, j \in Nat :
                  Spot(m, c, j)' => EntryAt(c, j)' = IF c = n /\ j # 0 THEN EntryAt(0, j - 1)
                                                    ELSE EntryAt(c, j)
<1> DEFINE n == Len(calls)
<1>1. n \in Nat \ {0} /\ n \in DOMAIN calls /\ DOMAIN calls = 1 .. n /\ Top = calls[n]
      /\ \A c \in DOMAIN calls : calls[c] \in Call
  BY TopCall DEF Grow, Rehash
<1>2. /\ Len(calls') = n /\ DOMAIN calls' = 1 .. n
      /\ \A c \in 1 .. n - 1 : calls'[c] = calls[c]
      /\ calls'[n].key = Top.key /\ calls'[n].value = Top.value
      /\ \A j \in 0 .. tableSize - 1 : calls'[n].old[j + 1] = data[j]
      /\ Left(calls'[n]) = {j + 1 : j \in UsedSlots}
      /\ UsedSlots' = {}
  BY GrowMoves
<1> HIDE DEF n
<1>3. Left(calls[n]) = {} /\ \A c \in DOMAIN calls : 0 \notin Left(calls[c])
  BY <1>1, CallFields DEF Grow, Rehash, n
<1>4. UsedSlots \in SUBSET (0 .. tableSize - 1) /\ UsedSlots \in SUBSET Nat
  BY SlotsFinite
<1>5. \A j \in Nat : j \in Left(calls'[n]) <=> j # 0 /\ j - 1 \in UsedSlots
  BY <1>2, <1>4
<1>6. \A j \in Nat \ {0} : ~ Spot(m, n, j)
  BY <1>1, <1>3 DEF Spot
<1>7. ASSUME NEW c \in Nat, NEW j \in Nat
      PROVE  Spot(m, c, j)' <=> \/ c # 0 /\ Spot(m, c, j)
                                \/ c = n /\ j # 0 /\ Spot(m, 0, j - 1)
  <2>1. CASE c = 0
    BY <2>1, <1>1, <1>2 DEF Spot
  <2>2. CASE c \in 1 .. n - 1
    <3>1. c # 0 /\ c # n /\ c \in DOMAIN calls /\ c \in DOMAIN calls' /\ calls'[c] = calls[c]
      BY <2>2, <1>1, <1>2
    <3>2. QED
      BY <3>1 DEF Spot
  <2>3. CASE c = n
    BY <2>3, <1>1, <1>2, <1>3, <1>5 DEF Spot
  <2>4. CASE c > n
    BY <2>4, <1>1, <1>2 DEF Spot
  <2>5. QED
    BY <2>1, <2>2, <2>3, <2>4, <1>1
<1>8. ASSUME NEW c \in Nat, NEW j \in Nat, Spot(m, c, j)'
      PROVE  EntryAt(c, j)' = IF c = n /\ j # 0 THEN EntryAt(0, j - 1) ELSE EntryAt(c, j)
  <2>1. c \in 1 .. n
    BY <1>8, <1>1, <1>2 DEF Spot
  <2>2. CASE c # n
    <3>1. c # 0 /\ calls'[c] = calls[c]
      BY <2>1, <2>2, <1>1, <1>2
    <3>2. QED
      BY <2>2, <3>1 DEF EntryAt
  <2>3. CASE c = n /\ j = 0
    BY <2>3, <1>1, <1>2 DEF EntryAt
  <2>4. CASE c = n /\ j # 0
    <3>1. j - 1 \in UsedSlots
      BY <2>4, <1>7, <1>8, <1>1, <1>6 DEF Spot
    <3>2. calls'[n].old[(j - 1) + 1] = data[j - 1]
      BY <3>1, <1>2, <1>4
    <3>3. QED
      BY <3>2, <2>4, <1>1 DEF EntryAt
  <2>5. QED
    BY <2>2, <2>3, <2>4
<1>9. QED
  BY <1>1, <1>6, <1>7, <1>8 DEF n

(* Stored: the pair of the top activation is now in a slot of its chain.   *)
LEMMA StoreSpots ==
  ASSUME TypeOK, Store, NEW m \in {1, 2}
  PROVE  LET n == Len(calls)
             slot == FreeSlot(Top.key)
         IN  /\ n \in Nat \ {0} /\ calls' \in Seq(Call) /\ Len(calls') = n - 1
             /\ \A c \in 1 .. n - 1 : calls'[c] = calls[c]
             /\ slot \in 0 .. tableSize - 1 /\ data[slot].key \in {Top.key, None}
             /\ UsedSlots' = UsedSlots \cup {slot}
             /\ Spot(m, n, 0) <=> n >= m
             /\ \A j \in Nat \ {0} : ~ Spot(m, n, j)
             /\ EntryAt(n, 0) = [key |-> Top.key, value |-> Top.value]
             /\ \A c, j \in Nat :
                  Spot(m, c, j)' <=> \/ c = 0 /\ j = slot
                                     \/ Spot(m, c, j) /\ c # n
             /\ \A c, j \in Nat :
                  Spot(m, c, j)' => EntryAt(c, j)' = IF c = 0 /\ j = slot THEN EntryAt(n, 0)
                                                     ELSE EntryAt(c, j)
<1> DEFINE n == Len(calls)
           slot == FreeSlot(Top.key)
<1>1. n \in Nat \ {0} /\ n \in DOMAIN calls /\ DOMAIN calls = 1 .. n /\ Top = calls[n]
      /\ \A c \in DOMAIN calls : calls[c] \in Call
  BY TopCall DEF Store, StoreAt
<1>2. Top \in Call /\ Top.key \in Key /\ Top.key # None
  BY <1>1, CallFields, NoneAssumption
<1>3. slot \in 0 .. tableSize - 1 /\ data[slot].key \in {Top.key, None}
  BY <1>2, FreeSlotFits DEF Store, StoreAt
<1>4. data' = [data EXCEPT ![slot] = [key |-> Top.key, value |-> Top.value]] /\ tableSize' = tableSize
  BY DEF Store, StoreAt
<1> HIDE DEF n, slot
<1>5. /\ calls' \in Seq(Call) /\ Len(calls') = n - 1 /\ DOMAIN calls' = 1 .. n - 1
      /\ \A c \in 1 .. n - 1 : calls'[c] = calls[c]
  <2>1. calls' = SubSeq(calls, 1, n - 1)
    BY DEF Store, StoreAt, n
  <2>2. calls \in Seq(Call) /\ n = Len(calls)
    BY DEF TypeOK, n
  <2>3. QED
    BY <2>1, <2>2, <1>1
<1>6. /\ data'[slot] = [key |-> Top.key, value |-> Top.value]
      /\ \A j \in 0 .. tableSize - 1 : j # slot => data'[j] = data[j]
  BY <1>3, <1>4 DEF TypeOK
<1>7. UsedSlots' = UsedSlots \cup {slot}
  BY <1>2, <1>3, <1>4, <1>6 DEF UsedSlots
<1>8. UsedSlots \in SUBSET (0 .. tableSize - 1)
  BY SlotsFinite
<1>9. Left(calls[n]) = {} /\ \A c \in DOMAIN calls : 0 \notin Left(calls[c])
  BY <1>1, CallFields DEF Store, StoreAt
<1>10. (Spot(m, n, 0) <=> n >= m) /\ \A j \in Nat \ {0} : ~ Spot(m, n, j)
  BY <1>1, <1>9 DEF Spot
<1>11. EntryAt(n, 0) = [key |-> Top.key, value |-> Top.value]
  BY <1>1 DEF EntryAt
<1>12. ASSUME NEW c \in Nat, NEW j \in Nat
       PROVE  Spot(m, c, j)' <=> \/ c = 0 /\ j = slot
                                 \/ Spot(m, c, j) /\ c # n
  <2>1. CASE c = 0
    BY <2>1, <1>1, <1>5, <1>7 DEF Spot
  <2>2. CASE c \in 1 .. n - 1
    <3>1. c # 0 /\ c # n /\ c \in DOMAIN calls /\ c \in DOMAIN calls' /\ calls'[c] = calls[c]
      BY <2>2, <1>1, <1>5
    <3>2. QED
      BY <3>1 DEF Spot
  <2>3. CASE c >= n
    <3>1. c # 0 /\ c \notin DOMAIN calls' /\ (c # n => c \notin DOMAIN calls)
      BY <2>3, <1>1, <1>5
    <3>2. QED
      BY <3>1 DEF Spot
  <2>4. QED
    BY <2>1, <2>2, <2>3, <1>1
<1>13. ASSUME NEW c \in Nat, NEW j \in Nat, Spot(m, c, j)'
       PROVE  EntryAt(c, j)' = IF c = 0 /\ j = slot THEN EntryAt(n, 0) ELSE EntryAt(c, j)
  <2>1. CASE c = 0 /\ j = slot
    BY <2>1, <1>6, <1>11 DEF EntryAt
  <2>2. CASE c = 0 /\ j # slot
    BY <2>2, <1>13, <1>12, <1>1, <1>6, <1>8 DEF EntryAt, Spot
  <2>3. CASE c # 0
    <3>1. calls'[c] = calls[c]
      BY <2>3, <1>13, <1>5 DEF Spot
    <3>2. QED
      BY <2>3, <3>1 DEF EntryAt
  <2>4. QED
    BY <2>1, <2>2, <2>3
<1>14. QED
  BY <1>1, <1>3, <1>5, <1>7, <1>10, <1>11, <1>12, <1>13 DEF n, slot

-----------------------------------------------------------------------------
(* No step of a put brings two pairs of the same key together.             *)
LEMMA ReinsertApart ==
  ASSUME TypeOK, Valued(Value), Reinsert, NEW m \in {1, 2}, Apart(m)
  PROVE  Apart(m)'
<1> DEFINE n == Len(calls)
<1>1. PICK i \in Nat \ {0} :
        /\ n \in Nat \ {0} /\ Spot(m, n, i) /\ \A j \in Nat : ~ Spot(m, n + 1, j)
        /\ \A c, j \in Nat :
             Spot(m, c, j)' <=> \/ c = n + 1 /\ j = 0
                                \/ Spot(m, c, j) /\ ~ (c = n /\ j = i)
        /\ \A c, j \in Nat :
             Spot(m, c, j)' => EntryAt(c, j)' = IF c = n + 1 THEN EntryAt(n, i)
                                               ELSE EntryAt(c, j)
  BY ReinsertSpots
<1> HIDE DEF n
<1>2. QED
  BY <1>1 DEF Apart

LEMMA GrowApart ==
  ASSUME TypeOK, Grow, NEW m \in {1, 2}, Apart(m)
  PROVE  Apart(m)'
<1> DEFINE n == Len(calls)
<1>1. /\ n \in Nat \ {0}
      /\ \A j \in Nat \ {0} : ~ Spot(m, n, j)
      /\ \A c, j \in Nat :
           Spot(m, c, j)' <=> \/ c # 0 /\ Spot(m, c, j)
                              \/ c = n /\ j # 0 /\ Spot(m, 0, j - 1)
      /\ \A c, j \in Nat :
           Spot(m, c, j)' => EntryAt(c, j)' = IF c = n /\ j # 0 THEN EntryAt(0, j - 1)
                                              ELSE EntryAt(c, j)
  BY GrowSpots
<1> HIDE DEF n
<1>2. QED
  BY <1>1 DEF Apart

(* Storing a pair keeps keys apart when its key is in no other slot.       *)
LEMMA StoreApart ==
  ASSUME TypeOK, Store, NEW m \in {1, 2}, Apart(m),
         Len(calls) < m => \A j \in UsedSlots : data[j].key = Top.key => j = FreeSlot(Top.key)
  PROVE  Apart(m)' /\ (Len(calls) >= m => FreeSlot(Top.key) \notin UsedSlots)
<1> DEFINE n == Len(calls)
           slot == FreeSlot(Top.key)
<1>1. /\ n \in Nat \ {0}
      /\ slot \in 0 .. tableSize - 1 /\ data[slot].key \in {Top.key, None}
      /\ Spot(m, n, 0) <=> n >= m
      /\ \A j \in Nat \ {0} : ~ Spot(m, n, j)
      /\ EntryAt(n, 0) = [key |-> Top.key, value |-> Top.value]
      /\ \A c, j \in Nat :
           Spot(m, c, j)' <=> \/ c = 0 /\ j = slot
                              \/ Spot(m, c, j) /\ c # n
      /\ \A c, j \in Nat :
           Spot(m, c, j)' => EntryAt(c, j)' = IF c = 0 /\ j = slot THEN EntryAt(n, 0)
                                              ELSE EntryAt(c, j)
  BY StoreSpots
<1> HIDE DEF n, slot
<1>2. slot \in Nat
  BY <1>1
<1>3. CASE n >= m
  <2>1. slot \notin UsedSlots
    <3>1. slot \in UsedSlots => Spot(m, 0, slot) /\ EntryAt(0, slot).key = Top.key
      BY <1>1 DEF Spot, EntryAt, UsedSlots
    <3>2. QED
      BY <3>1, <1>1, <1>2, <1>3 DEF Apart
  <2>2. \A c, j \in Nat : Spot(m, c, j) /\ c # n => EntryAt(c, j).key # Top.key
    BY <1>1, <1>3 DEF Apart
  <2>3. Apart(m)'
    BY <1>1, <1>2, <2>2 DEF Apart
  <2>4. QED
    BY <2>1, <2>3 DEF slot
<1>4. CASE n < m
  <2>1. n = 1 /\ m = 2
    BY <1>1, <1>4
  <2>2. \A c, j \in Nat : Spot(m, c, j) => c = 0
    <3>1. DOMAIN calls = {1}
      BY <2>1, TopCall DEF n, Store, StoreAt
    <3>2. QED
      BY <3>1, <2>1, <1>1 DEF Spot
  <2>3. \A j \in Nat : Spot(m, 0, j) => j \in UsedSlots /\ EntryAt(0, j) = data[j]
    <3>1. 0 \notin DOMAIN calls
      BY TopCall DEF Store, StoreAt
    <3>2. QED
      BY <3>1 DEF Spot, EntryAt
  <2>4. \A j \in UsedSlots : data[j].key = Top.key => j = slot
    BY <1>4 DEF n, slot
  <2>5. \A c, j \in Nat : Spot(m, c, j) /\ EntryAt(c, j).key = Top.key => c = 0 /\ j = slot
    BY <2>2, <2>3, <2>4
  <2>6. Apart(m)'
    BY <1>1, <1>2, <2>5 DEF Apart
  <2>7. QED
    BY <2>6, <1>1, <1>4 DEF n
<1>5. QED
  BY <1>3, <1>4, <1>1

-----------------------------------------------------------------------------
(* The steps of a put keep the table's type, and every pair in its chain.  *)
LEMMA RunningTypes ==
  ASSUME TypeOK, Valued(Value), Running
  PROVE  TypeOK'
<1>1. CASE Reinsert
  BY <1>1, ReinsertMoves DEF TypeOK, Reinsert
<1>2. CASE Grow
  <2>1. calls' \in Seq(Call)
    BY <1>2, GrowMoves
  <2>2. tableSize' = 2 * tableSize /\ data' = Cleared(2 * tableSize) /\ size' = 0
    BY <1>2 DEF Grow, Rehash
  <2>3. Unused \in Entry
    BY DEF Unused, Entry
  <2>4. QED
    BY <2>1, <2>2, <2>3 DEF TypeOK, Cleared
<1>3. CASE Store
  <2> DEFINE slot == FreeSlot(Top.key)
             pair == [key |-> Top.key, value |-> Top.value]
  <2>1. calls' \in Seq(Call) /\ slot \in 0 .. tableSize - 1
    BY <1>3, StoreSpots
  <2>2. data' = [data EXCEPT ![slot] = pair] /\ size' = size + 1 /\ tableSize' = tableSize
    BY <1>3 DEF Store, StoreAt
  <2>3. pair \in Entry
    BY <1>3, TopCall, CallFields DEF Entry, Store, StoreAt
  <2> HIDE DEF slot, pair
  <2>4. QED
    BY <2>1, <2>2, <2>3 DEF TypeOK
<1>4. QED
  BY <1>1, <1>2, <1>3 DEF Running

LEMMA RunningValued ==
  ASSUME TypeOK, Valued(Value), NEW V, Valued(V), Running
  PROVE  Valued(V)'
<1> DEFINE n == Len(calls)
<1>1. CASE Reinsert
  <2>1. PICK i \in Nat \ {0} :
          /\ n \in Nat \ {0} /\ Spot(1, n, i)
          /\ \A c, j \in Nat :
               Spot(1, c, j)' <=> \/ c = n + 1 /\ j = 0
                                  \/ Spot(1, c, j) /\ ~ (c = n /\ j = i)
          /\ \A c, j \in Nat :
               Spot(1, c, j)' => EntryAt(c, j)' = IF c = n + 1 THEN EntryAt(n, i)
                                                 ELSE EntryAt(c, j)
    BY <1>1, ReinsertSpots
  <2> HIDE DEF n
  <2>2. QED
    BY <2>1 DEF Valued
<1>2. CASE Grow
  <2>1. /\ n \in Nat \ {0}
        /\ \A c, j \in Nat :
             Spot(1, c, j)' <=> \/ c # 0 /\ Spot(1, c, j)
                                \/ c = n /\ j # 0 /\ Spot(1, 0, j - 1)
        /\ \A c, j \in Nat :
             Spot(1, c, j)' => EntryAt(c, j)' = IF c = n /\ j # 0 THEN EntryAt(0, j - 1)
                                                ELSE EntryAt(c, j)
        /\ \A j \in Nat \ {0} : ~ Spot(1, n, j)
    BY <1>2, GrowSpots
  <2> HIDE DEF n
  <2>2. QED
    BY <2>1 DEF Valued
<1>3. CASE Store
  <2>1. /\ n \in Nat \ {0} /\ Spot(1, n, 0)
        /\ \A c, j \in Nat :
             Spot(1, c, j)' <=> \/ c = 0 /\ j = FreeSlot(Top.key)
                                \/ Spot(1, c, j) /\ c # n
        /\ \A c, j \in Nat :
             Spot(1, c, j)' => EntryAt(c, j)' = IF c = 0 /\ j = FreeSlot(Top.key) THEN EntryAt(n, 0)
                                                ELSE EntryAt(c, j)
    BY <1>3, StoreSpots
  <2> HIDE DEF n
  <2>2. QED
    BY <2>1 DEF Valued
<1>4. QED
  BY <1>1, <1>2, <1>3 DEF Running

LEMMA RunningInChain ==
  ASSUME TypeOK, Running, InChain
  PROVE  InChain'
<1>1. CASE Reinsert
  BY <1>1 DEF Reinsert, InChain, UsedSlots, Probe
<1>2. CASE Grow
  BY <1>2, GrowMoves DEF InChain
<1>3. CASE Store
  <2> DEFINE slot == FreeSlot(Top.key)
  <2>1. UsedSlots' = UsedSlots \cup {slot} /\ slot \in 0 .. tableSize - 1
    BY <1>3, StoreSpots
  <2>2. \E i \in Chain : slot = Probe(Top.key, i)
    BY <1>3, TopCall, CallFields, FreeSlotFits DEF Store, StoreAt
  <2>3. data' = [data EXCEPT ![slot] = [key |-> Top.key, value |-> Top.value]] /\ tableSize' = tableSize
    BY <1>3 DEF Store, StoreAt
  <2> HIDE DEF slot
  <2>4. \A i \in UsedSlots' : i \in 0 .. tableSize - 1 /\ data'[i].key = IF i = slot THEN Top.key ELSE data[i].key
    BY <2>1, <2>3, SlotsFinite DEF TypeOK
  <2>5. \A k, i : Probe(k, i)' = Probe(k, i)
    BY <2>3 DEF Probe
  <2>6. QED
    BY <2>1, <2>2, <2>4, <2>5 DEF InChain
<1>4. QED
  BY <1>1, <1>2, <1>3 DEF Running

-----------------------------------------------------------------------------
(* The pairs of Entries are those at the spots.                            *)
EntriesMatch ==
  \A e : e \in Entries <=> \E c, j \in Nat : Spot(2, c, j) /\ e = EntryAt(c, j)

LEMMA EntriesAtSpots == TypeOK => EntriesMatch
<1> SUFFICES ASSUME TypeOK PROVE EntriesMatch
  OBVIOUS
<1>1. UsedSlots \in SUBSET Nat
  BY SlotsFinite
<1>2. DOMAIN calls = 1 .. Len(calls) /\ Len(calls) \in Nat
      /\ \A c \in DOMAIN calls : Left(calls[c]) \in SUBSET (Nat \ {0})
  BY CallFields DEF TypeOK
<1>3. ASSUME NEW e, e \in Entries
      PROVE  \E c, j \in Nat : Spot(2, c, j) /\ e = EntryAt(c, j)
  <2>1. CASE \E i \in UsedSlots : e = data[i]
    <3>1. PICK i \in UsedSlots : e = data[i]
      BY <2>1
    <3>2. Spot(2, 0, i) /\ e = EntryAt(0, i) /\ i \in Nat
      BY <3>1, <1>1 DEF Spot, EntryAt
    <3>3. QED
      BY <3>2
  <2>2. CASE \E c \in 2 .. Len(calls) : e = [key |-> calls[c].key, value |-> calls[c].value]
    <3>1. PICK c \in 2 .. Len(calls) : e = [key |-> calls[c].key, value |-> calls[c].value]
      BY <2>2
    <3>2. Spot(2, c, 0) /\ e = EntryAt(c, 0) /\ c \in Nat
      BY <3>1, <1>2 DEF Spot, EntryAt
    <3>3. QED
      BY <3>2
  <2>3. CASE \E c \in DOMAIN calls : \E i \in Left(calls[c]) : e = calls[c].old[i]
    <3>1. PICK c \in DOMAIN calls : \E k \in Left(calls[c]) : e = calls[c].old[k]
      BY <2>3
    <3> PICK i \in Left(calls[c]) : e = calls[c].old[i]
      BY <3>1
    <3>2. c \in Nat \ {0} /\ i \in Nat \ {0}
      BY <1>2
    <3>3. Spot(2, c, i) /\ e = EntryAt(c, i)
      BY <3>1, <3>2 DEF Spot, EntryAt
    <3>4. QED
      BY <3>2, <3>3
  <2>4. QED
    BY <1>3, <2>1, <2>2, <2>3 DEF Entries
<1>4. ASSUME NEW c \in Nat, NEW j \in Nat, Spot(2, c, j)
      PROVE  EntryAt(c, j) \in Entries
  <2>1. CASE c = 0
    BY <2>1, <1>4, <1>2 DEF Spot, EntryAt, Entries
  <2>2. CASE c # 0 /\ j = 0
    <3>1. c \in 2 .. Len(calls)
      BY <2>2, <1>4, <1>2 DEF Spot
    <3>2. QED
      BY <2>2, <3>1 DEF EntryAt, Entries
  <2>3. CASE c # 0 /\ j # 0
    <3>1. c \in DOMAIN calls /\ j \in Left(calls[c])
      BY <2>3, <1>4 DEF Spot
    <3>2. QED
      BY <2>3, <3>1 DEF EntryAt, Entries
  <2>4. QED
    BY <2>1, <2>2, <2>3
<1>5. QED
  BY <1>3, <1>4 DEF EntriesMatch

LEMMA EntriesAtSpotsNext == TypeOK' => EntriesMatch'
  BY EntriesAtSpots, PTL

(* With keys apart, ValueOf is the value of a key's only pair.             *)
ValuesMatch ==
  \A k : (calls # << >> => calls[1].key # k) =>
           /\ \A e \in Entries : e.key = k => ValueOf(k) = e.value
           /\ (\A e \in Entries : e.key # k) => ValueOf(k) = Zero

LEMMA ValueOfEntry == TypeOK /\ Apart(2) => ValuesMatch
<1> SUFFICES ASSUME TypeOK, Apart(2) PROVE ValuesMatch
  OBVIOUS
<1>1. \A e, f \in Entries : e.key = f.key => e = f
  BY EntriesAtSpots DEF Apart, EntriesMatch
<1>2. QED
  BY <1>1 DEF ValueOf, ValuesMatch

LEMMA ValueOfEntryNext == TypeOK' /\ Apart(2)' => ValuesMatch'
  BY ValueOfEntry, PTL

(* ValueOf depends on the pairs and the outermost put alone.               *)
LEMMA ValueOfKept ==
  ASSUME Entries' = Entries, calls # << >>, calls' # << >>,
         calls'[1].key = calls[1].key, calls'[1].value = calls[1].value, NEW k
  PROVE  ValueOf(k)' = ValueOf(k)
  BY DEF ValueOf

(* A put that has not come to its end changes no value: its rehashes move  *)
(* pairs and lose none.                                                    *)
LEMMA RunningKeepsValues ==
  ASSUME TypeOK, TypeOK', Valued(Value), Apart(2), Reinsert \/ Grow \/ (Store /\ Len(calls) # 1)
  PROVE  /\ Entries' = Entries /\ calls # << >> /\ calls' # << >>
         /\ calls'[1].key = calls[1].key /\ calls'[1].value = calls[1].value
         /\ \A k : ValueOf(k)' = ValueOf(k)
<1> DEFINE n == Len(calls)
<1>1. EntriesMatch /\ EntriesMatch'
  BY EntriesAtSpots, EntriesAtSpotsNext
<1>2. ~ Idle /\ n \in Nat \ {0} /\ calls # << >>
  <2>1. ~ Idle
    BY DEF Reinsert, Grow, Rehash, Store, StoreAt
  <2>2. QED
    BY <2>1, TopCall DEF Idle
<1>3. /\ Entries' = Entries /\ calls' # << >>
      /\ calls'[1].key = calls[1].key /\ calls'[1].value = calls[1].value
  <2>1. CASE Reinsert
    <3>1. PICK i \in Nat \ {0} :
            /\ Spot(2, n, i)
            /\ \A c, j \in Nat :
                 Spot(2, c, j)' <=> \/ c = n + 1 /\ j = 0
                                    \/ Spot(2, c, j) /\ ~ (c = n /\ j = i)
            /\ \A c, j \in Nat :
                 Spot(2, c, j)' => EntryAt(c, j)' = IF c = n + 1 THEN EntryAt(n, i)
                                                   ELSE EntryAt(c, j)
            /\ \A j \in Nat : ~ Spot(2, n + 1, j)
      BY <2>1, ReinsertSpots
    <3>2. PICK k \in Left(Top) :
            /\ Len(calls') = n + 1 /\ calls' \in Seq(Call)
            /\ \A c \in 1 .. n - 1 : calls'[c] = calls[c]
            /\ calls'[n] = [Top EXCEPT !.next = k + 1]
      BY <2>1, ReinsertMoves
    <3>3. Top = calls[n] /\ Top \in Call
      BY <1>2, TopCall
    <3> HIDE DEF n
    <3>4. calls'[1].key = calls[1].key /\ calls'[1].value = calls[1].value
      <4>1. calls'[n].key = Top.key /\ calls'[n].value = Top.value
        BY <3>2, <3>3 DEF Call
      <4>2. n # 1 => calls'[1] = calls[1]
        BY <1>2, <3>2
      <4>3. QED
        BY <4>1, <4>2, <3>3
    <3>5. calls' # << >>
      BY <1>2, <3>2
    <3>6. \A e : e \in Entries' <=> e \in Entries
      <4>1. ASSUME NEW e, e \in Entries'
            PROVE  e \in Entries
        BY <1>1, <1>2, <3>1, <4>1 DEF EntriesMatch
      <4>2. ASSUME NEW e, e \in Entries
            PROVE  e \in Entries'
        <5>1. PICK c \in Nat, j \in Nat : Spot(2, c, j) /\ e = EntryAt(c, j)
          BY <1>1, <4>2 DEF EntriesMatch
        <5>2. CASE c = n /\ j = i
          <6> PICK d \in Nat : d = n + 1
            BY <1>2
          <6>1. Spot(2, d, 0)' /\ EntryAt(d, 0)' = e
            BY <5>1, <5>2, <3>1, <1>2
          <6>2. QED
            BY <6>1, <1>1 DEF EntriesMatch
        <5>3. CASE ~ (c = n /\ j = i)
          <6>1. Spot(2, c, j)' /\ EntryAt(c, j)' = e
            BY <5>1, <5>3, <3>1
          <6>2. QED
            BY <6>1, <1>1 DEF EntriesMatch
        <5>4. QED
          BY <5>2, <5>3
      <4>3. QED
        BY <4>1, <4>2
    <3>7. QED
      BY <3>4, <3>5, <3>6
  <2>2. CASE Grow
    <3>1. /\ \A c, j \in Nat :
               Spot(2, c, j)' <=> \/ c # 0 /\ Spot(2, c, j)
                                  \/ c = n /\ j # 0 /\ Spot(2, 0, j - 1)
          /\ \A c, j \in Nat :
               Spot(2, c, j)' => EntryAt(c, j)' = IF c = n /\ j # 0 THEN EntryAt(0, j - 1)
                                                  ELSE EntryAt(c, j)
          /\ \A j \in Nat \ {0} : ~ Spot(2, n, j)
      BY <2>2, GrowSpots
    <3>2. /\ Len(calls') = n /\ calls' \in Seq(Call)
          /\ \A c \in 1 .. n - 1 : calls'[c] = calls[c]
          /\ calls'[n].key = Top.key /\ calls'[n].value = Top.value
      BY <2>2, GrowMoves
    <3>3. Top = calls[n]
      BY <1>2, TopCall
    <3> HIDE DEF n
    <3>4. calls'[1].key = calls[1].key /\ calls'[1].value = calls[1].value
      BY <1>2, <3>2, <3>3
    <3>5. calls' # << >>
      BY <1>2, <3>2
    <3>6. \A e : e \in Entries' <=> e \in Entries
      <4>1. ASSUME NEW e, e \in Entries'
            PROVE  e \in Entries
        BY <1>1, <1>2, <3>1, <4>1 DEF EntriesMatch
      <4>2. ASSUME NEW e, e \in Entries
            PROVE  e \in Entries'
        <5>1. PICK c \in Nat, j \in Nat : Spot(2, c, j) /\ e = EntryAt(c, j)
          BY <1>1, <4>2 DEF EntriesMatch
        <5>2. CASE c = 0
          <6>1. j + 1 \in Nat \ {0} /\ (j + 1) - 1 = j
            OBVIOUS
          <6> PICK d \in Nat : d = n
            BY <1>2
          <6>2. Spot(2, d, j + 1)' /\ EntryAt(d, j + 1)' = e
            BY <5>1, <5>2, <6>1, <3>1, <1>2
          <6>3. QED
            BY <6>1, <6>2, <1>1, <1>2 DEF EntriesMatch
        <5>3. CASE c # 0
          <6>1. Spot(2, c, j)' /\ EntryAt(c, j)' = e
            BY <5>1, <5>3, <3>1
          <6>2. QED
            BY <6>1, <1>1 DEF EntriesMatch
        <5>4. QED
          BY <5>2, <5>3
      <4>3. QED
        BY <4>1, <4>2
    <3>7. QED
      BY <3>4, <3>5, <3>6
  <2>3. CASE Store /\ n # 1
    <3> DEFINE slot == FreeSlot(Top.key)
    <3>1. /\ calls' \in Seq(Call) /\ Len(calls') = n - 1
          /\ \A c \in 1 .. n - 1 : calls'[c] = calls[c]
          /\ slot \in 0 .. tableSize - 1
          /\ Spot(2, n, 0) <=> n >= 2
          /\ \A j \in Nat \ {0} : ~ Spot(2, n, j)
          /\ \A c, j \in Nat :
               Spot(2, c, j)' <=> \/ c = 0 /\ j = slot
                                  \/ Spot(2, c, j) /\ c # n
          /\ \A c, j \in Nat :
               Spot(2, c, j)' => EntryAt(c, j)' = IF c = 0 /\ j = slot THEN EntryAt(n, 0)
                                                  ELSE EntryAt(c, j)
      BY <2>3, StoreSpots
    <3>2. slot \notin UsedSlots
      <4>1. Len(calls) >= 2
        BY <1>2, <2>3
      <4>2. QED
        BY <4>1, <2>3, StoreApart
    <3>3. ~ Spot(2, 0, slot)
      <4>1. 0 \notin DOMAIN calls
        BY <1>2, TopCall
      <4>2. QED
        BY <3>2, <4>1 DEF Spot
    <3> HIDE DEF n, slot
    <3>4. n >= 2 /\ slot \in Nat
      BY <1>2, <2>3, <3>1
    <3>5. calls'[1] = calls[1] /\ calls' # << >>
      BY <3>1, <3>4, <1>2
    <3>6. \A e : e \in Entries' <=> e \in Entries
      <4>1. ASSUME NEW e, e \in Entries'
            PROVE  e \in Entries
        BY <1>1, <1>2, <3>1, <3>4, <4>1 DEF EntriesMatch
      <4>2. ASSUME NEW e, e \in Entries
            PROVE  e \in Entries'
        <5>1. PICK c \in Nat, j \in Nat : Spot(2, c, j) /\ e = EntryAt(c, j)
          BY <1>1, <4>2 DEF EntriesMatch
        <5>2. CASE c = n
          <6> PICK d \in Nat : d = slot
            BY <3>4
          <6>1. Spot(2, 0, d)' /\ EntryAt(0, d)' = e
            BY <5>1, <5>2, <3>1, <3>4
          <6>2. QED
            BY <6>1, <3>4, <1>1 DEF EntriesMatch
        <5>3. CASE c # n
          <6>1. Spot(2, c, j)' /\ EntryAt(c, j)' = e
            BY <5>1, <5>3, <3>1, <3>3
          <6>2. QED
            BY <6>1, <1>1 DEF EntriesMatch
        <5>4. QED
          BY <5>2, <5>3
      <4>3. QED
        BY <4>1, <4>2
    <3>7. QED
      BY <3>5, <3>6
  <2>4. QED
    BY <2>1, <2>2, <2>3
<1>4. QED
  BY <1>2, <1>3, ValueOfKept

(* The put that ends gives its key its value, and changes no other.        *)
LEMMA StoreKeepsValues ==
  ASSUME TypeOK, TypeOK', Apart(2), Apart(2)', Store, Len(calls) = 1
  PROVE  calls' = << >> /\ \A k : ValueOf(k)' = ValueOf(k)
<1> DEFINE slot == FreeSlot(Top.key)
           key == Top.key
           value == Top.value
<1>1. /\ calls' \in Seq(Call) /\ Len(calls') = 0
      /\ slot \in 0 .. tableSize - 1 /\ data[slot].key \in {key, None}
      /\ EntryAt(1, 0) = [key |-> key, value |-> value]
      /\ \A c, j \in Nat :
           Spot(2, c, j)' <=> \/ c = 0 /\ j = slot
                              \/ Spot(2, c, j) /\ c # 1
      /\ \A c, j \in Nat :
           Spot(2, c, j)' => EntryAt(c, j)' = IF c = 0 /\ j = slot THEN EntryAt(1, 0)
                                              ELSE EntryAt(c, j)
      /\ ~ Spot(2, 1, 0) /\ \A j \in Nat \ {0} : ~ Spot(2, 1, j)
  <2> DEFINE n == Len(calls)
  <2>1. n = 1 /\ 2 \in {1, 2}
    OBVIOUS
  <2>2. /\ calls' \in Seq(Call) /\ Len(calls') = n - 1
        /\ slot \in 0 .. tableSize - 1 /\ data[slot].key \in {key, None}
    BY StoreSpots
  <2>3. EntryAt(n, 0) = [key |-> key, value |-> value]
    BY StoreSpots
  <2>4. (Spot(2, n, 0) <=> n >= 2) /\ \A j \in Nat \ {0} : ~ Spot(2, n, j)
    BY StoreSpots
  <2>5. \A c, j \in Nat :
          Spot(2, c, j)' <=> \/ c = 0 /\ j = slot
                             \/ Spot(2, c, j) /\ c # n
    BY StoreSpots
  <2>6. \A c, j \in Nat :
          Spot(2, c, j)' => EntryAt(c, j)' = IF c = 0 /\ j = slot THEN EntryAt(n, 0)
                                             ELSE EntryAt(c, j)
    BY StoreSpots
  <2> HIDE DEF slot, key, value
  <2>7. EntryAt(1, 0) = [key |-> key, value |-> value]
    BY <2>1, <2>3
  <2>8. \A c, j \in Nat :
          Spot(2, c, j)' <=> \/ c = 0 /\ j = slot
                             \/ Spot(2, c, j) /\ c # 1
    BY <2>1, <2>5
  <2>9. \A c, j \in Nat :
          Spot(2, c, j)' => EntryAt(c, j)' = IF c = 0 /\ j = slot THEN EntryAt(1, 0)
                                             ELSE EntryAt(c, j)
    BY <2>1, <2>6
  <2>10. ~ Spot(2, 1, 0) /\ \A j \in Nat \ {0} : ~ Spot(2, 1, j)
    BY <2>1, <2>4
  <2>11. Len(calls') = 0
    BY <2>1, <2>2
  <2>12. QED
    BY <2>2, <2>7, <2>8, <2>9, <2>10, <2>11
<1>2. calls' = << >> /\ calls # << >> /\ calls[1].key = key /\ calls[1].value = value
  <2>1. calls' = << >>
    BY <1>1
  <2>2. calls # << >>
    OBVIOUS
  <2>3. Top = calls[1]
    BY DEF Top
  <2>4. QED
    BY <2>1, <2>2, <2>3
<1>3. EntriesMatch /\ EntriesMatch' /\ ValuesMatch /\ ValuesMatch'
  BY EntriesAtSpots, EntriesAtSpotsNext, ValueOfEntry, ValueOfEntryNext
<1>4. key \in Key /\ key # None
  BY TopCall, CallFields, NoneAssumption DEF Store, StoreAt
<1> HIDE DEF slot, key, value
<1> PICK s \in Nat : s = slot
  BY <1>1
<1>5. ValueOf(key) = value
  BY <1>2 DEF ValueOf
<1> PICK kk : kk = key
  OBVIOUS
<1>6. ValueOf(kk)' = value
  <2>1. Spot(2, 0, s)' /\ EntryAt(0, s)' = [key |-> key, value |-> value]
    BY <1>1
  <2>2. [key |-> key, value |-> value] \in Entries'
    BY <2>1, <1>3 DEF EntriesMatch
  <2>3. QED
    BY <2>2, <1>2, <1>3 DEF ValuesMatch
<1>7. ASSUME NEW k, k # key
      PROVE  ValueOf(k)' = ValueOf(k)
  <2>1. \A e : e.key = k => (e \in Entries' <=> e \in Entries)
    <3>1. ASSUME NEW e, e.key = k, e \in Entries'
          PROVE  e \in Entries
      <4>1. PICK c \in Nat, j \in Nat : Spot(2, c, j)' /\ e = EntryAt(c, j)'
        BY <3>1, <1>3 DEF EntriesMatch
      <4>2. ~ (c = 0 /\ j = slot)
        BY <4>1, <3>1, <1>1, <1>7
      <4>3. Spot(2, c, j) /\ e = EntryAt(c, j)
        BY <4>1, <4>2, <1>1
      <4>4. QED
        BY <4>3, <1>3 DEF EntriesMatch
    <3>2. ASSUME NEW e, e.key = k, e \in Entries
          PROVE  e \in Entries'
      <4>1. PICK c \in Nat, j \in Nat : Spot(2, c, j) /\ e = EntryAt(c, j)
        BY <3>2, <1>3 DEF EntriesMatch
      <4>2. c # 1
        BY <4>1, <1>1
      <4>3. ~ (c = 0 /\ j = slot)
        <5>1. SUFFICES ASSUME c = 0, j = slot
                       PROVE  data[slot].key # None /\ EntryAt(0, j) = data[j]
          BY <4>1, <3>2, <1>7, <1>1
        <5>2. 0 \notin DOMAIN calls
          BY TopCall DEF Store, StoreAt
        <5>3. QED
          BY <5>1, <5>2, <4>1 DEF Spot, EntryAt, UsedSlots
      <4>4. Spot(2, c, j)' /\ e = EntryAt(c, j)'
        BY <4>1, <4>2, <4>3, <1>1
      <4>5. QED
        BY <4>4, <1>3 DEF EntriesMatch
    <3>3. QED
      BY <3>1, <3>2
  <2>2. CASE \E e \in Entries : e.key = k
    <3>1. PICK e \in Entries : e.key = k
      BY <2>2
    <3>2. e \in Entries'
      BY <2>1, <3>1
    <3>3. ValueOf(k) = e.value
      BY <3>1, <1>2, <1>3, <1>7 DEF ValuesMatch
    <3>4. ValueOf(k)' = e.value
      BY <3>1, <3>2, <1>2, <1>3 DEF ValuesMatch
    <3>5. QED
      BY <3>3, <3>4
  <2>3. CASE \A e \in Entries : e.key # k
    <3>1. \A e \in Entries' : e.key # k
      BY <2>1, <2>3
    <3>2. ValueOf(k) = Zero
      BY <2>3, <1>2, <1>3, <1>7 DEF ValuesMatch
    <3>3. ValueOf(k)' = Zero
      BY <3>1, <1>2, <1>3 DEF ValuesMatch
    <3>4. QED
      BY <3>2, <3>3
  <2>4. QED
    BY <2>2, <2>3
<1>8. QED
  BY <1>2, <1>5, <1>6, <1>7

-----------------------------------------------------------------------------
(* Between two puts, all pairs are in the table.                           *)
LEMMA IdleSpots ==
  ASSUME TypeOK, Idle
  PROVE  /\ \A m, c, j : Spot(m, c, j) <=> c = 0 /\ j \in UsedSlots
         /\ \A j : EntryAt(0, j) = data[j]
         /\ Entries = {data[i] : i \in UsedSlots}
<1>1. calls = << >> /\ DOMAIN calls = {} /\ Len(calls) = 0
  BY DEF Idle
<1>2. QED
  BY <1>1 DEF Spot, EntryAt, Entries

(* What a key's value is, then, when its slot is known.                    *)
LEMMA IdleValue ==
  ASSUME TypeOK, Idle, Apart(2), NEW k
  PROVE  /\ \A i \in UsedSlots : data[i].key = k => ValueOf(k) = data[i].value
         /\ (\A i \in UsedSlots : data[i].key # k) => ValueOf(k) = Zero
<1>1. calls = << >> /\ ValuesMatch
  BY ValueOfEntry DEF Idle
<1>2. QED
  BY <1>1, IdleSpots DEF ValuesMatch

IdleValues ==
  Idle => \A k : /\ \A i \in UsedSlots : data[i].key = k => ValueOf(k) = data[i].value
                 /\ (\A i \in UsedSlots : data[i].key # k) => ValueOf(k) = Zero

LEMMA IdleValueNext == TypeOK' /\ Apart(2)' => IdleValues'
<1>1. TypeOK /\ Apart(2) => IdleValues
  BY IdleValue DEF IdleValues
<1>2. QED
  BY <1>1, PTL

(* A call of put adds its pair to the spots; its key has the new value at  *)
(* once, and no other key is concerned.                                    *)
LEMMA PutSpots ==
  ASSUME TypeOK, NEW k \in Key, NEW v \in Value, Put(k, v)
  PROVE  /\ TypeOK' /\ (InChain => InChain')
         /\ UsedSlots' = UsedSlots /\ data' = data
         /\ calls' = <<PutOf(k, v)>>
         /\ \A m, c, j : Spot(m, c, j)' <=> \/ c = 0 /\ j \in UsedSlots
                                            \/ c = 1 /\ j = 0 /\ 1 >= m
         /\ \A j : EntryAt(0, j)' = data[j]
         /\ EntryAt(1, 0)' = [key |-> k, value |-> v]
<1> DEFINE new == PutOf(k, v)
<1>1. calls = << >> /\ calls' = <<new>> /\ UNCHANGED <<tableSize, data, size>>
  BY DEF Put, Idle
<1>2. new \in Call /\ new.key = k /\ new.value = v /\ new.old = << >>
  BY DEF PutOf, Call
<1> HIDE DEF new
<1>3. DOMAIN calls' = {1} /\ calls'[1] = new /\ calls' \in Seq(Call)
  BY <1>1, <1>2
<1>4. Left(new) = {}
  BY <1>2 DEF Left
<1>5. UsedSlots' = UsedSlots
  BY <1>1 DEF UsedSlots
<1>6. TypeOK' /\ (InChain => InChain')
  BY <1>1, <1>3, <1>5 DEF TypeOK, InChain, Probe
<1>7. \A m, c, j : Spot(m, c, j)' <=> \/ c = 0 /\ j \in UsedSlots
                                      \/ c = 1 /\ j = 0 /\ 1 >= m
  BY <1>3, <1>4, <1>5 DEF Spot
<1>8. (\A j : EntryAt(0, j)' = data[j]) /\ EntryAt(1, 0)' = [key |-> k, value |-> v]
  BY <1>1, <1>2, <1>3 DEF EntryAt
<1>9. QED
  BY <1>1, <1>5, <1>6, <1>7, <1>8 DEF new

LEMMA PutSetsValue ==
  ASSUME TypeOK, Apart(2), NEW k \in Key, NEW v \in Value, Put(k, v)
  PROVE  /\ Apart(2)'
         /\ \A l \in Key : ValueOf(l)' = IF l = k THEN v ELSE ValueOf(l)
<1>1. Idle /\ calls = << >>
  BY DEF Put, Idle
<1>2. /\ TypeOK' /\ UsedSlots' = UsedSlots /\ data' = data /\ calls' = <<PutOf(k, v)>>
      /\ \A m, c, j : Spot(m, c, j)' <=> \/ c = 0 /\ j \in UsedSlots
                                         \/ c = 1 /\ j = 0 /\ 1 >= m
      /\ \A j : EntryAt(0, j)' = data[j]
  BY PutSpots
<1>3. \A c, j : Spot(2, c, j) <=> c = 0 /\ j \in UsedSlots
  BY <1>1, IdleSpots
<1>4. \A j : EntryAt(0, j) = data[j]
  BY <1>1, IdleSpots
<1>5. Apart(2)'
  BY <1>2, <1>3, <1>4 DEF Apart
<1>6. Entries' = Entries
  <2>1. EntriesMatch /\ EntriesMatch'
    BY <1>2, EntriesAtSpots, EntriesAtSpotsNext
  <2>2. \A e : e \in Entries' <=> e \in Entries
    BY <2>1, <1>2, <1>3, <1>4 DEF EntriesMatch
  <2>3. QED
    BY <2>2
<1>7. calls' # << >> /\ calls'[1].key = k /\ calls'[1].value = v
  BY <1>2 DEF PutOf
<1>8. QED
  BY <1>1, <1>5, <1>6, <1>7 DEF ValueOf

(* Changing the value of a known key keeps every pair in its slot.         *)
LEMMA ChangeSets ==
  ASSUME TypeOK, NEW m \in {1, 2}, Apart(m), Apart(2), NEW k \in Key, NEW v \in Value, Change(k, v)
  PROVE  /\ TypeOK' /\ (InChain => InChain') /\ Apart(m)' /\ Apart(2)'
         /\ SlotOf(k) \in UsedSlots /\ UsedSlots' = UsedSlots
         /\ calls' = << >>
         /\ \A j \in UsedSlots : /\ data'[j].key = data[j].key
                                  /\ data'[j].value = IF j = SlotOf(k) THEN v ELSE data[j].value
         /\ ValueOf(k) = data[SlotOf(k)].value
         /\ \A l \in Key : ValueOf(l)' = IF l = k THEN v ELSE ValueOf(l)
<1> DEFINE slot == SlotOf(k)
<1>1. Idle /\ calls = << >> /\ calls' = << >> /\ Idle'
  BY DEF Change, Idle
<1>2. slot \in 0 .. tableSize - 1 /\ data[slot].key = k
  BY SlotOfHolds DEF Change
<1>3. slot \in UsedSlots
  BY <1>2, NoneAssumption DEF UsedSlots
<1>4. data' = [data EXCEPT ![slot].value = v] /\ tableSize' = tableSize /\ size' = size
  BY DEF Change
<1> HIDE DEF slot
<1>5. data \in [0 .. tableSize - 1 -> Entry]
  BY DEF TypeOK
<1>6. data' \in [0 .. tableSize - 1 -> Entry]
  BY <1>2, <1>4, <1>5 DEF Entry
<1>7. \A j \in 0 .. tableSize - 1 : /\ data'[j].key = data[j].key
                                    /\ data'[j].value = IF j = slot THEN v ELSE data[j].value
  BY <1>2, <1>4, <1>5 DEF Entry
<1>8. TypeOK'
  BY <1>1, <1>4, <1>6 DEF TypeOK
<1>9. UsedSlots' = UsedSlots /\ UsedSlots \in SUBSET (0 .. tableSize - 1)
  BY <1>4, <1>7 DEF UsedSlots
<1>10. InChain => InChain'
  BY <1>4, <1>7, <1>9 DEF InChain, Probe
<1>11. /\ \A p, c, j : Spot(p, c, j)' <=> c = 0 /\ j \in UsedSlots
       /\ \A j \in UsedSlots : EntryAt(0, j)' = data'[j]
  <2>1. DOMAIN calls' = {}
    BY <1>1
  <2>2. QED
    BY <2>1, <1>9 DEF Spot, EntryAt
<1>12. /\ \A p, c, j : Spot(p, c, j) <=> c = 0 /\ j \in UsedSlots
       /\ \A j : EntryAt(0, j) = data[j]
  BY <1>1, IdleSpots
<1>13. Apart(m)' /\ Apart(2)'
  <2>1. \A i, j \in UsedSlots : i \in Nat /\ (data'[i].key = data'[j].key <=> data[i].key = data[j].key)
    BY <1>7, <1>9
  <2>2. \A i, j \in UsedSlots : data[i].key = data[j].key => i = j
    <3>1. 0 \in Nat /\ \A i \in UsedSlots : i \in Nat /\ Spot(2, 0, i) /\ EntryAt(0, i) = data[i]
      BY <1>12, <2>1
    <3>2. QED
      BY <3>1 DEF Apart
  <2>3. QED
    BY <2>1, <2>2, <1>11 DEF Apart
<1>14. ValueOf(k) = data[slot].value
  BY <1>1, <1>2, <1>3, IdleValue
<1>15. ASSUME NEW l \in Key
       PROVE  ValueOf(l)' = IF l = k THEN v ELSE ValueOf(l)
  <2>1. IdleValues /\ IdleValues'
    BY <1>8, <1>13, IdleValue, IdleValueNext DEF IdleValues
  <2>2. CASE \E i \in UsedSlots : data[i].key = l
    <3>1. PICK i \in UsedSlots : data[i].key = l
      BY <2>2
    <3>2. ValueOf(l) = data[i].value /\ ValueOf(l)' = data'[i].value
      BY <3>1, <2>1, <1>1, <1>7, <1>9 DEF IdleValues
    <3>3. l = k <=> i = slot
      <4>1. \A j \in UsedSlots : j \in Nat /\ Spot(2, 0, j) /\ EntryAt(0, j) = data[j]
        BY <1>9, <1>12
      <4>2. QED
        BY <3>1, <4>1, <1>2, <1>3 DEF Apart
    <3>4. QED
      BY <3>1, <3>2, <3>3, <1>7, <1>9
  <2>3. CASE \A i \in UsedSlots : data[i].key # l
    <3>1. l # k
      BY <2>3, <1>2, <1>3
    <3>2. ValueOf(l) = Zero /\ ValueOf(l)' = Zero
      BY <2>3, <2>1, <1>1, <1>7, <1>9 DEF IdleValues
    <3>3. QED
      BY <3>1, <3>2
  <2>4. QED
    BY <2>2, <2>3
<1>16. QED
  BY <1>1, <1>3, <1>7, <1>8, <1>9, <1>10, <1>13, <1>14, <1>15 DEF slot

(* Removing a known key empties its slot and leaves the others.            *)
LEMMA RemoveEmpties ==
  ASSUME TypeOK, NEW m \in {1, 2}, Apart(m), Apart(2), NEW k \in Key, Remove(k),
         size \in Nat \ {0}
  PROVE  /\ TypeOK' /\ (InChain => InChain') /\ Apart(m)' /\ Apart(2)'
         /\ SlotOf(k) \in UsedSlots /\ UsedSlots' = UsedSlots \ {SlotOf(k)}
         /\ calls' = << >>
         /\ \A j \in UsedSlots' : data'[j] = data[j]
         /\ ValueOf(k) = data[SlotOf(k)].value
         /\ \A l \in Key : ValueOf(l)' = IF l = k THEN Zero ELSE ValueOf(l)
<1> DEFINE slot == SlotOf(k)
<1>1. Idle /\ calls = << >> /\ calls' = << >> /\ Idle'
  BY DEF Remove, Idle
<1>2. slot \in 0 .. tableSize - 1 /\ data[slot].key = k
  BY SlotOfHolds DEF Remove
<1>3. slot \in UsedSlots
  BY <1>2, NoneAssumption DEF UsedSlots
<1>4. data' = [data EXCEPT ![slot] = Unused] /\ tableSize' = tableSize /\ size' = size - 1
  BY DEF Remove
<1> HIDE DEF slot
<1>5. data \in [0 .. tableSize - 1 -> Entry] /\ Unused \in Entry /\ Unused.key = None
  BY DEF TypeOK, Entry, Unused
<1>6. /\ data' \in [0 .. tableSize - 1 -> Entry]
      /\ \A j \in 0 .. tableSize - 1 : data'[j] = IF j = slot THEN Unused ELSE data[j]
  BY <1>2, <1>4, <1>5
<1>7. TypeOK'
  BY <1>1, <1>4, <1>6 DEF TypeOK
<1>8. UsedSlots' = UsedSlots \ {slot} /\ UsedSlots \in SUBSET (0 .. tableSize - 1)
  BY <1>4, <1>5, <1>6 DEF UsedSlots
<1>9. \A j \in UsedSlots' : data'[j] = data[j]
  BY <1>6, <1>8
<1>10. InChain => InChain'
  BY <1>4, <1>8, <1>9 DEF InChain, Probe
<1>11. /\ \A p, c, j : Spot(p, c, j)' <=> c = 0 /\ j \in UsedSlots'
       /\ \A j : EntryAt(0, j)' = data'[j]
  <2>1. DOMAIN calls' = {}
    BY <1>1
  <2>2. QED
    BY <2>1 DEF Spot, EntryAt
<1>12. \A i, j \in UsedSlots : i \in Nat /\ (data[i].key = data[j].key => i = j)
  <2>1. 0 \in Nat /\ \A i \in UsedSlots : i \in Nat /\ Spot(2, 0, i) /\ EntryAt(0, i) = data[i]
    BY <1>1, <1>8, IdleSpots
  <2>2. QED
    BY <2>1 DEF Apart
<1>13. Apart(m)' /\ Apart(2)'
  BY <1>8, <1>9, <1>11, <1>12 DEF Apart
<1>14. ValueOf(k) = data[slot].value
  BY <1>1, <1>2, <1>3, IdleValue
<1>15. ASSUME NEW l \in Key
       PROVE  ValueOf(l)' = IF l = k THEN Zero ELSE ValueOf(l)
  <2>1. IdleValues /\ IdleValues'
    BY <1>7, <1>13, IdleValue, IdleValueNext DEF IdleValues
  <2>2. CASE \E i \in UsedSlots' : data[i].key = l
    <3>1. PICK i \in UsedSlots' : data[i].key = l
      BY <2>2
    <3>2. i \in UsedSlots /\ l # k
      BY <3>1, <1>2, <1>3, <1>8, <1>12
    <3>3. ValueOf(l) = data[i].value /\ ValueOf(l)' = data'[i].value
      BY <3>1, <3>2, <2>1, <1>1, <1>9 DEF IdleValues
    <3>4. QED
      BY <3>1, <3>2, <3>3, <1>9
  <2>3. CASE \A i \in UsedSlots' : data[i].key # l
    <3>1. ValueOf(l)' = Zero
      BY <2>3, <2>1, <1>1, <1>9 DEF IdleValues
    <3>2. l # k => ValueOf(l) = Zero
      BY <2>3, <2>1, <1>1, <1>2, <1>8 DEF IdleValues
    <3>3. QED
      BY <3>1, <3>2
  <2>4. QED
    BY <2>2, <2>3
<1>16. QED
  BY <1>1, <1>3, <1>7, <1>8, <1>9, <1>10, <1>13, <1>14, <1>15 DEF slot

-----------------------------------------------------------------------------
(* The counter.  What has to be known at each step is that no two pairs    *)
(* have one key, wherever a rehash has brought them, and that every pair   *)
(* lies in its chain: then a put never finds another's slot, and a search  *)
(* never misses what is there.                                             *)
IInv == TypeOK /\ InChain /\ Apart(1) /\ SizeExact /\ Valued(1 .. MaxCount)

LEMMA Weaker ==
  ASSUME IInv
  PROVE  Apart(2) /\ Valued(Value)
<1>1. \A c, j \in Nat : Spot(2, c, j) => Spot(1, c, j)
  BY DEF Spot
<1>2. Apart(2)
  BY <1>1 DEF IInv, Apart
<1>3. Valued(Value)
  BY CountAssumption DEF IInv, Valued
<1>4. QED
  BY <1>2, <1>3

LEMMA WeakerNext == IInv' => Apart(2)'
<1>1. IInv => Apart(2)
  BY Weaker
<1>2. QED
  BY <1>1, PTL

LEMMA InitIInv == Init => IInv
<1> SUFFICES ASSUME Init PROVE IInv
  OBVIOUS
<1>1. TypeOK
  BY SizeAssumption DEF Init, TypeOK, Unused, Entry
<1>2. UsedSlots = {} /\ DOMAIN calls = {}
  BY DEF Init, UsedSlots, Unused
<1>3. \A m, c, j : ~ Spot(m, c, j)
  BY <1>2 DEF Spot
<1>4. SizeExact
  BY <1>2, FS_EmptySet DEF SizeExact, Init
<1>5. QED
  BY <1>1, <1>2, <1>3, <1>4 DEF IInv, InChain, Apart, Valued

(* A step of rcmap_put or of a rehash.                                     *)
LEMMA RunningKeeps ==
  ASSUME IInv, Running
  PROVE  IInv'
<1> USE DEF IInv
<1>1. TypeOK' /\ InChain' /\ Valued(1 .. MaxCount)'
  BY Weaker, RunningTypes, RunningValued, RunningInChain
<1>2. Apart(1)' /\ (Store => FreeSlot(Top.key) \notin UsedSlots)
  <2>1. CASE Reinsert
    BY <2>1, Weaker, ReinsertApart DEF Reinsert, Store, StoreAt
  <2>2. CASE Grow
    BY <2>2, GrowApart DEF Grow, Rehash, Store, StoreAt
  <2>3. CASE Store
    <3>1. Len(calls) >= 1
      BY <2>3, TopCall DEF Store, StoreAt
    <3>2. QED
      BY <2>3, <3>1, StoreApart
  <2>4. QED
    BY <2>1, <2>2, <2>3 DEF Running
<1>3. SizeExact'
  <2>1. CASE Reinsert
    BY <2>1 DEF Reinsert, SizeExact, UsedSlots
  <2>2. CASE Grow
    BY <2>2, GrowMoves, FS_EmptySet DEF Grow, Rehash, SizeExact
  <2>3. CASE Store
    <3>1. UsedSlots' = UsedSlots \cup {FreeSlot(Top.key)}
      BY <2>3, StoreSpots
    <3>2. size' = size + 1
      BY <2>3 DEF Store, StoreAt
    <3>3. Cardinality(UsedSlots \cup {FreeSlot(Top.key)}) = Cardinality(UsedSlots) + 1
      BY <1>2, <2>3, SlotsFinite, FS_AddElement
    <3>4. QED
      BY <3>1, <3>2, <3>3 DEF SizeExact
  <2>4. QED
    BY <2>1, <2>2, <2>3 DEF Running
<1>4. QED
  BY <1>1, <1>2, <1>3

(* The count of a known address, and that it is not zero.                  *)
LEMMA CountOfKnown ==
  ASSUME IInv, NEW k \in Key, Idle, Known(k)
  PROVE  /\ SlotOf(k) \in UsedSlots /\ data[SlotOf(k)].value \in 1 .. MaxCount
         /\ ValueOf(k) = data[SlotOf(k)].value
         /\ size \in Nat \ {0}
<1>1. SlotOf(k) \in UsedSlots /\ data[SlotOf(k)].key = k
  BY SlotOfHolds, NoneAssumption DEF IInv, UsedSlots
<1>2. data[SlotOf(k)].value \in 1 .. MaxCount
  <2>1. 0 \in Nat /\ SlotOf(k) \in Nat
    BY <1>1, SlotsFinite DEF IInv
  <2>2. Spot(1, 0, SlotOf(k)) /\ EntryAt(0, SlotOf(k)) = data[SlotOf(k)]
    BY <1>1, IdleSpots DEF IInv
  <2>3. QED
    BY <2>1, <2>2 DEF IInv, Valued
<1>3. ValueOf(k) = data[SlotOf(k)].value
  BY <1>1, Weaker, IdleValue DEF IInv
<1>4. size \in Nat \ {0}
  BY <1>1, SlotsFinite, FS_EmptySet DEF IInv, SizeExact
<1>5. QED
  BY <1>1, <1>2, <1>3, <1>4

(* The count of an address the table misses is zero.                       *)
LEMMA CountOfMissing ==
  ASSUME IInv, NEW k \in Key, Idle, ~ Known(k)
  PROVE  ValueOf(k) = 0 /\ \A i \in UsedSlots : data[i].key # k
<1>1. \A i \in UsedSlots : data[i].key # k
  <2> SUFFICES ASSUME NEW i \in UsedSlots, data[i].key = k
               PROVE  FALSE
    OBVIOUS
  <2>1. PICK j \in Chain : i = Probe(k, j)
    BY DEF IInv, InChain
  <2>2. QED
    BY <2>1 DEF Known
<1>2. QED
  BY <1>1, Weaker, IdleValue, CountAssumption DEF IInv

(* A known address gets another count, the table stays in order.           *)
LEMMA ChangeCounts ==
  ASSUME IInv, NEW k \in Key, NEW w \in 1 .. MaxCount, Change(k, w)
  PROVE  IInv' /\ \A l \in Key : ValueOf(l)' = IF l = k THEN w ELSE ValueOf(l)
<1>1. Idle /\ w \in Value
  BY CountAssumption DEF Change
<1>2. /\ TypeOK' /\ InChain' /\ Apart(1)' /\ UsedSlots' = UsedSlots /\ calls' = << >>
      /\ \A j \in UsedSlots : data'[j].value = IF j = SlotOf(k) THEN w ELSE data[j].value
      /\ \A l \in Key : ValueOf(l)' = IF l = k THEN w ELSE ValueOf(l)
  BY <1>1, Weaker, ChangeSets DEF IInv
<1>3. SizeExact'
  BY <1>2 DEF IInv, SizeExact, Change
<1>4. Valued(1 .. MaxCount)'
  <2>1. \A c, j \in Nat : Spot(1, c, j)' => c = 0 /\ j \in UsedSlots /\ EntryAt(c, j)' = data'[j]
    BY <1>2 DEF Spot, EntryAt
  <2>2. \A j \in UsedSlots : data[j].value \in 1 .. MaxCount
    <3>1. \A j \in UsedSlots : j \in Nat /\ 0 \in Nat /\ Spot(1, 0, j) /\ EntryAt(0, j) = data[j]
      BY <1>1, SlotsFinite, IdleSpots DEF IInv
    <3>2. QED
      BY <3>1 DEF IInv, Valued
  <2>3. QED
    BY <2>1, <2>2, <1>2 DEF Valued
<1>5. QED
  BY <1>2, <1>3, <1>4 DEF IInv

(* runtime_claim of a known address.                                       *)
LEMMA ClaimKnownCounts ==
  ASSUME IInv, NEW k \in Key, ClaimKnown(k)
  PROVE  IInv' /\ \A l \in Key : ValueOf(l)' = IF l = k THEN ValueOf(k) + 1 ELSE ValueOf(l)
<1>1. /\ Idle /\ Known(k) /\ Change(k, data[SlotOf(k)].value + 1)
      /\ data[SlotOf(k)].value < MaxCount
  BY DEF ClaimKnown, Change
<1>2. data[SlotOf(k)].value \in 1 .. MaxCount /\ ValueOf(k) = data[SlotOf(k)].value
  BY <1>1, CountOfKnown
<1>3. PICK w \in 1 .. MaxCount : w = data[SlotOf(k)].value + 1
  BY <1>1, <1>2, CountAssumption
<1>4. Change(k, w)
  BY <1>1, <1>3
<1>5. QED
  BY <1>2, <1>3, <1>4, ChangeCounts

(* runtime_claim of an address the table misses: rcmap_put is called.      *)
LEMMA ClaimMissingCounts ==
  ASSUME IInv, NEW k \in Key, ClaimMissing(k)
  PROVE  IInv' /\ \A l \in Key : ValueOf(l)' = IF l = k THEN ValueOf(k) + 1 ELSE ValueOf(l)
<1>1. Idle /\ ~ Known(k) /\ Put(k, 1) /\ 1 \in Value /\ 1 \in 1 .. MaxCount
  BY CountAssumption DEF ClaimMissing, Put
<1>2. ValueOf(k) = 0 /\ \A i \in UsedSlots : data[i].key # k
  BY <1>1, CountOfMissing
<1>3. /\ TypeOK' /\ InChain' /\ UsedSlots' = UsedSlots /\ data' = data
      /\ \A m, c, j : Spot(m, c, j)' <=> \/ c = 0 /\ j \in UsedSlots
                                         \/ c = 1 /\ j = 0 /\ 1 >= m
      /\ \A j : EntryAt(0, j)' = data[j]
      /\ EntryAt(1, 0)' = [key |-> k, value |-> 1]
  BY <1>1, PutSpots DEF IInv
<1>4. \A j \in UsedSlots : j \in Nat /\ Spot(1, 0, j) /\ EntryAt(0, j) = data[j]
  BY <1>1, IdleSpots, SlotsFinite DEF IInv
<1>5. Apart(1)'
  <2>1. \A i, j \in UsedSlots : data[i].key = data[j].key => i = j
    BY <1>4 DEF IInv, Apart
  <2>2. \A c, j \in Nat : Spot(1, c, j)' <=> \/ c = 0 /\ j \in UsedSlots
                                             \/ c = 1 /\ j = 0
    BY <1>3
  <2>3. QED
    BY <1>2, <1>3, <2>1, <2>2 DEF Apart
<1>6. Valued(1 .. MaxCount)'
  BY <1>1, <1>3, <1>4 DEF IInv, Valued
<1>7. SizeExact'
  BY <1>1, <1>3 DEF IInv, SizeExact, Put
<1>8. \A l \in Key : ValueOf(l)' = IF l = k THEN 1 ELSE ValueOf(l)
  BY <1>1, Weaker, PutSetsValue DEF IInv
<1>9. QED
  BY <1>2, <1>3, <1>5, <1>6, <1>7, <1>8 DEF IInv

(* runtime_release: one claim less, and no entry without a claim.          *)
LEMMA ReleaseCounts ==
  ASSUME IInv, NEW k \in Key, Release(k)
  PROVE  /\ IInv' /\ ValueOf(k) \in Nat \ {0}
         /\ \A l \in Key : ValueOf(l)' = IF l = k THEN ValueOf(k) - 1 ELSE ValueOf(l)
<1>1. Idle /\ Known(k)
  BY DEF Release, Change, Remove
<1>2. /\ data[SlotOf(k)].value \in 1 .. MaxCount /\ ValueOf(k) = data[SlotOf(k)].value
      /\ size \in Nat \ {0}
  BY <1>1, CountOfKnown
<1>3. CASE data[SlotOf(k)].value # 1
  <2>1. PICK w \in 1 .. MaxCount : w = data[SlotOf(k)].value - 1
    BY <1>2, <1>3, CountAssumption
  <2>2. Change(k, w)
    BY <1>3, <2>1 DEF Release
  <2>3. QED
    BY <1>2, <2>1, <2>2, ChangeCounts
<1>4. CASE data[SlotOf(k)].value = 1
  <2>1. Remove(k)
    BY <1>4 DEF Release
  <2>2. /\ TypeOK' /\ InChain' /\ Apart(1)' /\ calls' = << >>
        /\ SlotOf(k) \in UsedSlots /\ UsedSlots' = UsedSlots \ {SlotOf(k)}
        /\ \A j \in UsedSlots' : data'[j] = data[j]
        /\ \A l \in Key : ValueOf(l)' = IF l = k THEN Zero ELSE ValueOf(l)
    BY <1>2, <2>1, Weaker, RemoveEmpties DEF IInv
  <2>3. SizeExact'
    <3>1. size' = size - 1
      BY <2>1 DEF Remove
    <3>2. Cardinality(UsedSlots \ {SlotOf(k)}) = Cardinality(UsedSlots) - 1
      BY <2>2, SlotsFinite, FS_RemoveElement DEF IInv
    <3>3. QED
      BY <2>2, <3>1, <3>2 DEF IInv, SizeExact
  <2>4. Valued(1 .. MaxCount)'
    <3>1. \A c, j \in Nat : Spot(1, c, j)' => c = 0 /\ j \in UsedSlots' /\ EntryAt(c, j)' = data'[j]
      BY <2>2 DEF Spot, EntryAt
    <3>2. \A j \in UsedSlots : j \in Nat /\ 0 \in Nat /\ Spot(1, 0, j) /\ EntryAt(0, j) = data[j]
      BY <1>1, SlotsFinite, IdleSpots DEF IInv
    <3>3. QED
      BY <2>2, <3>1, <3>2 DEF IInv, Valued
  <2>5. QED
    BY <1>2, <1>4, <2>2, <2>3, <2>4, CountAssumption DEF IInv
<1>5. QED
  BY <1>3, <1>4

-----------------------------------------------------------------------------
(* Every step keeps the inductive invariant.                               *)
LEMMA NextKeeps == IInv /\ [Next]_vars => IInv'
<1> SUFFICES ASSUME IInv, [Next]_vars
             PROVE  IInv'
  OBVIOUS
<1>1. CASE UNCHANGED vars
  <2>1. /\ UsedSlots' = UsedSlots /\ data' = data /\ calls' = calls /\ size' = size
        /\ tableSize' = tableSize
    BY <1>1 DEF vars, UsedSlots
  <2>2. \A c, j : (Spot(1, c, j)' <=> Spot(1, c, j)) /\ EntryAt(c, j)' = EntryAt(c, j)
    BY <2>1 DEF Spot, EntryAt
  <2>3. QED
    BY <2>1, <2>2 DEF IInv, TypeOK, InChain, Probe, Apart, SizeExact, Valued
<1>2. CASE Next
  BY <1>2, RunningKeeps, ClaimKnownCounts, ClaimMissingCounts, ReleaseCounts DEF Next
<1>3. QED
  BY <1>1, <1>2

LEMMA Inductive == Spec => []IInv
  BY InitIInv, NextKeeps, PTL DEF Spec

(* The table has a slot for every index below its size, holds only keys    *)
(* and counts, and a claim or release never drives its size below zero.    *)
THEOREM TypeCorrect == Spec => []TypeOK
<1>1. IInv => TypeOK
  BY DEF IInv
<1>2. QED
  BY <1>1, Inductive, PTL

(* rcmap_getPtr finds whatever rcmap_put stored, through removals and      *)
(* rehashes that interrupt each other.                                     *)
THEOREM AlwaysInChain == Spec => []InChain
<1>1. IInv => InChain
  BY DEF IInv
<1>2. QED
  BY <1>1, Inductive, PTL

(* No address is counted in two places.                                    *)
THEOREM NeverTwice == Spec => []Distinct
<1>1. ASSUME IInv
      PROVE  Distinct
  <2>1. UsedSlots \in SUBSET Nat /\ DOMAIN calls \in SUBSET (Nat \ {0})
        /\ \A c \in DOMAIN calls : Left(calls[c]) \in SUBSET (Nat \ {0})
    BY <1>1, SlotsFinite, CallFields DEF IInv, TypeOK
  <2>2. \A i \in UsedSlots : Spot(1, 0, i) /\ EntryAt(0, i) = data[i]
    BY DEF Spot, EntryAt
  <2>3. \A c \in DOMAIN calls : Spot(1, c, 0) /\ EntryAt(c, 0).key = calls[c].key
    BY <2>1 DEF Spot, EntryAt
  <2>4. \A c \in DOMAIN calls : \A i \in Left(calls[c]) :
          Spot(1, c, i) /\ EntryAt(c, i) = calls[c].old[i]
    BY <2>1 DEF Spot, EntryAt
  <2>5. OneSlot
    BY <1>1, <2>1, <2>2 DEF IInv, Apart, OneSlot
  <2>6. ASSUME NEW c \in DOMAIN calls
        PROVE  \A i \in UsedSlots : calls[c].key # data[i].key
    BY <1>1, <2>1, <2>2, <2>3 DEF IInv, Apart
  <2>7. ASSUME NEW c \in DOMAIN calls, NEW j \in Left(calls[c])
        PROVE  /\ \A i \in UsedSlots : calls[c].old[j].key # data[i].key
               /\ \A i \in Left(calls[c]) : calls[c].old[i].key = calls[c].old[j].key => i = j
               /\ \A b \in DOMAIN calls : calls[b].key # calls[c].old[j].key
    BY <1>1, <2>1, <2>2, <2>3, <2>4 DEF IInv, Apart
  <2>8. ASSUME NEW c \in DOMAIN calls, NEW b \in DOMAIN calls, b # c
        PROVE  /\ calls[b].key # calls[c].key
               /\ \A i \in Left(calls[b]), j \in Left(calls[c]) :
                    calls[b].old[i].key # calls[c].old[j].key
    BY <1>1, <2>1, <2>3, <2>4, <2>8 DEF IInv, Apart
  <2>9. QED
    BY <2>5, <2>6, <2>7, <2>8 DEF Distinct
<1>2. QED
  BY <1>1, Inductive, PTL

(* The size by which the table decides to grow is its number of used       *)
(* slots.                                                                  *)
THEOREM SizeAlwaysExact == Spec => []SizeExact
<1>1. IInv => SizeExact
  BY DEF IInv
<1>2. QED
  BY <1>1, Inductive, PTL

-----------------------------------------------------------------------------
(* The steps of a put change no count.                                     *)
LEMMA RunningCounts ==
  ASSUME IInv, Running
  PROVE  \A k : ValueOf(k)' = ValueOf(k)
<1>1. IInv' /\ Apart(2) /\ Apart(2)' /\ Valued(Value)
  BY RunningKeeps, Weaker, WeakerNext
<1>2. CASE Reinsert \/ Grow \/ (Store /\ Len(calls) # 1)
  BY <1>1, <1>2, RunningKeepsValues DEF IInv
<1>3. CASE Store /\ Len(calls) = 1
  BY <1>1, <1>3, StoreKeepsValues DEF IInv
<1>4. QED
  BY <1>2, <1>3 DEF Running

(* The table implements the plain counter: claims and releases are its     *)
(* steps, and a put that grows the table, however often, is none.          *)
THEOREM CounterImplemented == Spec => CounterRefined
<1> DEFINE count == [k \in Key |-> ValueOf(k)]
<1>1. Init => Counter!Init
  <2> SUFFICES ASSUME Init PROVE Counter!Init
    OBVIOUS
  <2>1. Idle /\ IInv /\ UsedSlots = {}
    BY InitIInv DEF Init, Idle, UsedSlots, Unused
  <2>2. \A k : ValueOf(k) = 0
    BY <2>1, Weaker, IdleValue, CountAssumption DEF IInv
  <2>3. QED
    BY <2>2 DEF Counter!Init
<1>2. IInv /\ [Next]_vars => [Counter!Next]_count
  <2> SUFFICES ASSUME IInv, [Next]_vars
               PROVE  [Counter!Next]_count
    OBVIOUS
  <2>1. CASE UNCHANGED vars
    <3>1. \A k : ValueOf(k)' = ValueOf(k)
      BY <2>1 DEF vars, ValueOf, Entries, UsedSlots
    <3>2. QED
      BY <3>1
  <2>2. CASE Running
    BY <2>2, RunningCounts
  <2>3. ASSUME NEW k \in Key, ClaimKnown(k) \/ ClaimMissing(k)
        PROVE  Counter!Claim(k)
    <3>1. \A l \in Key : ValueOf(l)' = IF l = k THEN ValueOf(k) + 1 ELSE ValueOf(l)
      BY <2>3, ClaimKnownCounts, ClaimMissingCounts
    <3>2. QED
      BY <3>1 DEF Counter!Claim, Counter!Claimed
  <2>4. ASSUME NEW k \in Key, Release(k)
        PROVE  Counter!Release(k)
    <3>1. /\ ValueOf(k) \in Nat \ {0}
          /\ \A l \in Key : ValueOf(l)' = IF l = k THEN ValueOf(k) - 1 ELSE ValueOf(l)
      BY <2>4, ReleaseCounts
    <3>2. QED
      BY <3>1 DEF Counter!Release, Counter!Released
  <2>5. QED
    BY <2>1, <2>2, <2>3, <2>4 DEF Next, Counter!Next
<1>3. QED
  BY <1>1, <1>2, Inductive, PTL DEF Spec, CounterRefined, Counter!Spec

-----------------------------------------------------------------------------
(* The members.  object_put may be given a key that is there already, and  *)
(* takes the first slot with that key or none: that it is the key's own    *)
(* needs that no chain has a hole in front of a pair, which holds because  *)
(* nothing is ever removed.                                                *)
(* Every pair is where the first probe for its key or a hole ends.         *)
NoHoles ==
  \A i \in UsedSlots : \E j \in Chain :
    /\ i = Probe(data[i].key, j)
    /\ \A l \in 0 .. j - 1 : data[Probe(data[i].key, l)].key \notin {data[i].key, None}

(* object->size errs upwards only.                                         *)
Enough == Cardinality(UsedSlots) <= size

MemberIInv == TypeOK /\ Apart(2) /\ Valued(Value) /\ NoHoles /\ Enough /\ HalfUnused

LEMMA InitMembers == Init => MemberIInv
<1> SUFFICES ASSUME Init PROVE MemberIInv
  OBVIOUS
<1>1. TypeOK
  BY SizeAssumption DEF Init, TypeOK, Unused, Entry
<1>2. UsedSlots = {} /\ DOMAIN calls = {}
  BY DEF Init, UsedSlots, Unused
<1>3. \A m, c, j : ~ Spot(m, c, j)
  BY <1>2 DEF Spot
<1>4. Enough /\ HalfUnused
  BY <1>1, <1>2, FS_EmptySet DEF Enough, HalfUnused, Init, TypeOK
<1>5. QED
  BY <1>1, <1>2, <1>3, <1>4 DEF MemberIInv, NoHoles, Apart, Valued

(* The slot a put takes is the only one with its key.                      *)
LEMMA OwnSlot ==
  ASSUME MemberIInv, NEW k \in Key, ~ Full(k), NEW i \in UsedSlots, data[i].key = k
  PROVE  i = FreeSlot(k)
<1> DEFINE S == {k, None}
<1>1. PICK j \in Chain : /\ i = Probe(k, j)
                         /\ \A l \in 0 .. j - 1 : data[Probe(k, l)].key \notin S
  BY DEF MemberIInv, NoHoles
<1>2. data[Probe(k, j)].key \in S
  BY <1>1
<1> HIDE DEF S
<1>3. /\ FirstProbe(k, S) \in Chain
      /\ data[Probe(k, FirstProbe(k, S))].key \in S
      /\ \A l \in 0 .. FirstProbe(k, S) - 1 : data[Probe(k, l)].key \notin S
  BY <1>2, FirstProbeMeets
<1>4. j \in Nat /\ FirstProbe(k, S) \in Nat
  BY <1>3, SizeAssumption DEF Chain
<1>5. j = FirstProbe(k, S)
  BY <1>1, <1>2, <1>3, <1>4
<1>6. QED
  BY <1>1, <1>5 DEF FreeSlot, S

(* A step of object_put or of a rehash.                                    *)
LEMMA RunningKeepsMembers ==
  ASSUME MemberIInv, Running
  PROVE  MemberIInv'
<1> USE DEF MemberIInv
<1>1. TypeOK' /\ Valued(Value)'
  BY RunningTypes, RunningValued
<1>2. CASE Reinsert
  <2>1. Apart(2)'
    BY <1>2, ReinsertApart
  <2>2. NoHoles' /\ Enough' /\ HalfUnused'
    BY <1>2 DEF Reinsert, NoHoles, Enough, HalfUnused, UsedSlots, Probe
  <2>3. QED
    BY <1>1, <2>1, <2>2
<1>3. CASE Grow
  <2>1. Apart(2)'
    BY <1>3, GrowApart
  <2>2. UsedSlots' = {} /\ size' = 0 /\ tableSize' = 2 * tableSize
    BY <1>3, GrowMoves DEF Grow, Rehash
  <2>3. NoHoles' /\ Enough' /\ HalfUnused'
    BY <2>2, FS_EmptySet DEF NoHoles, Enough, HalfUnused, TypeOK
  <2>4. QED
    BY <1>1, <2>1, <2>3
<1>4. CASE Store
  <2> DEFINE k == Top.key
             slot == FreeSlot(k)
  <2>1. ~ Full(k) /\ k \in Key /\ k # None
    BY <1>4, TopCall, CallFields, NoneAssumption DEF Store, StoreAt
  <2>2. \A j \in UsedSlots : data[j].key = k => j = slot
    BY <2>1, OwnSlot
  <2>3. Apart(2)'
    BY <1>4, <2>2, StoreApart
  <2>4. /\ UsedSlots' = UsedSlots \cup {slot} /\ slot \in 0 .. tableSize - 1
        /\ data[slot].key \in {k, None}
    BY <1>4, StoreSpots
  <2>5. /\ data' = [data EXCEPT ![slot] = [key |-> k, value |-> Top.value]]
        /\ size' = size + 1 /\ tableSize' = tableSize
    BY <1>4 DEF Store, StoreAt
  <2>6. PICK i \in Chain : /\ slot = Probe(k, i)
                           /\ \A j \in 0 .. i - 1 : data[Probe(k, j)].key \notin {k, None}
    BY <2>1, FreeSlotFits
  <2> HIDE DEF k, slot
  <2>7. \A j \in 0 .. tableSize - 1 : data'[j].key = IF j = slot THEN k ELSE data[j].key
    BY <2>4, <2>5 DEF TypeOK
  <2>8. NoHoles'
    <3>1. \A h, l : Probe(h, l)' = Probe(h, l)
      BY <2>5 DEF Probe
    <3>2. \A h \in Key, l \in Chain : Probe(h, l) \in 0 .. tableSize - 1
      BY ProbeIsSlot
    <3>3. \A j \in Chain : \A l \in 0 .. j - 1 : l \in Chain
      BY SizeAssumption DEF Chain
    <3>4. \A j \in UsedSlots : j \in 0 .. tableSize - 1 /\ data[j].key \in Key
      BY DEF UsedSlots, TypeOK, Entry
    <3>5. ASSUME NEW j \in UsedSlots, j # slot
          PROVE  \E l \in Chain :
                   /\ j = Probe(data'[j].key, l)
                   /\ \A p \in 0 .. l - 1 : data'[Probe(data'[j].key, p)].key \notin {data'[j].key, None}
      <4>1. data'[j].key = data[j].key /\ data[j].key # k
        BY <3>4, <3>5, <2>2, <2>7
      <4>2. PICK l \in Chain :
              /\ j = Probe(data[j].key, l)
              /\ \A p \in 0 .. l - 1 : data[Probe(data[j].key, p)].key \notin {data[j].key, None}
        BY DEF NoHoles
      <4>3. \A p \in 0 .. l - 1 : data'[Probe(data[j].key, p)].key \notin {data[j].key, None}
        BY <4>1, <4>2, <3>2, <3>3, <3>4, <2>1, <2>7
      <4>4. QED
        BY <4>1, <4>2, <4>3
    <3>6. /\ slot = Probe(data'[slot].key, i)
          /\ \A p \in 0 .. i - 1 : data'[Probe(data'[slot].key, p)].key \notin {data'[slot].key, None}
      <4>1. data'[slot].key = k
        BY <2>4, <2>7
      <4>2. \A p \in 0 .. i - 1 : Probe(k, p) # slot /\ Probe(k, p) \in 0 .. tableSize - 1
        BY <2>1, <2>4, <2>6, <3>2, <3>3
      <4>3. \A p \in 0 .. i - 1 : data'[Probe(k, p)].key \notin {k, None}
        BY <4>2, <2>6, <2>7
      <4>4. QED
        BY <4>1, <4>3, <2>6
    <3>7. Chain' = Chain
      BY DEF Chain
    <3>8. \A j \in UsedSlots' : \E l \in Chain :
            /\ j = Probe(data'[j].key, l)
            /\ \A p \in 0 .. l - 1 : data'[Probe(data'[j].key, p)].key \notin {data'[j].key, None}
      BY <2>4, <3>5, <3>6
    <3>9. QED
      BY <3>1, <3>7, <3>8 DEF NoHoles
  <2>9. Enough' /\ HalfUnused'
    <3>1. /\ Cardinality(UsedSlots \cup {slot}) <= Cardinality(UsedSlots) + 1
          /\ Cardinality(UsedSlots \cup {slot}) \in Nat
      <4>1. IsFiniteSet(UsedSlots) /\ Cardinality(UsedSlots) \in Nat
        BY SlotsFinite
      <4>2. Cardinality(UsedSlots \cup {slot})
              = IF slot \in UsedSlots THEN Cardinality(UsedSlots)
                                      ELSE Cardinality(UsedSlots) + 1
        BY <4>1, FS_AddElement
      <4>3. QED
        BY <4>1, <4>2
    <3>2. size < tableSize \div 2
      BY <2>1 DEF Full, TypeOK
    <3>3. size \in Nat /\ tableSize \in Nat /\ Cardinality(UsedSlots) \in Nat
      BY SlotsFinite DEF TypeOK
    <3>4. 2 * (size + 1) <= tableSize
      BY <3>2, <3>3
    <3>5. QED
      BY <2>4, <2>5, <3>1, <3>3, <3>4 DEF Enough, HalfUnused
  <2>10. QED
    BY <1>1, <2>3, <2>8, <2>9
<1>5. QED
  BY <1>2, <1>3, <1>4 DEF Running

(* A call of object_put.                                                   *)
LEMMA PutKeeps ==
  ASSUME MemberIInv, NEW k \in Key, NEW v \in Value, PutMember(k, v)
  PROVE  MemberIInv' /\ \A l \in Key : ValueOf(l)' = IF l = k THEN v ELSE ValueOf(l)
<1> USE DEF MemberIInv
<1>1. Put(k, v) /\ Idle /\ tableSize' = tableSize /\ size' = size
  BY DEF PutMember, Put
<1>2. Apart(2)' /\ \A l \in Key : ValueOf(l)' = IF l = k THEN v ELSE ValueOf(l)
  BY <1>1, PutSetsValue
<1>3. /\ TypeOK' /\ UsedSlots' = UsedSlots /\ data' = data
      /\ \A m, c, j : Spot(m, c, j)' <=> \/ c = 0 /\ j \in UsedSlots
                                         \/ c = 1 /\ j = 0 /\ 1 >= m
      /\ \A j : EntryAt(0, j)' = data[j]
      /\ EntryAt(1, 0)' = [key |-> k, value |-> v]
  BY <1>1, PutSpots
<1>4. \A j \in UsedSlots : j \in Nat /\ Spot(1, 0, j) /\ EntryAt(0, j) = data[j]
  BY <1>1, IdleSpots, SlotsFinite
<1>5. Valued(Value)'
  BY <1>3, <1>4 DEF Valued
<1>6. NoHoles' /\ Enough' /\ HalfUnused'
  BY <1>1, <1>3 DEF NoHoles, Enough, HalfUnused, Probe
<1>7. QED
  BY <1>2, <1>3, <1>5, <1>6

(* Every step keeps the inductive invariant.                               *)
LEMMA MemberNextKeeps == MemberIInv /\ [MemberNext]_vars => MemberIInv'
<1> SUFFICES ASSUME MemberIInv, [MemberNext]_vars
             PROVE  MemberIInv'
  OBVIOUS
<1>1. CASE UNCHANGED vars
  <2>1. /\ UsedSlots' = UsedSlots /\ data' = data /\ calls' = calls /\ size' = size
        /\ tableSize' = tableSize
    BY <1>1 DEF vars, UsedSlots
  <2>2. \A m, c, j : (Spot(m, c, j)' <=> Spot(m, c, j)) /\ EntryAt(c, j)' = EntryAt(c, j)
    BY <2>1 DEF Spot, EntryAt
  <2>3. QED
    BY <2>1, <2>2 DEF MemberIInv, TypeOK, NoHoles, Enough, HalfUnused, Probe, Apart, Valued
<1>2. CASE MemberNext
  BY <1>2, RunningKeepsMembers, PutKeeps DEF MemberNext, Putting
<1>3. QED
  BY <1>1, <1>2

LEMMA MembersInductive == MemberSpec => []MemberIInv
  BY InitMembers, MemberNextKeeps, PTL DEF MemberSpec

(* The table is at most half used, however often a key is put again.       *)
THEOREM HalfAlwaysUnused == MemberSpec => []HalfUnused
<1>1. MemberIInv => HalfUnused
  BY DEF MemberIInv
<1>2. QED
  BY <1>1, MembersInductive, PTL

LEMMA ApartNext == MemberIInv' => Apart(2)'
<1>1. MemberIInv => Apart(2)
  BY DEF MemberIInv
<1>2. QED
  BY <1>1, PTL

(* The table implements the record of members: the call of object_put is   *)
(* its step, and no search, rehash or store of it changes another member.  *)
THEOREM MembersImplemented == MemberSpec => MembersKept
<1> DEFINE members == [k \in Key |-> ValueOf(k)]
<1>1. Init => Object!Init
  <2> SUFFICES ASSUME Init PROVE Object!Init
    OBVIOUS
  <2>1. Idle /\ MemberIInv /\ UsedSlots = {}
    BY InitMembers DEF Init, Idle, UsedSlots, Unused
  <2>2. \A k : ValueOf(k) = Zero
    BY <2>1, IdleValue DEF MemberIInv
  <2>3. QED
    BY <2>2 DEF Object!Init
<1>2. MemberIInv /\ [MemberNext]_vars => [Object!Next]_members
  <2> SUFFICES ASSUME MemberIInv, [MemberNext]_vars
               PROVE  [Object!Next]_members
    OBVIOUS
  <2>1. CASE UNCHANGED vars
    <3>1. \A k : ValueOf(k)' = ValueOf(k)
      BY <2>1 DEF vars, ValueOf, Entries, UsedSlots
    <3>2. QED
      BY <3>1
  <2>2. CASE Running
    <3>1. TypeOK' /\ Apart(2)'
      BY <2>2, RunningKeepsMembers, ApartNext DEF MemberIInv
    <3>2. CASE Reinsert \/ Grow \/ (Store /\ Len(calls) # 1)
      BY <3>1, <3>2, RunningKeepsValues DEF MemberIInv
    <3>3. CASE Store /\ Len(calls) = 1
      BY <3>1, <3>3, StoreKeepsValues DEF MemberIInv
    <3>4. QED
      BY <2>2, <3>2, <3>3 DEF Running
  <2>3. ASSUME NEW k \in Key, NEW v \in Value, PutMember(k, v)
        PROVE  Object!Put(k, v)
    BY <2>3, PutKeeps DEF Object!Put
  <2>4. QED
    BY <2>1, <2>2, <2>3 DEF MemberNext, Putting, Object!Next
<1>3. QED
  BY <1>1, <1>2, MembersInductive, PTL DEF MemberSpec, MembersKept, Object!Spec
=============================================================================
