------------------------------- MODULE RcMap -------------------------------
(***************************************************************************)
(* The reference-count table of the VM (rc.c) under the claims and         *)
(* releases of runtime.c.                                                  *)
(***************************************************************************)
EXTENDS ChainTable

CONSTANT MaxCount      \* bound on a count (a size_t in the code)

ASSUME CountAssumption ==
  MaxCount \in Nat \ {0} /\ Zero = 0 /\ Value = 0 .. MaxCount

(* runtime_claim of an address the table knows.                            *)
ClaimKnown(k) ==
  /\ Known(k) /\ data[SlotOf(k)].value < MaxCount
  /\ Change(k, data[SlotOf(k)].value + 1)

(* runtime_claim of an address the table misses.                           *)
ClaimMissing(k) == ~ Known(k) /\ Put(k, 1)

(* runtime_release lowers the count and removes the entry that reaches     *)
(* zero; it ignores an address the table misses.                           *)
Release(k) ==
  /\ Known(k)
  /\ IF data[SlotOf(k)].value = 1
       THEN Remove(k)
       ELSE Change(k, data[SlotOf(k)].value - 1)

Next ==
  Running \/ \E k \in Key : ClaimKnown(k) \/ ClaimMissing(k) \/ Release(k)

(* A call of rcmap_put runs to its end before the interpreter goes on.     *)
Spec == Init /\ [][Next]_vars /\ WF_vars(Running)

-----------------------------------------------------------------------------
(* No address is counted twice: neither in two slots of the table nor in   *)
(* the table and in the part of an old table a rehash has still to move.   *)
Distinct ==
  /\ OneSlot
  /\ \A c \in DOMAIN calls :
       /\ \A i \in UsedSlots : calls[c].key # data[i].key
       /\ \A j \in Left(calls[c]) :
            /\ \A i \in UsedSlots : calls[c].old[j].key # data[i].key
            /\ \A i \in Left(calls[c]) :
                 calls[c].old[i].key = calls[c].old[j].key => i = j
            /\ \A b \in DOMAIN calls : calls[b].key # calls[c].old[j].key
       /\ \A b \in DOMAIN calls :
            b # c => /\ calls[b].key # calls[c].key
                     /\ \A i \in Left(calls[b]), j \in Left(calls[c]) :
                          calls[b].old[i].key # calls[c].old[j].key

(* map->size, which decides when the table grows and which rcmap_remove    *)
(* decrements without a check, is the number of used slots.                *)
SizeExact == size = Cardinality(UsedSlots)

(* The table behaves as the plain counter: no claim is lost or invented,   *)
(* neither by the call of rcmap_put that makes it nor by the rehashes.     *)
Counter == INSTANCE RefCounts WITH count <- [k \in Key |-> ValueOf(k)]

CounterRefined == Counter!Spec
=============================================================================
