----------------------------- MODULE ObjectMap -----------------------------
(***************************************************************************)
(* The members of one object (object.c).  Unlike the reference counter, a  *)
(* program puts a key that is already there: object_put stores over it,    *)
(* counts it again in object->size, and grows the table when that count    *)
(* reaches half of it.  No code in the VM calls object_remove.             *)
(***************************************************************************)
EXTENDS ChainTable

CONSTANT MaxSize        \* bound on the table, which no call shrinks

(* object_hash, object_rehash and the loop of object_put are those of rc.c *)
(* line for line.                                                          *)
Putting == Running

(* object_put.                                                             *)
PutMember(k, v) == tableSize < MaxSize /\ Put(k, v)

MemberNext == Putting \/ \E k \in Key, v \in Value : PutMember(k, v)

MemberSpec == Init /\ [][MemberNext]_vars /\ WF_vars(Putting)

-----------------------------------------------------------------------------
(* The table is at most half used, through overwriting and nested          *)
(* rehashes: object->size errs upwards only.                               *)
HalfUnused == 2 * Cardinality(UsedSlots) <= tableSize

(* A member has the value last put under its key, through overwriting and  *)
(* the rehashes it causes.                                                 *)
Object ==
  INSTANCE Members
    WITH members <- [k \in Key |-> ValueOf(k)], Absent <- Zero

MembersKept == Object!Spec
=============================================================================
