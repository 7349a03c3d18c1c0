------------------------------ MODULE Members ------------------------------
(***************************************************************************)
(* What an object of the VM promises: each key has the value last put      *)
(* under it, or none.  The table of object.c implements this module        *)
(* (ObjectMap).                                                            *)
(***************************************************************************)
CONSTANTS
  Key,
  Value,
  Absent       \* for a key without a value

VARIABLE members

Init == members = [k \in Key |-> Absent]

Put(k, v) == members' = [members EXCEPT ![k] = v]

Next == \E k \in Key, v \in Value : Put(k, v)

Spec == Init /\ [][Next]_members
=============================================================================
