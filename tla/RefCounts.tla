----------------------------- MODULE RefCounts -----------------------------
(***************************************************************************)
(* What the VM's reference counter promises: every address has a count,    *)
(* zero when the counter does not know it, raised by runtime_claim and     *)
(* lowered by runtime_release.  The open-addressing table of rc.c          *)
(* implements this module (RcMap); the interpreter's memory uses its two   *)
(* operators as they stand (SlotMemory).                                   *)
(***************************************************************************)
EXTENDS Naturals

CONSTANT Key       \* the addresses malloc may return

VARIABLE count     \* claims held on each address

(* runtime_claim: a known address is counted once more, a new one starts   *)
(* at one.                                                                 *)
Claimed(c, k) == [c EXCEPT ![k] = @ + 1]

(* runtime_release: an unknown address is ignored.                         *)
Released(c, k) == IF c[k] = 0 THEN c ELSE [c EXCEPT ![k] = @ - 1]

(* runtime_release frees the address whose last claim it drops.            *)
LastClaim(c, k) == c[k] = 1

Init == count = [k \in Key |-> 0]

Claim(k) == count' = Claimed(count, k)

Release(k) == count' = Released(count, k)

Next == \E k \in Key : Claim(k) \/ Release(k)

Spec == Init /\ [][Next]_count
=============================================================================
