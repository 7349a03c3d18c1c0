-------------------------------- MODULE Heap --------------------------------
(***************************************************************************)
(* The heap of objects (heap.c): a doubly linked list that createObject    *)
(* adds to, and what main does with it when the interpreter returns: mark  *)
(* from static data and stack (datatable.c), sweep (heap.c), and destroy   *)
(* what is left (runtime.c).  The halt that ends every file the compiler   *)
(* writes (emitter.cpp) ends the process instead, with all the objects.    *)
(*                                                                         *)
(* Static data holds objects only below the 128 places of the builtins,    *)
(* where there are none, so that the stack is the only root.               *)
(***************************************************************************)
EXTENDS Naturals, Sequences, FiniteSets

CONSTANTS
  Node,       \* the nodes malloc may return
  Nil,        \* the null pointer
  Plain,      \* a value of an even type: unsigned, boolean, function, none
  Depth       \* bound on the stack

ASSUME NodeAssumption == IsFiniteSet(Node) /\ Nil \notin Node /\ Plain \notin Node

VARIABLES
  head,       \* heap->head, the newest node
  size,       \* heap->size
  prev, next, \* the links of each node
  live,       \* the nodes that are allocated
  marked,     \* the nodes with FLAG_MARKED
  stack,      \* the values on the stack
  phase,      \* "run", "halted", "mark", "sweep", "destroy"
  last,       \* the node heap_sweep has come to
  roots       \* the objects on the stack when the interpreter returned: a
              \* history variable

vars == <<head, size, prev, next, live, marked, stack, phase, last, roots>>

links == <<head, size, prev, next, live>>

Init ==
  /\ head = Nil /\ last = Nil /\ size = 0
  /\ prev = [n \in Node |-> Nil] /\ next = [n \in Node |-> Nil]
  /\ live = {} /\ marked = {} /\ roots = {}
  /\ stack = << >>
  /\ phase = "run"

-----------------------------------------------------------------------------
(* A node linked behind what a list links to it.                           *)
Linked(f, n, to) == IF n = Nil THEN f ELSE [f EXCEPT ![n] = to]

NewNode(n, older, counted) ==
  /\ phase = "run" /\ n \notin live
  /\ next' = Linked([next EXCEPT ![n] = Nil], head, n)
  /\ prev' = [prev EXCEPT ![n] = older]
  /\ head' = n
  /\ size' = counted
  /\ live' = live \cup {n}
  /\ marked' = marked \ {n}
  /\ UNCHANGED <<stack, phase, last, roots>>

(* Mistaken form of Alloc: the list is let go.                             *)
AllocUnlinked(n) == NewNode(n, Nil, size + 1)

(* createObject: heap_alloc puts a fresh node in front of the list.        *)
Alloc(n) == NewNode(n, head, size + 1)

(* The program pushes an object it has, or another value, and pops.        *)
Push(v) ==
  /\ phase = "run" /\ Len(stack) < Depth
  /\ stack' = Append(stack, v)
  /\ UNCHANGED <<links, marked, phase, last, roots>>

Pop ==
  /\ phase = "run" /\ stack # << >>
  /\ stack' = SubSeq(stack, 1, Len(stack) - 1)
  /\ UNCHANGED <<links, marked, phase, last, roots>>

OnStack == {stack[i] : i \in DOMAIN stack} \cap Node

(* OP_HALT calls exit: nothing is collected or destroyed.                  *)
Halt ==
  /\ phase = "run"
  /\ phase' = "halted"
  /\ UNCHANGED <<links, marked, stack, last, roots>>

(* The interpreter is past the last byte of a file that ends in no halt, as*)
(* one not written by the compiler may; main calls runtime_gc.             *)
Exit ==
  /\ phase = "run"
  /\ phase' = "mark"
  /\ roots' = OnStack
  /\ UNCHANGED <<links, marked, stack, last>>

-----------------------------------------------------------------------------
(* datatable_markTable empties the stack as it marks.                      *)
Mark ==
  /\ phase = "mark" /\ stack # << >>
  /\ marked' = marked \cup ({stack[Len(stack)]} \cap Node)
  /\ stack' = SubSeq(stack, 1, Len(stack) - 1)
  /\ UNCHANGED <<links, phase, last, roots>>

MarkDone ==
  /\ phase = "mark" /\ stack = << >>
  /\ phase' = "sweep"
  /\ last' = head
  /\ UNCHANGED <<links, marked, stack, roots>>

(* Mistaken form of SweepKeep: the mark stays.                             *)
SweepKeepMarked ==
  /\ phase = "sweep" /\ last \in marked
  /\ last' = prev[last]
  /\ UNCHANGED <<links, marked, stack, phase, roots>>

(* heap_sweep goes from the newest node to the oldest.                     *)
SweepKeep ==
  /\ phase = "sweep" /\ last \in marked
  /\ marked' = marked \ {last}
  /\ last' = prev[last]
  /\ UNCHANGED <<links, stack, phase, roots>>

(* heap_sweep leaves the links and the count it is given and goes on to    *)
(* `then`.                                                                 *)
Delete(forward, counted, then) ==
  /\ phase = "sweep" /\ last # Nil /\ last \notin marked
  /\ next' = Linked(next, prev[last], next[last])
  /\ prev' = forward
  /\ head' = IF next[last] = Nil THEN prev[last] ELSE head
  /\ live' = live \ {last}
  /\ last' = then
  /\ size' = counted
  /\ UNCHANGED <<marked, stack, phase, roots>>

(* Mistaken form of SweepDelete: the newer node keeps its link.            *)
SweepUnlinkingHalf == Delete(prev, size - 1, prev[last])

SweepDelete ==
  Delete(Linked(prev, next[last], prev[last]), size - 1, prev[last])

SweepDone ==
  /\ phase = "sweep" /\ last = Nil
  /\ phase' = "destroy"
  /\ UNCHANGED <<links, marked, stack, last, roots>>

(* heap_destroy frees the list from its head and leaves the links as they  *)
(* are.                                                                    *)
Destroy ==
  /\ phase = "destroy" /\ head # Nil
  /\ head' = prev[head]
  /\ live' = live \ {head}
  /\ size' = size - 1
  /\ UNCHANGED <<prev, next, marked, stack, phase, last, roots>>

Ended == phase = "halted" \/ (phase = "destroy" /\ head = Nil)

Shutdown ==
  Mark \/ MarkDone \/ SweepKeep \/ SweepDelete \/ SweepDone \/ Destroy

Next ==
  \/ \E n \in Node : Alloc(n)
  \/ \E v \in live \cup {Plain} : Push(v)
  \/ Pop \/ Halt \/ Exit
  \/ Shutdown
  \/ Ended /\ UNCHANGED vars

Spec == Init /\ [][Next]_vars

-----------------------------------------------------------------------------
(* The list read in both directions is the same list, and it ends in       *)
(* allocated nodes only: no link leads to a node that was freed.           *)
(* heap_destroy follows `prev` alone and does not keep `next` up.          *)
WellLinked ==
  /\ head \in live \/ (head = Nil /\ live = {})
  /\ \A n \in live : prev[n] \in live \cup {Nil}
  /\ phase # "destroy" =>
       /\ \A n \in live : next[n] \in live \cup {Nil}
       /\ \A n \in live : next[n] = Nil <=> n = head
       /\ \A n, m \in live : prev[n] = m <=> next[m] = n

(* What the list reaches from its head in i steps.                         *)
Older(N) == N \cup ({prev[n] : n \in N} \ {Nil})

Reached[i \in 0 .. Cardinality(Node)] ==
  IF i = 0 THEN {head} \ {Nil} ELSE Older(Reached[i - 1])

(* Every allocated node is on the list, and counted, so that the sweep and *)
(* heap_destroy find it.                                                   *)
AllReached ==
  Reached[Cardinality(Node)] = live /\ size = Cardinality(live)

(* A collection keeps what the stack held, frees the rest, and clears its  *)
(* marks for the next one.                                                 *)
Collected ==
  /\ phase = "sweep" => roots \subseteq live
  /\ phase = "sweep" /\ last = Nil => live = roots /\ marked = {}
=============================================================================
