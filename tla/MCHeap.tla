------------------------------- MODULE MCHeap -------------------------------
(* Heap with four nodes and a stack of three.                              *)
EXTENDS Heap, TLC
=============================================================================
