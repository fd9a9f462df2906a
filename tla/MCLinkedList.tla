---------------------------- MODULE MCLinkedList ----------------------------
(* The nodes of LinkedList are interchangeable, and what was called last has no
   influence on what follows: call and out are there for the properties of
   steps, which TLC checks for every step. *)
EXTENDS OldLists, TLC

Symmetry == Permutations(Nodes)

HeapView == <<head, next, data, crashed, program>>
=============================================================================
