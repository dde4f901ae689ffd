---------------------------- MODULE MCObjectHeap ----------------------------
(* An instance of ObjectHeap for TLC. *)
EXTENDS ObjectHeap

Tables(blockSize, header) ==
  [instructions |-> {"load", "move", "object", "set", "get"}, growAt |-> 1, shrinkBelow |-> 2,
   blockSize |-> blockSize, header |-> header, objects |-> 9, frames |-> 1]
OnlyTables == {Tables(9, 1)}
OnlyEdge == {Tables(10, 2)}
=============================================================================
