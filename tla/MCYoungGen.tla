------------------------------ MODULE MCYoungGen ------------------------------
(* Instances of YoungGen for TLC.  Tables of 1, 2, 4, 8 and 16 slots take  *)
(* 7, 9, 13, 21 and 37 words: with 5 for userdata, every offset modulo 8.  *)
EXTENDS YoungGen, TLC

Names == Permutations(Id)
===============================================================================
