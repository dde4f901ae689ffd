---------------------------- MODULE MCStringPool ----------------------------
(* Instances of StringPool for TLC: six texts over two or more pages.       *)
EXTENDS StringPool

CONSTANTS t1, t2, t3, t4, t5, t6

(* Two texts with the same hash, chains that meet, and a last word that is  *)
(* empty, partly filled and full.                                           *)
SixLengths == (t1 :> 0) @@ (t2 :> 1) @@ (t3 :> 8) @@ (t4 :> 9) @@ (t5 :> 3) @@ (t6 :> 10)
SixHashes == (t1 :> 0) @@ (t2 :> 3) @@ (t3 :> 3) @@ (t4 :> 11) @@ (t5 :> 7) @@ (t6 :> 4)

(* Strings whose last word is full: a fit to the last byte is possible.     *)
FullWords == [x \in Text |-> IF x = t1 THEN 7 ELSE 3]
===============================================================================
