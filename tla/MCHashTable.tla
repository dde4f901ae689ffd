---------------------------- MODULE MCHashTable ----------------------------
(* Instances of HashTable for TLC: HASH_MIN_CAPACITY scaled down to 4, so   *)
(* that tables of 1, 2, 4 and 8 slots collide, fill up, expand and shrink.  *)
EXTENDS HashTable

(* 0 is the key of a fresh slot; 0, 4 and 8 share the home slot of a table  *)
(* of 4, 0 and 8 that of a table of 8.                                      *)
FourKeys == {0, 1, 4, 8}
FiveKeys == {0, 1, 4, 5, 8}
=============================================================================
