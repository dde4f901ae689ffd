------------------------------ MODULE HashTable ------------------------------
(***************************************************************************)
(* The open-addressing table of hash.c, one iteration of a loop per step.  *)
(* A slot whose value is Null ends a probe chain, a slot whose value is    *)
(* Undefined is deleted.  The table is driven by one caller at a time:     *)
(* hash_find, hash_set, and the macro hash_set_and_update, which sets and  *)
(* then expands and shrinks the table by rehashing it into a new one.      *)
(* A definition named Bad... is a mistake in the one after it that a        *)
(* property rules out; no specification uses it.                           *)
(***************************************************************************)
EXTENDS Naturals, FiniteSets

CONSTANTS Key,           \* keys are machine words
          Val,           \* the values that are neither Null nor Undefined
          Null, Undefined,
          MinCapacity,   \* HASH_MIN_CAPACITY
          InitCapacity   \* capacities hash_init is called with

ASSUME KeyAssumption == Key \subseteq Nat
ASSUME ValAssumption == Null # Undefined /\ Null \notin Val /\ Undefined \notin Val
ASSUME CapacityAssumption == MinCapacity \in Nat \ {0} /\ InitCapacity \subseteq Nat \ {0}

VARIABLES hash,     \* the table the caller owns: capacity, size and content
          ret,      \* the table hash_expand or hash_shrink is filling
          pc,       \* which loop is running
          key, value, index, slot,  \* the locals of hash_find and hash_set
          ptr,      \* hash_rehash's position in hash
          result    \* what the last hash_find returned

vars == <<hash, ret, pc, key, value, index, slot, ptr, result>>
locals == <<key, value, index, slot>>

Stored == Val \cup {Undefined}
Indices(t) == 0 .. t.capacity - 1
Node == [key : Nat, value : Stored \cup {Null}]
IsTable(t) == t \in [capacity : Nat \ {0}, size : Nat, content : [Indices(t) -> Node]]

(* hash_init: every byte of the content is 0, so key 0 and the null pointer. *)
NewTable(capacity) ==
  [capacity |-> capacity, size |-> 0,
   content  |-> [i \in 0 .. capacity - 1 |-> [key |-> 0, value |-> Null]]]

Larger(m, n) == IF m < n THEN n ELSE m
HashNew(capacity) == NewTable(Larger(capacity, MinCapacity))

(* The masks of the code are remainders, capacities being powers of two.   *)
(* 40389 and 403 are 2166136261 and 16777619 modulo 2^16, which gives the  *)
(* same index for every capacity up to 2^16.                               *)
BadHome(k, t) == k                            \* the mask forgotten
Home(k, t) == k % t.capacity
BadNextIndex(i, t) == (i * 40388 + 403) % t.capacity  \* a multiplier that skips slots
NextIndex(i, t) == (i * 40389 + 403) % t.capacity

NeedExpand(t) == t.size > t.capacity - t.capacity \div 4
NeedShrink(t) == t.capacity > MinCapacity /\ t.size < t.capacity \div 2

Live(t, i) == t.content[i].value \in Val

------------------------------------------------------------------------------
Init ==
  /\ hash \in {NewTable(c) : c \in InitCapacity}
  /\ ret = NewTable(MinCapacity)
  /\ pc = "idle"
  /\ key = 0 /\ value = Undefined /\ index = 0 /\ slot = 0
  /\ ptr = 0
  /\ result = Undefined

(* slot not initialized. *)
BadEnter(loop, t, k, v) ==
  pc' = loop /\ key' = k /\ value' = v /\ index' = Home(k, t) /\ slot' = 0

(* The entry of hash_find and hash_set on table t. *)
Enter(loop, t, k, v) ==
  /\ pc' = loop
  /\ key' = k
  /\ value' = v
  /\ index' = Home(k, t)
  /\ slot' = t.capacity

(* The locals die with the call. *)
Leave(next) == pc' = next /\ key' = 0 /\ value' = Undefined /\ index' = 0 /\ slot' = 0

Find(k) ==
  /\ pc = "idle"
  /\ Enter("find", hash, k, Undefined)
  /\ UNCHANGED <<hash, ret, ptr, result>>

(* hash_set when loop is "set", hash_set_and_update when it is "update". *)
Set(loop, k, v) ==
  /\ pc = "idle"
  /\ Enter(loop, hash, k, IF v = Null THEN Undefined ELSE v)
  /\ UNCHANGED <<hash, ret, ptr, result>>

(* The table the running call was given. *)
T == IF pc = "insert" THEN ret ELSE hash

Probing == pc \in {"find", "set", "update", "insert"}
Setting == pc \in {"set", "update", "insert"}

(* The condition of the loop of hash_find and hash_set. *)
Mismatch == T.content[index].key # key /\ T.content[index].value # Null

Probe ==
  /\ Probing /\ Mismatch
  /\ slot' = IF Setting /\ slot = T.capacity /\ T.content[index].value = Undefined
             THEN index ELSE slot
  /\ index' = NextIndex(index, T)
  /\ UNCHANGED <<hash, ret, pc, key, value, ptr, result>>

FindDone ==
  /\ pc = "find" /\ ~Mismatch
  /\ result' = IF hash.content[index].value = Null THEN Undefined ELSE hash.content[index].value
  /\ Leave("idle")
  /\ UNCHANGED <<hash, ret, ptr>>

(* A deleted slot preferred to the key's own. *)
BadTarget == IF slot = T.capacity THEN index ELSE slot

(* The slot hash_set writes: the key's own, else the first deleted one. *)
Target == IF T.content[index].key = key \/ slot = T.capacity THEN index ELSE slot

(* A deleted slot that is used again not counted; a deleted slot emptied. *)
BadCount(t, i, k, v) ==
  [capacity |-> t.capacity,
   size     |-> IF v # Undefined /\ t.content[i].value = Null THEN t.size + 1
                ELSE IF v = Undefined /\ Live(t, i) THEN t.size - 1
                ELSE t.size,
   content  |-> [t.content EXCEPT ![i] = [key |-> k, value |-> v]]]
BadDelete(t, i, k, v) ==
  [capacity |-> t.capacity,
   size     |-> IF v # Undefined /\ ~Live(t, i) THEN t.size + 1
                ELSE IF v = Undefined /\ Live(t, i) THEN t.size - 1
                ELSE t.size,
   content  |-> [t.content EXCEPT ![i] = [key |-> k, value |-> IF v = Undefined THEN Null ELSE v]]]

Write(t, i, k, v) ==
  [capacity |-> t.capacity,
   size     |-> IF v # Undefined /\ ~Live(t, i) THEN t.size + 1
                ELSE IF v = Undefined /\ Live(t, i) THEN t.size - 1
                ELSE t.size,
   content  |-> [t.content EXCEPT ![i] = [key |-> k, value |-> v]]]
Written == Write(T, Target, key, value)

SetDone ==
  /\ pc \in {"set", "update"} /\ ~Mismatch
  /\ hash' = Written
  /\ Leave(IF pc = "update" THEN "expand?" ELSE "idle")
  /\ UNCHANGED <<ret, ptr, result>>

(* The node that was copied not passed. *)
BadInsertDone ==
  /\ pc = "insert" /\ ~Mismatch
  /\ ret' = Written
  /\ Leave("rehash")
  /\ UNCHANGED <<hash, ptr, result>>

InsertDone ==
  /\ pc = "insert" /\ ~Mismatch
  /\ ret' = Written
  /\ Leave("rehash")
  /\ ptr' = ptr + 1
  /\ UNCHANGED <<hash, result>>

(* The first slot skipped. *)
BadStartRehash(capacity) ==
  ret' = HashNew(capacity) /\ ptr' = 1 /\ pc' = "rehash" /\ UNCHANGED <<hash, locals, result>>

StartRehash(capacity) ==
  /\ ret' = HashNew(capacity)
  /\ ptr' = 0
  /\ pc' = "rehash"
  /\ UNCHANGED <<hash, locals, result>>

SkipResize(next) == pc' = next /\ UNCHANGED <<hash, ret, locals, ptr, result>>

(* The two ifs of hash_set_and_update, in their order. *)
Expand ==
  /\ pc = "expand?"
  /\ IF NeedExpand(hash) THEN StartRehash(2 * hash.capacity) ELSE SkipResize("shrink?")

Shrink ==
  /\ pc = "shrink?"
  /\ IF NeedShrink(hash) THEN StartRehash(hash.capacity \div 2) ELSE SkipResize("idle")

(* Deleted nodes set in ret too. *)
BadRehash ==
  /\ pc = "rehash" /\ ptr < hash.capacity
  /\ IF hash.content[ptr].value # Null
     THEN Enter("insert", ret, hash.content[ptr].key, hash.content[ptr].value) /\ UNCHANGED ptr
     ELSE ptr' = ptr + 1 /\ UNCHANGED <<pc, locals>>
  /\ UNCHANGED <<hash, ret, result>>

(* One iteration of hash_rehash: live nodes are set in ret, others skipped. *)
Rehash ==
  /\ pc = "rehash" /\ ptr < hash.capacity
  /\ IF Live(hash, ptr)
     THEN Enter("insert", ret, hash.content[ptr].key, hash.content[ptr].value) /\ UNCHANGED ptr
     ELSE ptr' = ptr + 1 /\ UNCHANGED <<pc, locals>>
  /\ UNCHANGED <<hash, ret, result>>

(* The caller replaces its table; after an expansion the shrink test follows. *)
RehashDone ==
  /\ pc = "rehash" /\ ptr = hash.capacity
  /\ hash' = ret
  /\ ret' = NewTable(MinCapacity)
  /\ ptr' = 0
  /\ pc' = IF ret.capacity > hash.capacity THEN "shrink?" ELSE "idle"
  /\ UNCHANGED <<locals, result>>

Step == Probe \/ FindDone \/ SetDone \/ InsertDone \/ Expand \/ Shrink \/ Rehash \/ RehashDone

Next ==
  \/ Step
  \/ \E k \in Key : Find(k)
  \/ \E k \in Key, v \in Val \cup {Null, Undefined}, loop \in {"set", "update"} : Set(loop, k, v)

Spec == Init /\ [][Next]_vars

(* A call that was made keeps running: the program is sequential. *)
FairSpec == Spec /\ WF_vars(Step)

------------------------------------------------------------------------------
TypeOK ==
  /\ IsTable(hash) /\ IsTable(ret)
  /\ pc \in {"idle", "find", "set", "update", "insert", "expand?", "shrink?", "rehash"}
  /\ key \in Nat /\ (pc \in {"find", "set", "update"} => key \in Key)
  /\ value \in Stored
  /\ slot \in 0 .. T.capacity
  /\ index \in Indices(T)
  /\ ptr \in 0 .. hash.capacity
  /\ result \in Stored

Used(t, i) == t.content[i].value # Null

(* No key sits in two slots, deleted slots included, or hash_set could      *)
(* update one copy and hash_find go on to answer the other.                 *)
Unique(t) ==
  \A i, j \in Indices(t) :
    Used(t, i) /\ Used(t, j) /\ t.content[i].key = t.content[j].key => i = j
KeysUnique == Unique(hash) /\ Unique(ret)

(* size counts the live slots, through tombstone reuse and rehashing; the   *)
(* two asserts of hash_set and both resize tests rest on it.                *)
LiveSlots(t) == {i \in Indices(t) : Live(t, i)}
SizeIsLive ==
  /\ hash.size = Cardinality(LiveSlots(hash))
  /\ ret.size = Cardinality(LiveSlots(ret))

(* The slots hash_find can visit from slot i in search of k: the smallest   *)
(* set with i that the loop's step does not leave.                          *)
Passes(t, i, k) == Used(t, i) /\ t.content[i].key # k
Closed(S, k, t) == \A i \in S : Passes(t, i, k) => NextIndex(i, t) \in S
Reaches(i, j, k, t) ==
  \A S \in SUBSET Indices(t) : i \in S /\ Closed(S, k, t) => j \in S

(* Every key lies on its own probe chain with no chain end before it: what  *)
(* the tombstones are for.                                                  *)
Chained(t) ==
  \A j \in Indices(t) :
    Used(t, j) => Reaches(Home(t.content[j].key, t), j, t.content[j].key, t)
ChainsUnbroken == Chained(hash) /\ Chained(ret)

(* A running search: it is on the chain of its key, so is the deleted slot  *)
(* it remembers, and it has not stepped over the slot of its key.           *)
SearchOnChain ==
  /\ ~Probing => index = 0 /\ slot = 0
  /\ Probing =>
       /\ Reaches(Home(key, T), index, key, T)
       /\ slot # T.capacity => /\ T.content[slot].value = Undefined
                               /\ Reaches(Home(key, T), slot, key, T)
       /\ \A j \in Indices(T) :
            Used(T, j) /\ T.content[j].key = key => Reaches(index, j, key, T)

(* A running hash_rehash: ret holds exactly the live nodes of hash before   *)
(* ptr; none is lost, none invented, none comes back from the deleted.      *)
RehashCopiesPrefix ==
  /\ pc = "insert" => /\ ptr < hash.capacity /\ Live(hash, ptr)
                      /\ hash.content[ptr] = [key |-> key, value |-> value]
  /\ pc \in {"rehash", "insert"} =>
       /\ \A i \in 0 .. ptr - 1 : Live(hash, i) =>
            \E j \in Indices(ret) : ret.content[j] = hash.content[i]
       /\ \A j \in Indices(ret) : Used(ret, j) =>
            \E i \in 0 .. ptr - 1 : Live(hash, i) /\ hash.content[i] = ret.content[j]

(* The map a table stands for, and the call it is serving. *)
Holders(t, k) == {i \in Indices(t) : Live(t, i) /\ t.content[i].key = k}
MapOf(t) ==
  [k \in Key |-> IF Holders(t, k) = {} THEN Undefined
                 ELSE t.content[CHOOSE i \in Holders(t, k) : TRUE].value]
Serving ==
  CASE pc = "find" -> [op |-> "find", key |-> key]
    [] pc \in {"set", "update"} -> [op |-> "set", key |-> key, value |-> value]
    [] OTHER -> [op |-> "none"]

Abs == INSTANCE HashMap WITH dict <- MapOf(hash), answer <- result, call <- Serving

(* The table implements the map: each hash_find and hash_set has the effect *)
(* of its own arguments on the map and on nothing else, and no resizing     *)
(* changes the map.                                                         *)
ImplementsMap == Abs!MapSpec

(* The probe sequence visits the whole table: a search that has a chain end *)
(* to find ends, wherever that slot is.                                     *)
HasRoom(t) == \E i \in Indices(t) : ~Used(t, i)
SearchWithRoomEnds == Probing /\ HasRoom(T) ~> ~Probing

(* Expanding and shrinking always come back to the caller: the table being  *)
(* filled keeps a chain end for every search hash_rehash makes in it.       *)
ResizingEnds == pc \in {"rehash", "insert"} ~> pc = "idle"

(* hash.h of hash_find: "return that value if found, or an Undefined        *)
(* otherwise"; every lookup returns.                                        *)
FindReturns == pc = "find" ~> pc = "idle"
==============================================================================
