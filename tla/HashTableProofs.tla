--------------------------- MODULE HashTableProofs ---------------------------
(***************************************************************************)
(* HashTable implements HashMap, for every set of keys and values and      *)
(* every capacity.  The argument is about probe chains: a key is reachable *)
(* from its home slot without passing a chain end (ChainsUnbroken), a      *)
(* search does not step over its key (SearchOnChain), so a search that     *)
(* stops at a chain end has no key to find, and writing where it stops     *)
(* neither duplicates a key nor cuts another key's chain.                  *)
(***************************************************************************)
EXTENDS HashTable, FiniteSetTheorems, TLAPS

(* Indices computed by the code are slots of the table. *)
LEMMA IndexTypes ==
  ASSUME NEW t, IsTable(t), NEW k \in Nat
  PROVE  Home(k, t) \in Indices(t) /\ NextIndex(k, t) \in Indices(t)
<1>1. t.capacity \in Nat \ {0}
  BY DEF IsTable
<1>2. \A n \in Nat : n % t.capacity \in 0 .. t.capacity - 1
  BY <1>1, SMT
<1>3. k * 40389 + 403 \in Nat
  BY SMT
<1> QED
  BY <1>2, <1>3 DEF Home, NextIndex, Indices

(* hash_init gives a table that is well formed, empty and has no chain. *)
LEMMA NewTableWellFormed ==
  ASSUME NEW c \in Nat \ {0}, NEW t, t = NewTable(c)
  PROVE  /\ IsTable(t) /\ Unique(t) /\ Chained(t)
         /\ t.capacity = c
         /\ t.size = Cardinality(LiveSlots(t))
         /\ \A i \in Indices(t) : ~Used(t, i)
<1>1. IsTable(t) /\ t.capacity = c /\ t.size = 0
  BY DEF NewTable, IsTable, Indices, Node, Stored
<1>2. \A i \in Indices(t) : ~Used(t, i) /\ ~Live(t, i)
  BY ValAssumption DEF NewTable, Indices, Used, Live
<1>3. LiveSlots(t) = {}
  BY <1>2 DEF LiveSlots
<1>4. Cardinality(LiveSlots(t)) = 0
  BY <1>3, FS_EmptySet
<1>5. Unique(t) /\ Chained(t)
  BY <1>2 DEF Unique, Chained
<1> QED
  BY <1>1, <1>2, <1>4, <1>5

LEMMA HashNewCapacity ==
  ASSUME NEW c \in Nat
  PROVE  Larger(c, MinCapacity) \in Nat \ {0}
BY CapacityAssumption DEF Larger

------------------------------------------------------------------------------
(* Reachability along a probe chain. *)

LEMMA ReachesStep ==
  ASSUME NEW t, NEW k, NEW i, NEW j \in Indices(t), Reaches(i, j, k, t), Passes(t, j, k)
  PROVE  Reaches(i, NextIndex(j, t), k, t)
BY DEF Reaches, Closed

(* A search that moves on from a slot that is not j's still reaches j. *)
LEMMA ReachesAdvance ==
  ASSUME NEW t, NEW k, NEW i \in Indices(t), NEW j, Reaches(i, j, k, t), i # j
  PROVE  Reaches(NextIndex(i, t), j, k, t)
<1> SUFFICES ASSUME NEW S \in SUBSET Indices(t), NextIndex(i, t) \in S, Closed(S, k, t)
             PROVE  j \in S
  BY DEF Reaches
<1>1. Closed(S \cup {i}, k, t)
  BY DEF Closed
<1>2. j \in S \cup {i}
  BY <1>1 DEF Reaches
<1> QED
  BY <1>2

(* A search that stops at i reaches no other slot. *)
LEMMA ReachesEnd ==
  ASSUME NEW t, NEW k, NEW i \in Indices(t), NEW j, Reaches(i, j, k, t), ~Passes(t, i, k)
  PROVE  j = i
<1>1. Closed({i}, k, t)
  BY DEF Closed
<1> QED
  BY <1>1 DEF Reaches

------------------------------------------------------------------------------
(* What hash_set's final assignments do to a table, given a slot on the    *)
(* chain of k that is k's own if k has one and holds no other live key.    *)
GoodTarget(t, s, k) ==
  /\ s \in Indices(t)
  /\ Reaches(Home(k, t), s, k, t)
  /\ \A j \in Indices(t) : Used(t, j) /\ t.content[j].key = k => j = s
  /\ Live(t, s) => t.content[s].key = k

LEMMA WriteFields ==
  ASSUME NEW t, IsTable(t), NEW s \in Indices(t), NEW k \in Nat, NEW v \in Stored,
         NEW u, u = Write(t, s, k, v)
  PROVE  /\ u.capacity = t.capacity
         /\ Indices(u) = Indices(t)
         /\ u.content \in [Indices(t) -> Node]
         /\ u.content[s].key = k /\ u.content[s].value = v
         /\ \A i \in Indices(t) \ {s} : u.content[i] = t.content[i]
         /\ u \in [capacity : {u.capacity}, size : {u.size}, content : {u.content}]
<1>1. /\ u.capacity = t.capacity
      /\ u.content = [t.content EXCEPT ![s] = [key |-> k, value |-> v]]
      /\ u \in [capacity : {u.capacity}, size : {u.size}, content : {u.content}]
  BY DEF Write
<1>2. [key |-> k, value |-> v] \in Node
  BY DEF Node
<1>3. t.content \in [Indices(t) -> Node]
  BY DEF IsTable
<1>4. /\ u.content \in [Indices(t) -> Node]
      /\ u.content[s] = [key |-> k, value |-> v]
      /\ \A i \in Indices(t) \ {s} : u.content[i] = t.content[i]
  BY <1>1, <1>2, <1>3
<1>5. Indices(u) = Indices(t)
  BY <1>1 DEF Indices
<1> QED
  BY <1>1, <1>4, <1>5

LEMMA WriteKeepsUnique ==
  ASSUME NEW t, IsTable(t), Unique(t), NEW k \in Nat, NEW v \in Stored,
         NEW s, GoodTarget(t, s, k), NEW u, u = Write(t, s, k, v)
  PROVE  Unique(u)
<1>1. s \in Indices(t)
  BY DEF GoodTarget
<1>2. /\ Indices(u) = Indices(t)
      /\ u.content[s].key = k /\ u.content[s].value = v
      /\ \A i \in Indices(t) \ {s} : u.content[i] = t.content[i]
  BY <1>1, WriteFields
<1>3. \A i \in Indices(t) \ {s} : Used(u, i) => u.content[i].key # k
  BY <1>2 DEF GoodTarget, Used
<1>4. \A i, j \in Indices(t) \ {s} :
        Used(u, i) /\ Used(u, j) /\ u.content[i].key = u.content[j].key => i = j
  BY <1>2 DEF Unique, Used
<1>5. u.content[s].key = k
  BY <1>2
<1> QED
  BY <1>2, <1>3, <1>4, <1>5 DEF Unique

LEMMA WriteKeepsChains ==
  ASSUME NEW t, IsTable(t), Unique(t), Chained(t), NEW k \in Nat, NEW v \in Stored,
         NEW s, GoodTarget(t, s, k), NEW u, u = Write(t, s, k, v)
  PROVE  Chained(u)
<1>1. s \in Indices(t)
  BY DEF GoodTarget
<1>2. /\ Indices(u) = Indices(t) /\ u.capacity = t.capacity
      /\ u.content[s].key = k /\ u.content[s].value = v
      /\ \A i \in Indices(t) \ {s} : u.content[i] = t.content[i]
  BY <1>1, WriteFields
<1>3. \A m, i : Home(m, u) = Home(m, t) /\ NextIndex(i, u) = NextIndex(i, t)
  BY <1>2 DEF Home, NextIndex
<1>4. Used(u, s)
  BY <1>2, ValAssumption DEF Used, Stored
<1> SUFFICES ASSUME NEW j \in Indices(t), Used(u, j)
             PROVE  Reaches(Home(u.content[j].key, u), j, u.content[j].key, u)
  BY <1>2 DEF Chained
<1>5. CASE j = s
  (* A set that leaves out s is closed for the new table as for the old.   *)
  <2> SUFFICES ASSUME NEW S \in SUBSET Indices(t), Home(k, t) \in S, Closed(S, k, u), s \notin S
               PROVE  FALSE
    BY <1>2, <1>3, <1>5 DEF Reaches
  <2>1. Closed(S, k, t)
    BY <1>2, <1>3 DEF Closed, Passes, Used
  <2>2. s \in S
    BY <2>1 DEF GoodTarget, Reaches
  <2> QED
    BY <2>2
<1>6. CASE j # s
  (* The chain of another key passes s after the write if it did before.   *)
  <2> DEFINE m == t.content[j].key
  <2>1. u.content[j] = t.content[j] /\ Used(t, j)
    BY <1>2, <1>6 DEF Used
  <2>2. m # k
    BY <2>1, <1>6 DEF GoodTarget
  <2>3. Reaches(Home(m, t), j, m, t)
    BY <2>1 DEF Chained
  <2>4. ASSUME NEW S \in SUBSET Indices(t), Home(m, t) \in S, Closed(S, m, u)
        PROVE  j \in S
    <3>1. Closed(S, m, t)
      BY <1>2, <1>3, <1>4, <2>2, <2>4 DEF Closed, Passes, Used
    <3> QED
      BY <3>1, <2>3, <2>4 DEF Reaches
  <2> QED
    BY <1>2, <1>3, <2>1, <2>4 DEF Reaches
<1> QED
  BY <1>5, <1>6

LEMMA LiveSlotsFinite ==
  ASSUME NEW t, IsTable(t)
  PROVE  IsFiniteSet(LiveSlots(t)) /\ Cardinality(LiveSlots(t)) \in Nat
<1>1. t.capacity - 1 \in Int
  BY DEF IsTable
<1>2. IsFiniteSet(Indices(t))
  BY <1>1, FS_Interval DEF Indices
<1>3. IsFiniteSet(LiveSlots(t))
  BY <1>2, FS_Subset DEF LiveSlots
<1> QED
  BY <1>3, FS_CardinalityType

LEMMA WriteKeepsCount ==
  ASSUME NEW t, IsTable(t), t.size = Cardinality(LiveSlots(t)),
         NEW k \in Nat, NEW v \in Stored, NEW s \in Indices(t),
         NEW u, u = Write(t, s, k, v)
  PROVE  IsTable(u) /\ u.size = Cardinality(LiveSlots(u))
<1>1. /\ u.capacity = t.capacity
      /\ Indices(u) = Indices(t)
      /\ u.content \in [Indices(t) -> Node]
      /\ u.content[s].key = k /\ u.content[s].value = v
      /\ \A i \in Indices(t) \ {s} : u.content[i] = t.content[i]
      /\ u \in [capacity : {u.capacity}, size : {u.size}, content : {u.content}]
  BY WriteFields
<1>2. u.size = IF v # Undefined /\ ~Live(t, s) THEN t.size + 1
               ELSE IF v = Undefined /\ Live(t, s) THEN t.size - 1 ELSE t.size
  BY DEF Write, IsTable
<1>3. Live(u, s) <=> v # Undefined
  BY <1>1, ValAssumption DEF Live, Stored
<1>4. \A i \in Indices(t) \ {s} : Live(u, i) <=> Live(t, i)
  BY <1>1 DEF Live
<1>5. IsFiniteSet(LiveSlots(t)) /\ Cardinality(LiveSlots(t)) \in Nat
  BY LiveSlotsFinite
<1>6. u.size = Cardinality(LiveSlots(u)) /\ u.size \in Nat
  <2>1. CASE v # Undefined /\ ~Live(t, s)
    <3>1. LiveSlots(u) = LiveSlots(t) \cup {s} /\ s \notin LiveSlots(t)
      BY <2>1, <1>1, <1>3, <1>4 DEF LiveSlots
    <3>2. \A S : IsFiniteSet(S) /\ s \notin S => Cardinality(S \cup {s}) = Cardinality(S) + 1
      BY FS_AddElement
    <3>3. Cardinality(LiveSlots(u)) = Cardinality(LiveSlots(t)) + 1
      BY <3>1, <3>2, <1>5
    <3> QED
      BY <3>3, <2>1, <1>2, <1>5
  <2>2. CASE v = Undefined /\ Live(t, s)
    <3>1. LiveSlots(u) = LiveSlots(t) \ {s} /\ s \in LiveSlots(t)
      BY <2>2, <1>1, <1>3, <1>4 DEF LiveSlots
    <3>2. Cardinality(LiveSlots(u)) = Cardinality(LiveSlots(t)) - 1
      BY <3>1, <1>5, FS_RemoveElement
    <3>3. IsFiniteSet(LiveSlots(u)) /\ Cardinality(LiveSlots(u)) \in Nat
      BY <3>1, <1>5, FS_RemoveElement, FS_CardinalityType
    <3> QED
      BY <3>2, <3>3, <2>2, <1>2, <1>5
  <2>3. CASE (v # Undefined <=> Live(t, s))
    <3>1. LiveSlots(u) = LiveSlots(t)
      BY <2>3, <1>1, <1>3, <1>4 DEF LiveSlots
    <3> QED
      BY <3>1, <2>3, <1>2, <1>5
  <2> QED
    BY <2>1, <2>2, <2>3
<1>7. t.capacity \in Nat \ {0}
  BY DEF IsTable
<1>8. IsTable(u)
  BY <1>1, <1>6, <1>7 DEF IsTable
<1> QED
  BY <1>6, <1>8

------------------------------------------------------------------------------
(* The inductive invariant. *)
IInv ==
  TypeOK /\ KeysUnique /\ SizeIsLive /\ ChainsUnbroken /\ SearchOnChain /\ RehashCopiesPrefix

LEMMA CurrentTable ==
  ASSUME IInv
  PROVE  /\ IsTable(T) /\ Unique(T) /\ Chained(T) /\ T.size = Cardinality(LiveSlots(T))
         /\ index \in Indices(T) /\ key \in Nat /\ value \in Stored
BY DEF IInv, T, TypeOK, KeysUnique, SizeIsLive, ChainsUnbroken

(* A new search starts at the head of its key's chain. *)
LEMMA SearchStarts ==
  ASSUME NEW t, Chained(t), NEW k
  PROVE  /\ Reaches(Home(k, t), Home(k, t), k, t)
         /\ \A j \in Indices(t) :
              Used(t, j) /\ t.content[j].key = k => Reaches(Home(k, t), j, k, t)
BY DEF Chained, Reaches

(* A search that ended stands on its key's slot if the table has one. *)
LEMMA SearchEnds ==
  ASSUME IInv, Probing, ~Mismatch
  PROVE  /\ \A j \in Indices(T) : Used(T, j) /\ T.content[j].key = key => j = index
         /\ Used(T, index) => T.content[index].key = key
<1>1. index \in Indices(T)
  BY CurrentTable
<1>2. ~Passes(T, index, key)
  BY DEF Mismatch, Passes, Used
<1>3. ASSUME NEW j \in Indices(T), Used(T, j), T.content[j].key = key
      PROVE  j = index
  <2>1. Reaches(index, j, key, T)
    BY <1>3 DEF IInv, SearchOnChain
  <2> QED
    BY <2>1, <1>1, <1>2, ReachesEnd
<1> QED
  BY <1>2, <1>3 DEF Passes

LEMMA TargetIsGood ==
  ASSUME IInv, Probing, ~Mismatch
  PROVE  GoodTarget(T, Target, key)
<1>1. index \in Indices(T) /\ IsTable(T)
  BY CurrentTable
<1>2. Reaches(Home(key, T), index, key, T)
  BY DEF IInv, SearchOnChain
<1>3. /\ \A j \in Indices(T) : Used(T, j) /\ T.content[j].key = key => j = index
      /\ Used(T, index) => T.content[index].key = key
  BY SearchEnds
<1>4. CASE Target = index
  <2>1. Live(T, index) => T.content[index].key = key
    BY <1>3, ValAssumption DEF Live, Used
  <2> QED
    BY <1>1, <1>2, <1>3, <1>4, <2>1 DEF GoodTarget
<1>5. CASE T.content[index].key # key /\ slot # T.capacity /\ Target = slot
  <2>1. /\ T.content[slot].value = Undefined
        /\ Reaches(Home(key, T), slot, key, T)
    BY <1>5 DEF IInv, SearchOnChain
  <2>2. slot \in Indices(T)
    BY <1>1, <1>5 DEF IInv, TypeOK, Indices, IsTable
  <2>3. \A j \in Indices(T) : ~(Used(T, j) /\ T.content[j].key = key)
    BY <1>3, <1>5
  <2>4. ~Live(T, slot)
    BY <2>1, ValAssumption DEF Live
  <2> QED
    BY <1>5, <2>1, <2>2, <2>3, <2>4 DEF GoodTarget
<1> QED
  BY <1>4, <1>5 DEF Target

(* hash_set's final assignments, whichever table they are made in. *)
LEMMA WrittenWellFormed ==
  ASSUME IInv, Probing, ~Mismatch
  PROVE  /\ IsTable(Written) /\ Unique(Written) /\ Chained(Written)
         /\ Written.size = Cardinality(LiveSlots(Written))
         /\ Written.capacity = T.capacity /\ Indices(Written) = Indices(T)
         /\ Target \in Indices(T)
         /\ Written.content[Target].key = key /\ Written.content[Target].value = value
         /\ Written.content[Target] \in Node
         /\ \A i \in Indices(T) \ {Target} : Written.content[i] = T.content[i]
<1>1. GoodTarget(T, Target, key) /\ Target \in Indices(T)
  BY TargetIsGood DEF GoodTarget
<1>2. Written = Write(T, Target, key, value)
  BY DEF Written
<1>3. /\ IsTable(T) /\ Unique(T) /\ Chained(T) /\ T.size = Cardinality(LiveSlots(T))
      /\ key \in Nat /\ value \in Stored
  BY CurrentTable
<1>4. Unique(Written)
  BY <1>1, <1>2, <1>3, WriteKeepsUnique
<1>5. Chained(Written)
  BY <1>1, <1>2, <1>3, WriteKeepsChains
<1>6. IsTable(Written) /\ Written.size = Cardinality(LiveSlots(Written))
  BY <1>1, <1>2, <1>3, WriteKeepsCount
<1>7. /\ Written.capacity = T.capacity /\ Indices(Written) = Indices(T)
      /\ Written.content[Target].key = key /\ Written.content[Target].value = value
      /\ \A i \in Indices(T) \ {Target} : Written.content[i] = T.content[i]
  BY <1>1, <1>2, <1>3, WriteFields
<1>8. Written.content[Target] \in Node
  BY <1>1, <1>6, <1>7 DEF IsTable
<1> QED
  BY <1>1, <1>4, <1>5, <1>6, <1>7, <1>8

------------------------------------------------------------------------------
LEMMA InitInv == Init => IInv
<1> SUFFICES ASSUME Init PROVE IInv
  OBVIOUS
<1>1. PICK c \in InitCapacity : hash = NewTable(c)
  BY DEF Init
<1>2. c \in Nat \ {0} /\ MinCapacity \in Nat \ {0}
  BY CapacityAssumption
<1>3. /\ IsTable(hash) /\ Unique(hash) /\ Chained(hash)
      /\ hash.size = Cardinality(LiveSlots(hash))
  BY <1>1, <1>2, NewTableWellFormed
<1>4. /\ IsTable(ret) /\ Unique(ret) /\ Chained(ret)
      /\ ret.size = Cardinality(LiveSlots(ret))
  BY <1>2, NewTableWellFormed DEF Init
<1>5. hash.capacity \in Nat \ {0}
  BY <1>3 DEF IsTable
<1>6. TypeOK
  BY <1>3, <1>4, <1>5 DEF Init, TypeOK, T, Indices, Stored
<1> QED
  BY <1>3, <1>4, <1>6
  DEF Init, IInv, KeysUnique, ChainsUnbroken, SizeIsLive, SearchOnChain, RehashCopiesPrefix, Probing

(* hash_find, hash_set and hash_set_and_update are called. *)
LEMMA CallStep ==
  ASSUME IInv, pc = "idle", NEW loop \in {"find", "set", "update"},
         NEW k \in Key, NEW v \in Stored,
         Enter(loop, hash, k, v), UNCHANGED <<hash, ret, ptr, result>>
  PROVE  IInv'
<1>1. k \in Nat
  BY KeyAssumption
<1>2. T' = hash
  BY DEF T, Enter
<1>3. IsTable(hash) /\ Chained(hash)
  BY DEF IInv, TypeOK, ChainsUnbroken
<1>4. index' \in Indices(hash)
  BY <1>1, <1>3, IndexTypes DEF Enter
<1>5. hash.capacity \in Nat
  BY <1>3 DEF IsTable
<1>6. TypeOK'
  BY <1>1, <1>2, <1>4, <1>5 DEF IInv, TypeOK, Enter, Stored, Indices, IsTable
<1>7. SearchOnChain'
  BY <1>2, <1>3, SearchStarts DEF SearchOnChain, Enter, Probing
<1>8. RehashCopiesPrefix'
  BY DEF RehashCopiesPrefix, Enter
<1> QED
  BY <1>6, <1>7, <1>8 DEF IInv, KeysUnique, SizeIsLive, ChainsUnbroken

LEMMA ProbeStep == IInv /\ Probe => IInv'
<1> SUFFICES ASSUME IInv, Probe PROVE IInv'
  OBVIOUS
<1>1. /\ IsTable(T) /\ Chained(T) /\ index \in Indices(T) /\ key \in Nat
  BY CurrentTable
<1>2. T' = T
  BY DEF T, Probe
<1>3. index \in Nat /\ T.capacity \in Nat
  BY <1>1 DEF Indices, IsTable
<1>4. index' \in Indices(T)
  BY <1>1, <1>3, IndexTypes DEF Probe
<1>5. slot' \in 0 .. T.capacity
  BY <1>1, <1>3 DEF Probe, IInv, TypeOK, Indices
<1>6. TypeOK'
  BY <1>2, <1>4, <1>5 DEF Probe, IInv, TypeOK, Indices
<1>7. Passes(T, index, key)
  BY DEF Probe, Mismatch, Passes, Used
<1>8. /\ Reaches(Home(key, T), index, key, T)
      /\ \A j \in Indices(T) :
           Used(T, j) /\ T.content[j].key = key => Reaches(index, j, key, T)
      /\ slot # T.capacity => /\ T.content[slot].value = Undefined
                              /\ Reaches(Home(key, T), slot, key, T)
  BY DEF Probe, IInv, SearchOnChain
<1>9. Reaches(Home(key, T), index', key, T)
  BY <1>1, <1>7, <1>8, ReachesStep DEF Probe
<1>10. ASSUME NEW j \in Indices(T), Used(T, j), T.content[j].key = key
       PROVE  Reaches(index', j, key, T)
  <2>1. Reaches(index, j, key, T) /\ index # j
    BY <1>7, <1>8, <1>10 DEF Passes
  <2> QED
    BY <1>1, <2>1, ReachesAdvance DEF Probe
<1>11. slot' # T.capacity => /\ T.content[slot'].value = Undefined
                             /\ Reaches(Home(key, T), slot', key, T)
  BY <1>8 DEF Probe
<1>12. SearchOnChain'
  BY <1>2, <1>9, <1>10, <1>11 DEF SearchOnChain, Probe, Probing
<1> QED
  BY <1>6, <1>12
  DEF Probe, IInv, KeysUnique, SizeIsLive, ChainsUnbroken, RehashCopiesPrefix

LEMMA FindDoneStep == IInv /\ FindDone => IInv'
<1> SUFFICES ASSUME IInv, FindDone PROVE IInv'
  OBVIOUS
<1>1. T' = hash /\ T = hash
  BY DEF T, FindDone, Leave
<1>2. IsTable(hash) /\ index \in Indices(hash)
  BY <1>1, CurrentTable
<1>3. hash.content[index].value \in Stored \cup {Null}
  BY <1>2 DEF IsTable, Node
<1>4. 0 \in Indices(hash) /\ 0 \in 0 .. hash.capacity
  BY <1>2 DEF IsTable, Indices
<1>5. result' \in Stored
  BY <1>3 DEF FindDone, Stored
<1>6. TypeOK'
  BY <1>1, <1>4, <1>5 DEF FindDone, Leave, IInv, TypeOK, Indices, Stored, IsTable
<1> QED
  BY <1>6 DEF FindDone, Leave, IInv, KeysUnique, SizeIsLive, ChainsUnbroken,
              SearchOnChain, RehashCopiesPrefix, Probing

LEMMA SetDoneStep == IInv /\ SetDone => IInv'
<1> SUFFICES ASSUME IInv, SetDone PROVE IInv'
  OBVIOUS
<1>1. T = hash /\ T' = hash' /\ Probing /\ ~Mismatch
  BY DEF T, SetDone, Leave, Probing
<1>2. /\ IsTable(hash') /\ Unique(hash') /\ Chained(hash')
      /\ (hash').size = Cardinality(LiveSlots(hash'))
      /\ (hash').capacity = hash.capacity
  BY <1>1, WrittenWellFormed DEF SetDone
<1>3. 0 \in Indices(hash') /\ 0 \in 0 .. (hash').capacity
  BY <1>2 DEF IsTable, Indices
<1>4. TypeOK'
  BY <1>1, <1>2, <1>3 DEF SetDone, Leave, IInv, TypeOK, Stored
<1> QED
  BY <1>2, <1>4 DEF SetDone, Leave, IInv, KeysUnique, SizeIsLive, ChainsUnbroken,
                    SearchOnChain, RehashCopiesPrefix, Probing

LEMMA InsertDoneStep == IInv /\ InsertDone => IInv'
<1> SUFFICES ASSUME IInv, InsertDone PROVE IInv'
  OBVIOUS
<1>1. T = ret /\ T' = hash /\ Probing /\ ~Mismatch /\ hash' = hash /\ ret' = Written
  BY DEF T, InsertDone, Leave, Probing
<1>2. /\ IsTable(ret') /\ Unique(ret') /\ Chained(ret')
      /\ (ret').size = Cardinality(LiveSlots(ret'))
      /\ Indices(ret') = Indices(ret)
      /\ Target \in Indices(ret)
      /\ (ret').content[Target].key = key /\ (ret').content[Target].value = value
      /\ (ret').content[Target] \in Node
      /\ \A i \in Indices(ret) \ {Target} : (ret').content[i] = ret.content[i]
  BY <1>1, WrittenWellFormed
<1>3. /\ ptr < hash.capacity /\ Live(hash, ptr)
      /\ hash.content[ptr] = [key |-> key, value |-> value]
      /\ \A i \in 0 .. ptr - 1 : Live(hash, i) =>
           \E j \in Indices(ret) : ret.content[j] = hash.content[i]
      /\ \A j \in Indices(ret) : Used(ret, j) =>
           \E i \in 0 .. ptr - 1 : Live(hash, i) /\ hash.content[i] = ret.content[j]
  BY DEF IInv, RehashCopiesPrefix, InsertDone
<1>4. IsTable(hash) /\ Unique(hash) /\ hash.capacity \in Nat \ {0} /\ ptr \in Nat
  BY DEF IInv, TypeOK, KeysUnique, IsTable
<1>5. 0 \in Indices(hash) /\ 0 \in 0 .. hash.capacity /\ ptr \in Indices(hash)
  BY <1>3, <1>4 DEF Indices
<1>6. TypeOK'
  BY <1>1, <1>2, <1>3, <1>4, <1>5 DEF InsertDone, Leave, IInv, TypeOK, Stored
<1>7. (ret').content[Target] = hash.content[ptr]
  BY <1>2, <1>3 DEF Node
<1>8. \A j \in Indices(ret) : Used(ret, j) => ret.content[j].key # key
  <2> SUFFICES ASSUME NEW j \in Indices(ret), Used(ret, j), ret.content[j].key = key
               PROVE  FALSE
    OBVIOUS
  <2>1. PICK i \in 0 .. ptr - 1 : Live(hash, i) /\ hash.content[i] = ret.content[j]
    BY <1>3
  <2>2. i \in Indices(hash) /\ i # ptr
    BY <2>1, <1>3, <1>4 DEF Indices
  <2>3. Used(hash, i) /\ Used(hash, ptr) /\ hash.content[i].key = hash.content[ptr].key
    BY <2>1, <1>3, ValAssumption DEF Live, Used
  <2> QED
    BY <2>2, <2>3, <1>5, <1>4 DEF Unique
<1>9. ~Used(ret, Target)
  (* Every used slot of ret is live, and a live slot is no other key's target. *)
  <2> SUFFICES ASSUME Used(ret, Target) PROVE FALSE
    OBVIOUS
  <2>1. PICK i \in 0 .. ptr - 1 : Live(hash, i) /\ hash.content[i] = ret.content[Target]
    BY <1>2, <1>3
  <2>2. Live(ret, Target)
    BY <2>1 DEF Live
  <2>3. ret.content[Target].key = key
    BY <2>2, <1>1, TargetIsGood DEF GoodTarget
  <2> QED
    BY <2>3, <1>2, <1>8
<1>10. \A i \in 0 .. ptr : Live(hash, i) =>
         \E j \in Indices(ret) : (ret').content[j] = hash.content[i]
  <2> SUFFICES ASSUME NEW i \in 0 .. ptr, Live(hash, i)
               PROVE  \E j \in Indices(ret) : (ret').content[j] = hash.content[i]
    OBVIOUS
  <2>1. CASE i = ptr
    BY <2>1, <1>2, <1>7
  <2>2. CASE i # ptr
    <3>1. i \in 0 .. ptr - 1
      BY <2>2, <1>4
    <3>2. PICK j \in Indices(ret) : ret.content[j] = hash.content[i]
      BY <3>1, <1>3
    <3>3. Used(ret, j)
      BY <3>2, ValAssumption DEF Live, Used
    <3>4. j # Target
      BY <3>3, <1>9
    <3> QED
      BY <3>2, <3>4, <1>2
  <2> QED
    BY <2>1, <2>2
<1>11. \A j \in Indices(ret) : Used(ret', j) =>
         \E i \in 0 .. ptr : Live(hash, i) /\ hash.content[i] = (ret').content[j]
  <2> SUFFICES ASSUME NEW j \in Indices(ret), Used(ret', j)
               PROVE  \E i \in 0 .. ptr : Live(hash, i) /\ hash.content[i] = (ret').content[j]
    OBVIOUS
  <2>1. CASE j = Target
    BY <2>1, <1>3, <1>4, <1>7
  <2>2. CASE j # Target
    <3>1. (ret').content[j] = ret.content[j] /\ Used(ret, j)
      BY <2>2, <1>2 DEF Used
    <3>2. PICK i \in 0 .. ptr - 1 : Live(hash, i) /\ hash.content[i] = ret.content[j]
      BY <3>1, <1>3
    <3>3. i \in 0 .. ptr
      BY <3>2, <1>4
    <3> QED
      BY <3>1, <3>2, <3>3
  <2> QED
    BY <2>1, <2>2
<1>12. RehashCopiesPrefix'
  <2>1. ptr' - 1 = ptr /\ pc' = "rehash"
    BY <1>4 DEF InsertDone, Leave
  <2> QED
    BY <2>1, <1>1, <1>2, <1>10, <1>11 DEF RehashCopiesPrefix, Live, Used
<1> QED
  BY <1>1, <1>2, <1>6, <1>12 DEF InsertDone, Leave, IInv, KeysUnique, SizeIsLive,
                               ChainsUnbroken, SearchOnChain, Probing

LEMMA StartRehashStep ==
  ASSUME IInv, pc \in {"expand?", "shrink?"}, NEW c \in Nat, StartRehash(c)
  PROVE  IInv'
<1>1. T = hash /\ T' = hash /\ hash' = hash
  BY DEF T, StartRehash
<1>2. /\ IsTable(ret') /\ Unique(ret') /\ Chained(ret')
      /\ (ret').size = Cardinality(LiveSlots(ret'))
      /\ \A i \in Indices(ret') : ~Used(ret', i)
  BY HashNewCapacity, NewTableWellFormed DEF StartRehash, HashNew
<1>3. hash.capacity \in Nat
  BY DEF IInv, TypeOK, IsTable
<1>4. TypeOK'
  BY <1>1, <1>2, <1>3 DEF StartRehash, locals, IInv, TypeOK
<1>5. RehashCopiesPrefix'
  BY <1>2 DEF StartRehash, RehashCopiesPrefix
<1> QED
  BY <1>1, <1>2, <1>4, <1>5 DEF StartRehash, locals, IInv, KeysUnique, SizeIsLive,
                               ChainsUnbroken, SearchOnChain, Probing

LEMMA SkipResizeStep ==
  ASSUME IInv, pc \in {"expand?", "shrink?"}, NEW next \in {"shrink?", "idle"}, SkipResize(next)
  PROVE  IInv'
BY DEF SkipResize, locals, IInv, TypeOK, T, KeysUnique, SizeIsLive, ChainsUnbroken,
       SearchOnChain, RehashCopiesPrefix, Probing

LEMMA ResizeStep == IInv /\ (Expand \/ Shrink) => IInv'
<1> SUFFICES ASSUME IInv, Expand \/ Shrink PROVE IInv'
  OBVIOUS
<1>1. hash.capacity \in Nat
  BY DEF IInv, TypeOK, IsTable
<1>2. 2 * hash.capacity \in Nat /\ hash.capacity \div 2 \in Nat
  BY <1>1
<1>3. CASE Expand
  BY <1>2, <1>3, StartRehashStep, SkipResizeStep DEF Expand
<1>4. CASE Shrink
  BY <1>2, <1>4, StartRehashStep, SkipResizeStep DEF Shrink
<1> QED
  BY <1>3, <1>4

LEMMA RehashStep == IInv /\ Rehash => IInv'
<1> SUFFICES ASSUME IInv, Rehash PROVE IInv'
  OBVIOUS
<1>1. /\ IsTable(hash) /\ IsTable(ret) /\ Chained(ret) /\ hash' = hash /\ ret' = ret
      /\ ptr \in Nat /\ hash.capacity \in Nat \ {0} /\ pc = "rehash" /\ ptr < hash.capacity
      /\ index = 0 /\ slot = 0 /\ T = hash
  BY DEF IInv, TypeOK, ChainsUnbroken, SearchOnChain, Probing, Rehash, IsTable, T
<1>2. hash.content[ptr] \in Node /\ ptr \in Indices(hash)
  BY <1>1 DEF IsTable, Indices
<1>3. CASE Live(hash, ptr)
  <2> DEFINE k == hash.content[ptr].key
             v == hash.content[ptr].value
  <2>1. Enter("insert", ret, k, v) /\ ptr' = ptr /\ result' = result /\ T' = ret
    BY <1>1, <1>3 DEF Rehash, Enter, T
  <2>2. k \in Nat /\ v \in Stored /\ hash.content[ptr] = [key |-> k, value |-> v]
    BY <1>2, <1>3 DEF Node, Live, Stored
  <2>3. Home(k, ret) \in Indices(ret)
    BY <1>1, <2>2, IndexTypes
  <2>4. ret.capacity \in Nat
    BY <1>1 DEF IsTable
  <2>5. TypeOK'
    BY <1>1, <2>1, <2>2, <2>3, <2>4 DEF IInv, TypeOK, Enter, Indices
  <2>6. SearchOnChain'
    BY <1>1, <2>1, SearchStarts DEF SearchOnChain, Enter, Probing
  <2>7. RehashCopiesPrefix'
    BY <1>1, <1>3, <2>1, <2>2 DEF IInv, RehashCopiesPrefix, Enter
  <2> QED
    BY <1>1, <2>5, <2>6, <2>7 DEF IInv, KeysUnique, SizeIsLive, ChainsUnbroken
<1>4. CASE ~Live(hash, ptr)
  <2>1. ptr' = ptr + 1 /\ UNCHANGED <<pc, key, value, index, slot, result>> /\ T' = hash
    BY <1>1, <1>4 DEF Rehash, locals, T
  <2>2. TypeOK'
    BY <1>1, <2>1 DEF IInv, TypeOK
  <2>3. \A i \in 0 .. ptr : Live(hash, i) => i \in 0 .. ptr - 1
    BY <1>1, <1>4
  <2>4. 0 .. ptr - 1 \subseteq 0 .. ptr /\ ptr' - 1 = ptr
    BY <1>1, <2>1
  <2>5. RehashCopiesPrefix'
    BY <1>1, <2>1, <2>3, <2>4 DEF IInv, RehashCopiesPrefix
  <2> QED
    BY <1>1, <2>1, <2>2, <2>5 DEF IInv, KeysUnique, SizeIsLive, ChainsUnbroken,
                                 SearchOnChain, Probing
<1> QED
  BY <1>3, <1>4

LEMMA RehashDoneStep == IInv /\ RehashDone => IInv'
<1> SUFFICES ASSUME IInv, RehashDone PROVE IInv'
  OBVIOUS
<1>1. /\ hash' = ret /\ T' = ret /\ T = hash /\ ptr' = 0 /\ pc' \in {"shrink?", "idle"}
      /\ index' = 0 /\ slot' = 0 /\ key' = key /\ value' = value /\ result' = result
  BY DEF RehashDone, T, IInv, SearchOnChain, Probing, locals
<1>2. /\ IsTable(hash') /\ Unique(hash') /\ Chained(hash')
      /\ (hash').size = Cardinality(LiveSlots(hash'))
  BY <1>1 DEF IInv, TypeOK, KeysUnique, ChainsUnbroken, SizeIsLive
<1>3. /\ IsTable(ret') /\ Unique(ret') /\ Chained(ret')
      /\ (ret').size = Cardinality(LiveSlots(ret'))
  BY CapacityAssumption, NewTableWellFormed DEF RehashDone
<1>4. (hash').capacity \in Nat \ {0}
  BY <1>2 DEF IsTable
<1>5. TypeOK'
  BY <1>1, <1>2, <1>3, <1>4 DEF IInv, TypeOK, Indices
<1> QED
  BY <1>1, <1>2, <1>3, <1>5 DEF IInv, KeysUnique, SizeIsLive, ChainsUnbroken,
                               SearchOnChain, RehashCopiesPrefix, Probing

LEMMA NextInv == IInv /\ [Next]_vars => IInv'
<1> SUFFICES ASSUME IInv, [Next]_vars PROVE IInv'
  OBVIOUS
<1>1. CASE UNCHANGED vars
  BY <1>1 DEF vars, IInv, TypeOK, T, KeysUnique, SizeIsLive, ChainsUnbroken, SearchOnChain,
              RehashCopiesPrefix, Probing
<1>2. ASSUME NEW k \in Key, Find(k) PROVE IInv'
  BY <1>2, CallStep DEF Find, Stored
<1>3. ASSUME NEW k \in Key, NEW v \in Val \cup {Null, Undefined}, NEW loop \in {"set", "update"},
             Set(loop, k, v)
      PROVE  IInv'
  <2> DEFINE w == IF v = Null THEN Undefined ELSE v
  <2>1. w \in Stored
    BY DEF Stored
  <2> QED
    BY <1>3, <2>1, CallStep DEF Set
<1> QED
  BY <1>1, <1>2, <1>3, ProbeStep, FindDoneStep, SetDoneStep, InsertDoneStep, ResizeStep,
     RehashStep, RehashDoneStep DEF Next, Step

(* In every behaviour of the table, with any number of calls, resizings and *)
(* deletions, the inductive invariant holds.                                *)
THEOREM Invariance == Spec => []IInv
BY InitInv, NextInv, PTL DEF Spec

(* hash_find, hash_set, the resizing macros and hash_rehash only ever use   *)
(* indices of the table at hand and build well-formed tables.               *)
THEOREM TypeCorrect == Spec => []TypeOK
<1>1. IInv => TypeOK
  BY DEF IInv
<1> QED
  BY <1>1, Invariance, PTL

(* hash_set never puts a key in a second slot. *)
THEOREM KeysStayUnique == Spec => []KeysUnique
<1>1. IInv => KeysUnique
  BY DEF IInv
<1> QED
  BY <1>1, Invariance, PTL

(* hash->size is the number of live slots, so the asserts of hash_set hold. *)
THEOREM SizeIsExact == Spec => []SizeIsLive
<1>1. IInv => SizeIsLive
  BY DEF IInv
<1> QED
  BY <1>1, Invariance, PTL

(* No write or removal cuts the probe chain of another key. *)
THEOREM ChainsStayUnbroken == Spec => []ChainsUnbroken
<1>1. IInv => ChainsUnbroken
  BY DEF IInv
<1> QED
  BY <1>1, Invariance, PTL

(* The loops of hash_find and hash_set never pass the slot of their key, or  *)
(* a deleted slot that a store may reuse, without having noticed it.         *)
THEOREM SearchesStayOnChain == Spec => []SearchOnChain
<1>1. IInv => SearchOnChain
  BY DEF IInv
<1> QED
  BY <1>1, Invariance, PTL

(* hash_rehash drops no live node that it has passed and adds none.          *)
THEOREM RehashKeepsPrefix == Spec => []RehashCopiesPrefix
<1>1. IInv => RehashCopiesPrefix
  BY DEF IInv
<1> QED
  BY <1>1, Invariance, PTL

------------------------------------------------------------------------------
(* Refinement. *)

(* MapOf answers the value in the live slot of a key. *)
LEMMA MapOfLive ==
  ASSUME NEW t, Unique(t), NEW k \in Key, NEW i \in Indices(t),
         Live(t, i), t.content[i].key = k
  PROVE  MapOf(t)[k] = t.content[i].value
<1>1. i \in Holders(t, k)
  BY DEF Holders
<1>2. \A j \in Holders(t, k) : j = i
  BY ValAssumption DEF Holders, Live, Used, Unique
<1>3. (CHOOSE j \in Holders(t, k) : TRUE) = i
  BY <1>1, <1>2
<1> QED
  BY <1>1, <1>3 DEF MapOf

LEMMA MapOfAbsent ==
  ASSUME NEW t, NEW k \in Key, \A i \in Indices(t) : Live(t, i) => t.content[i].key # k
  PROVE  MapOf(t)[k] = Undefined
<1>1. Holders(t, k) = {}
  BY DEF Holders
<1> QED
  BY <1>1 DEF MapOf

(* Two tables with the same live nodes stand for the same map. *)
LEMMA SameNodesSameMap ==
  ASSUME NEW t, NEW u, Unique(t), Unique(u),
         \A i \in Indices(t) : Live(t, i) =>
           \E j \in Indices(u) : u.content[j] = t.content[i],
         \A j \in Indices(u) : Live(u, j) =>
           \E i \in Indices(t) : t.content[i] = u.content[j]
  PROVE  MapOf(u) = MapOf(t)
<1>1. ASSUME NEW k \in Key PROVE MapOf(u)[k] = MapOf(t)[k]
  <2>1. CASE \E i \in Indices(t) : Live(t, i) /\ t.content[i].key = k
    <3>1. PICK i \in Indices(t) : Live(t, i) /\ t.content[i].key = k
      BY <2>1
    <3>2. PICK j \in Indices(u) : u.content[j] = t.content[i]
      BY <3>1
    <3>3. Live(u, j) /\ u.content[j].key = k
      BY <3>1, <3>2 DEF Live
    <3>4. MapOf(t)[k] = t.content[i].value
      BY <3>1, MapOfLive
    <3>5. MapOf(u)[k] = u.content[j].value
      BY <3>3, MapOfLive
    <3> QED
      BY <3>2, <3>4, <3>5
  <2>2. CASE \A i \in Indices(t) : Live(t, i) => t.content[i].key # k
    <3>1. \A j \in Indices(u) : Live(u, j) => u.content[j].key # k
      BY <2>2 DEF Live
    <3> QED
      BY <2>2, <3>1, MapOfAbsent
  <2> QED
    BY <2>1, <2>2
<1> QED
  BY <1>1 DEF MapOf

LEMMA MapOfFunction ==
  ASSUME NEW t
  PROVE  MapOf(t) = [k \in Key |-> MapOf(t)[k]]
BY DEF MapOf

(* A lookup answers what the map holds. *)
LEMMA FindAnswers ==
  ASSUME IInv, FindDone
  PROVE  Abs!ServeFind
<1>1. /\ T = hash /\ key \in Key /\ Probing /\ ~Mismatch /\ Unique(hash)
      /\ IsTable(hash) /\ index \in Indices(hash)
  BY CurrentTable DEF T, FindDone, IInv, TypeOK, Probing
<1>2. /\ \A j \in Indices(hash) : Used(hash, j) /\ hash.content[j].key = key => j = index
      /\ Used(hash, index) => hash.content[index].key = key
  BY <1>1, SearchEnds
<1>3. result' = MapOf(hash)[key]
  <2>1. CASE Live(hash, index)
    <3>1. hash.content[index].key = key /\ hash.content[index].value # Null
      BY <2>1, <1>2, ValAssumption DEF Live, Used
    <3>2. MapOf(hash)[key] = hash.content[index].value
      BY <3>1, <2>1, <1>1, MapOfLive
    <3> QED
      BY <3>1, <3>2 DEF FindDone
  <2>2. CASE ~Live(hash, index)
    <3>1. result' = Undefined
      BY <2>2, <1>1 DEF FindDone, Live, IsTable, Node, Stored
    <3>2. \A i \in Indices(hash) : Live(hash, i) => hash.content[i].key # key
      BY <2>2, <1>2, ValAssumption DEF Live, Used
    <3> QED
      BY <3>1, <3>2, <1>1, MapOfAbsent
  <2> QED
    BY <2>1, <2>2
<1>4. Serving = [op |-> "find", key |-> key] /\ Serving' = [op |-> "none"]
  BY DEF Serving, FindDone, Leave
<1>5. hash' = hash
  BY DEF FindDone
<1>6. MapOf(hash)' = MapOf(hash)
  BY <1>5 DEF MapOf, Holders, Live, Indices
<1>7. Serving.op = "find" /\ Serving.key = key
  BY <1>4
<1> QED
  BY <1>3, <1>4, <1>6, <1>7 DEF Abs!ServeFind, Abs!NoCall

(* A store changes the map at its key, to its value, and nowhere else. *)
LEMMA SetStores ==
  ASSUME IInv, SetDone
  PROVE  Abs!ServeSet
<1>1. T = hash /\ Probing /\ ~Mismatch /\ hash' = Written /\ key \in Key /\ value \in Stored
  BY DEF T, SetDone, Probing, IInv, TypeOK
<1>2. /\ Unique(hash') /\ Indices(hash') = Indices(hash) /\ Target \in Indices(hash)
      /\ (hash').content[Target].key = key /\ (hash').content[Target].value = value
      /\ \A i \in Indices(hash) \ {Target} : (hash').content[i] = hash.content[i]
  BY <1>1, WrittenWellFormed
<1>3. GoodTarget(hash, Target, key) /\ Unique(hash)
  BY <1>1, TargetIsGood DEF IInv, KeysUnique
<1>4. MapOf(hash')[key] = value
  <2>1. CASE value \in Val
    <3>1. Live(hash', Target)
      BY <2>1, <1>2 DEF Live
    <3> QED
      BY <3>1, <1>1, <1>2, MapOfLive
  <2>2. CASE value = Undefined
    <3>1. ~Live(hash', Target)
      BY <2>2, <1>2, ValAssumption DEF Live
    <3>2. \A i \in Indices(hash) \ {Target} : Live(hash', i) => (hash').content[i].key # key
      BY <1>2, <1>3, ValAssumption DEF GoodTarget, Live, Used
    <3>3. \A i \in Indices(hash') : Live(hash', i) => (hash').content[i].key # key
      BY <3>1, <3>2, <1>2
    <3> QED
      BY <3>3, <1>1, <2>2, MapOfAbsent
  <2> QED
    BY <2>1, <2>2, <1>1 DEF Stored
<1>5. ASSUME NEW k \in Key, k # key PROVE MapOf(hash')[k] = MapOf(hash)[k]
  <2>1. CASE \E i \in Indices(hash) : Live(hash, i) /\ hash.content[i].key = k
    <3>1. PICK i \in Indices(hash) : Live(hash, i) /\ hash.content[i].key = k
      BY <2>1
    <3>2. i # Target
      BY <3>1, <1>3, <1>5 DEF GoodTarget
    <3>3. (hash').content[i] = hash.content[i] /\ Live(hash', i)
      BY <3>1, <3>2, <1>2 DEF Live
    <3>4. MapOf(hash)[k] = hash.content[i].value
      BY <3>1, <1>3, MapOfLive
    <3>5. MapOf(hash')[k] = (hash').content[i].value
      BY <3>1, <3>3, <1>2, MapOfLive
    <3> QED
      BY <3>3, <3>4, <3>5
  <2>2. CASE \A i \in Indices(hash) : Live(hash, i) => hash.content[i].key # k
    <3>1. \A i \in Indices(hash') : Live(hash', i) => (hash').content[i].key # k
      BY <2>2, <1>2, <1>5 DEF Live
    <3> QED
      BY <2>2, <3>1, MapOfAbsent
  <2> QED
    BY <2>1, <2>2
<1>6. MapOf(hash') = [MapOf(hash) EXCEPT ![key] = value]
  BY <1>4, <1>5, MapOfFunction
<1>7. MapOf(hash)' = MapOf(hash')
  BY DEF MapOf, Holders, Live, Indices
<1>8. /\ Serving = [op |-> "set", key |-> key, value |-> value]
      /\ Serving' = [op |-> "none"]
  BY DEF Serving, SetDone, Leave
<1>9. Serving.op = "set" /\ Serving.key = key /\ Serving.value = value
  BY <1>8
<1>10. result' = result
  BY DEF SetDone
<1> QED
  BY <1>6, <1>7, <1>8, <1>9, <1>10 DEF Abs!ServeSet, Abs!NoCall

(* Steps that leave the caller's table, the answer and the call alone. *)
LEMMA Stutter ==
  ASSUME hash' = hash, result' = result, Serving' = Serving
  PROVE  UNCHANGED Abs!mapVars
<1>1. MapOf(hash)' = MapOf(hash)
  BY DEF MapOf, Holders, Live, Indices
<1> QED
  BY <1>1 DEF Abs!mapVars

(* The table that replaces the caller's has its live nodes. *)
LEMMA RehashKeepsMap ==
  ASSUME IInv, RehashDone
  PROVE  UNCHANGED Abs!mapVars
<1>1. /\ hash' = ret /\ ptr = hash.capacity /\ Unique(hash) /\ Unique(ret)
      /\ pc = "rehash" /\ pc' \in {"shrink?", "idle"} /\ result' = result
      /\ 0 .. ptr - 1 = Indices(hash)
  BY DEF RehashDone, IInv, KeysUnique, Indices
<1>2. /\ \A i \in Indices(hash) : Live(hash, i) =>
           \E j \in Indices(ret) : ret.content[j] = hash.content[i]
      /\ \A j \in Indices(ret) : Used(ret, j) =>
           \E i \in Indices(hash) : Live(hash, i) /\ hash.content[i] = ret.content[j]
  BY <1>1 DEF IInv, RehashCopiesPrefix
<1>3. \A j \in Indices(ret) : Live(ret, j) => Used(ret, j)
  BY ValAssumption DEF Live, Used
<1>4. MapOf(ret) = MapOf(hash)
  BY <1>1, <1>2, <1>3, SameNodesSameMap
<1>5. MapOf(hash)' = MapOf(hash')
  BY DEF MapOf, Holders, Live, Indices
<1>6. Serving' = Serving
  BY <1>1 DEF Serving
<1> QED
  BY <1>1, <1>4, <1>5, <1>6 DEF Abs!mapVars

LEMMA InitRefines == Init => Abs!MapInit
<1> SUFFICES ASSUME Init PROVE Abs!MapInit
  OBVIOUS
<1>1. PICK c \in InitCapacity : hash = NewTable(c)
  BY DEF Init
<1>2. c \in Nat \ {0}
  BY CapacityAssumption
<1>3. \A i \in Indices(hash) : ~Live(hash, i)
  BY <1>1, ValAssumption DEF NewTable, Indices, Live
<1>4. \A k \in Key : MapOf(hash)[k] = Undefined
  BY <1>3, MapOfAbsent
<1>5. MapOf(hash) = [k \in Key |-> Undefined]
  BY <1>4, MapOfFunction
<1>6. Serving = [op |-> "none"] /\ result = Undefined
  BY DEF Init, Serving
<1> QED
  BY <1>5, <1>6 DEF Abs!MapInit, Abs!NoCall

LEMMA NextRefines == IInv /\ [Next]_vars => [Abs!MapNext]_(Abs!mapVars)
<1> SUFFICES ASSUME IInv, [Next]_vars PROVE [Abs!MapNext]_(Abs!mapVars)
  OBVIOUS
<1>1. CASE UNCHANGED vars
  BY <1>1, Stutter DEF vars, Serving
<1>2. ASSUME NEW k \in Key, Find(k) PROVE Abs!CallFind(k)
  <2>1. Serving = [op |-> "none"] /\ Serving' = [op |-> "find", key |-> k]
    BY <1>2 DEF Find, Enter, Serving
  <2>2. MapOf(hash)' = MapOf(hash) /\ result' = result
    BY <1>2 DEF Find, MapOf, Holders, Live, Indices
  <2> QED
    BY <2>1, <2>2 DEF Abs!CallFind, Abs!NoCall
<1>3. ASSUME NEW k \in Key, NEW v \in Val \cup {Null, Undefined}, NEW loop \in {"set", "update"},
             Set(loop, k, v)
      PROVE  Abs!CallSet(k, v)
  <2> DEFINE w == IF v = Null THEN Undefined ELSE v
  <2>1. pc = "idle" /\ pc' = loop /\ key' = k /\ value' = w
    BY <1>3 DEF Set, Enter
  <2>2. Serving = [op |-> "none"] /\ Serving' = [op |-> "set", key |-> k, value |-> w]
    BY <2>1 DEF Serving
  <2>3. MapOf(hash)' = MapOf(hash) /\ result' = result
    BY <1>3 DEF Set, MapOf, Holders, Live, Indices
  <2> QED
    BY <2>2, <2>3 DEF Abs!CallSet, Abs!NoCall
<1>4. CASE Probe
  BY <1>4, Stutter DEF Probe, Serving
<1>5. CASE InsertDone
  BY <1>5, Stutter DEF InsertDone, Leave, Serving
<1>6. CASE Expand \/ Shrink
  BY <1>6, Stutter DEF Expand, Shrink, StartRehash, SkipResize, Serving
<1>7. CASE Rehash
  BY <1>7, Stutter DEF Rehash, Enter, locals, Serving
<1>8. CASE FindDone
  BY <1>8, FindAnswers DEF Abs!MapNext
<1>9. CASE SetDone
  BY <1>9, SetStores DEF Abs!MapNext
<1>10. CASE RehashDone
  BY <1>10, RehashKeepsMap
<1>11. CASE \E k \in Key : Find(k)
  BY <1>11, <1>2 DEF Abs!MapNext
<1>12. CASE \E k \in Key, v \in Val \cup {Null, Undefined}, loop \in {"set", "update"} :
              Set(loop, k, v)
  BY <1>12, <1>3 DEF Abs!MapNext
<1> QED
  BY <1>1, <1>4, <1>5, <1>6, <1>7, <1>8, <1>9, <1>10, <1>11, <1>12 DEF Next, Step

(* The table implements the map of hash.h: each hash_find and hash_set has   *)
(* the effect of its arguments on the map, and resizing has none.            *)
THEOREM TableImplementsMap == Spec => ImplementsMap
<1>1. IInv /\ [Next]_vars => [Abs!MapNext]_(Abs!mapVars)
  BY NextRefines
<1> QED
  BY <1>1, InitRefines, Invariance, PTL DEF Spec, ImplementsMap, Abs!MapSpec
==============================================================================
