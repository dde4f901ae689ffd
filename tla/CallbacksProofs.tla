----------------------------- MODULE CallbacksProofs -----------------------------
(***************************************************************************)
(* What is true of every program: the invariants that the run              *)
(* heap_programs checks, for every value of the constants.  The first half *)
(* is about the heap and its roots outside of a collection, and what each  *)
(* step of a program leaves of them: Calm is what holds between two        *)
(* collections, and each ...Step lemma says that an action keeps it.  Its  *)
(* last part is about any heap: what it shows of the machine that scripts  *)
(* see, and when two heaps show the same; MachineProofs needs it.          *)
(*                                                                         *)
(* The second half is about the copying collector.  A collection starts    *)
(* from Calm and ends in Calm; in between Busy holds: each cell that still *)
(* points into the old block is yet to be marked, and forwarding addresses *)
(* and copies correspond one to one.                                       *)
(***************************************************************************)
EXTENDS Callbacks, WellFoundedInduction, FiniteSetTheorems, SequenceTheorems, TLAPS

------------------------------------------------------------------------------
(* The least number of a set, and induction.                                   *)

(* A set of naturals that is not empty has a least element: the intervals up *)
(* to its members are finite sets, and finite sets are well-founded under    *)
(* strict inclusion.                                                         *)
LEMMA NatMin ==
  ASSUME NEW T \in SUBSET Nat, T # {}
  PROVE  \E m \in T : \A k \in T : m <= k
<1> DEFINE F == {0 .. k : k \in T}
<1>0. \A k \in T : k \in Nat /\ 0 .. k \in SUBSET Nat /\ IsFiniteSet(0 .. k)
  BY FS_Interval
<1>1. F \subseteq FiniteSubsetsOf(Nat) /\ F # {}
  BY <1>0, Zenon DEF FiniteSubsetsOf
<1>2. PICK X \in F : \A Y \in F : <<Y, X>> \notin StrictSubsetOrdering(Nat)
  <2> HIDE DEF F
  <2>1. IsWellFoundedOn(StrictSubsetOrdering(Nat), FiniteSubsetsOf(Nat))
    BY FS_StrictSubsetOrderingWellFounded, Zenon
  <2> QED BY <1>1, <2>1, WFMin, Zenon
<1>3. PICK m \in T : X = 0 .. m
  OBVIOUS
<1>4. ASSUME NEW k \in T PROVE m <= k
  <2>1. <<0 .. k, 0 .. m>> \notin StrictSubsetOrdering(Nat)
    BY <1>2, <1>3
  <2>2. ~(0 .. k \subseteq 0 .. m /\ 0 .. k # 0 .. m)
    BY <2>1, <1>0, Zenon DEF StrictSubsetOrdering
  <2>3. SUFFICES ASSUME k < m PROVE FALSE
    BY <1>0
  <2> QED BY <2>2, <2>3, <1>0
<1> QED BY <1>4

(* Induction, for a set instead of a predicate: what holds of 0 and passes   *)
(* on to the next number is the set of all naturals.                         *)
LEMMA NatInd ==
  ASSUME NEW S, 0 \in S, \A n \in Nat : n \in S => n + 1 \in S
  PROVE  Nat \subseteq S
<1>1. SUFFICES ASSUME Nat \ S # {} PROVE FALSE
  OBVIOUS
<1>2. PICK m \in Nat \ S : \A k \in Nat \ S : m <= k
  BY <1>1, NatMin
<1>3. m # 0 /\ m - 1 \in Nat
  BY <1>2
<1> QED BY <1>2, <1>3

------------------------------------------------------------------------------
(* Values, without the bound that a block puts on addresses (PlacesBounded  *)
(* has it).                                                                  *)
Pointer == {0, 1} \X (Nat \ {0})
Datum == {Undefined, Zero} \cup Pointer
Fields == UNION {[S -> Datum \ {Undefined}] : S \in {T \in SUBSET Nat : IsFiniteSet(T)}}
Object == [type : {"object", "closure", "redirect", "left"}, cap : Nat, fields : Fields,
           fwd : Pointer \cup {Undefined}, id : Ids \cup {NoId}]
FrameType == [regs : [Reg -> Datum], rd : Reg]
CallType == [fn : {"none", "import", "foreach"}, rd : Reg, array : Datum, callback : Datum, done : Nat]
SceneType == [external : Pointer, frames : Seq(FrameType) \ {<<>>}, caller : CallType]
RequestType ==
  [op : {"none", "new", "grow", "import", "cb_arg", "external", "scene"},
   type : {"none", "object", "closure"}, cap : Nat, reg : Reg,
   captured : UNION {[S -> Reg] : S \in SUBSET Reg}, args : Datum, retry : BOOLEAN]
Cell ==
  {<<"global">>} \cup ({"external"} \X Nat) \cup ({"reg"} \X Nat \X Nat \X Reg)
    \cup ({"field"} \X Pointer \X Nat)

Typed ==
  /\ heap \in [{0, 1} -> Seq(Object)] /\ used \in [{0, 1} -> Nat] /\ current \in {0, 1}
  /\ global \in Pointer /\ scenes \in Seq(SceneType) \ {<<>>}
  /\ pc \in {"run", "native", "alloc", "gc", "oom"} /\ pending \in RequestType
  /\ todo \in Seq(Cell) /\ native \in CallType /\ program \in Programs

Heaps == [{0, 1} -> Seq(Object)]
At(h, p) == h[p[1]][p[2]]
In(h) == {p \in Pointer : p[2] <= Len(h[p[1]])}
Places == In(heap)
Other == 1 - current
PtrsOf(o) == {o.fields[k] : k \in DOMAIN o.fields} \cap Pointer

(* Pointers are what IsPtr accepts among the values (IS_PTR in value.h). *)
LEMMA PointerIs ==
  /\ \A v \in Datum : IsPtr(v) <=> v \in Pointer
  /\ \A v \in Pointer : /\ v[1] \in {0, 1} /\ v[2] \in Nat \ {0} /\ v = <<v[1], v[2]>>
                        /\ v # Undefined /\ v # Zero
  /\ NoId = Undefined /\ Undefined \notin Pointer /\ Zero \notin Pointer
BY DEF Datum, Pointer, IsPtr, Undefined, Zero, NoId

(* The object at a place of the heap. *)
LEMMA ObjTyped ==
  ASSUME Typed, NEW p \in Places
  PROVE  /\ p \in Pointer /\ p[1] \in {0, 1} /\ p[2] \in 1 .. Len(heap[p[1]]) /\ p = <<p[1], p[2]>>
         /\ Obj(p) \in Object
<1>1. p \in Pointer /\ p[1] \in {0, 1} /\ p[2] \in Nat \ {0} /\ p = <<p[1], p[2]>> /\ p[2] <= Len(heap[p[1]])
  BY PointerIs DEF Places, In
<1>2. heap[p[1]] \in Seq(Object)
  BY <1>1 DEF Typed
<1>3. Len(heap[p[1]]) \in Nat
  BY <1>2, LenProperties
<1>4. p[2] \in 1 .. Len(heap[p[1]])
  BY <1>1, <1>3
<1>5. heap[p[1]][p[2]] \in Object
  BY <1>2, <1>4, ElementOfSeq
<1> QED BY <1>1, <1>4, <1>5 DEF Obj

(* Every index of a block is a place. *)
LEMMA PlaceIs ==
  ASSUME Typed, NEW b \in {0, 1}, NEW i \in 1 .. Len(heap[b])
  PROVE  <<b, i>> \in Places
<1>1. heap[b] \in Seq(Object)
  BY DEF Typed
<1>2. Len(heap[b]) \in Nat
  BY <1>1, LenProperties
<1> QED BY <1>2 DEF Places, In, Pointer

(* The parts of an object. *)
LEMMA ObjectIs ==
  ASSUME NEW o \in Object
  PROVE  /\ o.type \in {"object", "closure", "redirect", "left"} /\ o.cap \in Nat /\ o.fields \in Fields
         /\ o.fwd \in Pointer \cup {Undefined} /\ o.id \in Ids \cup {NoId}
         /\ o = [type |-> o.type, cap |-> o.cap, fields |-> o.fields, fwd |-> o.fwd, id |-> o.id]
         /\ IsFiniteSet(DOMAIN o.fields) /\ DOMAIN o.fields \subseteq Nat
         /\ \A k \in DOMAIN o.fields : o.fields[k] \in Datum \ {Undefined}
         /\ o.fields = [k \in DOMAIN o.fields |-> o.fields[k]]
<1>1. /\ o.type \in {"object", "closure", "redirect", "left"} /\ o.cap \in Nat /\ o.fields \in Fields
      /\ o.fwd \in Pointer \cup {Undefined} /\ o.id \in Ids \cup {NoId}
      /\ o = [type |-> o.type, cap |-> o.cap, fields |-> o.fields, fwd |-> o.fwd, id |-> o.id]
  BY DEF Object
<1>2. PICK S \in {T \in SUBSET Nat : IsFiniteSet(T)} : o.fields \in [S -> Datum \ {Undefined}]
  BY <1>1 DEF Fields
<1> QED BY <1>1, <1>2

(* A function from finitely many keys to values is the fields of an object. *)
LEMMA FieldsTyped ==
  ASSUME NEW S \in SUBSET Nat, IsFiniteSet(S), NEW f \in [S -> Datum \ {Undefined}]
  PROVE  f \in Fields
BY DEF Fields

------------------------------------------------------------------------------
(* Changes of the heap *)
Grown(h, b, o) == [h EXCEPT ![b] = Append(@, o)]
Store(h, p, o) == [h EXCEPT ![p[1]][p[2]] = o]

GrowsTo(h, b, o, k, q) ==
  /\ k \in Heaps /\ Len(h[b]) \in Nat
  /\ q \in Pointer /\ q[1] = b /\ q[2] = Len(h[b]) + 1
  /\ In(k) = In(h) \cup {q} /\ q \notin In(h)
  /\ At(k, q) = o /\ \A p \in In(h) : At(k, p) = At(h, p)
  /\ Len(k[b]) = Len(h[b]) + 1 /\ k[1 - b] = h[1 - b]

(* What appending an object to a block does (young_gen_new_...). *)
LEMMA GrownIs ==
  ASSUME NEW h \in Heaps, NEW b \in {0, 1}, NEW o \in Object
  PROVE  GrowsTo(h, b, o, Grown(h, b, o), <<b, Len(h[b]) + 1>>)
<1> DEFINE g == Grown(h, b, o)  q == <<b, Len(h[b]) + 1>>
<1>1. h[b] \in Seq(Object) /\ Len(h[b]) \in Nat
  BY LenProperties DEF Heaps
<1>2. Append(h[b], o) \in Seq(Object) /\ Len(Append(h[b], o)) = Len(h[b]) + 1
      /\ Append(h[b], o)[Len(h[b]) + 1] = o
      /\ \A i \in 1 .. Len(h[b]) : Append(h[b], o)[i] = h[b][i]
  BY <1>1, AppendProperties
<1>3. g[b] = Append(h[b], o) /\ (\A c \in {0, 1} : c # b => g[c] = h[c]) /\ g = [c \in {0, 1} |-> g[c]]
  BY DEF Grown, Heaps
<1>4. g \in Heaps
  <2>1. \A c \in {0, 1} : g[c] \in Seq(Object)
    BY <1>2, <1>3 DEF Heaps
  <2> HIDE DEF g
  <2> QED BY <2>1, <1>3, Zenon DEF Heaps
<1>5. q \in Pointer /\ q[1] = b /\ q[2] = Len(h[b]) + 1
  BY <1>1 DEF Pointer
<1> HIDE DEF g, q
<1>6. q \notin In(h)
  BY <1>1, <1>5 DEF In
<1>7. \A p \in Pointer : p \in In(g) <=> p \in In(h) \/ p = q
  <2> SUFFICES ASSUME NEW p \in Pointer PROVE p \in In(g) <=> p \in In(h) \/ p = q
    OBVIOUS
  <2>1. p[1] \in {0, 1} /\ p[2] \in Nat \ {0} /\ p = <<p[1], p[2]>>
    BY PointerIs
  <2>2. CASE p[1] = b
    <3>1. p = q <=> p[2] = Len(h[b]) + 1
      BY <2>1, <2>2, <1>5 DEF q
    <3>2. Len(g[p[1]]) = Len(h[b]) + 1
      BY <1>2, <1>3, <2>2
    <3> QED BY <3>1, <3>2, <2>1, <2>2, <1>1 DEF In
  <2>3. CASE p[1] # b
    BY <2>1, <2>3, <1>3, <1>5 DEF In
  <2> QED BY <2>2, <2>3
<1>8. In(g) = In(h) \cup {q}
  BY <1>5, <1>7 DEF In
<1>9. ASSUME NEW p \in In(h) PROVE At(g, p) = At(h, p)
  <2>1. p[1] \in {0, 1} /\ p[2] \in Nat \ {0} /\ p[2] <= Len(h[p[1]])
    BY PointerIs DEF In
  <2>2. CASE p[1] = b
    <3>1. p[2] \in 1 .. Len(h[b])
      BY <2>1, <2>2, <1>1
    <3> QED BY <3>1, <2>2, <1>2, <1>3 DEF At
  <2>3. CASE p[1] # b
    BY <2>1, <2>3, <1>3 DEF At
  <2> QED BY <2>2, <2>3
<1>10. At(g, q) = o
  BY <1>2, <1>3, <1>5 DEF At
<1>11. 1 - b \in {0, 1} /\ 1 - b # b
  OBVIOUS
<1>12. GrowsTo(h, b, o, g, q)
  BY <1>1, <1>2, <1>3, <1>4, <1>5, <1>6, <1>8, <1>9, <1>10, <1>11 DEF GrowsTo
<1> QED BY <1>12 DEF g, q

(* What changing the object at a place does. *)
LEMMA StoreIs ==
  ASSUME NEW h \in Heaps, NEW p \in In(h), NEW o \in Object
  PROVE  /\ Store(h, p, o) \in Heaps
         /\ In(Store(h, p, o)) = In(h)
         /\ \A x \in In(h) : At(Store(h, p, o), x) = IF x = p THEN o ELSE At(h, x)
         /\ \A b \in {0, 1} : Len(Store(h, p, o)[b]) = Len(h[b])
         /\ \A b \in {0, 1} : b # p[1] => Store(h, p, o)[b] = h[b]
<1> DEFINE g == Store(h, p, o)
<1>1. p \in Pointer /\ p[1] \in {0, 1} /\ p[2] \in Nat \ {0} /\ p[2] <= Len(h[p[1]]) /\ p = <<p[1], p[2]>>
  BY PointerIs DEF In
<1>2. h[p[1]] \in Seq(Object) /\ Len(h[p[1]]) \in Nat
  BY <1>1, LenProperties DEF Heaps
<1>3. p[2] \in 1 .. Len(h[p[1]])
  BY <1>1, <1>2
<1> DEFINE t == [h[p[1]] EXCEPT ![p[2]] = o]
<1>4. t \in Seq(Object) /\ Len(t) = Len(h[p[1]])
      /\ \A j \in 1 .. Len(h[p[1]]) : t[j] = IF j = p[2] THEN o ELSE h[p[1]][j]
  BY <1>2, <1>3, ExceptSeq
<1>5. g[p[1]] = t /\ (\A c \in {0, 1} : c # p[1] => g[c] = h[c]) /\ g = [c \in {0, 1} |-> g[c]]
  BY <1>1 DEF Store, Heaps
<1> HIDE DEF g, t
<1>6. g \in Heaps
  <2>1. \A c \in {0, 1} : g[c] \in Seq(Object)
    BY <1>4, <1>5 DEF Heaps
  <2> QED BY <2>1, <1>5, Zenon DEF Heaps
<1>7. \A b \in {0, 1} : Len(g[b]) = Len(h[b])
  BY <1>1, <1>4, <1>5
<1>8. In(g) = In(h)
  BY <1>7, PointerIs DEF In
<1>9. ASSUME NEW x \in In(h) PROVE At(g, x) = IF x = p THEN o ELSE At(h, x)
  <2>1. x[1] \in {0, 1} /\ x[2] \in Nat \ {0} /\ x[2] <= Len(h[x[1]]) /\ x = <<x[1], x[2]>>
    BY PointerIs DEF In
  <2>2. CASE x[1] = p[1]
    <3>1. x[2] \in 1 .. Len(h[p[1]])
      BY <2>1, <2>2, <1>2
    <3>2. x = p <=> x[2] = p[2]
      BY <1>1, <2>1, <2>2
    <3> QED BY <3>1, <3>2, <2>2, <1>4, <1>5 DEF At
  <2>3. CASE x[1] # p[1]
    BY <2>1, <2>3, <1>5 DEF At
  <2> QED BY <2>2, <2>3
<1> QED BY <1>5, <1>6, <1>7, <1>8, <1>9 DEF g

------------------------------------------------------------------------------
(* Headers. *)
Headers ==
  \A p \in Places :
    /\ Obj(p).type = "redirect" =>
         /\ p[1] = current
         /\ Obj(p).fwd \in Places /\ Obj(p).fwd[1] = current /\ Obj(p).fwd[2] > p[2]
         /\ Obj(Obj(p).fwd).id = Obj(p).id
    /\ Obj(p).type = "left" =>
         /\ p[1] = current /\ pc = "gc" /\ Obj(p).cap = 0
         /\ Obj(p).fwd \in Places /\ Obj(p).fwd[1] = Other
         /\ Obj(Obj(p).fwd).id = Obj(p).id
    /\ Obj(p).type \in {"object", "closure"} => Obj(p).fwd = Undefined

Units(t) == {u \in (1 .. Len(t)) \X Nat : t[u[1]].type # "left" /\ u[2] <= t[u[1]].cap}
Volume ==
  /\ \A b \in {0, 1} : IsFiniteSet(Units(heap[b])) /\ Len(heap[b]) <= BlockSize
  /\ Cardinality(Units(heap[Other])) <= used[Other]
  /\ Cardinality(Units(heap[current])) + used[Other] <= used[current]
  /\ used[current] <= BlockSize
  /\ pc # "gc" => heap[Other] = <<>> /\ used[Other] = 0

(* The numbers of a program, by HeapAssumption. *)
LEMMA BlockSizeIs ==
  ASSUME program \in Programs
  PROVE  BlockSize \in Nat /\ BlockSize >= 4 /\ program.growAt \in Nat \ {0} /\ program.shrinkBelow \in Nat
BY HeapAssumption DEF BlockSize

(* While Volume holds, the places are the addresses that Resolve and Denote are defined on. *)
LEMMA PlacesAre ==
  ASSUME Typed, Volume
  PROVE  Places = Allotted
<1> SUFFICES ASSUME NEW p PROVE p \in Places <=> p \in Allotted
  OBVIOUS
<1>1. BlockSize \in Nat
  BY BlockSizeIs DEF Typed
<1>2. ASSUME p \in Places PROVE p \in Allotted
  <2>1. p \in Pointer /\ p[1] \in {0, 1} /\ p[2] \in 1 .. Len(heap[p[1]]) /\ p = <<p[1], p[2]>>
    BY <1>2, ObjTyped
  <2>2. heap[p[1]] \in Seq(Object)
    BY <2>1 DEF Typed
  <2>3. Len(heap[p[1]]) \in Nat /\ Len(heap[p[1]]) <= BlockSize
    BY <2>1, <2>2, LenProperties DEF Volume
  <2> QED BY <2>1, <2>3, <1>1 DEF Allotted, Address, IsAddress
<1>3. ASSUME p \in Allotted PROVE p \in Places
  <2>1. p[1] \in {0, 1} /\ p[2] \in 1 .. Len(heap[p[1]]) /\ p = <<p[1], p[2]>>
    BY <1>3 DEF Allotted, Address, IsAddress
  <2> QED BY <2>1, PlaceIs, Typed
<1> QED BY <1>2, <1>3

(* The loops that follow headers end. X: the headers followed. *)
LEMMA Following ==
  ASSUME Typed, Headers, Volume,
         NEW X \in SUBSET Places, \A p \in X : Obj(p).type \in {"redirect", "left"}
  PROVE  /\ \E f : f = [q \in Places |-> IF q \in X THEN f[Obj(q).fwd] ELSE q]
         /\ \A f : f = [q \in Places |-> IF q \in X THEN f[Obj(q).fwd] ELSE q] =>
              \A p \in Places : /\ f[p] \in Places \ X /\ Obj(f[p]).id = Obj(p).id
                                /\ p \notin X => f[p] = p
                                /\ (\A q \in X : Obj(q).type = "redirect") => f[p][1] = p[1]
<1> DEFINE D(m) == {q \in Places : q[1] # current \/ q[2] + m > BlockSize}
           Is(f, m) == f = [q \in D(m) |-> IF q \in X THEN f[Obj(q).fwd] ELSE q]
           S == {m \in Nat : \E f : Is(f, m)}
<1>0. BlockSize \in Nat /\ current \in {0, 1}
  BY BlockSizeIs DEF Typed
<1>1. ASSUME NEW q \in Places
      PROVE  /\ q[1] \in {0, 1} /\ q[2] \in 1 .. BlockSize
             /\ q \in X => /\ q[1] = current /\ Obj(q).fwd \in Places
                           /\ Obj(q).fwd[1] # current \/ Obj(q).fwd[2] > q[2]
                           /\ Obj(Obj(q).fwd).id = Obj(q).id
                           /\ Obj(q).type = "redirect" => Obj(q).fwd[1] = current
  <2>1. q[1] \in {0, 1} /\ q[2] \in 1 .. Len(heap[q[1]])
    BY ObjTyped
  <2>2. heap[q[1]] \in Seq(Object)
    BY <2>1 DEF Typed
  <2>3. q[2] \in 1 .. BlockSize
    BY <2>1, <2>2, <1>0, LenProperties DEF Volume
  <2>4. Other # current
    BY <1>0 DEF Other
  <2> QED BY <2>1, <2>3, <2>4 DEF Headers
<1>2. D(0) \cap X = {} /\ D(BlockSize) = Places
  BY <1>0, <1>1
<1>3. ASSUME NEW m \in Nat, NEW q \in D(m + 1), q \in X
      PROVE  Obj(q).fwd \in D(m)
  BY <1>0, <1>1, <1>3
<1>4. \A m \in Nat : D(m) \subseteq D(m + 1)
  BY <1>0, <1>1
<1>5. 0 \in S
  <2> DEFINE f == [q \in D(0) |-> q]
  <2>1. Is(f, 0)
    BY <1>2
  <2> QED BY <2>1
<1>6. ASSUME NEW m \in Nat, m \in S PROVE m + 1 \in S
  <2>1. PICK f : Is(f, m)
    BY <1>6
  <2> DEFINE g == [q \in D(m + 1) |-> IF q \in X THEN f[Obj(q).fwd] ELSE q]
  <2>2. ASSUME NEW q \in D(m) PROVE f[q] = g[q]
    BY <2>1, <1>4
  <2>3. ASSUME NEW q \in D(m + 1), q \in X PROVE f[Obj(q).fwd] = g[Obj(q).fwd]
    BY <1>3, <2>2, <2>3
  <2>4. g = [q \in D(m + 1) |-> IF q \in X THEN g[Obj(q).fwd] ELSE q]
    <3>1. \A q \in D(m + 1) : (IF q \in X THEN f[Obj(q).fwd] ELSE q) = (IF q \in X THEN g[Obj(q).fwd] ELSE q)
      BY <2>3
    <3> QED BY <3>1
  <2>5. Is(g, m + 1)
    BY <2>4
  <2> HIDE DEF g, Is
  <2> QED BY <2>5
<1>7. \E f : f = [q \in Places |-> IF q \in X THEN f[Obj(q).fwd] ELSE q]
  <2>1. BlockSize \in S
    <3> HIDE DEF S
    <3> QED BY <1>0, <1>5, <1>6, NatInd
  <2>2. PICK f : Is(f, BlockSize)
    BY <2>1
  <2>3. f = [q \in Places |-> IF q \in X THEN f[Obj(q).fwd] ELSE q]
    BY <2>2, <1>2
  <2> QED BY <2>3
<1>8. ASSUME NEW f, f = [q \in Places |-> IF q \in X THEN f[Obj(q).fwd] ELSE q], NEW p \in Places
      PROVE  /\ f[p] \in Places \ X /\ Obj(f[p]).id = Obj(p).id
             /\ p \notin X => f[p] = p
             /\ (\A q \in X : Obj(q).type = "redirect") => f[p][1] = p[1]
  <2> DEFINE Fine(q) == /\ f[q] \in Places \ X /\ Obj(f[q]).id = Obj(q).id
                        /\ q \notin X => f[q] = q
                        /\ (\A x \in X : Obj(x).type = "redirect") => f[q][1] = q[1]
             T == {m \in Nat : \A q \in D(m) : Fine(q)}
  <2>1. ASSUME NEW q \in Places, q \notin X PROVE Fine(q)
    BY <1>8, <2>1
  <2>2. ASSUME NEW q \in Places, q \in X, Fine(Obj(q).fwd) PROVE Fine(q)
    <3>1. f[q] = f[Obj(q).fwd]
      BY <1>8, <2>2
    <3> QED BY <3>1, <2>2, <1>1
  <2>3. 0 \in T
    BY <2>1, <1>2
  <2>4. ASSUME NEW m \in Nat, m \in T PROVE m + 1 \in T
    <3> SUFFICES ASSUME NEW q \in D(m + 1) PROVE Fine(q)
      OBVIOUS
    <3>1. CASE q \in X
      <4>1. Obj(q).fwd \in D(m)
        BY <3>1, <1>3
      <4>2. Fine(Obj(q).fwd)
        BY <4>1, <2>4
      <4> HIDE DEF Fine
      <4> QED BY <3>1, <4>2, <2>2
    <3>2. CASE q \notin X
      BY <3>2, <2>1
    <3> QED BY <3>1, <3>2
  <2>5. BlockSize \in T
    <3> HIDE DEF T
    <3> QED BY <1>0, <2>3, <2>4, NatInd
  <2>6. p \in D(BlockSize)
    BY <1>2
  <2> HIDE DEF D
  <2> QED BY <2>5, <2>6
<1> QED BY <1>7, <1>8

(* The loop of Resolve ends at a table with the same identity. *)
LEMMA ResolveIs ==
  ASSUME Typed, Headers, Volume, NEW p \in Places
  PROVE  /\ Resolve(p) \in Places /\ Resolve(p)[1] = p[1]
         /\ Obj(Resolve(p)).type # "redirect" /\ Obj(Resolve(p)).id = Obj(p).id
         /\ Obj(p).type # "redirect" => Resolve(p) = p
<1> DEFINE X == {q \in Places : Obj(q).type = "redirect"}
           Is(f) == f = [q \in Places |-> IF Obj(q).type = "redirect" THEN f[Obj(q).fwd] ELSE q]
           Same(f) == f = [q \in Places |-> IF q \in X THEN f[Obj(q).fwd] ELSE q]
<1>1. \A f : Is(f) <=> Same(f)
  <2> TAKE f
  <2>1. \A q \in Places : (IF Obj(q).type = "redirect" THEN f[Obj(q).fwd] ELSE q)
                            = (IF q \in X THEN f[Obj(q).fwd] ELSE q)
    OBVIOUS
  <2> QED BY <2>1
<1>2. X \in SUBSET Places /\ \A q \in X : Obj(q).type \in {"redirect", "left"} /\ Obj(q).type = "redirect"
  OBVIOUS
<1>3. /\ \E f : Same(f)
      /\ \A f : Same(f) => \A q \in Places : /\ f[q] \in Places \ X /\ Obj(f[q]).id = Obj(q).id
                                             /\ q \notin X => f[q] = q
                                             /\ f[q][1] = q[1]
  <2> HIDE DEF X
  <2> QED BY <1>2, Following
<1>4. Resolve(p) = (CHOOSE f : Is(f))[p]
  BY PlacesAre DEF Resolve
<1>5. Same(CHOOSE f : Is(f))
  <2> HIDE DEF Is, Same
  <2> QED BY <1>1, <1>3
<1>6. PICK g : g = CHOOSE f : Is(f)
  OBVIOUS
<1>7. Same(g) /\ Resolve(p) = g[p]
  <2> HIDE DEF Is, Same
  <2> QED BY <1>4, <1>5, <1>6, Zenon
<1>8. /\ g[p] \in Places \ X /\ Obj(g[p]).id = Obj(p).id
      /\ p \notin X => g[p] = p
      /\ g[p][1] = p[1]
  <2> HIDE DEF Same
  <2> QED BY <1>3, <1>7
<1> QED BY <1>7, <1>8

------------------------------------------------------------------------------
(* The numbers up to n are n. *)
LEMMA UpTo == ASSUME NEW n \in Nat PROVE IsFiniteSet(1 .. n) /\ Cardinality(1 .. n) = n
<1>1. \A i, j \in Int : IsFiniteSet(i .. j) /\ Cardinality(i .. j) = IF i > j THEN 0 ELSE j - i + 1
  BY FS_Interval
<1>2. PICK i \in Int : i = 1
  OBVIOUS
<1>3. PICK j \in Int : j = n
  OBVIOUS
<1>4. PICK x : x = Cardinality(i .. j)
  OBVIOUS
<1>5. IsFiniteSet(i .. j) /\ x = IF i > j THEN 0 ELSE j - i + 1
  BY <1>1, <1>4, Zenon
<1>6. x = n
  BY <1>2, <1>3, <1>5
<1> QED BY <1>2, <1>3, <1>4, <1>5, <1>6

(* An object takes as many units as it has words: the header and its capacity. *)
LEMMA Row ==
  ASSUME NEW i \in Nat, NEW c \in Nat
  PROVE  IsFiniteSet({i} \X (0 .. c)) /\ Cardinality({i} \X (0 .. c)) = c + 1
<1> DEFINE f == [j \in 0 .. c |-> <<i, j>>]
<1>1. f \in Bijection(0 .. c, {i} \X (0 .. c))
  <2>1. f \in [0 .. c -> {i} \X (0 .. c)]
    OBVIOUS
  <2>2. IsInjective(f)
    BY DEF IsInjective
  <2>3. \A u \in {i} \X (0 .. c) : \E j \in 0 .. c : f[j] = u
    <3> TAKE u \in {i} \X (0 .. c)
    <3>1. u[2] \in 0 .. c /\ u = <<i, u[2]>>
      OBVIOUS
    <3> QED BY <3>1
  <2> HIDE DEF f
  <2> QED BY <2>1, <2>2, <2>3 DEF Bijection, Injection, Surjection
<1>2. ExistsBijection(0 .. c, {i} \X (0 .. c))
  BY <1>1 DEF ExistsBijection
<1>3. IsFiniteSet(0 .. c) /\ Cardinality(0 .. c) = c + 1
  BY FS_Interval
<1> QED BY <1>2, <1>3, FS_Bijection

(* The units of a block bound the capacity and the number of its objects. *)
LEMMA UnitsBound ==
  ASSUME NEW t \in Seq(Object), IsFiniteSet(Units(t))
  PROVE  /\ Cardinality(Units(t)) \in Nat
         /\ \A i \in 1 .. Len(t) : t[i].type # "left" => t[i].cap + 1 <= Cardinality(Units(t))
         /\ (\A i \in 1 .. Len(t) : t[i].type # "left") => Len(t) <= Cardinality(Units(t))
<1>a. Len(t) \in Nat
  BY LenProperties
<1>b. \A i \in 1 .. Len(t) : t[i] \in Object
  BY ElementOfSeq
<1>0. Len(t) \in Nat /\ \A i \in 1 .. Len(t) : i \in Nat /\ t[i].cap \in Nat
  <2>1. ASSUME NEW i \in 1 .. Len(t) PROVE i \in Nat /\ t[i].cap \in Nat
    <3>1. t[i] \in Object
      BY <1>b
    <3> QED BY <3>1 DEF Object
  <2> QED BY <1>a, <2>1
<1>1. Cardinality(Units(t)) \in Nat
  BY FS_CardinalityType
<1>2. ASSUME NEW i \in 1 .. Len(t), t[i].type # "left" PROVE t[i].cap + 1 <= Cardinality(Units(t))
  <2>1. {i} \X (0 .. t[i].cap) \in SUBSET Units(t)
    BY <1>0, <1>2 DEF Units
  <2>2. Cardinality({i} \X (0 .. t[i].cap)) = t[i].cap + 1
    <3>1. i \in Nat /\ t[i].cap \in Nat
      BY <1>0
    <3> QED BY <3>1, Row, Zenon
  <2>3. Cardinality({i} \X (0 .. t[i].cap)) <= Cardinality(Units(t))
    BY <2>1, FS_Subset
  <2> QED BY <2>2, <2>3
<1>3. ASSUME \A i \in 1 .. Len(t) : t[i].type # "left" PROVE Len(t) <= Cardinality(Units(t))
  <2> DEFINE f == [i \in 1 .. Len(t) |-> <<i, 0>>]
  <2>1. f \in Injection(1 .. Len(t), Units(t))
    BY <1>0, <1>3 DEF Injection, IsInjective, Units
  <2>2. Cardinality(1 .. Len(t)) = Len(t)
    BY <1>0, UpTo
  <2>3. Cardinality(1 .. Len(t)) <= Cardinality(Units(t))
    <3> HIDE DEF f
    <3> QED BY <2>1, FS_Injection
  <2> QED BY <2>2, <2>3
<1> QED BY <1>1, <1>2, <1>3

(* A new object takes 1 + cap units. *)
LEMMA UnitsGrown ==
  ASSUME NEW h \in Heaps, NEW b \in {0, 1}, NEW o \in Object, o.type # "left",
         \A c \in {0, 1} : IsFiniteSet(Units(h[c]))
  PROVE  /\ \A c \in {0, 1} : IsFiniteSet(Units(Grown(h, b, o)[c]))
         /\ Cardinality(Units(Grown(h, b, o)[b])) = Cardinality(Units(h[b])) + o.cap + 1
         /\ \A c \in {0, 1} : c # b => Units(Grown(h, b, o)[c]) = Units(h[c])
<1> DEFINE t == h[b]  a == Append(t, o)  row == {Len(t) + 1} \X (0 .. o.cap)
<1>1. t \in Seq(Object) /\ Len(t) \in Nat /\ o.cap \in Nat
  BY LenProperties, ObjectIs DEF Heaps
<1>2. Len(a) = Len(t) + 1 /\ a[Len(t) + 1] = o /\ \A i \in 1 .. Len(t) : a[i] = t[i]
  BY <1>1, AppendProperties
<1>3. Grown(h, b, o)[b] = a /\ \A c \in {0, 1} : c # b => Grown(h, b, o)[c] = h[c]
  BY DEF Grown, Heaps
<1> HIDE DEF a, t
<1>4. Units(a) = Units(t) \cup row /\ Units(t) \cap row = {}
  BY <1>1, <1>2 DEF Units
<1>5. IsFiniteSet(row) /\ Cardinality(row) = o.cap + 1
  <2>1. Len(t) + 1 \in Nat /\ o.cap \in Nat
    BY <1>1
  <2> QED BY <2>1, Row, Zenon
<1>6. IsFiniteSet(Units(t)) /\ Cardinality(Units(t)) \in Nat
  BY FS_CardinalityType DEF t
<1>7. Cardinality({}) = 0
  BY FS_EmptySet
<1> HIDE DEF row
<1>8. IsFiniteSet(Units(t) \cup row) /\ Cardinality(Units(t) \cup row)
        = Cardinality(Units(t)) + Cardinality(row) - Cardinality(Units(t) \cap row)
  BY <1>5, <1>6, FS_Union
<1>9. Cardinality(Units(a)) = Cardinality(Units(t)) + o.cap + 1 /\ IsFiniteSet(Units(a))
  <2>1. Cardinality(Units(t) \cap row) = 0
    BY <1>4, <1>7
  <2> QED BY <1>1, <1>4, <1>5, <1>6, <1>8, <2>1
<1> QED BY <1>3, <1>9 DEF t

(* A header that is left behind, or a smaller object, takes no more units. *)
LEMMA UnitsStore ==
  ASSUME NEW h \in Heaps, NEW p \in In(h), NEW o \in Object, At(h, p).type # "left",
         \A c \in {0, 1} : IsFiniteSet(Units(h[c]))
  PROVE  /\ o.type = "left" \/ o.cap <= At(h, p).cap =>
              \A c \in {0, 1} : /\ IsFiniteSet(Units(Store(h, p, o)[c]))
                                /\ Cardinality(Units(Store(h, p, o)[c])) <= Cardinality(Units(h[c]))
         /\ o.type = "left" =>
              Cardinality(Units(Store(h, p, o)[p[1]])) + At(h, p).cap + 1 = Cardinality(Units(h[p[1]]))
         /\ \A c \in {0, 1} : c # p[1] => Units(Store(h, p, o)[c]) = Units(h[c])
<1> DEFINE b == p[1]  t == h[b]  i == p[2]  a == [t EXCEPT ![i] = o]
<1>1. /\ b \in {0, 1} /\ i \in Nat \ {0} /\ i <= Len(t) /\ t \in Seq(Object) /\ Len(t) \in Nat
  BY PointerIs, LenProperties DEF In, Heaps
<1>2. i \in 1 .. Len(t)
  BY <1>1
<1>3. Len(a) = Len(t) /\ \A j \in 1 .. Len(t) : a[j] = IF j = i THEN o ELSE t[j]
  BY <1>1, <1>2, ExceptSeq
<1>4. Store(h, p, o)[b] = a /\ \A c \in {0, 1} : c # b => Store(h, p, o)[c] = h[c]
  BY <1>1 DEF Store, Heaps
<1>5. t[i] = At(h, p) /\ t[i] \in Object /\ t[i].cap \in Nat /\ o.cap \in Nat
  <2>1. t[i] = At(h, p)
    BY DEF At
  <2>2. t[i] \in Object
    BY <1>1, <1>2, ElementOfSeq
  <2> QED BY <2>1, <2>2, ObjectIs
<1> DEFINE row == {i} \X (0 .. t[i].cap)
<1> HIDE DEF a, t, b, i
<1>6. IsFiniteSet(Units(t)) /\ Cardinality(Units(t)) \in Nat
  BY <1>1, FS_CardinalityType DEF t
<1>7. ASSUME o.type = "left" \/ o.cap <= At(h, p).cap
      PROVE  Units(a) \subseteq Units(t)
  BY <1>2, <1>3, <1>5, <1>7 DEF Units
<1>8. ASSUME o.type = "left"
      PROVE  Cardinality(Units(a)) + t[i].cap + 1 = Cardinality(Units(t))
  <2>1. Units(a) = Units(t) \ row /\ row \subseteq Units(t)
    BY <1>2, <1>3, <1>5, <1>8 DEF Units
  <2>2. IsFiniteSet(row) /\ Cardinality(row) = t[i].cap + 1
    BY <1>1, <1>5, Row
  <2> HIDE DEF row
  <2>3. Cardinality(Units(t) \ row) = Cardinality(Units(t)) - Cardinality(Units(t) \cap row)
    BY <1>6, FS_Difference
  <2>4. Units(t) \cap row = row
    BY <2>1
  <2> QED BY <2>1, <2>2, <2>3, <2>4, <1>5, <1>6
<1>9. ASSUME o.type = "left" \/ o.cap <= At(h, p).cap
      PROVE  IsFiniteSet(Units(a)) /\ Cardinality(Units(a)) <= Cardinality(Units(t))
  BY <1>6, <1>7, <1>9, FS_Subset
<1>10. \A c \in {0, 1} : IsFiniteSet(Units(h[c])) /\ Cardinality(Units(h[c])) \in Nat
  BY FS_CardinalityType
<1>11. ASSUME o.type = "left" \/ o.cap <= At(h, p).cap, NEW c \in {0, 1}
       PROVE  /\ IsFiniteSet(Units(Store(h, p, o)[c]))
              /\ Cardinality(Units(Store(h, p, o)[c])) <= Cardinality(Units(h[c]))
  <2>1. CASE c = b
    BY <2>1, <1>4, <1>9, <1>11 DEF t
  <2>2. CASE c # b
    BY <2>2, <1>4, <1>10
  <2> QED BY <2>1, <2>2
<1>12. o.type = "left" => Cardinality(Units(Store(h, p, o)[b])) + At(h, p).cap + 1 = Cardinality(Units(h[b]))
  BY <1>4, <1>5, <1>8 DEF t
<1>13. \A c \in {0, 1} : c # b => Units(Store(h, p, o)[c]) = Units(h[c])
  BY <1>4
<1> QED BY <1>11, <1>12, <1>13 DEF b

------------------------------------------------------------------------------
(* Outside of a collection. *)
Own(h, v) == v \in In(h) /\ At(h, v).id # NoId
Good(h, o) ==
  \A v \in PtrsOf(o) : /\ v \in In(h) /\ At(h, v).type # "redirect"
                       /\ o.id # NoId => At(h, v).id # NoId
Forwards(h, p) ==
  LET q == At(h, p).fwd IN
  q \in In(h) /\ q[1] = p[1] /\ q[2] > p[2] /\ At(h, q).id = At(h, p).id
World(h, c, u) ==
  /\ h \in Heaps /\ c \in {0, 1} /\ u \in Nat
  /\ h[1 - c] = <<>>
  /\ \A b \in {0, 1} : IsFiniteSet(Units(h[b]))
  /\ Cardinality(Units(h[c])) <= u
  /\ \A p \in In(h) : /\ At(h, p).type # "left"
                      /\ At(h, p).type = "redirect" => Forwards(h, p)
                      /\ At(h, p).type # "redirect" => At(h, p).fwd = Undefined
                      /\ Good(h, At(h, p))
Kept(h, k) == \A p \in In(h) : p \in In(k) /\ At(k, p).id = At(h, p).id
ApartIn(h, v) == \A p \in In(h) : v \notin PtrsOf(At(h, p))

(* A new object, its fields pointing into the heap, leaves the heap well-formed. *)
LEMMA WorldGrown ==
  ASSUME NEW h, NEW c, NEW u, World(h, c, u), NEW o \in Object,
         o.type \in {"object", "closure"}, o.fwd = Undefined,
         Good(Grown(h, c, o), o)
  PROVE  /\ World(Grown(h, c, o), c, u + 1 + o.cap) /\ Kept(h, Grown(h, c, o))
         /\ \A v \in Pointer : v \notin PtrsOf(o) /\ ApartIn(h, v) => ApartIn(Grown(h, c, o), v)
<1> DEFINE k == Grown(h, c, o)  q == <<c, Len(h[c]) + 1>>
<1>0. h \in Heaps /\ c \in {0, 1}
  BY DEF World
<1>1. GrowsTo(h, c, o, k, q)
  BY <1>0, GrownIs
<1>2. /\ \A b \in {0, 1} : IsFiniteSet(Units(k[b]))
      /\ Cardinality(Units(k[c])) = Cardinality(Units(h[c])) + o.cap + 1
  BY UnitsGrown DEF World
<1>3. Cardinality(Units(h[c])) \in Nat /\ o.cap \in Nat /\ Cardinality(Units(h[c])) <= u /\ u \in Nat
  BY FS_CardinalityType DEF World, Object
<1>4. Good(k, o)
  OBVIOUS
<1> HIDE DEF k, q
<1>a. /\ k \in Heaps /\ In(k) = In(h) \cup {q} /\ q \notin In(h) /\ At(k, q) = o
      /\ \A p \in In(h) : At(k, p) = At(h, p)
      /\ k[1 - c] = h[1 - c]
  BY <1>1 DEF GrowsTo
<1>5. u + 1 + o.cap \in Nat /\ Cardinality(Units(k[c])) <= u + 1 + o.cap
  BY <1>2, <1>3
<1>6. ASSUME NEW p \in In(k)
      PROVE  /\ At(k, p).type # "left"
             /\ At(k, p).type = "redirect" => Forwards(k, p)
             /\ At(k, p).type # "redirect" => At(k, p).fwd = Undefined
             /\ Good(k, At(k, p))
  <2>1. CASE p = q
    BY <1>a, <1>4, <2>1
  <2>2. CASE p \in In(h)
    <3>1. /\ At(h, p).type # "left"
          /\ At(h, p).type = "redirect" => Forwards(h, p)
          /\ At(h, p).type # "redirect" => At(h, p).fwd = Undefined
          /\ Good(h, At(h, p))
      BY <2>2 DEF World
    <3>2. At(k, p) = At(h, p) /\ \A y \in In(h) : y \in In(k) /\ At(k, y) = At(h, y)
      BY <2>2, <1>a
    <3>3. Good(k, At(h, p))
      <4> SUFFICES ASSUME NEW v \in PtrsOf(At(h, p))
                   PROVE  /\ v \in In(k) /\ At(k, v).type # "redirect"
                          /\ At(h, p).id # NoId => At(k, v).id # NoId
        BY Zenon DEF Good
      <4>1. v \in In(h) /\ At(h, v).type # "redirect" /\ (At(h, p).id # NoId => At(h, v).id # NoId)
        BY <3>1, Zenon DEF Good
      <4> QED BY <3>2, <4>1
    <3>4. Forwards(h, p) => Forwards(k, p)
      BY <2>2, <3>2 DEF Forwards
    <3> QED BY <3>1, <3>2, <3>3, <3>4
  <2> QED BY <2>1, <2>2, <1>a
<1>7. World(k, c, u + 1 + o.cap)
  BY <1>a, <1>2, <1>5, <1>6 DEF World
<1>8. Kept(h, k)
  BY <1>a DEF Kept
<1>9. \A v \in Pointer : v \notin PtrsOf(o) /\ ApartIn(h, v) => ApartIn(k, v)
  BY <1>a DEF ApartIn
<1> QED BY <1>7, <1>8, <1>9 DEF k

(* So do new fields of an object, pointing into the heap. *)
LEMMA WorldFields ==
  ASSUME NEW h, NEW c, NEW u, World(h, c, u), NEW p \in In(h), NEW f \in Fields,
         Good(h, [At(h, p) EXCEPT !.fields = f])
  PROVE  LET k == Store(h, p, [At(h, p) EXCEPT !.fields = f]) IN
         /\ World(k, c, u) /\ Kept(h, k)
         /\ In(k) = In(h)
         /\ \A x \in In(h) : At(k, x).type = At(h, x).type
         /\ \A x \in In(h) : At(k, x).fields = IF x = p THEN f ELSE At(h, x).fields
         /\ \A v \in Pointer : v \notin {f[i] : i \in DOMAIN f} /\ ApartIn(h, v) => ApartIn(k, v)
<1> DEFINE o == [At(h, p) EXCEPT !.fields = f]  k == Store(h, p, o)
<1>1. At(h, p) \in Object
  <2>1. p[1] \in {0, 1} /\ p[2] \in Nat \ {0} /\ p[2] <= Len(h[p[1]])
    BY PointerIs DEF In
  <2>2. h[p[1]] \in Seq(Object) /\ Len(h[p[1]]) \in Nat
    BY <2>1, LenProperties DEF World, Heaps
  <2>3. p[2] \in 1 .. Len(h[p[1]])
    BY <2>1, <2>2
  <2> QED BY <2>2, <2>3, ElementOfSeq DEF At
<1>2. o \in Object /\ o.type = At(h, p).type /\ o.cap = At(h, p).cap /\ o.fields = f
      /\ o.fwd = At(h, p).fwd /\ o.id = At(h, p).id
  BY <1>1 DEF Object
<1>3. Good(h, o)
  OBVIOUS
<1> HIDE DEF o
<1>4. h \in Heaps /\ \A b \in {0, 1} : IsFiniteSet(Units(h[b])) /\ Cardinality(Units(h[b])) \in Nat
  BY FS_CardinalityType DEF World
<1>5. /\ k \in Heaps /\ In(k) = In(h)
      /\ \A x \in In(h) : At(k, x) = IF x = p THEN o ELSE At(h, x)
      /\ \A b \in {0, 1} : b # p[1] => k[b] = h[b]
  BY <1>2, <1>4, StoreIs
<1>6. /\ At(h, p).type # "left" /\ p[1] = c /\ c \in {0, 1} /\ At(h, p).cap \in Nat
  <2>1. p[1] \in {0, 1} /\ p[2] \in Nat \ {0} /\ p[2] <= Len(h[p[1]])
    BY PointerIs DEF In
  <2>2. c \in {0, 1} /\ Len(h[1 - c]) = 0
    BY EmptySeq DEF World
  <2>3. p[1] = c
    BY <2>1, <2>2
  <2> QED BY <2>2, <2>3, <1>1 DEF World, Object
<1>7. \A b \in {0, 1} : /\ IsFiniteSet(Units(k[b])) /\ Cardinality(Units(k[b])) <= Cardinality(Units(h[b]))
  BY <1>2, <1>4, <1>6, UnitsStore
<1> HIDE DEF k
<1>8. ASSUME NEW x \in In(k)
      PROVE  /\ At(k, x).type # "left"
             /\ At(k, x).type = "redirect" => Forwards(k, x)
             /\ At(k, x).type # "redirect" => At(k, x).fwd = Undefined
             /\ Good(k, At(k, x))
  <2>1. /\ At(h, x).type # "left"
        /\ At(h, x).type = "redirect" => Forwards(h, x)
        /\ At(h, x).type # "redirect" => At(h, x).fwd = Undefined
        /\ Good(h, At(h, x))
    BY <1>5 DEF World
  <2>2. At(k, x).type = At(h, x).type /\ At(k, x).fwd = At(h, x).fwd /\ At(k, x).id = At(h, x).id
    BY <1>2, <1>5
  <2>3. \A y \in In(h) : At(k, y).type = At(h, y).type /\ At(k, y).id = At(h, y).id
    BY <1>2, <1>5
  <2>4. Good(k, At(k, x))
    <3>1. CASE x = p
      BY <3>1, <1>3, <1>5, <2>3 DEF Good
    <3>2. CASE x # p
      BY <3>2, <1>5, <2>1, <2>3 DEF Good
    <3> QED BY <3>1, <3>2
  <2>5. Forwards(h, x) => Forwards(k, x)
    BY <2>2, <2>3, <1>5 DEF Forwards
  <2> QED BY <2>1, <2>2, <2>4, <2>5
<1>9. World(k, c, u)
  <2>1. k[1 - c] = <<>>
    BY <1>5, <1>6 DEF World
  <2>2. Cardinality(Units(k[c])) \in Nat /\ Cardinality(Units(h[c])) \in Nat
    BY <1>4, <1>6, <1>7, FS_CardinalityType
  <2>3. Cardinality(Units(k[c])) <= u
    BY <2>2, <1>6, <1>7 DEF World
  <2> QED BY <1>5, <1>7, <1>8, <2>1, <2>3 DEF World
<1>10. Kept(h, k) /\ (\A x \in In(h) : At(k, x).type = At(h, x).type)
       /\ \A x \in In(h) : At(k, x).fields = IF x = p THEN f ELSE At(h, x).fields
  BY <1>2, <1>5 DEF Kept
<1>11. ASSUME NEW v \in Pointer, v \notin {f[i] : i \in DOMAIN f}, ApartIn(h, v) PROVE ApartIn(k, v)
  BY <1>2, <1>5, <1>11 DEF ApartIn, PtrsOf
<1> QED BY <1>5, <1>9, <1>10, <1>11 DEF k, o

(* So does a REDIRECT header for an object that no field points to (GrowServed, ExternalServed). *)
LEMMA WorldRedirected ==
  ASSUME NEW h, NEW c, NEW u, World(h, c, u), NEW p \in In(h), NEW q \in In(h),
         ApartIn(h, p), q[2] > p[2], At(h, q).id = At(h, p).id, NEW o \in Object,
         o.type = "redirect", o.cap = 0, o.fields = NoFields, o.fwd = q, o.id = At(h, p).id
  PROVE  LET k == Store(h, p, o) IN
         /\ World(k, c, u) /\ Kept(h, k)
         /\ In(k) = In(h)
         /\ \A x \in In(h) : x # p => At(k, x) = At(h, x)
         /\ \A v \in Pointer : ApartIn(h, v) => ApartIn(k, v)
<1> DEFINE k == Store(h, p, o)
<1>1. h \in Heaps /\ \A b \in {0, 1} : IsFiniteSet(Units(h[b])) /\ Cardinality(Units(h[b])) \in Nat
  BY FS_CardinalityType DEF World
<1>2. /\ k \in Heaps /\ In(k) = In(h)
      /\ \A x \in In(h) : At(k, x) = IF x = p THEN o ELSE At(h, x)
      /\ \A b \in {0, 1} : b # p[1] => k[b] = h[b]
  BY <1>1, StoreIs
<1>3. c \in {0, 1} /\ \A x \in In(h) : x[1] = c
  <2>1. c \in {0, 1} /\ Len(h[1 - c]) = 0
    BY EmptySeq DEF World
  <2>2. \A x \in In(h) : x[1] \in {0, 1} /\ x[2] \in Nat \ {0} /\ x[2] <= Len(h[x[1]])
    BY PointerIs DEF In
  <2> QED BY <2>1, <2>2
<1>4. At(h, p).type # "left" /\ At(h, p).cap \in Nat
  <2>1. p[1] = c /\ p[2] \in Nat \ {0} /\ p[2] <= Len(h[p[1]])
    BY <1>3, PointerIs DEF In
  <2>2. h[c] \in Seq(Object) /\ Len(h[c]) \in Nat
    BY <1>3, LenProperties DEF World, Heaps
  <2>3. p[2] \in 1 .. Len(h[c])
    BY <2>1, <2>2
  <2>4. At(h, p) \in Object
    BY <2>1, <2>2, <2>3, ElementOfSeq DEF At
  <2> QED BY <2>4 DEF World, Object
<1>5. \A b \in {0, 1} : /\ IsFiniteSet(Units(k[b])) /\ Cardinality(Units(k[b])) <= Cardinality(Units(h[b]))
  BY <1>1, <1>4, UnitsStore
<1>6. PtrsOf(o) = {}
  BY DEF PtrsOf, NoFields
<1> HIDE DEF k
<1>7. ASSUME NEW x \in In(k)
      PROVE  /\ At(k, x).type # "left"
             /\ At(k, x).type = "redirect" => Forwards(k, x)
             /\ At(k, x).type # "redirect" => At(k, x).fwd = Undefined
             /\ Good(k, At(k, x))
  <2>0. \A y \in In(h) : At(k, y).id = At(h, y).id
    BY <1>2
  <2>1. CASE x = p
    <3>1. At(k, x) = o /\ q \in In(k) /\ q[1] = p[1]
      BY <1>2, <1>3, <2>1
    <3>2. Forwards(k, x)
      BY <3>1, <2>0, <2>1 DEF Forwards
    <3> QED BY <3>1, <3>2, <1>6 DEF Good
  <2>2. CASE x # p
    <3>1. x \in In(h) /\ At(k, x) = At(h, x)
      BY <2>2, <1>2
    <3>2. /\ At(h, x).type # "left"
          /\ At(h, x).type = "redirect" => Forwards(h, x)
          /\ At(h, x).type # "redirect" => At(h, x).fwd = Undefined
          /\ Good(h, At(h, x))
      BY <3>1 DEF World
    <3>3. \A v \in PtrsOf(At(h, x)) : v # p
      BY <3>1 DEF ApartIn
    <3>4. Good(k, At(k, x))
      BY <3>1, <3>2, <3>3, <1>2, <2>0 DEF Good
    <3>5. Forwards(h, x) => Forwards(k, x)
      BY <3>1, <2>0, <1>2 DEF Forwards
    <3> QED BY <3>1, <3>2, <3>4, <3>5
  <2> QED BY <2>1, <2>2
<1>8. World(k, c, u)
  <2>1. k[1 - c] = <<>>
    <3>1. 1 - c \in {0, 1} /\ 1 - c # p[1]
      BY <1>3
    <3> QED BY <3>1, <1>2 DEF World
  <2>2. Cardinality(Units(k[c])) \in Nat /\ Cardinality(Units(h[c])) \in Nat
    BY <1>1, <1>3, <1>5, FS_CardinalityType
  <2>3. Cardinality(Units(k[c])) <= u
    BY <2>2, <1>3, <1>5 DEF World
  <2> QED BY <1>2, <1>5, <1>7, <2>1, <2>3 DEF World
<1>9. Kept(h, k)
  BY <1>2 DEF Kept
<1>10. \A v \in Pointer : ApartIn(h, v) => ApartIn(k, v)
  BY <1>2, <1>6 DEF ApartIn
<1> QED BY <1>2, <1>8, <1>9, <1>10 DEF k

------------------------------------------------------------------------------
(* The roots, outside of a collection. *)
HeldBy(sc) == {sc.frames[f].regs[r] : f \in 1 .. Len(sc.frames), r \in Reg} \cap Pointer
ExternalIn(h, e) == e \in In(h) /\ At(h, e).type # "redirect" /\ At(h, e).id = NoId
RootsIn(h, g, scs) ==
  /\ Own(h, g) /\ At(h, g).type # "redirect"
  /\ \A s \in 1 .. Len(scs) :
       /\ ExternalIn(h, scs[s].external) /\ ApartIn(h, scs[s].external)
       /\ \A t \in 1 .. Len(scs) : s # t => scs[s].external # scs[t].external
       /\ \A v \in HeldBy(scs[s]) : Own(h, v)

Scenes == Seq(SceneType) \ {<<>>}
Rewritten(scs, t, X) ==
  /\ t \in Scenes /\ Len(t) = Len(scs)
  /\ \A s \in 1 .. Len(scs) : /\ t[s].external = scs[s].external /\ t[s].caller = scs[s].caller
                              /\ HeldBy(t[s]) \subseteq HeldBy(scs[s]) \cup X

(* The parts of the scenes. *)
LEMMA SceneIs ==
  ASSUME NEW scs \in Scenes
  PROVE  /\ scs \in Seq(SceneType) /\ scs # <<>> /\ Len(scs) \in Nat \ {0} /\ 1 \in 1 .. Len(scs)
         /\ Head(scs) = scs[1]
         /\ \A s \in 1 .. Len(scs) :
              /\ scs[s] \in SceneType /\ scs[s].external \in Pointer /\ scs[s].caller \in CallType
              /\ scs[s].frames \in Seq(FrameType) /\ scs[s].frames # <<>>
              /\ Len(scs[s].frames) \in Nat \ {0}
              /\ Head(scs[s].frames) = scs[s].frames[1]
              /\ \A f \in 1 .. Len(scs[s].frames) :
                   /\ scs[s].frames[f] \in FrameType
                   /\ scs[s].frames[f].regs \in [Reg -> Datum] /\ scs[s].frames[f].rd \in Reg
<1>1. scs \in Seq(SceneType) /\ scs # <<>>
  BY DEF Scenes
<1>2. Len(scs) \in Nat \ {0} /\ Head(scs) = scs[1]
  BY <1>1, EmptySeq, LenProperties
<1>3. ASSUME NEW s \in 1 .. Len(scs)
      PROVE  /\ scs[s] \in SceneType /\ scs[s].external \in Pointer /\ scs[s].caller \in CallType
             /\ scs[s].frames \in Seq(FrameType) /\ scs[s].frames # <<>>
             /\ Len(scs[s].frames) \in Nat \ {0}
             /\ Head(scs[s].frames) = scs[s].frames[1]
             /\ \A f \in 1 .. Len(scs[s].frames) :
                  /\ scs[s].frames[f] \in FrameType
                  /\ scs[s].frames[f].regs \in [Reg -> Datum] /\ scs[s].frames[f].rd \in Reg
  <2>1. scs[s] \in SceneType
    BY <1>1, ElementOfSeq
  <2>2. scs[s].external \in Pointer /\ scs[s].caller \in CallType
        /\ scs[s].frames \in Seq(FrameType) /\ scs[s].frames # <<>>
    BY <2>1 DEF SceneType
  <2>3. Len(scs[s].frames) \in Nat \ {0} /\ Head(scs[s].frames) = scs[s].frames[1]
    BY <2>2, EmptySeq, LenProperties
  <2>4. \A f \in 1 .. Len(scs[s].frames) : scs[s].frames[f] \in FrameType
    BY <2>2, ElementOfSeq
  <2>5. \A f \in 1 .. Len(scs[s].frames) :
          scs[s].frames[f].regs \in [Reg -> Datum] /\ scs[s].frames[f].rd \in Reg
    BY <2>4 DEF FrameType
  <2> QED BY <2>1, <2>2, <2>3, <2>4, <2>5
<1> QED BY <1>1, <1>2, <1>3

Topped(scs, sc, t) ==
  /\ t \in Scenes /\ Len(t) = Len(scs) /\ t[1] = sc
  /\ \A s \in 1 .. Len(scs) : s # 1 => t[s] = scs[s]

(* The scene on top, changed. *)
LEMMA FirstReplaced ==
  ASSUME NEW scs \in Scenes, NEW sc \in SceneType
  PROVE  Topped(scs, sc, [scs EXCEPT ![1] = sc])
<1> DEFINE t == [scs EXCEPT ![1] = sc]
<1>1. scs \in Seq(SceneType) /\ Len(scs) \in Nat \ {0} /\ 1 \in 1 .. Len(scs)
  BY SceneIs
<1>2. t \in Seq(SceneType) /\ Len(t) = Len(scs) /\ \A s \in 1 .. Len(scs) : t[s] = IF s = 1 THEN sc ELSE scs[s]
  BY <1>1, ExceptSeq
<1>3. t # <<>>
  BY <1>1, <1>2, EmptySeq
<1> HIDE DEF t
<1>4. Topped(scs, sc, t)
  BY <1>1, <1>2, <1>3 DEF Scenes, Topped
<1> QED BY <1>4 DEF t

(* The frames of the scene on top, changed. *)
LEMMA FramesRewritten ==
  ASSUME NEW scs \in Scenes, NEW fs \in Seq(FrameType), fs # <<>>, NEW X,
         \A f \in 1 .. Len(fs) : \A r \in Reg :
           fs[f].regs[r] \in Pointer => fs[f].regs[r] \in X \cup HeldBy(scs[1])
  PROVE  Rewritten(scs, [scs EXCEPT ![1] = [scs[1] EXCEPT !.frames = fs]], X)
<1> DEFINE sc == [scs[1] EXCEPT !.frames = fs]  t == [scs EXCEPT ![1] = sc]
<1>1. scs[1] \in SceneType
  BY SceneIs
<1>2. sc \in SceneType /\ sc.external = scs[1].external /\ sc.caller = scs[1].caller /\ sc.frames = fs
  BY <1>1 DEF SceneType
<1> HIDE DEF sc
<1>3. t \in Scenes /\ Len(t) = Len(scs) /\ t[1] = sc
      /\ \A s \in 1 .. Len(scs) : s # 1 => t[s] = scs[s]
  <2>1. Topped(scs, sc, t)
    BY <1>2, FirstReplaced
  <2> HIDE DEF t
  <2> QED BY <2>1 DEF Topped
<1> HIDE DEF t
<1>4. HeldBy(sc) \subseteq HeldBy(scs[1]) \cup X
  BY <1>2 DEF HeldBy
<1>5. Rewritten(scs, t, X)
  <2> SUFFICES ASSUME NEW s \in 1 .. Len(scs)
               PROVE  /\ t[s].external = scs[s].external /\ t[s].caller = scs[s].caller
                      /\ HeldBy(t[s]) \subseteq HeldBy(scs[s]) \cup X
    BY <1>3 DEF Rewritten
  <2>1. CASE s = 1
    BY <2>1, <1>2, <1>3, <1>4
  <2>2. CASE s # 1
    BY <2>2, <1>3
  <2> QED BY <2>1, <2>2
<1> QED BY <1>5 DEF t, sc

(* The registers of the frame on top, changed. *)
LEMMA RegsRewritten ==
  ASSUME NEW scs \in Scenes, NEW regs \in [Reg -> Datum], NEW X,
         \A r \in Reg : regs[r] \in Pointer => regs[r] \in X \cup HeldBy(scs[1])
  PROVE  /\ Rewritten(scs, [scs EXCEPT ![1].frames[1].regs = regs], X)
         /\ [scs EXCEPT ![1].frames[1].regs = regs][1].frames[1].regs = regs
<1> DEFINE fr == [scs[1].frames[1] EXCEPT !.regs = regs]
           fs == [scs[1].frames EXCEPT ![1] = fr]
<1>1. /\ scs[1] \in SceneType /\ scs[1].frames \in Seq(FrameType) /\ Len(scs[1].frames) \in Nat \ {0}
      /\ scs[1].frames[1] \in FrameType /\ 1 \in 1 .. Len(scs[1].frames) /\ 1 \in 1 .. Len(scs)
  BY SceneIs
<1>2. fr \in FrameType /\ fr.regs = regs
  BY <1>1 DEF FrameType
<1> HIDE DEF fr
<1>3. fs \in Seq(FrameType) /\ Len(fs) = Len(scs[1].frames)
      /\ \A f \in 1 .. Len(fs) : fs[f] = IF f = 1 THEN fr ELSE scs[1].frames[f]
  BY <1>1, <1>2, ExceptSeq
<1>4. fs # <<>>
  BY <1>1, <1>3, EmptySeq
<1>5. [scs EXCEPT ![1].frames[1].regs = regs] = [scs EXCEPT ![1] = [scs[1] EXCEPT !.frames = fs]]
  BY DEF fr
<1> HIDE DEF fs
<1>6. ASSUME NEW f \in 1 .. Len(fs), NEW r \in Reg, fs[f].regs[r] \in Pointer
      PROVE  fs[f].regs[r] \in X \cup HeldBy(scs[1])
  <2>1. CASE f = 1
    BY <2>1, <1>2, <1>3, <1>6
  <2>2. CASE f # 1
    BY <2>2, <1>3, <1>6 DEF HeldBy
  <2> QED BY <2>1, <2>2
<1>7. Rewritten(scs, [scs EXCEPT ![1] = [scs[1] EXCEPT !.frames = fs]], X)
  BY <1>3, <1>4, <1>6, FramesRewritten
<1>8. [scs EXCEPT ![1] = [scs[1] EXCEPT !.frames = fs]][1].frames[1].regs = regs
  <2>1. [scs EXCEPT ![1] = [scs[1] EXCEPT !.frames = fs]][1] = [scs[1] EXCEPT !.frames = fs]
    <3>1. [scs[1] EXCEPT !.frames = fs] \in SceneType
      BY <1>1, <1>3, <1>4 DEF SceneType
    <3> QED BY <3>1, FirstReplaced DEF Topped
  <2>2. [scs[1] EXCEPT !.frames = fs].frames = fs
    BY <1>1 DEF SceneType
  <2>3. fs[1] = fr
    BY <1>1, <1>3
  <2> QED BY <2>1, <2>2, <2>3, <1>2
<1> QED BY <1>5, <1>7, <1>8

(* Scenes that got only owned pointers still have proper roots. *)
LEMMA RootsRewritten ==
  ASSUME NEW h, NEW g, NEW scs, NEW t, NEW X, RootsIn(h, g, scs), Rewritten(scs, t, X),
         \A v \in X : v \in Pointer => Own(h, v)
  PROVE  RootsIn(h, g, t)
<1> SUFFICES ASSUME NEW s \in 1 .. Len(t)
             PROVE  /\ ExternalIn(h, t[s].external) /\ ApartIn(h, t[s].external)
                    /\ \A r \in 1 .. Len(t) : s # r => t[s].external # t[r].external
                    /\ \A v \in HeldBy(t[s]) : Own(h, v)
  BY DEF RootsIn
<1>1. Len(t) = Len(scs) /\ t[s].external = scs[s].external
      /\ \A r \in 1 .. Len(t) : t[r].external = scs[r].external
      /\ HeldBy(t[s]) \subseteq HeldBy(scs[s]) \cup X
  BY DEF Rewritten
<1>2. HeldBy(t[s]) \subseteq Pointer
  BY DEF HeldBy
<1> QED BY <1>1, <1>2 DEF RootsIn

(* So have those below the top (_cvm_pop_scene). *)
LEMMA RootsTail ==
  ASSUME NEW h, NEW g, NEW scs \in Scenes, RootsIn(h, g, scs), Len(scs) > 1
  PROVE  /\ Tail(scs) \in Scenes /\ Len(Tail(scs)) = Len(scs) - 1 /\ RootsIn(h, g, Tail(scs))
         /\ \A s \in 1 .. Len(Tail(scs)) : Tail(scs)[s] = scs[s + 1] /\ s + 1 \in 1 .. Len(scs)
<1>1. scs \in Seq(SceneType) /\ scs # <<>> /\ Len(scs) \in Nat
  BY SceneIs
<1>2. PICK t : t = Tail(scs)
  OBVIOUS
<1>3. t \in Seq(SceneType) /\ Len(t) = Len(scs) - 1 /\ \A s \in 1 .. Len(t) : t[s] = scs[s + 1]
  BY <1>1, <1>2, HeadTailProperties
<1>4. t # <<>>
  BY <1>1, <1>3, EmptySeq
<1>5. \A s \in 1 .. Len(t) : t[s] = scs[s + 1] /\ s + 1 \in 1 .. Len(scs)
  BY <1>1, <1>3
<1>6. RootsIn(h, g, t)
  <2> SUFFICES ASSUME NEW s \in 1 .. Len(t)
               PROVE  /\ ExternalIn(h, t[s].external) /\ ApartIn(h, t[s].external)
                      /\ \A r \in 1 .. Len(t) : s # r => t[s].external # t[r].external
                      /\ \A v \in HeldBy(t[s]) : Own(h, v)
    BY DEF RootsIn
  <2>1. \A r \in 1 .. Len(t) : s # r => s + 1 # r + 1
    BY <1>1, <1>3
  <2>2. PICK i : i = s + 1
    OBVIOUS
  <2>3. t[s] = scs[i] /\ i \in 1 .. Len(scs)
    BY <1>5, <2>2
  <2>4. /\ ExternalIn(h, scs[i].external) /\ ApartIn(h, scs[i].external)
        /\ \A v \in HeldBy(scs[i]) : Own(h, v)
        /\ \A j \in 1 .. Len(scs) : i # j => scs[i].external # scs[j].external
    BY <2>3 DEF RootsIn
  <2>5. ASSUME NEW r \in 1 .. Len(t), s # r PROVE t[s].external # t[r].external
    <3>1. t[r] = scs[r + 1] /\ r + 1 \in 1 .. Len(scs) /\ i # r + 1
      BY <1>5, <2>1, <2>2, <2>5
    <3> QED BY <2>3, <2>4, <3>1
  <2> QED BY <2>3, <2>4, <2>5
<1> QED BY <1>2, <1>3, <1>4, <1>5, <1>6 DEF Scenes

(* And those with one more on top (_cvm_push_scene). *)
LEMMA RootsPushed ==
  ASSUME NEW h, NEW g, NEW scs \in Scenes, RootsIn(h, g, scs), NEW sc \in SceneType,
         ExternalIn(h, sc.external), ApartIn(h, sc.external),
         \A s \in 1 .. Len(scs) : scs[s].external # sc.external,
         \A v \in HeldBy(sc) : Own(h, v)
  PROVE  /\ <<sc>> \o scs \in Scenes /\ Len(<<sc>> \o scs) = Len(scs) + 1 /\ RootsIn(h, g, <<sc>> \o scs)
         /\ (<<sc>> \o scs)[1] = sc
         /\ \A s \in 2 .. Len(scs) + 1 : (<<sc>> \o scs)[s] = scs[s - 1] /\ s - 1 \in 1 .. Len(scs)
<1>1. scs \in Seq(SceneType) /\ Len(scs) \in Nat
  BY SceneIs
<1>2. <<sc>> \in Seq(SceneType) /\ Len(<<sc>>) = 1 /\ <<sc>>[1] = sc
  OBVIOUS
<1>3. PICK t : t = <<sc>> \o scs
  OBVIOUS
<1>4. t \in Seq(SceneType) /\ Len(t) = 1 + Len(scs)
      /\ \A i \in 1 .. 1 + Len(scs) : t[i] = IF i <= 1 THEN <<sc>>[i] ELSE scs[i - 1]
  BY <1>1, <1>2, <1>3, ConcatProperties
<1>5. t[1] = sc
  BY <1>1, <1>2, <1>4
<1>6. \A s \in 2 .. Len(scs) + 1 : t[s] = scs[s - 1] /\ s - 1 \in 1 .. Len(scs)
  BY <1>1, <1>4
<1>7. t # <<>>
  BY <1>1, <1>4, EmptySeq
<1>8. RootsIn(h, g, t)
  <2> SUFFICES ASSUME NEW s \in 1 .. Len(t)
               PROVE  /\ ExternalIn(h, t[s].external) /\ ApartIn(h, t[s].external)
                      /\ \A r \in 1 .. Len(t) : s # r => t[s].external # t[r].external
                      /\ \A v \in HeldBy(t[s]) : Own(h, v)
    BY DEF RootsIn
  <2>0. \A r \in 1 .. Len(t) : r = 1 \/ (r \in 2 .. Len(scs) + 1 /\ r - 1 \in 1 .. Len(scs) /\ t[r] = scs[r - 1])
    BY <1>1, <1>4, <1>6
  <2>1. CASE s = 1
    BY <2>0, <2>1, <1>5
  <2>2. CASE s # 1
    <3>1. s - 1 \in 1 .. Len(scs) /\ t[s] = scs[s - 1]
      BY <2>0, <2>2
    <3>2. ASSUME NEW r \in 1 .. Len(t), s # r PROVE t[s].external # t[r].external
      <4>1. CASE r = 1
        BY <4>1, <3>1, <1>5
      <4>2. CASE r # 1
        <5>1. r - 1 \in 1 .. Len(scs) /\ t[r] = scs[r - 1] /\ r - 1 # s - 1
          BY <2>0, <4>2, <3>2, <1>1, <1>4
        <5> QED BY <5>1, <3>1 DEF RootsIn
      <4> QED BY <4>1, <4>2
    <3> QED BY <3>1, <3>2 DEF RootsIn
  <2> QED BY <2>1, <2>2
<1> QED BY <1>1, <1>3, <1>4, <1>5, <1>6, <1>7, <1>8 DEF Scenes

(* The roots outlive a change of the heap that keeps objects and their identities. *)
LEMMA RootsKept ==
  ASSUME NEW h, NEW k, NEW g, NEW scs \in Scenes, RootsIn(h, g, scs), Kept(h, k),
         At(k, g).type # "redirect",
         \A s \in 1 .. Len(scs) : At(k, scs[s].external).type # "redirect" /\ ApartIn(k, scs[s].external)
  PROVE  RootsIn(k, g, scs)
BY DEF RootsIn, Kept, Own, ExternalIn

CallsIn(h, nat, scs) ==
  \A c \in {nat} \cup {scs[s].caller : s \in 1 .. Len(scs)} :
    IF c.fn = "foreach" THEN Own(h, c.array) /\ Own(h, c.callback)
    ELSE c.array = Undefined /\ c.callback = Undefined

StorableIn(h, v) == v \in Pointer => At(h, v).type # "redirect"
GrowingIn(h, g, v) == v \in Pointer /\ At(h, v).type # "redirect" /\ ApartIn(h, v) /\ g # v
PendingIn(h, g, scs, nat, pnd) ==
  /\ pnd.op \in {"cb_arg", "external", "scene"} => nat.fn = "foreach"
  /\ IF pnd.op \in {"external", "scene"} THEN pnd.args \in In(h) ELSE pnd.args = Undefined
  /\ pnd.op = "scene" => \A v \in PtrsOf(At(h, pnd.args)) : Own(h, v)
  /\ pnd.op # "none" => pnd.type # "none"
  /\ pnd.op \in {"new", "import", "cb_arg", "scene"} => pnd.cap = 1
  /\ pnd.op = "new" => \A r \in DOMAIN pnd.captured : StorableIn(h, scs[1].frames[1].regs[pnd.captured[r]])
  /\ pnd.op = "grow" => GrowingIn(h, g, scs[1].frames[1].regs[pnd.reg])

Calm ==
  /\ World(heap, current, used[current]) /\ used[Other] = 0 /\ used[current] <= BlockSize
  /\ RootsIn(heap, global, scenes) /\ CallsIn(heap, native, scenes)
  /\ PendingIn(heap, global, scenes, native, pending)
  /\ pc \in {"run", "native"} => pending.op = "none"

(* What is to be shown of a step outside of a collection. *)
LEMMA CalmStep ==
  ASSUME Typed, Calm, pc' \in {"run", "native", "alloc", "oom"},
         World(heap', current, used'[current]), used' \in [{0, 1} -> Nat],
         used'[Other] = used[Other], used'[current] <= BlockSize,
         current' = current, global' = global, todo' = todo, program' = program,
         scenes' \in Scenes, RootsIn(heap', global, scenes'),
         native' \in CallType, CallsIn(heap', native', scenes'),
         pending' \in RequestType, PendingIn(heap', global, scenes', native', pending'),
         pc' \in {"run", "native"} => pending'.op = "none"
  PROVE  Typed' /\ Calm'
<1>1. heap' \in Heaps
  BY DEF World
<1>2. Typed'
  BY <1>1 DEF Typed, Heaps, Scenes
<1>3. Calm'
  BY DEF Calm, Other, BlockSize
<1> QED BY <1>2, <1>3

(* What Calm says of the headers, the block and the objects in use. *)
LEMMA CalmIs ==
  ASSUME Typed, Calm
  PROVE  /\ Headers /\ Volume
         /\ \A p \in Places : p[1] = current /\ Obj(p).type # "left" /\ Good(heap, Obj(p))
<1>1. current \in {0, 1} /\ Other \in {0, 1} /\ Other # current /\ {0, 1} = {current, Other}
  BY DEF Typed, Other
<1>2. /\ heap[Other] = <<>>
      /\ \A b \in {0, 1} : IsFiniteSet(Units(heap[b]))
      /\ Cardinality(Units(heap[current])) <= used[current]
      /\ \A p \in Places : /\ Obj(p).type # "left"
                           /\ Obj(p).type = "redirect" => Forwards(heap, p)
                           /\ Obj(p).type # "redirect" => Obj(p).fwd = Undefined
                           /\ Good(heap, Obj(p))
  BY DEF Calm, World, Places, At, Obj, Other
<1>3. Len(heap[Other]) = 0
  BY <1>2, EmptySeq
<1>4. ASSUME NEW p \in Places PROVE p[1] = current
  <2>1. p[1] \in {0, 1} /\ p[2] \in 1 .. Len(heap[p[1]])
    BY ObjTyped
  <2> QED BY <2>1, <1>1, <1>3
<1>5. heap[current] \in Seq(Object) /\ heap[Other] \in Seq(Object)
  BY <1>1 DEF Typed
<1>6. Units(heap[Other]) = {}
  BY <1>3 DEF Units
<1>7. Cardinality(Units(heap[Other])) = 0
  BY <1>6, FS_EmptySet
<1>8. Len(heap[current]) <= Cardinality(Units(heap[current])) /\ Cardinality(Units(heap[current])) \in Nat
  <2>1. ASSUME NEW i \in 1 .. Len(heap[current]) PROVE heap[current][i].type # "left"
    <3>1. <<current, i>> \in Places
      BY <1>1, PlaceIs
    <3> QED BY <3>1, <1>2 DEF Obj
  <2> QED BY <1>1, <1>2, <1>5, <2>1, UnitsBound
<1>9. Len(heap[current]) \in Nat /\ used[current] \in Nat /\ BlockSize \in Nat
  BY <1>1, <1>5, LenProperties, BlockSizeIs DEF Typed
<1>10. Volume
  <2>1. used[Other] = 0 /\ used[current] <= BlockSize
    BY DEF Calm
  <2> QED BY <1>1, <1>2, <1>3, <1>7, <1>8, <1>9, <2>1 DEF Volume
<1>11. Headers
  <2> SUFFICES ASSUME NEW p \in Places
               PROVE  /\ Obj(p).type = "redirect" =>
                           /\ p[1] = current
                           /\ Obj(p).fwd \in Places /\ Obj(p).fwd[1] = current /\ Obj(p).fwd[2] > p[2]
                           /\ Obj(Obj(p).fwd).id = Obj(p).id
                      /\ Obj(p).type # "left"
                      /\ Obj(p).type \in {"object", "closure"} => Obj(p).fwd = Undefined
    BY Zenon DEF Headers
  <2>1. Obj(p).type = "redirect" => Forwards(heap, p)
    BY <1>2
  <2>2. Obj(p).type # "left" /\ (Obj(p).type # "redirect" => Obj(p).fwd = Undefined)
    BY <1>2
  <2>3. p[1] = current
    BY <1>4
  <2> QED BY <2>1, <2>2, <2>3 DEF Forwards, At, Obj, Places
<1> QED BY <1>2, <1>4, <1>10, <1>11

(* The frame that runs. *)
LEMMA TopIs ==
  ASSUME Typed
  PROVE  /\ scenes \in Scenes /\ scenes # <<>> /\ scenes[1] \in SceneType
         /\ Scene = scenes[1] /\ Frame = scenes[1].frames[1] /\ Frame \in FrameType
         /\ Regs = scenes[1].frames[1].regs /\ Regs \in [Reg -> Datum]
         /\ \A r \in Reg : Regs[r] \in Pointer => Regs[r] \in HeldBy(scenes[1])
         /\ \A r \in Reg \cup {0} : /\ Operand(Regs, r) \in Datum
                                    /\ Operand(Regs, r) \in Pointer => Operand(Regs, r) \in HeldBy(scenes[1])
<1>1. scenes \in Scenes /\ scenes # <<>>
  BY DEF Typed, Scenes
<1>2. /\ Len(scenes) \in Nat \ {0} /\ 1 \in 1 .. Len(scenes) /\ Head(scenes) = scenes[1]
      /\ scenes[1] \in SceneType /\ Head(scenes[1].frames) = scenes[1].frames[1]
      /\ scenes[1].frames[1] \in FrameType /\ scenes[1].frames[1].regs \in [Reg -> Datum]
      /\ 1 \in 1 .. Len(scenes[1].frames)
  BY <1>1, SceneIs
<1>3. Scene = scenes[1] /\ Frame = scenes[1].frames[1] /\ Regs = scenes[1].frames[1].regs
  BY <1>2 DEF Scene, Frame, Regs
<1>4. ASSUME NEW r \in Reg, Regs[r] \in Pointer PROVE Regs[r] \in HeldBy(scenes[1])
  BY <1>2, <1>3, <1>4 DEF HeldBy
<1>5. ASSUME NEW r \in Reg \cup {0}
      PROVE  /\ Operand(Regs, r) \in Datum
             /\ Operand(Regs, r) \in Pointer => Operand(Regs, r) \in HeldBy(scenes[1])
  <2>1. CASE r = 0
    BY <2>1, PointerIs DEF Operand, Datum
  <2>2. CASE r \in Reg /\ r # 0
    BY <2>2, <1>2, <1>3, <1>4 DEF Operand
  <2> QED BY <2>1, <2>2
<1> QED BY <1>1, <1>2, <1>3, <1>4, <1>5

(* What registers and the global hold are tables that scripts may see. *)
LEMMA RootsOwned ==
  ASSUME Typed, Calm
  PROVE  /\ \A v \in HeldBy(scenes[1]) : Own(heap, v)
         /\ \A r \in Reg : Regs[r] \in Pointer => Own(heap, Regs[r])
         /\ \A r \in Reg \cup {0} : Operand(Regs, r) \in Pointer => Own(heap, Operand(Regs, r))
         /\ Own(heap, global)
<1>1. 1 \in 1 .. Len(scenes)
  BY TopIs, SceneIs
<1>2. \A v \in HeldBy(scenes[1]) : Own(heap, v)
  BY <1>1 DEF Calm, RootsIn
<1> QED BY <1>2, TopIs DEF Calm, RootsIn

(* So in every frame of every scene. *)
LEMMA RegistersOwned ==
  ASSUME Calm, NEW s \in 1 .. Len(scenes), NEW f \in 1 .. Len(scenes[s].frames), NEW r \in Reg,
         scenes[s].frames[f].regs[r] \in Pointer
  PROVE  Own(heap, scenes[s].frames[f].regs[r])
<1>1. scenes[s].frames[f].regs[r] \in HeldBy(scenes[s])
  BY DEF HeldBy
<1> QED BY <1>1 DEF Calm, RootsIn

(* What C functions remember outlives a change of the heap. *)
LEMMA CallsKept ==
  ASSUME NEW h, NEW k, NEW nat, NEW scs, CallsIn(h, nat, scs), Kept(h, k)
  PROVE  CallsIn(k, nat, scs)
<1>1. \A v : Own(h, v) => Own(k, v)
  BY DEF Own, Kept
<1> QED BY <1>1 DEF CallsIn

(* What SetReg does to the scenes. *)
LEMMA RegsSet ==
  ASSUME Typed, NEW d \in Reg, NEW v \in Datum
  PROVE  /\ Rewritten(scenes, WithRegs([Regs EXCEPT ![d] = v]), {v})
         /\ WithRegs([Regs EXCEPT ![d] = v])[1].frames[1].regs = [Regs EXCEPT ![d] = v]
<1> DEFINE regs == [Regs EXCEPT ![d] = v]
<1>1. scenes \in Scenes /\ Regs \in [Reg -> Datum]
      /\ \A r \in Reg : Regs[r] \in Pointer => Regs[r] \in HeldBy(scenes[1])
  BY TopIs
<1>2. regs \in [Reg -> Datum] /\ \A r \in Reg : regs[r] = IF r = d THEN v ELSE Regs[r]
  BY <1>1
<1> HIDE DEF regs
<1>3. \A r \in Reg : regs[r] \in Pointer => regs[r] \in {v} \cup HeldBy(scenes[1])
  BY <1>1, <1>2
<1>4. /\ Rewritten(scenes, [scenes EXCEPT ![1].frames[1].regs = regs], {v})
      /\ [scenes EXCEPT ![1].frames[1].regs = regs][1].frames[1].regs = regs
  BY <1>1, <1>2, <1>3, RegsRewritten
<1> QED BY <1>4 DEF WithRegs, regs

(* A change of registers changes no caller. *)
LEMMA CallsRewritten ==
  ASSUME NEW h, NEW nat, NEW scs, NEW t, NEW X, CallsIn(h, nat, scs), Rewritten(scs, t, X)
  PROVE  CallsIn(h, nat, t)
<1>1. {t[s].caller : s \in 1 .. Len(t)} = {scs[s].caller : s \in 1 .. Len(scs)}
  BY DEF Rewritten
<1> QED BY <1>1 DEF CallsIn

(* A step that changes the scenes and the C function only. *)
LEMMA SceneStep ==
  ASSUME Typed, Calm, pc \in {"run", "native"}, pc' \in {"run", "native"},
         UNCHANGED <<heapVars, global, pending, todo, program>>,
         scenes' \in Scenes, RootsIn(heap, global, scenes'),
         native' \in CallType, CallsIn(heap, native', scenes')
  PROVE  Typed' /\ Calm'
<1>1. pending.op = "none" /\ pending.args = Undefined
  BY DEF Calm, PendingIn
<1>2. PendingIn(heap, global, scenes', native', pending)
  BY <1>1 DEF PendingIn
<1>3. used \in [{0, 1} -> Nat] /\ pending \in RequestType
  BY DEF Typed
<1>4. World(heap, current, used[current]) /\ used[current] <= BlockSize
  BY DEF Calm
<1>5. heap' = heap /\ used' = used /\ current' = current
  BY DEF heapVars
<1> QED BY <1>1, <1>2, <1>3, <1>4, <1>5, CalmStep

(* A step that gives registers other pointers that are owned. *)
LEMMA RewriteStep ==
  ASSUME Typed, Calm, pc \in {"run", "native"}, pc' \in {"run", "native"},
         UNCHANGED <<heapVars, global, pending, todo, program>>,
         NEW X, Rewritten(scenes, scenes', X), \A v \in X : v \in Pointer => Own(heap, v),
         native' \in CallType, CallsIn(heap, native', scenes)
  PROVE  Typed' /\ Calm'
<1>1. scenes' \in Scenes
  BY DEF Rewritten
<1>2. RootsIn(heap, global, scenes')
  BY RootsRewritten DEF Calm
<1>3. CallsIn(heap, native', scenes')
  BY CallsRewritten
<1> QED BY <1>1, <1>2, <1>3, SceneStep

(* A step that gives one register a value. *)
LEMMA SetRegStep ==
  ASSUME Typed, Calm, pc \in {"run", "native"}, pc' \in {"run", "native"},
         UNCHANGED <<heapVars, global, pending, todo, program>>,
         NEW d \in Reg, NEW v \in Datum, v \in Pointer => Own(heap, v), SetReg(d, v),
         native' \in CallType, CallsIn(heap, native', scenes)
  PROVE  Typed' /\ Calm'
<1>1. Rewritten(scenes, scenes', {v})
  BY RegsSet DEF SetReg
<1> QED BY <1>1, RewriteStep

(* The C function that runs. *)
LEMMA NativeIs ==
  ASSUME Typed, Calm
  PROVE  native \in CallType /\ CallsIn(heap, native, scenes)
BY DEF Typed, Calm

(* I_UNDEFINED, I_NULL and what computes integers. *)
LEMMA LoadStep == ASSUME Typed, Calm, NEW d \in Reg, Load(d) PROVE Typed' /\ Calm'
<1>1. Undefined \in Datum /\ Undefined \notin Pointer
  BY PointerIs DEF Datum
<1>2. pc = "run" /\ pc' = "run" /\ native' = native /\ SetReg(d, Undefined)
      /\ UNCHANGED <<heapVars, global, pending, todo, program>>
  BY DEF Load, Running, Quiet
<1> QED BY <1>1, <1>2, NativeIs, SetRegStep

(* I_MOV. *)
LEMMA MoveStep ==
  ASSUME Typed, Calm, NEW d \in Reg, NEW r \in Reg \cup {0}, Move(d, r)
  PROVE  Typed' /\ Calm'
<1>1. Operand(Regs, r) \in Datum /\ (Operand(Regs, r) \in Pointer => Own(heap, Operand(Regs, r)))
  BY TopIs, RootsOwned
<1>2. pc = "run" /\ pc' = "run" /\ native' = native /\ SetReg(d, Operand(Regs, r))
      /\ UNCHANGED <<heapVars, global, pending, todo, program>>
  BY DEF Move, Running, Quiet
<1> QED BY <1>1, <1>2, NativeIs, SetRegStep

(* A request is issued. *)
LEMMA IssueStep ==
  ASSUME Typed, Calm, NEW request \in RequestType, Issue(request),
         UNCHANGED <<heapVars, global, scenes, todo, native, program>>,
         PendingIn(heap, global, scenes, native, request)
  PROVE  Typed' /\ Calm'
<1>1. pc' = "alloc" /\ pending' = request /\ scenes' = scenes /\ native' = native
  BY DEF Issue
<1>2. scenes \in Scenes /\ used \in [{0, 1} -> Nat]
  BY TopIs DEF Typed
<1>3. World(heap, current, used[current]) /\ used[current] <= BlockSize /\ RootsIn(heap, global, scenes)
  BY DEF Calm
<1>4. heap' = heap /\ used' = used /\ current' = current
  BY DEF heapVars
<1> QED BY <1>1, <1>2, <1>3, <1>4, NativeIs, CalmStep

(* The parts of a request. *)
LEMMA RequestIs ==
  ASSUME NEW op \in {"none", "new", "grow", "import", "cb_arg", "external", "scene"},
         NEW type \in {"none", "object", "closure"}, NEW cap \in Nat, NEW reg \in Reg,
         NEW captured \in UNION {[S -> Reg] : S \in SUBSET Reg}
  PROVE  LET q == Request(op, type, cap, reg, captured) IN
         /\ q \in RequestType /\ q.op = op /\ q.type = type /\ q.cap = cap /\ q.reg = reg
         /\ q.captured = captured /\ q.args = Undefined
BY DEF Request, RequestType, Datum

(* The values of the initial state have their types. *)
LEMMA NothingCaptured ==
  NoFields \in UNION {[S -> Reg] : S \in SUBSET Reg} /\ NoRequest \in RequestType /\ NoCall \in CallType
<1>1. NoFields \in [{} -> Reg]
  BY DEF NoFields
<1>2. NoFields \in UNION {[S -> Reg] : S \in SUBSET Reg}
  BY <1>1
<1>3. 1 \in Reg
  BY FramesAssumption DEF Reg
<1>4. NoRequest \in RequestType
  BY <1>2, <1>3, RequestIs DEF NoRequest
<1>5. NoCall \in CallType
  BY <1>3 DEF NoCall, CallType, Datum
<1> QED BY <1>2, <1>4, <1>5

(* I_NEW_OBJ, I_NEW_ARR and I_NEW_CLS ask for an object. *)
LEMMA NewStep ==
  ASSUME Typed, Calm, ~StaleFields, NEW d \in Reg, NEW type \in {"object", "closure"}, NEW captured,
         captured \in UNION {[S -> Reg] : S \in SUBSET Reg}, New(d, type, captured)
  PROVE  Typed' /\ Calm'
<1> DEFINE q == Request("new", type, 1, d, captured)
<1>1. q \in RequestType /\ q.op = "new" /\ q.args = Undefined /\ q.type # "none" /\ q.captured = captured /\ q.cap = 1
  BY RequestIs
<1>2. Issue(q) /\ UNCHANGED <<heapVars, global, scenes, todo, native, program>>
  BY DEF New
<1> HIDE DEF q
<1>a. ASSUME NEW r \in DOMAIN captured PROVE StorableIn(heap, scenes[1].frames[1].regs[captured[r]])
  <2>1. Storable(Regs[captured[r]])
    BY DEF New
  <2>2. Regs[captured[r]] \in Datum /\ Regs = scenes[1].frames[1].regs
    <3>1. captured[r] \in Reg
      OBVIOUS
    <3> QED BY <3>1, TopIs
  <2> QED BY <2>1, <2>2, PointerIs DEF Storable, StorableIn, At, Obj
<1>3. PendingIn(heap, global, scenes, native, q)
  BY <1>1, <1>a DEF PendingIn
<1> QED BY <1>1, <1>2, <1>3, IssueStep

(* _lib_import asks for the external array of its scene. *)
LEMMA ImportStep == ASSUME Typed, Calm, NEW d \in Reg, Import(d) PROVE Typed' /\ Calm'
<1> DEFINE q == RequestScene("import", d, Undefined)
<1>1. q \in RequestType /\ q.op = "import" /\ q.args = Undefined /\ q.type # "none" /\ q.cap = 1
  <2>1. Request("import", "object", 1, d, NoFields) \in RequestType
    BY NothingCaptured, RequestIs
  <2> QED BY <2>1 DEF RequestScene, RequestType, Datum, Request
<1>2. Issue(q) /\ UNCHANGED <<heapVars, global, scenes, todo, native, program>>
  BY DEF Import
<1> HIDE DEF q
<1>3. PendingIn(heap, global, scenes, native, q)
  BY <1>1 DEF PendingIn
<1> QED BY <1>1, <1>2, <1>3, IssueStep

(* _lib_foreach asks for the array of arguments. *)
LEMMA ForeachNextStep == ASSUME Typed, Calm, ForeachNext PROVE Typed' /\ Calm'
<1> DEFINE q == Request("cb_arg", "object", 1, native.rd, NoFields)
<1>0. native \in CallType /\ native.rd \in Reg /\ CallsIn(heap, native, scenes)
  BY NativeIs DEF CallType
<1>1. q \in RequestType /\ q.op = "cb_arg" /\ q.args = Undefined /\ q.type # "none" /\ q.cap = 1
  BY <1>0, NothingCaptured, RequestIs
<1>2. Issue(q) /\ UNCHANGED <<heapVars, global, scenes, todo, native, program>>
  BY DEF ForeachNext
<1> HIDE DEF q
<1>3. native.fn = "foreach"
  <2>1. IsPtr(native.array)
    BY DEF ForeachNext, InForeach, IsTable
  <2>2. native.array # Undefined
    BY <2>1 DEF IsPtr, Undefined
  <2> QED BY <1>0, <2>2 DEF CallsIn
<1>4. PendingIn(heap, global, scenes, native, q)
  BY <1>1, <1>3 DEF PendingIn
<1> QED BY <1>1, <1>2, <1>4, IssueStep

(* error_f in the allocator. *)
LEMMA OutOfMemoryStep == ASSUME Typed, Calm, OutOfMemory PROVE Typed' /\ Calm'
BY DEF OutOfMemory, heapVars, Typed, Calm, Other, BlockSize

(* The loop of _lib_foreach ends. *)
LEMMA ForeachDoneStep == ASSUME Typed, Calm, ForeachDone PROVE Typed' /\ Calm'
<1>1. native \in CallType /\ native.rd \in Reg /\ CallsIn(heap, native, scenes)
  BY NativeIs DEF CallType
<1>2. Undefined \in Datum /\ Undefined \notin Pointer
  BY PointerIs DEF Datum
<1>3. NoCall \in CallType /\ CallsIn(heap, NoCall, scenes)
  BY <1>1, NothingCaptured DEF CallsIn, NoCall
<1>4. pc = "native" /\ pc' = "run" /\ native' = NoCall /\ SetReg(native.rd, Undefined)
      /\ UNCHANGED <<heapVars, global, pending, todo, program>>
  BY DEF ForeachDone, InForeach
<1> QED BY <1>1, <1>2, <1>3, <1>4, SetRegStep

(* What hash_find returns is a field or undefined. *)
LEMMA GetIs ==
  ASSUME NEW o \in Object, NEW k
  PROVE  Get(o, k) \in Datum /\ (Get(o, k) \in Pointer => Get(o, k) \in PtrsOf(o))
<1>1. \A i \in DOMAIN o.fields : o.fields[i] \in Datum
  BY ObjectIs
<1>2. Undefined \in Datum /\ Undefined \notin Pointer
  BY PointerIs DEF Datum
<1> QED BY <1>1, <1>2 DEF Get, PtrsOf

(* What an owned table holds is owned. *)
LEMMA OwnedFields ==
  ASSUME Typed, Calm, NEW p, Own(heap, p)
  PROVE  p \in Places /\ Obj(p) \in Object /\ \A v \in PtrsOf(Obj(p)) : Own(heap, v)
<1>1. p \in Places /\ Obj(p).id # NoId
  BY DEF Own, Places, At, Obj
<1>2. Obj(p) \in Object /\ Good(heap, Obj(p))
  BY <1>1, ObjTyped, CalmIs
<1> QED BY <1>1, <1>2 DEF Good, Own

(* The table behind a register is owned, and no header. *)
LEMMA ResolveOwned ==
  ASSUME Typed, Calm, NEW r \in Reg, IsPtr(Regs[r])
  PROVE  /\ Own(heap, Resolve(Regs[r])) /\ Resolve(Regs[r]) \in Pointer /\ Resolve(Regs[r]) \in Datum
         /\ Obj(Resolve(Regs[r])).type # "redirect"
         /\ Obj(Regs[r]).type # "redirect" => Resolve(Regs[r]) = Regs[r]
<1>1. Regs[r] \in Datum
  BY TopIs
<1>2. Regs[r] \in Pointer
  BY <1>1, PointerIs
<1>3. Own(heap, Regs[r])
  BY <1>2, RootsOwned
<1>4. Regs[r] \in Places /\ Obj(Regs[r]).id # NoId
  BY <1>3 DEF Own, Places, At, Obj
<1>5. Headers /\ Volume
  BY CalmIs
<1>6. /\ Resolve(Regs[r]) \in Places /\ Obj(Resolve(Regs[r])).type # "redirect"
      /\ Obj(Resolve(Regs[r])).id = Obj(Regs[r]).id
      /\ Obj(Regs[r]).type # "redirect" => Resolve(Regs[r]) = Regs[r]
  BY <1>4, <1>5, ResolveIs
<1>7. Resolve(Regs[r]) \in Pointer /\ Resolve(Regs[r]) \in Datum
  BY <1>6 DEF Places, In, Datum
<1> QED BY <1>4, <1>6, <1>7 DEF Own, Places, At, Obj

(* I_GET_OBJ. *)
LEMMA GetObjStep ==
  ASSUME Typed, Calm, NEW d \in Reg, NEW r \in Reg, NEW k, GetObj(d, r, k)
  PROVE  Typed' /\ Calm'
<1>0. IsPtr(Regs[r])
  BY DEF GetObj, Holds
<1>1. PICK p : p = Resolve(Regs[r])
  OBVIOUS
<1>2. Own(heap, p) /\ p \in Datum
  BY <1>0, <1>1, ResolveOwned
<1>3. PICK v : v = Get(Obj(p), k)
  OBVIOUS
<1>4. v \in Datum /\ (v \in Pointer => Own(heap, v))
  BY <1>2, <1>3, OwnedFields, GetIs
<1>5. scenes' = WithRegs([Regs EXCEPT ![r] = p, ![d] = v])
  BY <1>1, <1>3 DEF GetObj
<1>6. pc = "run" /\ pc' = "run" /\ native' = native
      /\ UNCHANGED <<heapVars, global, pending, todo, program>>
  BY DEF GetObj, Running, Quiet
<1>7. scenes \in Scenes /\ Regs \in [Reg -> Datum]
      /\ \A x \in Reg : Regs[x] \in Pointer => Regs[x] \in HeldBy(scenes[1])
  BY TopIs
<1> DEFINE regs == [Regs EXCEPT ![r] = p, ![d] = v]
<1>8. regs \in [Reg -> Datum] /\ \A x \in Reg : regs[x] = IF x = d THEN v ELSE IF x = r THEN p ELSE Regs[x]
  BY <1>2, <1>4, <1>7
<1>9. \A x \in Reg : regs[x] \in Pointer => regs[x] \in {p, v} \cup HeldBy(scenes[1])
  BY <1>7, <1>8
<1>10. scenes' = [scenes EXCEPT ![1].frames[1].regs = regs]
  BY <1>5 DEF WithRegs
<1> HIDE DEF regs
<1>11. Rewritten(scenes, scenes', {p, v})
  BY <1>7, <1>8, <1>9, <1>10, RegsRewritten
<1>12. \A w \in {p, v} : w \in Pointer => Own(heap, w)
  BY <1>2, <1>4
<1> QED BY <1>6, <1>11, <1>12, NativeIs, RewriteStep

(* A frame gets its pointers from the closure and the arguments. *)
LEMMA NewFrameIs ==
  ASSUME NEW func \in Object, NEW args \in Object, NEW rd \in Reg
  PROVE  /\ NewFrame(func, args, rd) \in FrameType
         /\ \A r \in Reg : NewFrame(func, args, rd).regs[r] \in Pointer =>
              NewFrame(func, args, rd).regs[r] \in PtrsOf(func) \cup PtrsOf(args)
<1>1. \A k : Get(args, k) \in Datum /\ (Get(args, k) \in Pointer => Get(args, k) \in PtrsOf(args))
  BY GetIs
<1>2. \A i \in DOMAIN func.fields : func.fields[i] \in Datum
  BY ObjectIs
<1>3. Undefined \in Datum /\ Undefined \notin Pointer
  BY PointerIs DEF Datum
<1> DEFINE at(r) == IF r \in DOMAIN func.fields THEN func.fields[r]
                    ELSE IF r <= Arguments + 1 THEN Get(args, r - 1) ELSE Undefined
<1>4. ASSUME NEW r \in Reg
      PROVE  at(r) \in Datum /\ (at(r) \in Pointer => at(r) \in PtrsOf(func) \cup PtrsOf(args))
  <2>1. CASE r \in DOMAIN func.fields
    BY <2>1, <1>2 DEF PtrsOf
  <2>2. CASE r \notin DOMAIN func.fields /\ r <= Arguments + 1
    BY <2>2, <1>1
  <2>3. CASE r \notin DOMAIN func.fields /\ ~(r <= Arguments + 1)
    BY <2>3, <1>3
  <2> QED BY <2>1, <2>2, <2>3
<1>5. NewFrame(func, args, rd) = [regs |-> [r \in Reg |-> at(r)], rd |-> rd]
  BY DEF NewFrame
<1> HIDE DEF at
<1> QED BY <1>4, <1>5 DEF FrameType

(* I_CALL of a closure. *)
LEMMA CallStep ==
  ASSUME Typed, Calm, NEW d \in Reg, NEW f \in Reg, NEW a \in Reg, Call(d, f, a)
  PROVE  Typed' /\ Calm'
<1>0. IsPtr(Regs[f]) /\ IsPtr(Regs[a])
  BY DEF Call, Holds
<1>1. PICK func, args : func = Resolve(Regs[f]) /\ args = Resolve(Regs[a])
  OBVIOUS
<1>2. Own(heap, func) /\ func \in Datum /\ Own(heap, args) /\ args \in Datum
  BY <1>0, <1>1, ResolveOwned
<1>3. PICK frame : frame = NewFrame(Obj(func), Obj(args), d)
  OBVIOUS
<1>4. /\ frame \in FrameType
      /\ \A r \in Reg : frame.regs[r] \in Pointer => frame.regs[r] \in PtrsOf(Obj(func)) \cup PtrsOf(Obj(args))
      /\ \A v \in PtrsOf(Obj(func)) \cup PtrsOf(Obj(args)) : Own(heap, v)
  BY <1>2, <1>3, OwnedFields, NewFrameIs
<1>5. PICK caller : caller = WithRegs([Regs EXCEPT ![f] = func, ![a] = args])
  OBVIOUS
<1>6. scenes' = [caller EXCEPT ![1].frames = <<frame>> \o @]
  BY <1>1, <1>3, <1>5 DEF Call
<1>7. pc = "run" /\ pc' = "run" /\ native' = native
      /\ UNCHANGED <<heapVars, global, pending, todo, program>>
  BY DEF Call, Running, Quiet
<1>8. scenes \in Scenes /\ Regs \in [Reg -> Datum]
      /\ \A x \in Reg : Regs[x] \in Pointer => Regs[x] \in HeldBy(scenes[1])
  BY TopIs
<1> DEFINE regs == [Regs EXCEPT ![f] = func, ![a] = args]
<1>9. regs \in [Reg -> Datum] /\ \A x \in Reg : regs[x] = IF x = a THEN args ELSE IF x = f THEN func ELSE Regs[x]
  BY <1>2, <1>8
<1>10. \A x \in Reg : regs[x] \in Pointer => regs[x] \in {func, args} \cup HeldBy(scenes[1])
  BY <1>8, <1>9
<1>11. caller = [scenes EXCEPT ![1].frames[1].regs = regs]
  BY <1>5 DEF WithRegs
<1> HIDE DEF regs
<1>12. Rewritten(scenes, caller, {func, args})
  BY <1>8, <1>9, <1>10, <1>11, RegsRewritten
<1>13. RootsIn(heap, global, caller) /\ CallsIn(heap, native, caller) /\ caller \in Scenes
  <2>1. RootsIn(heap, global, scenes) /\ CallsIn(heap, native, scenes)
    BY DEF Calm
  <2>2. \A v \in {func, args} : v \in Pointer => Own(heap, v)
    BY <1>2
  <2>3. RootsIn(heap, global, caller)
    BY <1>12, <2>1, <2>2, RootsRewritten
  <2>4. CallsIn(heap, native, caller)
    BY <1>12, <2>1, CallsRewritten
  <2> QED BY <1>12, <2>3, <2>4 DEF Rewritten
<1>14. caller[1].frames \in Seq(FrameType) /\ Len(caller[1].frames) \in Nat \ {0}
  BY <1>13, SceneIs
<1> DEFINE fs == <<frame>> \o caller[1].frames  X == PtrsOf(Obj(func)) \cup PtrsOf(Obj(args))
<1>15. /\ fs \in Seq(FrameType) /\ Len(fs) = 1 + Len(caller[1].frames)
       /\ \A i \in 1 .. 1 + Len(caller[1].frames) : fs[i] = IF i <= 1 THEN frame ELSE caller[1].frames[i - 1]
  <2>1. <<frame>> \in Seq(FrameType) /\ Len(<<frame>>) = 1 /\ <<frame>>[1] = frame
    BY <1>4
  <2> QED BY <1>14, <2>1, ConcatProperties
<1>16. scenes' = [caller EXCEPT ![1] = [caller[1] EXCEPT !.frames = fs]]
  BY <1>6
<1> HIDE DEF fs, X
<1>17. fs # <<>>
  BY <1>14, <1>15, EmptySeq
<1>18. ASSUME NEW i \in 1 .. Len(fs), NEW r \in Reg, fs[i].regs[r] \in Pointer
       PROVE  fs[i].regs[r] \in X \cup HeldBy(caller[1])
  <2>1. CASE i = 1
    BY <2>1, <1>4, <1>15, <1>18 DEF X
  <2>2. CASE i # 1
    <3>1. i - 1 \in 1 .. Len(caller[1].frames) /\ fs[i] = caller[1].frames[i - 1]
      BY <2>2, <1>14, <1>15
    <3>2. PICK n \in 1 .. Len(caller[1].frames) : fs[i] = caller[1].frames[n]
      BY <3>1
    <3>3. fs[i].regs[r] = caller[1].frames[n].regs[r]
      BY <3>2
    <3>4. caller[1].frames[n].regs[r] \in HeldBy(caller[1])
      BY <3>2, <3>3, <1>18 DEF HeldBy
    <3> QED BY <3>3, <3>4
  <2> QED BY <2>1, <2>2
<1>19. Rewritten(caller, scenes', X)
  BY <1>13, <1>15, <1>16, <1>17, <1>18, FramesRewritten
<1>20. RootsIn(heap, global, scenes') /\ CallsIn(heap, native, scenes') /\ scenes' \in Scenes
  <2>1. \A v \in X : v \in Pointer => Own(heap, v)
    BY <1>4 DEF X
  <2>2. RootsIn(heap, global, scenes')
    BY <1>13, <1>19, <2>1, RootsRewritten
  <2>3. CallsIn(heap, native, scenes')
    BY <1>13, <1>19, CallsRewritten
  <2> QED BY <1>19, <2>2, <2>3 DEF Rewritten
<1> QED BY <1>7, <1>20, NativeIs, SceneStep

(* I_RET to a frame of the same scene. *)
LEMMA ReturnStep ==
  ASSUME Typed, Calm, NEW r \in Reg, Return(r)
  PROVE  Typed' /\ Calm'
<1> DEFINE frames == scenes[1].frames  t == Tail(frames)  v == Regs[r]
           fr == [t[1] EXCEPT !.regs[scenes[1].frames[1].rd] = v]
           fs == [t EXCEPT ![1] = fr]
<1>1. /\ scenes \in Scenes /\ Scene = scenes[1] /\ Frame = frames[1] /\ Frame \in FrameType
      /\ v \in Datum /\ (v \in Pointer => v \in HeldBy(scenes[1]))
  BY TopIs
<1>2. frames \in Seq(FrameType) /\ frames # <<>> /\ Len(frames) \in Nat /\ Len(frames) > 1
  BY <1>1, SceneIs DEF Return
<1>3. t \in Seq(FrameType) /\ Len(t) = Len(frames) - 1 /\ \A i \in 1 .. Len(t) : t[i] = frames[i + 1]
  BY <1>2, HeadTailProperties
<1>4. scenes' = [scenes EXCEPT ![1] = [scenes[1] EXCEPT !.frames = fs]]
  BY <1>1 DEF Return
<1>5. pc = "run" /\ pc' = "run" /\ native' = native
      /\ UNCHANGED <<heapVars, global, pending, todo, program>>
  BY DEF Return, Running, Quiet
<1>6. t[1] \in FrameType /\ 1 \in 1 .. Len(t) /\ Frame.rd \in Reg
  <2>1. 1 \in 1 .. Len(t)
    BY <1>2, <1>3
  <2>2. t[1] \in FrameType
    BY <1>3, <2>1, ElementOfSeq
  <2> QED BY <1>1, <2>1, <2>2 DEF FrameType
<1>7. fr \in FrameType /\ \A x \in Reg : fr.regs[x] = IF x = Frame.rd THEN v ELSE t[1].regs[x]
  <2> HIDE DEF v, t
  <2> QED BY <1>1, <1>6 DEF FrameType
<1> HIDE DEF t, v, fr
<1>8. fs \in Seq(FrameType) /\ Len(fs) = Len(t) /\ \A i \in 1 .. Len(fs) : fs[i] = IF i = 1 THEN fr ELSE t[i]
  BY <1>3, <1>6, <1>7, ExceptSeq
<1> HIDE DEF fs
<1>9. fs # <<>>
  BY <1>6, <1>8, EmptySeq
<1>10. ASSUME NEW i \in 1 .. Len(fs), NEW x \in Reg, fs[i].regs[x] \in Pointer
       PROVE  fs[i].regs[x] \in {} \cup HeldBy(scenes[1])
  <2>1. i + 1 \in 1 .. Len(frames) /\ t[i] = frames[i + 1]
    BY <1>2, <1>3, <1>8
  <2>2. CASE i = 1 /\ x = Frame.rd
    BY <2>2, <1>1, <1>7, <1>8, <1>10
  <2>3. CASE ~(i = 1 /\ x = Frame.rd)
    <3>1. fs[i].regs[x] = frames[i + 1].regs[x]
      BY <2>1, <2>3, <1>7, <1>8
    <3> QED BY <2>1, <3>1, <1>10 DEF HeldBy
  <2> QED BY <2>2, <2>3
<1>11. Rewritten(scenes, scenes', {})
  BY <1>1, <1>4, <1>8, <1>9, <1>10, FramesRewritten
<1> QED BY <1>5, <1>11, NativeIs, RewriteStep

(* The end of an imported script. *)
LEMMA LeaveImportStep ==
  ASSUME Typed, Calm, NEW v \in {Undefined} \cup Range(Regs), Leave(v), LeaveImport(v)
  PROVE  Typed' /\ Calm'
<1>1. /\ scenes \in Scenes /\ Scene = scenes[1] /\ scenes[1] \in SceneType /\ Regs \in [Reg -> Datum]
      /\ \A x \in Reg : Regs[x] \in Pointer => Regs[x] \in HeldBy(scenes[1])
  BY TopIs
<1>2. v \in Datum /\ (v \in Pointer => Own(heap, v))
  <2>1. CASE v = Undefined
    BY <2>1, PointerIs DEF Datum
  <2>2. CASE v \in Range(Regs)
    <3>1. PICK r \in Reg : v = Regs[r]
      BY <2>2, <1>1 DEF Range
    <3> QED BY <3>1, <1>1, RootsOwned
  <2> QED BY <2>1, <2>2
<1>3. PICK t : t = Tail(scenes)
  OBVIOUS
<1>4. Len(scenes) > 1 /\ RootsIn(heap, global, scenes) /\ CallsIn(heap, native, scenes)
  BY DEF Leave, Calm
<1>5. /\ t \in Scenes /\ RootsIn(heap, global, t)
      /\ \A s \in 1 .. Len(t) : t[s] = scenes[s + 1] /\ s + 1 \in 1 .. Len(scenes)
  BY <1>1, <1>3, <1>4, RootsTail
<1>6. CallsIn(heap, native, t)
  BY <1>4, <1>5 DEF CallsIn
<1>7. PICK rd : rd = Scene.caller.rd
  OBVIOUS
<1>8. rd \in Reg
  BY <1>1, <1>7 DEF SceneType, CallType
<1>9. t[1].frames[1].regs \in [Reg -> Datum] /\ 1 \in 1 .. Len(t) /\ 1 \in 1 .. Len(t[1].frames)
  BY <1>5, SceneIs
<1> DEFINE regs == [t[1].frames[1].regs EXCEPT ![rd] = v]
<1>10. regs \in [Reg -> Datum] /\ \A x \in Reg : regs[x] = IF x = rd THEN v ELSE t[1].frames[1].regs[x]
  BY <1>2, <1>9
<1>11. scenes' = [t EXCEPT ![1].frames[1].regs = regs]
  BY <1>3, <1>7 DEF LeaveImport
<1> HIDE DEF regs
<1>12. \A x \in Reg : regs[x] \in Pointer => regs[x] \in {v} \cup HeldBy(t[1])
  BY <1>9, <1>10 DEF HeldBy
<1>13. Rewritten(t, scenes', {v})
  BY <1>5, <1>10, <1>11, <1>12, RegsRewritten
<1>14. RootsIn(heap, global, scenes') /\ CallsIn(heap, native, scenes') /\ scenes' \in Scenes
  <2>1. \A w \in {v} : w \in Pointer => Own(heap, w)
    BY <1>2
  <2>2. RootsIn(heap, global, scenes')
    BY <1>5, <1>13, <2>1, RootsRewritten
  <2>3. CallsIn(heap, native, scenes')
    BY <1>6, <1>13, CallsRewritten
  <2> QED BY <1>13, <2>2, <2>3 DEF Rewritten
<1>15. pc = "run" /\ pc' = "run" /\ native' = native
       /\ UNCHANGED <<heapVars, global, pending, todo, program>>
  BY DEF Leave, LeaveImport, Running
<1> QED BY <1>14, <1>15, NativeIs, SceneStep

(* The end of a callback of foreach. *)
LEMMA LeaveCallbackStep ==
  ASSUME Typed, Calm, NEW v, Leave(v), LeaveCallback
  PROVE  Typed' /\ Calm'
<1>1. scenes \in Scenes /\ Scene = scenes[1] /\ scenes[1] \in SceneType
  BY TopIs
<1>2. Len(scenes) > 1 /\ RootsIn(heap, global, scenes) /\ CallsIn(heap, native, scenes)
  BY DEF Leave, Calm
<1>3. PICK t : t = Tail(scenes)
  OBVIOUS
<1>4. /\ t \in Scenes /\ RootsIn(heap, global, t)
      /\ \A s \in 1 .. Len(t) : t[s] = scenes[s + 1] /\ s + 1 \in 1 .. Len(scenes)
  BY <1>1, <1>2, <1>3, RootsTail
<1>5. scenes' = t /\ native' = scenes[1].caller
  BY <1>1, <1>3 DEF LeaveCallback
<1>6. 1 \in 1 .. Len(scenes) /\ native' \in CallType
  BY <1>1, <1>5, SceneIs
<1>7. CallsIn(heap, native', t)
  BY <1>2, <1>4, <1>5, <1>6 DEF CallsIn
<1>8. pc = "run" /\ pc' = "native"
      /\ UNCHANGED <<heapVars, global, pending, todo, program>>
  BY DEF Leave, LeaveCallback, Running
<1> QED BY <1>4, <1>5, <1>6, <1>7, <1>8, SceneStep

(* The call of _lib_foreach. *)
LEMMA ForeachCallStep ==
  ASSUME Typed, Calm, NEW d \in Reg, NEW a \in Reg, ForeachCall(d, a)
  PROVE  Typed' /\ Calm'
<1>1. IsPtr(Regs[a])
  BY DEF ForeachCall, IsTable
<1>2. Regs[a] \in Pointer
  BY <1>1, TopIs, PointerIs
<1>3. Own(heap, Regs[a])
  BY <1>2, RootsOwned
<1>4. PICK array, callback : /\ array = Get(Obj(Regs[a]), ArrayArgument)
                             /\ callback = Get(Obj(Regs[a]), CallbackArgument)
  OBVIOUS
<1>5. IsPtr(array) /\ IsPtr(callback)
  BY <1>4 DEF ForeachCall, IsTable
<1>6. native' = [fn |-> "foreach", rd |-> d, array |-> array, callback |-> callback, done |-> 0]
  BY <1>4 DEF ForeachCall
<1>7. array \in Datum /\ callback \in Datum /\ Own(heap, array) /\ Own(heap, callback)
  <2>1. Obj(Regs[a]) \in Object /\ \A v \in PtrsOf(Obj(Regs[a])) : Own(heap, v)
    BY <1>3, OwnedFields
  <2>2. array \in Datum /\ (array \in Pointer => Own(heap, array))
    BY <1>4, <2>1, GetIs
  <2>3. callback \in Datum /\ (callback \in Pointer => Own(heap, callback))
    BY <1>4, <2>1, GetIs
  <2> QED BY <1>5, <2>2, <2>3, PointerIs
<1>8. native' \in CallType
  BY <1>6, <1>7 DEF CallType
<1>9. CallsIn(heap, native', scenes)
  <2>1. CallsIn(heap, native, scenes)
    BY NativeIs
  <2> QED BY <1>6, <1>7, <2>1 DEF CallsIn
<1>10. scenes \in Scenes /\ RootsIn(heap, global, scenes)
  BY TopIs DEF Calm
<1>11. pc = "run" /\ pc' = "native" /\ scenes' = scenes
       /\ UNCHANGED <<heapVars, global, pending, todo, program>>
  BY DEF ForeachCall, Running
<1> QED BY <1>8, <1>9, <1>10, <1>11, SceneStep

------------------------------------------------------------------------------

(* What hash_set leaves in the fields. *)
LEMMA PutIs ==
  ASSUME NEW f \in Fields, NEW k \in Nat, NEW v \in Datum
  PROVE  /\ Put(f, k, v) \in Fields
         /\ {Put(f, k, v)[i] : i \in DOMAIN Put(f, k, v)} \subseteq {v} \cup {f[i] : i \in DOMAIN f}
<1>1. PICK S \in {T \in SUBSET Nat : IsFiniteSet(T)} : f \in [S -> Datum \ {Undefined}]
  BY DEF Fields
<1>2. DOMAIN f = S /\ IsFiniteSet(S) /\ S \subseteq Nat /\ \A i \in S : f[i] \in Datum \ {Undefined}
  BY <1>1
<1> DEFINE g == Put(f, k, v)  D == IF v = Undefined THEN S \ {k} ELSE S \cup {k}
<1>3. DOMAIN g = D /\ g = [x \in D |-> IF x = k THEN v ELSE f[x]]
  BY <1>2 DEF Put
<1>4. IsFiniteSet(D) /\ D \in SUBSET Nat
  <2>1. IsFiniteSet(S \ {k}) /\ IsFiniteSet(S \cup {k})
    BY <1>2, FS_RemoveElement, FS_AddElement
  <2> QED BY <1>2, <2>1
<1>5. ASSUME NEW x \in D
      PROVE  /\ g[x] = (IF x = k THEN v ELSE f[x]) /\ g[x] \in Datum \ {Undefined}
             /\ g[x] \in {v} \cup {f[i] : i \in DOMAIN f}
  BY <1>2, <1>3
<1>6. g \in [D -> Datum \ {Undefined}]
  BY <1>3, <1>5
<1> HIDE DEF g, D
<1>7. g \in Fields
  BY <1>4, <1>6, FieldsTyped
<1> QED BY <1>3, <1>5, <1>7 DEF g

(* A step that changes the heap and gives registers other pointers. *)
LEMMA HeapStep ==
  ASSUME Typed, Calm, pc' \in {"run", "native", "alloc", "oom"},
         World(heap', current, used'[current]), Kept(heap, heap'), used' \in [{0, 1} -> Nat],
         used'[Other] = used[Other], used'[current] <= BlockSize,
         current' = current, global' = global, todo' = todo, program' = program,
         At(heap', global).type # "redirect",
         \A s \in 1 .. Len(scenes) :
           At(heap', scenes[s].external).type # "redirect" /\ ApartIn(heap', scenes[s].external),
         NEW X, Rewritten(scenes, scenes', X), \A v \in X : v \in Pointer => Own(heap', v),
         native' = native,
         pending' \in RequestType, PendingIn(heap', global, scenes', native, pending'),
         pc' \in {"run", "native"} => pending'.op = "none"
  PROVE  Typed' /\ Calm'
<1>1. scenes \in Scenes /\ scenes' \in Scenes
  BY TopIs DEF Rewritten
<1>2. RootsIn(heap, global, scenes) /\ CallsIn(heap, native, scenes) /\ native \in CallType
  BY NativeIs DEF Calm
<1>3. RootsIn(heap', global, scenes)
  BY <1>1, <1>2, RootsKept
<1>4. RootsIn(heap', global, scenes')
  BY <1>3, RootsRewritten
<1>5. CallsIn(heap', native, scenes)
  BY <1>2, CallsKept
<1>6. CallsIn(heap', native, scenes')
  BY <1>5, CallsRewritten
<1> QED BY <1>1, <1>2, <1>4, <1>6, CalmStep

(* An external array is of C code only: no script holds it. *)
LEMMA ExternalsAre ==
  ASSUME Typed, Calm, NEW s \in 1 .. Len(scenes)
  PROVE  LET e == scenes[s].external IN
         /\ e \in Pointer /\ e \in Places /\ Obj(e).id = NoId /\ Obj(e).type # "redirect"
         /\ ApartIn(heap, e) /\ \A v : Own(heap, v) => v # e
<1>1. scenes \in Scenes
  BY TopIs
<1>2. scenes[s].external \in Pointer
  BY <1>1, SceneIs
<1> QED BY <1>2 DEF Calm, RootsIn, ExternalIn, Own, Places, At, Obj

(* I_SET_OBJ, to the request for a larger table.  ~StaleFields is needed here. *)
LEMMA SetObjStep ==
  ASSUME Typed, Calm, ~StaleFields,
         NEW r \in Reg, NEW k \in Key, NEW s \in Reg \cup {0}, SetObj(r, k, s)
  PROVE  Typed' /\ Calm'
<1>0. IsPtr(Regs[r]) /\ Obj(Resolve(Regs[r])).type = "object"
  BY DEF SetObj, Holds
<1>1. PICK p : p = Resolve(Regs[r])
  OBVIOUS
<1>2. Own(heap, p) /\ p \in Pointer /\ p \in Datum /\ Obj(p).type = "object" /\ p \in Places /\ Obj(p) \in Object
  BY <1>0, <1>1, ResolveOwned, OwnedFields
<1>3. PICK v : v = Operand(Regs, s)
  OBVIOUS
<1>4. v \in Datum /\ (v \in Pointer => Own(heap, v) /\ Obj(v).type # "redirect")
  <2>1. v \in Datum /\ (v \in Pointer => Own(heap, v))
    BY <1>3, TopIs, RootsOwned
  <2>2. IsPtr(v) => Obj(v).type # "redirect"
    BY <1>3 DEF SetObj, Storable
  <2> QED BY <2>1, <2>2, PointerIs
<1>5. PICK f : f = Put(Obj(p).fields, k, v)
  OBVIOUS
<1>6. f \in Fields /\ {f[i] : i \in DOMAIN f} \subseteq {v} \cup {Obj(p).fields[i] : i \in DOMAIN Obj(p).fields}
  <2>1. k \in Nat /\ Obj(p).fields \in Fields
    BY <1>2, FramesAssumption DEF Object
  <2>2. PICK of : of = Obj(p).fields
    OBVIOUS
  <2>3. Put(of, k, v) \in Fields /\ {Put(of, k, v)[i] : i \in DOMAIN Put(of, k, v)} \subseteq {v} \cup {of[i] : i \in DOMAIN of}
    <3>1. of \in Fields /\ k \in Nat /\ v \in Datum
      BY <1>4, <2>1, <2>2
    <3> QED BY <3>1, PutIs, Zenon
  <2> QED BY <1>5, <2>2, <2>3
<1>7. PICK o : o = [Obj(p) EXCEPT !.fields = f]
  OBVIOUS
<1>8. /\ o \in Object /\ o.type = "object" /\ o.cap = Obj(p).cap /\ o.fields = f /\ o.id = Obj(p).id
  BY <1>2, <1>6, <1>7 DEF Object
<1>9. /\ scenes' = WithRegs([Regs EXCEPT ![r] = p]) /\ heap' = Store(heap, p, o)
      /\ NeedExpand(o) => p # global /\ (\A i \in 1 .. Len(heap[current]) : p \notin Targets(<<current, i>>)) /\ v # p
      /\ IF NeedExpand(o) THEN Issue(Request("grow", o.type, 2 * o.cap, r, NoFields))
         ELSE UNCHANGED <<pc, pending>>
      /\ pc = "run" /\ UNCHANGED <<used, current, global, todo, native, program>>
  BY <1>1, <1>3, <1>5, <1>7 DEF SetObj, SetReg, Store, HeldByRegistersOnly, Running
<1>10. World(heap, current, used[current])
  BY DEF Calm
<1>11. \A w \in PtrsOf(o) : w = v \/ w \in PtrsOf(Obj(p))
  BY <1>6, <1>8 DEF PtrsOf
<1>12. Good(heap, o)
  <2>1. Good(heap, Obj(p))
    BY <1>2, CalmIs
  <2>2. PtrsOf(o) \subseteq Pointer
    BY DEF PtrsOf
  <2> QED BY <1>4, <1>8, <1>11, <2>1, <2>2 DEF Good, Own, At, Obj
<1>13. /\ World(heap', current, used[current]) /\ Kept(heap, heap')
       /\ \A x \in Places : At(heap', x).type = Obj(x).type
       /\ \A w \in Pointer : w \notin {f[i] : i \in DOMAIN f} /\ ApartIn(heap, w) => ApartIn(heap', w)
  <2>1. p \in In(heap) /\ At(heap, p) = Obj(p)
    BY <1>2 DEF Places, At, Obj
  <2>2. Good(heap, [At(heap, p) EXCEPT !.fields = f])
    BY <1>7, <1>12, <2>1
  <2>3. heap' = Store(heap, p, [At(heap, p) EXCEPT !.fields = f])
    BY <1>7, <1>9, <2>1
  <2>4. /\ World(heap', current, used[current]) /\ Kept(heap, heap')
        /\ \A x \in In(heap) : At(heap', x).type = At(heap, x).type
        /\ \A w \in Pointer : w \notin {f[i] : i \in DOMAIN f} /\ ApartIn(heap, w) => ApartIn(heap', w)
    BY <1>6, <1>10, <2>1, <2>2, <2>3, WorldFields
  <2> QED BY <2>4 DEF Places, At, Obj
<1>14. \A w \in Pointer : w # v /\ ApartIn(heap, w) => ApartIn(heap', w)
  <2>1. ASSUME NEW w \in Pointer, w # v, ApartIn(heap, w) PROVE w \notin {f[i] : i \in DOMAIN f}
    <3>1. w \notin PtrsOf(Obj(p))
      BY <1>2, <2>1 DEF ApartIn, Places, At, Obj
    <3> QED BY <1>6, <2>1, <3>1 DEF PtrsOf
  <2> QED BY <1>13, <2>1
<1>15. ASSUME NEW i \in 1 .. Len(scenes)
       PROVE  At(heap', scenes[i].external).type # "redirect" /\ ApartIn(heap', scenes[i].external)
  <2>1. /\ scenes[i].external \in Pointer /\ scenes[i].external \in Places
        /\ Obj(scenes[i].external).type # "redirect" /\ ApartIn(heap, scenes[i].external)
        /\ \A w : Own(heap, w) => w # scenes[i].external
    BY ExternalsAre
  <2>2. scenes[i].external # v
    BY <1>4, <2>1
  <2> QED BY <1>13, <1>14, <2>1, <2>2
<1>16. At(heap', global).type # "redirect" /\ global \in Pointer
  <2>1. global \in Places /\ Obj(global).type # "redirect" /\ global \in Pointer
    BY DEF Calm, RootsIn, Own, Places, At, Obj, Typed
  <2> QED BY <1>13, <2>1
<1>17. Rewritten(scenes, scenes', {p}) /\ scenes'[1].frames[1].regs = [Regs EXCEPT ![r] = p] /\ Own(heap', p)
  <2>1. Own(heap', p)
    BY <1>2, <1>13 DEF Own, Kept
  <2> QED BY <1>2, <1>9, <2>1, RegsSet
<1>a. /\ used' \in [{0, 1} -> Nat] /\ used'[Other] = used[Other] /\ used'[current] <= BlockSize
      /\ World(heap', current, used'[current])
      /\ current' = current /\ global' = global /\ todo' = todo /\ program' = program /\ native' = native
  BY <1>9, <1>13 DEF Typed, Calm
<1>b. \A w \in {p} : w \in Pointer => Own(heap', w)
  BY <1>17
<1>18. CASE NeedExpand(o)
  <2> DEFINE q == Request("grow", o.type, 2 * o.cap, r, NoFields)
  <2>1. q \in RequestType /\ q.op = "grow" /\ q.reg = r /\ q.args = Undefined /\ q.type # "none"
    <3>1. 2 * o.cap \in Nat /\ o.type = "object" /\ o.type \in {"none", "object", "closure"}
      BY <1>8 DEF Object
    <3>2. q \in RequestType /\ q.op = "grow" /\ q.reg = r /\ q.args = Undefined /\ q.type = o.type
      BY <3>1, NothingCaptured, RequestIs
    <3> QED BY <3>1, <3>2
  <2> HIDE DEF q
  <2>2. pc' = "alloc" /\ pending' = q
    BY <1>9, <1>18 DEF Issue, q
  <2>3. p # global /\ v # p /\ ApartIn(heap, p)
    <3>1. p # global /\ v # p /\ \A i \in 1 .. Len(heap[current]) : p \notin Targets(<<current, i>>)
      BY <1>9, <1>18
    <3>2. ASSUME NEW x \in In(heap) PROVE p \notin PtrsOf(At(heap, x))
      <4>1. x \in Places /\ x[1] = current /\ x[2] \in 1 .. Len(heap[current]) /\ x = <<current, x[2]>>
        <5>1. x \in Places
          BY DEF Places
        <5> QED BY <5>1, CalmIs, ObjTyped
      <4>2. p \notin Targets(x)
        BY <3>1, <4>1
      <4> QED BY <1>2, <4>2, PointerIs DEF Targets, PtrsOf, At, Obj
    <3> QED BY <3>1, <3>2 DEF ApartIn
  <2>4. GrowingIn(heap', global, scenes'[1].frames[1].regs[q.reg])
    <3>1. scenes'[1].frames[1].regs[r] = p
      BY <1>17, TopIs
    <3> QED BY <1>2, <1>13, <1>14, <2>1, <2>3, <3>1 DEF GrowingIn
  <2>5. PendingIn(heap', global, scenes', native, q)
    BY <2>1, <2>4 DEF PendingIn
  <2> QED BY <1>13, <1>15, <1>16, <1>17, <1>a, <1>b, <2>1, <2>2, <2>5, HeapStep
<1>19. CASE ~NeedExpand(o)
  <2>1. pending' = pending /\ pc' = "run" /\ pending.op = "none" /\ pending.args = Undefined /\ pending \in RequestType
    BY <1>9, <1>19 DEF Calm, PendingIn, Typed
  <2>2. PendingIn(heap', global, scenes', native, pending')
    BY <2>1 DEF PendingIn
  <2> QED BY <1>13, <1>15, <1>16, <1>17, <1>a, <1>b, <2>1, <2>2, HeapStep
<1> QED BY <1>18, <1>19

------------------------------------------------------------------------------

(* An object stored where it is changes nothing. *)
LEMMA StoreSame ==
  ASSUME NEW h \in Heaps, NEW p \in In(h)
  PROVE  Store(h, p, At(h, p)) = h
<1>1. p[1] \in {0, 1} /\ p[2] \in Nat \ {0} /\ p[2] <= Len(h[p[1]])
  BY PointerIs DEF In
<1>2. h[p[1]] \in Seq(Object)
  BY <1>1 DEF Heaps
<1>3. [h[p[1]] EXCEPT ![p[2]] = h[p[1]][p[2]]] = h[p[1]]
  BY <1>2
<1>4. h = [b \in {0, 1} |-> h[b]]
  BY DEF Heaps
<1>5. [h EXCEPT ![p[1]] = h[p[1]]] = h
  BY <1>4
<1> QED BY <1>3, <1>5 DEF Store, At

(* A new object is put at Fresh; p: the other object that changes. *)
LEMMA AllocatedIs ==
  ASSUME Typed, NEW o \in Object
  PROVE  /\ GrowsTo(heap, current, o, Grown(heap, current, o), Fresh)
         /\ Allocated(o, Fresh, o) = Grown(heap, current, o)
         /\ \A p, x : Allocated(o, p, x) = Store(Grown(heap, current, o), p, x)
<1>1. heap \in Heaps /\ current \in {0, 1}
  BY DEF Typed, Heaps
<1>2. GrowsTo(heap, current, o, Grown(heap, current, o), Fresh)
  BY <1>1, GrownIs DEF Fresh
<1>3. \A p, x : Allocated(o, p, x) = Store(Grown(heap, current, o), p, x)
  BY DEF Allocated, Store, Grown
<1>4. PICK k : k = Grown(heap, current, o)
  OBVIOUS
<1>5. k \in Heaps /\ Fresh \in In(k) /\ At(k, Fresh) = o
  BY <1>2, <1>4 DEF GrowsTo
<1>6. Store(k, Fresh, o) = k
  BY <1>5, StoreSame
<1> QED BY <1>2, <1>3, <1>4, <1>6

(* The loop of Denote ends at a place. *)
LEMMA DenoteIs ==
  ASSUME Typed, Calm, NEW p \in Places
  PROVE  Denote(p) \in Places
<1> DEFINE X == {q \in Places : Obj(q).type \in {"redirect", "left"}}
           Is(f) == f = [q \in Places |-> IF Obj(q).type \in {"redirect", "left"} THEN f[Obj(q).fwd] ELSE q]
           Same(f) == f = [q \in Places |-> IF q \in X THEN f[Obj(q).fwd] ELSE q]
<1>0. Headers /\ Volume
  BY CalmIs
<1>1. \A f : Is(f) <=> Same(f)
  <2> TAKE f
  <2>1. \A q \in Places : (IF Obj(q).type \in {"redirect", "left"} THEN f[Obj(q).fwd] ELSE q)
                            = (IF q \in X THEN f[Obj(q).fwd] ELSE q)
    OBVIOUS
  <2> QED BY <2>1
<1>2. X \in SUBSET Places /\ \A q \in X : Obj(q).type \in {"redirect", "left"}
  OBVIOUS
<1>3. (\E f : Same(f)) /\ \A f : Same(f) => \A q \in Places : f[q] \in Places
  <2> HIDE DEF X
  <2> QED BY <1>0, <1>2, Following
<1>4. Denote(p) = (CHOOSE f : Is(f))[p]
  BY <1>0, PlacesAre DEF Denote
<1>5. Same(CHOOSE f : Is(f))
  <2> HIDE DEF Is, Same
  <2> QED BY <1>1, <1>3
<1>6. PICK g : g = CHOOSE f : Is(f)
  OBVIOUS
<1>7. Same(g) /\ Denote(p) = g[p]
  <2> HIDE DEF Is, Same
  <2> QED BY <1>4, <1>5, <1>6, Zenon
<1> HIDE DEF Same
<1> QED BY <1>3, <1>7

(* What scripts get at is in the heap. *)
LEMMA VisibleIs ==
  ASSUME Typed, Calm
  PROVE  Visible \subseteq Places
<1> DEFINE N == BlockSize \div 2
           called == UNION {{c.array, c.callback} : c \in Waiting}
           held == {scenes[x[1]].frames[x[2]].regs[x[3]] : x \in Registers}
           roots == {global} \cup called \cup held
           Tables(values) == {Denote(v) : v \in {w \in values : IsPtr(w)}}
           Step(x) == UNION {near \cup UNION {Tables(Range(Obj(p).fields)) : p \in near} : near \in {x}}
           A == Tables(roots)
           Is(f, m) == f = [n \in 0 .. m |-> IF n = 0 THEN A ELSE Step(f[n - 1])]
<1>0. N \in Nat
  BY BlockSizeIs DEF Typed
<1>1. Visible = (CHOOSE f : Is(f, N))[N]
  BY DEF Visible
<1>2. A \in SUBSET Places
  <2>1. ASSUME NEW v \in roots, IsPtr(v) PROVE v \in Places
    <3>0. v # Undefined
      BY <2>1 DEF IsPtr, Undefined
    <3>1. CASE v = global
      BY <3>1 DEF Calm, RootsIn, Own, Places
    <3>2. ASSUME NEW c \in Waiting, v \in {c.array, c.callback} PROVE v \in Places
      BY <3>0, <3>2, NativeIs DEF CallsIn, Waiting, Own, Places
    <3>3. ASSUME NEW x \in Registers, v = scenes[x[1]].frames[x[2]].regs[x[3]] PROVE v \in Places
      <4>1. x[1] \in 1 .. Len(scenes) /\ x[2] \in 1 .. Len(scenes[x[1]].frames) /\ x[3] \in Reg
        <5>1. PICK y \in AllFrames, r \in Reg : x = <<y[1], y[2], r>>
          BY DEF Registers
        <5>2. y[1] \in DOMAIN scenes /\ y[2] \in DOMAIN scenes[y[1]].frames
          <6>1. PICK t \in DOMAIN scenes : y \in {t} \X DOMAIN scenes[t].frames
            BY Zenon DEF AllFrames
          <6> QED BY <6>1
        <5>3. scenes \in Scenes
          BY TopIs
        <5>4. scenes \in Seq(SceneType) /\ y[1] \in 1 .. Len(scenes)
          BY <5>2, <5>3, SceneIs
        <5>5. scenes[y[1]].frames \in Seq(FrameType)
          BY <5>3, <5>4, SceneIs
        <5> QED BY <5>1, <5>2, <5>4, <5>5
      <4>a. PICK s \in 1 .. Len(scenes) : s = x[1]
        BY <4>1
      <4>b. PICK f \in 1 .. Len(scenes[s].frames), r \in Reg : f = x[2] /\ r = x[3]
        BY <4>1, <4>a
      <4>c. v = scenes[s].frames[f].regs[r]
        BY <3>3, <4>a, <4>b
      <4>2. scenes[s].frames[f].regs \in [Reg -> Datum]
        BY TopIs, SceneIs
      <4>3. v \in Pointer
        BY <2>1, <4>c, <4>2, PointerIs
      <4> HIDE DEF roots, A, Tables, N
      <4>4. Own(heap, v)
        BY <4>c, <4>3, RegistersOwned
      <4> QED BY <4>4 DEF Own, Places
    <3>4. \/ v = global
          \/ \E c \in Waiting : v \in {c.array, c.callback}
          \/ \E x \in Registers : v = scenes[x[1]].frames[x[2]].regs[x[3]]
      <4>1. v = global \/ v \in called \/ v \in held
        BY <2>1
      <4>2. ASSUME v \in called PROVE \E c \in Waiting : v \in {c.array, c.callback}
        BY <4>2
      <4>3. ASSUME v \in held PROVE \E x \in Registers : v = scenes[x[1]].frames[x[2]].regs[x[3]]
        BY <4>3
      <4> HIDE DEF called, held
      <4> QED BY <4>1, <4>2, <4>3
    <3> HIDE DEF roots, A, Tables, N
    <3> QED BY <3>1, <3>2, <3>3, <3>4, Zenon
  <2> HIDE DEF roots
  <2> QED BY <2>1, DenoteIs
<1>3. ASSUME NEW x \in SUBSET Places PROVE Step(x) \in SUBSET Places
  <2>1. ASSUME NEW p \in x, NEW v \in Range(Obj(p).fields), IsPtr(v) PROVE Denote(v) \in Places
    <3>1. Obj(p) \in Object /\ Good(heap, Obj(p))
      BY ObjTyped, CalmIs
    <3>a. PICK k \in DOMAIN Obj(p).fields : v = Obj(p).fields[k]
      BY DEF Range
    <3>2. v \in Pointer
      BY <2>1, <3>1, <3>a, ObjectIs, PointerIs
    <3>3. v \in PtrsOf(Obj(p))
      BY <3>2, <3>a DEF PtrsOf
    <3>4. v \in Places
      BY <3>1, <3>3 DEF Good, Places
    <3> QED BY <3>4, DenoteIs
  <2> QED BY <2>1
<1> HIDE DEF Step, A, N
<1> DEFINE S == {m \in Nat : \E f : Is(f, m)}
<1>4. 0 \in S
  <2>1. Is([n \in 0 .. 0 |-> A], 0)
    OBVIOUS
  <2> HIDE DEF Is
  <2> QED BY <2>1
<1>5. ASSUME NEW m \in Nat, m \in S PROVE m + 1 \in S
  <2>1. PICK f : Is(f, m)
    BY <1>5
  <2> DEFINE g == [n \in 0 .. m + 1 |-> IF n = 0 THEN A ELSE Step(f[n - 1])]
  <2>2. ASSUME NEW n \in 0 .. m PROVE g[n] = f[n]
    BY <2>1
  <2>3. ASSUME NEW n \in 0 .. m + 1, n # 0 PROVE f[n - 1] = g[n - 1]
    <3>1. n - 1 \in 0 .. m
      BY <2>3
    <3> HIDE DEF g
    <3> QED BY <3>1, <2>2
  <2>4. \A n \in 0 .. m + 1 : (IF n = 0 THEN A ELSE Step(f[n - 1])) = (IF n = 0 THEN A ELSE Step(g[n - 1]))
    <3> HIDE DEF g
    <3> QED BY <2>3
  <2>5. g = [n \in 0 .. m + 1 |-> IF n = 0 THEN A ELSE Step(g[n - 1])]
    BY <2>4
  <2> HIDE DEF g
  <2>6. Is(g, m + 1) /\ m + 1 \in Nat
    BY <2>5
  <2> HIDE DEF Is
  <2> QED BY <2>6
<1>6. N \in S
  <2> HIDE DEF S
  <2> QED BY <1>0, <1>4, <1>5, NatInd
<1>7. PICK f : Is(f, N) /\ Visible = f[N]
  <2>1. \E f : Is(f, N)
    BY <1>6
  <2> HIDE DEF Is
  <2> QED BY <1>1, <2>1
<1> DEFINE T == {m \in Nat : m <= N => f[m] \in SUBSET Places}
<1>8. 0 \in T
  <2>1. 0 \in 0 .. N
    BY <1>0
  <2> QED BY <1>2, <1>7, <2>1
<1>9. ASSUME NEW m \in Nat, m \in T PROVE m + 1 \in T
  <2> SUFFICES ASSUME m + 1 <= N PROVE f[m + 1] \in SUBSET Places
    OBVIOUS
  <2>1. m <= N /\ m + 1 \in 0 .. N /\ m + 1 # 0 /\ (m + 1) - 1 = m
    BY <1>0
  <2>2. f[m] \in SUBSET Places
    BY <1>9, <2>1
  <2>3. f[m + 1] = Step(f[m])
    BY <1>7, <2>1
  <2> QED BY <1>3, <2>2, <2>3
<1>10. N \in T
  <2> HIDE DEF T
  <2> QED BY <1>0, <1>8, <1>9, NatInd
<1> QED BY <1>0, <1>7, <1>10

(* An object that can be allocated finds a free identity: each visible one takes a word. *)
LEMMA NewIdIs ==
  ASSUME Typed, Calm, used[current] < BlockSize
  PROVE  NewId \in Ids /\ NewId # NoId /\ \A p \in Visible : Obj(p).id # NewId
<1> DEFINE taken == {Obj(p).id : p \in Visible}
           T == {n \in Nat : <<n>> \in Ids /\ <<n>> \notin taken}
<1>1. BlockSize \in Nat /\ \A i \in 1 .. BlockSize : <<i>> \in Ids
  BY BlockSizeIs DEF Typed, Ids, BlockSize
<1>2. \A j \in Ids : j[1] \in Nat /\ j = <<j[1]>> /\ j # NoId
  BY HeapAssumption DEF Ids, NoId, Undefined
<1>3. Len(heap[current]) \in Nat /\ Len(heap[current]) < BlockSize
  <2>1. current \in {0, 1} /\ heap[current] \in Seq(Object) /\ used[current] \in Nat
    BY DEF Typed
  <2>2. \A i \in 1 .. Len(heap[current]) : heap[current][i].type # "left"
    <3> TAKE i \in 1 .. Len(heap[current])
    <3>1. <<current, i>> \in Places
      BY <2>1, PlaceIs
    <3> QED BY <3>1, CalmIs DEF Obj
  <2>3. IsFiniteSet(Units(heap[current])) /\ Cardinality(Units(heap[current])) <= used[current]
    BY <2>1 DEF Calm, World
  <2>4. Len(heap[current]) <= Cardinality(Units(heap[current])) /\ Cardinality(Units(heap[current])) \in Nat
    BY <2>1, <2>2, <2>3, UnitsBound
  <2> QED BY <1>1, <2>1, <2>3, <2>4, LenProperties
<1>4. T # {}
  <2>a. ASSUME NEW i \in 1 .. BlockSize, <<i>> \notin taken PROVE T # {}
    <3>1. i \in Nat /\ <<i>> \in Ids
      BY <1>1
    <3>2. i \in T
      BY <2>a, <3>1
    <3> QED BY <3>2
  <2> HIDE DEF T
  <2> SUFFICES ASSUME \A i \in 1 .. BlockSize : <<i>> \in taken PROVE FALSE
    BY <2>a
  <2> DEFINE at(i) == CHOOSE p \in Visible : Obj(p).id = <<i>>
             g == [i \in 1 .. BlockSize |-> at(i)[2]]
  <2>1. ASSUME NEW i \in 1 .. BlockSize
        PROVE  Obj(at(i)).id = <<i>> /\ at(i)[1] = current /\ at(i)[2] \in 1 .. Len(heap[current])
               /\ at(i) = <<at(i)[1], at(i)[2]>>
    <3>1. \E p \in Visible : Obj(p).id = <<i>>
      OBVIOUS
    <3>2. at(i) \in Visible /\ Obj(at(i)).id = <<i>>
      BY <3>1
    <3> HIDE DEF at
    <3>3. at(i) \in Places
      BY <3>2, VisibleIs
    <3>4. at(i)[1] = current
      BY <3>3, CalmIs
    <3> QED BY <3>2, <3>3, <3>4, ObjTyped
  <2> HIDE DEF at
  <2>2. g \in [1 .. BlockSize -> 1 .. Len(heap[current])]
    BY <2>1
  <2>3. IsInjective(g)
    <3> SUFFICES ASSUME NEW i \in 1 .. BlockSize, NEW j \in 1 .. BlockSize, g[i] = g[j] PROVE i = j
      BY DEF IsInjective
    <3>1. at(i)[2] = at(j)[2]
      OBVIOUS
    <3>2. at(i) = at(j)
      BY <2>1, <3>1
    <3>3. <<i>> = <<j>>
      BY <2>1, <3>2
    <3> QED BY <3>3
  <2> HIDE DEF g
  <2>4. g \in Injection(1 .. BlockSize, 1 .. Len(heap[current]))
    BY <2>2, <2>3 DEF Injection
  <2>5. IsFiniteSet(1 .. BlockSize) /\ IsFiniteSet(1 .. Len(heap[current]))
        /\ Cardinality(1 .. Len(heap[current])) = Len(heap[current]) /\ Cardinality(1 .. BlockSize) = BlockSize
    BY <1>1, <1>3, UpTo
  <2>6. Cardinality(1 .. BlockSize) <= Cardinality(1 .. Len(heap[current]))
    BY <2>4, <2>5, FS_Injection
  <2> QED BY <1>1, <1>3, <2>5, <2>6
<1>5. PICK m \in T : \A n \in T : m <= n
  <2>1. T \in SUBSET Nat
    OBVIOUS
  <2> HIDE DEF T
  <2> QED BY <1>4, <2>1, NatMin
<1>6. <<m>> \in Ids /\ <<m>> \notin taken /\ \A j \in Ids : j[1] < <<m>>[1] => j \in taken
  <2> SUFFICES ASSUME NEW j \in Ids, j[1] < m PROVE j \in taken
    OBVIOUS
  <2>1. j[1] \in Nat /\ j = <<j[1]>> /\ ~(m <= j[1])
    BY <1>2
  <2>2. j[1] \notin T
    BY <1>5, <2>1
  <2> QED BY <2>1, <2>2
<1>7. NewId = CHOOSE i \in Ids : i \notin taken /\ \A j \in Ids : j[1] < i[1] => j \in taken
  BY DEF NewId
<1> HIDE DEF taken
<1>8. NewId \in Ids /\ NewId \notin taken
  BY <1>6, <1>7
<1>9. \A p \in Visible : Obj(p).id \in taken
  BY DEF taken
<1> QED BY <1>2, <1>8, <1>9

(* Changes that keep objects may follow each other. *)
LEMMA KeptTwice ==
  ASSUME NEW h, NEW k, NEW l, Kept(h, k), Kept(k, l)
  PROVE  Kept(h, l)
BY DEF Kept

(* An owned table stays owned. *)
LEMMA OwnKept ==
  ASSUME NEW h, NEW k, Kept(h, k), NEW v, Own(h, v)
  PROVE  Own(k, v)
BY DEF Own, Kept

(* The parts of a new object. *)
LEMMA NewObjectIs ==
  ASSUME NEW type \in {"object", "closure"}, NEW cap \in Nat, NEW fields \in Fields, NEW id \in Ids \cup {NoId}
  PROVE  LET o == NewObject(type, cap, fields, id) IN
         /\ o \in Object /\ o.type = type /\ o.cap = cap /\ o.fields = fields /\ o.fwd = Undefined /\ o.id = id
BY DEF NewObject, Object

(* A table without fields holds no pointer. *)
LEMMA NoFieldsIs == NoFields \in Fields /\ \A o : o.fields = NoFields => PtrsOf(o) = {}
<1>1. NoFields \in [{} -> Datum \ {Undefined}]
  BY DEF NoFields
<1>2. {} \in SUBSET Nat /\ IsFiniteSet({})
  BY FS_EmptySet
<1>3. NoFields \in Fields
  BY <1>1, <1>2, FieldsTyped
<1> QED BY <1>3 DEF PtrsOf, NoFields

(* What a step that allocates does to the counters. *)
LEMMA TakenIs ==
  ASSUME Typed, Calm, NEW cap \in Nat, Fits(cap), Taken(cap)
  PROVE  /\ used' \in [{0, 1} -> Nat] /\ used'[current] = used[current] + 1 + cap
         /\ used'[Other] = used[Other] /\ used'[current] <= BlockSize
         /\ used[current] < BlockSize
<1>1. current \in {0, 1} /\ Other \in {0, 1} /\ Other # current /\ used \in [{0, 1} -> Nat] /\ BlockSize \in Nat
  BY BlockSizeIs DEF Typed, Other
<1>2. used' = [used EXCEPT ![current] = @ + 1 + cap]
  BY DEF Taken, TakenIn
<1>3. used[current] + 1 + cap <= BlockSize
  BY DEF Fits
<1> QED BY <1>1, <1>2, <1>3

(* What every served request leaves behind. *)
LEMMA ServedIs ==
  ASSUME Served
  PROVE  /\ pc' = "run" /\ pending' = NoRequest /\ pending' \in RequestType /\ pending'.op = "none"
         /\ current' = current /\ global' = global /\ todo' = todo /\ native' = native /\ program' = program
         /\ \A h, g, scs, nat : PendingIn(h, g, scs, nat, pending')
<1>1. NoRequest.op = "none" /\ NoRequest.args = Undefined /\ NoRequest \in RequestType
  BY NothingCaptured DEF NoRequest, Request
<1> QED BY <1>1 DEF Served, PendingIn

(* The object that was asked for, and what a closure captures. *)
LEMMA NewServedStep ==
  ASSUME Typed, Calm, NewServed
  PROVE  Typed' /\ Calm'
<1> DEFINE regs == [Regs EXCEPT ![pending.reg] = Fresh]
           source == pending.captured
           held == {r \in DOMAIN source : regs[source[r]] # Undefined}
           f == [r \in held |-> regs[source[r]]]
           o == NewObject(pending.type, 1, f, NewId)
<1>1. /\ pc = "alloc" /\ pending.op = "new" /\ Fits(pending.cap)
      /\ Allocate(o) /\ scenes' = WithRegs(regs) /\ Served
  BY DEF NewServed
<1>2. /\ pending \in RequestType /\ pending.reg \in Reg /\ pending.type \in {"object", "closure"} /\ pending.cap = 1
      /\ \A r \in DOMAIN source : StorableIn(heap, Regs[source[r]])
  <2>1. PendingIn(heap, global, scenes, native, pending) /\ pending \in RequestType
    BY DEF Calm, Typed
  <2>2. pending.reg \in Reg /\ pending.type \in {"none", "object", "closure"}
    BY <2>1 DEF RequestType
  <2> QED BY <1>1, <2>1, <2>2, TopIs DEF PendingIn
<1>3. PICK S \in SUBSET Reg : source \in [S -> Reg]
  BY <1>2 DEF RequestType
<1>4. NewId \in Ids /\ NewId # NoId
  BY <1>1, <1>2, NewIdIs, BlockSizeIs DEF Fits, Typed
<1>5. Fresh \in Pointer /\ Fresh \in Datum /\ Fresh # Undefined /\ Fresh \notin In(heap)
  <2>1. NoFields \in Fields /\ NoId \in Ids \cup {NoId} /\ NewObject("object", 1, NoFields, NoId) \in Object
    BY NoFieldsIs, NewObjectIs
  <2>2. GrowsTo(heap, current, NewObject("object", 1, NoFields, NoId), Grown(heap, current, NewObject("object", 1, NoFields, NoId)), Fresh)
    BY <2>1, AllocatedIs
  <2> QED BY <2>2, PointerIs DEF GrowsTo, Datum
<1>6. Regs \in [Reg -> Datum] /\ \A r \in Reg : regs[r] = IF r = pending.reg THEN Fresh ELSE Regs[r]
  BY <1>2, TopIs
<1>7. f \in Fields
  <2>1. held \in SUBSET Nat /\ IsFiniteSet(held) /\ held \subseteq S
    <3>1. held \subseteq S /\ S \subseteq Reg
      BY <1>3
    <3>2. IsFiniteSet(Reg) /\ Reg \subseteq Nat
      <4>1. 1 \in Int /\ RegisterNr \in Int /\ 1 .. RegisterNr \subseteq Nat
        BY FramesAssumption
      <4> QED BY <4>1, FS_Interval DEF Reg
    <3> HIDE DEF held
    <3> QED BY <3>1, <3>2, FS_Subset
  <2>2. ASSUME NEW r \in held PROVE regs[source[r]] \in Datum \ {Undefined}
    <3>1. source[r] \in Reg /\ regs[source[r]] # Undefined
      BY <1>3, <2>1
    <3> HIDE DEF regs
    <3> QED BY <3>1, <1>5, <1>6
  <2>3. f \in [held -> Datum \ {Undefined}]
    BY <2>2
  <2> HIDE DEF f, held
  <2> QED BY <2>1, <2>3, FieldsTyped
<1>8. ASSUME NEW v \in {f[r] : r \in DOMAIN f}
      PROVE  v = Fresh \/ (v \in Pointer => Own(heap, v) /\ At(heap, v).type # "redirect")
  <2>1. PICK r \in DOMAIN source : source[r] \in Reg /\ v = regs[source[r]]
    BY <1>3
  <2> HIDE DEF regs, f
  <2>2. CASE source[r] = pending.reg
    BY <2>1, <2>2, <1>6
  <2>3. CASE source[r] # pending.reg
    <3>1. v = Regs[source[r]]
      BY <2>1, <2>3, <1>6
    <3> QED BY <2>1, <3>1, <1>2, RootsOwned DEF StorableIn
  <2> QED BY <2>2, <2>3
<1> HIDE DEF f
<1>9. /\ o \in Object /\ o.type \in {"object", "closure"} /\ o.cap = 1 /\ o.fields = f
      /\ o.fwd = Undefined /\ o.id = NewId
  BY <1>2, <1>4, <1>7, NewObjectIs
<1> HIDE DEF o
<1> DEFINE k == Grown(heap, current, o)
<1>10. heap' = k /\ Taken(1)
  <2>1. heap' = Allocated(o, Fresh, o) /\ Taken(o.cap)
    BY <1>1 DEF Allocate, AllocateAndSet
  <2> QED BY <1>9, <2>1, AllocatedIs
<1>11. /\ k \in Heaps /\ Fresh \in In(k) /\ At(k, Fresh) = o
       /\ \A x \in In(heap) : x \in In(k) /\ At(k, x) = At(heap, x)
  BY <1>9, AllocatedIs DEF GrowsTo
<1> HIDE DEF k
<1>12. Good(k, o)
  <2> SUFFICES ASSUME NEW v \in PtrsOf(o)
               PROVE  v \in In(k) /\ At(k, v).type # "redirect" /\ At(k, v).id # NoId
    BY DEF Good
  <2>1. v \in Pointer /\ v \in {f[r] : r \in DOMAIN f}
    BY <1>9 DEF PtrsOf
  <2>2. CASE v = Fresh
    BY <2>2, <1>4, <1>9, <1>11
  <2>3. CASE v # Fresh
    <3>1. Own(heap, v) /\ At(heap, v).type # "redirect"
      BY <2>1, <2>3, <1>8
    <3> QED BY <3>1, <1>11 DEF Own
  <2> QED BY <2>2, <2>3
<1>13. /\ World(k, current, used[current] + 1 + 1) /\ Kept(heap, k)
       /\ \A v \in Pointer : v \notin PtrsOf(o) /\ ApartIn(heap, v) => ApartIn(k, v)
  <2>1. World(heap, current, used[current]) /\ Good(Grown(heap, current, o), o)
    BY <1>12 DEF Calm, k
  <2>2. /\ World(Grown(heap, current, o), current, used[current] + 1 + o.cap) /\ Kept(heap, Grown(heap, current, o))
        /\ \A v \in Pointer : v \notin PtrsOf(o) /\ ApartIn(heap, v) => ApartIn(Grown(heap, current, o), v)
    BY <1>9, <2>1, WorldGrown
  <2> QED BY <1>9, <2>2 DEF k
<1>14. /\ used' \in [{0, 1} -> Nat] /\ used'[current] = used[current] + 1 + 1
       /\ used'[Other] = used[Other] /\ used'[current] <= BlockSize
  <2>1. Fits(1)
    BY <1>1, <1>2
  <2> QED BY <1>10, <2>1, TakenIs
<1>15. ASSUME NEW i \in 1 .. Len(scenes)
       PROVE  At(k, scenes[i].external).type # "redirect" /\ ApartIn(k, scenes[i].external)
  <2> DEFINE e == scenes[i].external
  <2>1. /\ e \in Pointer /\ e \in Places /\ Obj(e).type # "redirect" /\ ApartIn(heap, e)
        /\ \A w : Own(heap, w) => w # e
    BY ExternalsAre
  <2> HIDE DEF e
  <2>2. e \in In(heap) /\ At(heap, e).type # "redirect"
    BY <2>1 DEF Places, At, Obj
  <2>3. e \notin PtrsOf(o)
    <3>1. ASSUME e \in PtrsOf(o) PROVE FALSE
      <4>1. e \in {f[r] : r \in DOMAIN f}
        BY <1>9, <3>1 DEF PtrsOf
      <4> QED BY <4>1, <1>5, <1>8, <2>1, <2>2
    <3> QED BY <3>1
  <2>4. At(k, e).type # "redirect" /\ ApartIn(k, e)
    BY <1>11, <1>13, <2>1, <2>2, <2>3
  <2> QED BY <2>4 DEF e
<1>16. At(k, global).type # "redirect"
  <2>1. global \in In(heap) /\ At(heap, global).type # "redirect"
    BY DEF Calm, RootsIn, Own
  <2> QED BY <1>11, <2>1
<1>17. Rewritten(scenes, scenes', {Fresh}) /\ \A v \in {Fresh} : v \in Pointer => Own(k, v)
  <2>1. Rewritten(scenes, WithRegs([Regs EXCEPT ![pending.reg] = Fresh]), {Fresh})
    BY <1>2, <1>5, RegsSet
  <2> QED BY <1>1, <1>4, <1>9, <1>11, <2>1 DEF Own
<1>18. /\ pc' = "run" /\ pending' \in RequestType /\ pending'.op = "none"
       /\ current' = current /\ global' = global /\ todo' = todo /\ native' = native /\ program' = program
       /\ PendingIn(heap', global, scenes', native, pending')
  BY <1>1, ServedIs
<1> QED BY <1>10, <1>13, <1>14, <1>15, <1>16, <1>17, <1>18, HeapStep

(* A table is replaced by a larger one: redirected is the header left of it. *)
LEMMA ReplacedIs ==
  ASSUME Typed, Calm, NEW p \in In(heap), ApartIn(heap, p), p[1] = current, NEW cap \in Nat,
         NEW o \in Object, o.type \in {"object", "closure"}, o.cap = cap, o.fields = At(heap, p).fields,
         o.fwd = Undefined, o.id = At(heap, p).id,
         NEW header \in Object, header.type = "redirect", header.cap = 0, header.fields = NoFields,
         header.fwd = Fresh, header.id = At(heap, p).id
  PROVE  LET k == Allocated(o, p, header) IN
         /\ World(k, current, used[current] + 1 + cap) /\ Kept(heap, k)
         /\ \A x \in In(heap) : x # p => At(k, x) = At(heap, x)
         /\ \A v \in Pointer : ApartIn(heap, v) => ApartIn(k, v)
         /\ Fresh \in In(k) /\ Fresh \notin In(heap) /\ Fresh \in Pointer /\ At(k, Fresh) = o
<1> DEFINE g == Grown(heap, current, o)  k == Allocated(o, p, header)
<1>1. /\ GrowsTo(heap, current, o, g, Fresh) /\ k = Store(g, p, header)
  BY AllocatedIs
<1> HIDE DEF g, k
<1>2. /\ g \in Heaps /\ In(g) = In(heap) \cup {Fresh} /\ Fresh \notin In(heap) /\ At(g, Fresh) = o
      /\ Fresh \in Pointer /\ Fresh[1] = current /\ Fresh[2] = Len(heap[current]) + 1 /\ Len(heap[current]) \in Nat
      /\ \A x \in In(heap) : At(g, x) = At(heap, x)
  BY <1>1 DEF GrowsTo
<1>3. World(heap, current, used[current]) /\ Good(heap, At(heap, p))
  <2>1. p \in Places
    BY DEF Places
  <2> QED BY <2>1, CalmIs DEF Calm, At, Obj
<1>4. Good(g, o)
  <2> SUFFICES ASSUME NEW v \in PtrsOf(o)
               PROVE  v \in In(g) /\ At(g, v).type # "redirect" /\ (o.id # NoId => At(g, v).id # NoId)
    BY DEF Good
  <2>1. v \in PtrsOf(At(heap, p))
    BY DEF PtrsOf
  <2>2. v \in In(heap) /\ At(heap, v).type # "redirect" /\ (At(heap, p).id # NoId => At(heap, v).id # NoId)
    BY <1>3, <2>1 DEF Good
  <2> QED BY <1>2, <2>2
<1>5. /\ World(g, current, used[current] + 1 + cap) /\ Kept(heap, g)
      /\ \A v \in Pointer : v \notin PtrsOf(o) /\ ApartIn(heap, v) => ApartIn(g, v)
  BY <1>3, <1>4, WorldGrown DEF g
<1>6. \A v : ApartIn(heap, v) => v \notin PtrsOf(o)
  <2> SUFFICES ASSUME NEW v, ApartIn(heap, v) PROVE v \notin PtrsOf(o)
    OBVIOUS
  <2>1. v \notin PtrsOf(At(heap, p))
    BY DEF ApartIn
  <2> QED BY <2>1 DEF PtrsOf
<1>7. p \in Pointer /\ p[2] <= Len(heap[current]) /\ p[2] \in Nat
  BY PointerIs DEF In
<1>8. p \in In(g) /\ Fresh \in In(g) /\ ApartIn(g, p) /\ Fresh[2] > p[2] /\ At(g, Fresh).id = At(g, p).id
      /\ header.id = At(g, p).id
  BY <1>2, <1>5, <1>6, <1>7
<1>9. /\ World(k, current, used[current] + 1 + cap) /\ Kept(g, k) /\ In(k) = In(g)
      /\ \A x \in In(g) : x # p => At(k, x) = At(g, x)
      /\ \A v \in Pointer : ApartIn(g, v) => ApartIn(k, v)
  BY <1>1, <1>5, <1>8, WorldRedirected
<1>10. Kept(heap, k)
  BY <1>5, <1>9, KeptTwice
<1>11. \A v \in Pointer : ApartIn(heap, v) => ApartIn(k, v)
  BY <1>5, <1>6, <1>9
<1>12. Fresh # p
  BY <1>2
<1> QED BY <1>2, <1>9, <1>10, <1>11, <1>12 DEF k

(* _cvm_set_hash_in_register, after the allocation: a REDIRECT takes the place of the table. *)
LEMMA GrowServedStep ==
  ASSUME Typed, Calm, GrowServed
  PROVE  Typed' /\ Calm'
<1>1. pc = "alloc" /\ pending.op = "grow" /\ Fits(pending.cap) /\ Served
  BY DEF GrowServed
<1>2. pending \in RequestType /\ pending.reg \in Reg /\ pending.type \in {"object", "closure"} /\ pending.cap \in Nat
      /\ GrowingIn(heap, global, Regs[pending.reg])
  <2>1. PendingIn(heap, global, scenes, native, pending) /\ pending \in RequestType
    BY DEF Calm, Typed
  <2>2. pending.reg \in Reg /\ pending.type \in {"none", "object", "closure"} /\ pending.cap \in Nat
    BY <2>1 DEF RequestType
  <2> QED BY <1>1, <2>1, <2>2, TopIs DEF PendingIn
<1>3. PICK p : p = Regs[pending.reg]
  OBVIOUS
<1>4. /\ p \in Pointer /\ Own(heap, p) /\ ApartIn(heap, p) /\ global # p /\ p \in Datum
      /\ Resolve(Regs[pending.reg]) = p
  <2>1. p \in Pointer /\ At(heap, p).type # "redirect" /\ ApartIn(heap, p) /\ global # p
    BY <1>2, <1>3 DEF GrowingIn
  <2>2. Own(heap, p) /\ p \in Datum
    BY <1>2, <1>3, <2>1, RootsOwned, TopIs
  <2>3. IsPtr(Regs[pending.reg]) /\ Obj(Regs[pending.reg]).type # "redirect"
    BY <1>3, <2>1, <2>2, PointerIs DEF At, Obj
  <2> QED BY <1>2, <1>3, <2>1, <2>2, <2>3, ResolveOwned
<1>5. p \in In(heap) /\ p \in Places /\ p[1] = current /\ At(heap, p) \in Object /\ At(heap, p).id # NoId
  <2>1. p \in In(heap) /\ p \in Places /\ At(heap, p).id # NoId
    BY <1>4 DEF Own, Places
  <2> QED BY <2>1, CalmIs, ObjTyped DEF At, Obj
<1> DEFINE o == NewObject(pending.type, pending.cap, At(heap, p).fields, At(heap, p).id)
           header == [NewObject("redirect", 0, NoFields, At(heap, p).id) EXCEPT !.fwd = Fresh]
<1>6. /\ heap' = Allocated(o, p, header) /\ Taken(o.cap) /\ scenes' = WithRegs([Regs EXCEPT ![pending.reg] = p])
  BY <1>4 DEF GrowServed, AllocateAndSet, SetReg, At, Obj
<1>7. /\ o \in Object /\ o.type \in {"object", "closure"} /\ o.cap = pending.cap
      /\ o.fields = At(heap, p).fields /\ o.fwd = Undefined /\ o.id = At(heap, p).id
  <2>1. At(heap, p).fields \in Fields /\ At(heap, p).id \in Ids \cup {NoId}
    BY <1>5 DEF Object
  <2> QED BY <1>2, <2>1, NewObjectIs
<1>8. Fresh \in Pointer
  BY <1>7, AllocatedIs DEF GrowsTo
<1>9. /\ header \in Object /\ header.type = "redirect" /\ header.cap = 0 /\ header.fields = NoFields
      /\ header.fwd = Fresh /\ header.id = At(heap, p).id
  BY <1>5, <1>8, NoFieldsIs DEF NewObject, Object
<1> HIDE DEF o, header
<1>10. /\ World(heap', current, used[current] + 1 + pending.cap) /\ Kept(heap, heap')
       /\ \A x \in In(heap) : x # p => At(heap', x) = At(heap, x)
       /\ \A v \in Pointer : ApartIn(heap, v) => ApartIn(heap', v)
  BY <1>2, <1>4, <1>5, <1>6, <1>7, <1>9, ReplacedIs
<1>11. /\ used' \in [{0, 1} -> Nat] /\ used'[current] = used[current] + 1 + pending.cap
       /\ used'[Other] = used[Other] /\ used'[current] <= BlockSize
  BY <1>1, <1>2, <1>6, <1>7, TakenIs
<1>12. ASSUME NEW i \in 1 .. Len(scenes)
       PROVE  At(heap', scenes[i].external).type # "redirect" /\ ApartIn(heap', scenes[i].external)
  <2> DEFINE e == scenes[i].external
  <2>1. /\ e \in Pointer /\ e \in Places /\ Obj(e).type # "redirect" /\ ApartIn(heap, e)
        /\ \A w : Own(heap, w) => w # e
    BY ExternalsAre
  <2> HIDE DEF e
  <2>2. e \in In(heap) /\ At(heap, e).type # "redirect" /\ e # p
    BY <1>4, <2>1 DEF Places, At, Obj
  <2>3. At(heap', e).type # "redirect" /\ ApartIn(heap', e)
    BY <1>10, <2>1, <2>2
  <2> QED BY <2>3 DEF e
<1>13. At(heap', global).type # "redirect"
  <2>1. global \in In(heap) /\ At(heap, global).type # "redirect"
    BY DEF Calm, RootsIn, Own
  <2> QED BY <1>4, <1>10, <2>1
<1>14. Rewritten(scenes, scenes', {p}) /\ \A v \in {p} : v \in Pointer => Own(heap', v)
  <2>1. Rewritten(scenes, WithRegs([Regs EXCEPT ![pending.reg] = p]), {p})
    BY <1>2, <1>4, RegsSet
  <2>2. Own(heap', p)
    BY <1>4, <1>10, OwnKept
  <2> QED BY <1>6, <2>1, <2>2
<1>15. /\ pc' = "run" /\ pending' \in RequestType /\ pending'.op = "none"
       /\ current' = current /\ global' = global /\ todo' = todo /\ native' = native /\ program' = program
       /\ PendingIn(heap', global, scenes', native, pending')
  BY <1>1, ServedIs
<1> QED BY <1>10, <1>11, <1>12, <1>13, <1>14, <1>15, HeapStep

(* A table without fields and identity is allocated. *)
LEMMA TableIs ==
  ASSUME Typed, Calm
  PROVE  LET o == NewTable(1, NoFields)  k == Grown(heap, current, o) IN
         /\ o \in Object /\ o.type = "object" /\ o.cap = 1 /\ o.id = NoId /\ o.fwd = Undefined
         /\ o.fields = NoFields
         /\ \A p, x : Allocated(o, p, x) = Store(k, p, x)
         /\ World(k, current, used[current] + 1 + 1) /\ Kept(heap, k)
         /\ In(k) = In(heap) \cup {Fresh} /\ Fresh \notin In(heap) /\ Fresh \in Pointer /\ At(k, Fresh) = o
         /\ \A x \in In(heap) : At(k, x) = At(heap, x)
         /\ \A v \in Pointer : ApartIn(heap, v) => ApartIn(k, v)
         /\ ApartIn(k, Fresh)
<1> DEFINE o == NewTable(1, NoFields)  k == Grown(heap, current, o)
<1>1. /\ o \in Object /\ o.type = "object" /\ o.cap = 1 /\ o.fields = NoFields /\ o.fwd = Undefined /\ o.id = NoId
  <2>1. NoFields \in Fields /\ NoId \in Ids \cup {NoId}
    BY NoFieldsIs
  <2> QED BY <2>1, NewObjectIs DEF NewTable
<1> HIDE DEF o
<1>2. GrowsTo(heap, current, o, k, Fresh) /\ \A p, x : Allocated(o, p, x) = Store(k, p, x)
  BY <1>1, AllocatedIs
<1> HIDE DEF k
<1>3. /\ In(k) = In(heap) \cup {Fresh} /\ Fresh \notin In(heap) /\ Fresh \in Pointer /\ At(k, Fresh) = o
      /\ \A x \in In(heap) : At(k, x) = At(heap, x)
  BY <1>2 DEF GrowsTo
<1>4. PtrsOf(o) = {}
  BY <1>1, NoFieldsIs
<1>5. Good(k, o) /\ World(heap, current, used[current])
  BY <1>4 DEF Good, Calm
<1>6. /\ World(k, current, used[current] + 1 + 1) /\ Kept(heap, k)
      /\ \A v \in Pointer : ApartIn(heap, v) => ApartIn(k, v)
  <2>1. /\ World(Grown(heap, current, o), current, used[current] + 1 + o.cap) /\ Kept(heap, Grown(heap, current, o))
        /\ \A v \in Pointer : v \notin PtrsOf(o) /\ ApartIn(heap, v) => ApartIn(Grown(heap, current, o), v)
    BY <1>1, <1>5, WorldGrown DEF k
  <2> QED BY <1>1, <1>4, <2>1 DEF k
<1>7. ApartIn(heap, Fresh)
  <2> SUFFICES ASSUME NEW p \in In(heap) PROVE Fresh \notin PtrsOf(At(heap, p))
    BY DEF ApartIn
  <2>1. Good(heap, At(heap, p))
    BY CalmIs DEF Places, At, Obj
  <2> QED BY <1>3, <2>1 DEF Good
<1>8. ApartIn(k, Fresh)
  BY <1>3, <1>6, <1>7
<1> QED BY <1>1, <1>2, <1>3, <1>6, <1>8 DEF k, o

(* _cvm_push_scene, after its allocation. *)
LEMMA PushSceneStep ==
  ASSUME Typed, Calm, Fits(1), NEW frame \in FrameType, NEW caller \in CallType,
         \A r \in Reg : frame.regs[r] \in Pointer => Own(heap, frame.regs[r]),
         IF caller.fn = "foreach" THEN Own(heap, caller.array) /\ Own(heap, caller.callback)
         ELSE caller.array = Undefined /\ caller.callback = Undefined,
         PushScene(frame, caller)
  PROVE  Typed' /\ Calm'
<1> DEFINE o == NewTable(1, NoFields)  k == Grown(heap, current, o)
           sc == [external |-> Fresh, frames |-> <<frame>>, caller |-> caller]
<1>1. /\ o \in Object /\ o.type = "object" /\ o.cap = 1 /\ o.id = NoId
      /\ World(k, current, used[current] + 1 + 1) /\ Kept(heap, k)
      /\ In(k) = In(heap) \cup {Fresh} /\ Fresh \notin In(heap) /\ Fresh \in Pointer /\ At(k, Fresh) = o
      /\ \A x \in In(heap) : At(k, x) = At(heap, x)
      /\ \A v \in Pointer : ApartIn(heap, v) => ApartIn(k, v)
      /\ ApartIn(k, Fresh)
  BY TableIs
<1>2. /\ Allocate(o) /\ scenes' = <<sc>> \o scenes
      /\ pc' = "run" /\ pending' = NoRequest /\ native' = NoCall
      /\ current' = current /\ global' = global /\ todo' = todo /\ program' = program
  BY DEF PushScene
<1>3. heap' = k /\ Taken(1)
  <2>1. heap' = Allocated(o, Fresh, o) /\ Taken(o.cap)
    BY <1>2 DEF Allocate, AllocateAndSet
  <2> HIDE DEF o
  <2> QED BY <1>1, <2>1, AllocatedIs
<1> HIDE DEF o, k
<1>4. /\ used' \in [{0, 1} -> Nat] /\ used'[current] = used[current] + 1 + 1
      /\ used'[Other] = used[Other] /\ used'[current] <= BlockSize
  BY <1>3, TakenIs
<1>5. scenes \in Scenes /\ RootsIn(heap, global, scenes) /\ CallsIn(heap, native, scenes)
  BY TopIs DEF Calm
<1>6. ASSUME NEW i \in 1 .. Len(scenes)
      PROVE  At(k, scenes[i].external).type # "redirect" /\ ApartIn(k, scenes[i].external)
             /\ scenes[i].external # Fresh
  BY <1>1, ExternalsAre DEF Places, At, Obj
<1>7. At(k, global).type # "redirect"
  <2>1. global \in In(heap) /\ At(heap, global).type # "redirect"
    BY DEF Calm, RootsIn, Own
  <2> QED BY <1>1, <2>1
<1>8. RootsIn(k, global, scenes)
  BY <1>1, <1>5, <1>6, <1>7, RootsKept
<1>9. sc \in SceneType /\ sc.external = Fresh /\ sc.caller = caller
  <2>1. <<frame>> \in Seq(FrameType) \ {<<>>}
    OBVIOUS
  <2> QED BY <1>1, <2>1 DEF SceneType
<1>10. ASSUME NEW v \in HeldBy(sc) PROVE Own(k, v)
  <2>1. PICK r \in Reg : v = frame.regs[r] /\ v \in Pointer
    BY DEF HeldBy
  <2> QED BY <1>1, <2>1, OwnKept
<1>11. ExternalIn(k, sc.external) /\ ApartIn(k, sc.external) /\ \A i \in 1 .. Len(scenes) : scenes[i].external # sc.external
  BY <1>1, <1>6, <1>9 DEF ExternalIn
<1> HIDE DEF sc
<1>12. /\ scenes' \in Scenes /\ Len(scenes') = Len(scenes) + 1 /\ RootsIn(k, global, scenes')
       /\ scenes'[1] = sc
       /\ \A s \in 2 .. Len(scenes) + 1 : scenes'[s] = scenes[s - 1] /\ s - 1 \in 1 .. Len(scenes)
  BY <1>2, <1>5, <1>8, <1>9, <1>10, <1>11, RootsPushed
<1>13. CallsIn(k, native', scenes')
  <2>1. CallsIn(k, native, scenes)
    BY <1>1, <1>5, CallsKept
  <2>2. native'.fn # "foreach" /\ native'.array = Undefined /\ native'.callback = Undefined
    BY <1>2 DEF NoCall
  <2>3. IF caller.fn = "foreach" THEN Own(k, caller.array) /\ Own(k, caller.callback)
        ELSE caller.array = Undefined /\ caller.callback = Undefined
    BY <1>1, OwnKept
  <2> SUFFICES ASSUME NEW s \in 1 .. Len(scenes')
               PROVE  LET c == scenes'[s].caller IN
                      IF c.fn = "foreach" THEN Own(k, c.array) /\ Own(k, c.callback)
                      ELSE c.array = Undefined /\ c.callback = Undefined
    BY <2>2 DEF CallsIn
  <2>4. CASE s = 1
    BY <1>9, <1>12, <2>3, <2>4
  <2>5. CASE s # 1
    <3>1. scenes'[s] = scenes[s - 1] /\ s - 1 \in 1 .. Len(scenes)
      <4>1. s \in 2 .. Len(scenes) + 1
        BY <1>5, <1>12, <2>5, SceneIs
      <4> QED BY <1>12, <4>1
    <3> QED BY <2>1, <3>1 DEF CallsIn
  <2> QED BY <2>4, <2>5
<1>14. /\ pending' \in RequestType /\ pending'.op = "none" /\ native' \in CallType
       /\ PendingIn(heap', global, scenes', native', pending')
  BY <1>2, NothingCaptured DEF PendingIn, NoRequest, Request
<1> QED BY <1>1, <1>2, <1>3, <1>4, <1>12, <1>13, <1>14, CalmStep

(* The scene of an imported script. *)
LEMMA ImportServedStep ==
  ASSUME Typed, Calm, ImportServed
  PROVE  Typed' /\ Calm'
<1>1. /\ pending.op = "import" /\ Fits(pending.cap)
      /\ PushScene(MainFrame(global), [NoCall EXCEPT !.fn = "import", !.rd = pending.reg])
  BY DEF ImportServed
<1>2. pending.cap = 1 /\ pending.reg \in Reg
  BY <1>1 DEF Calm, PendingIn, Typed, RequestType
<1>3. global \in Pointer /\ global \in Datum /\ Own(heap, global)
  BY DEF Typed, Datum, Calm, RootsIn
<1>4. PICK frame : frame = MainFrame(global)
  OBVIOUS
<1>5. frame \in FrameType /\ \A r \in Reg : frame.regs[r] \in Pointer => Own(heap, frame.regs[r])
  <2>1. 1 \in Reg /\ Undefined \in Datum /\ Undefined \notin Pointer
    BY FramesAssumption, PointerIs DEF Reg, Datum
  <2> QED BY <1>3, <1>4, <2>1 DEF MainFrame, FrameType
<1>6. PICK caller : caller = [NoCall EXCEPT !.fn = "import", !.rd = pending.reg]
  OBVIOUS
<1>7. caller \in CallType /\ caller.fn # "foreach" /\ caller.array = Undefined /\ caller.callback = Undefined
  BY <1>2, <1>6, PointerIs DEF NoCall, CallType, Datum
<1> QED BY <1>1, <1>2, <1>4, <1>5, <1>6, <1>7, PushSceneStep

(* The scene of a callback. *)
LEMMA SceneServedStep ==
  ASSUME Typed, Calm, SceneServed
  PROVE  Typed' /\ Calm'
<1>1. /\ pending.op = "scene" /\ Fits(pending.cap)
      /\ PushScene(NewFrame(Obj(native.callback), Obj(pending.args), 1), [native EXCEPT !.done = @ + 1])
  BY DEF SceneServed
<1>2. PendingIn(heap, global, scenes, native, pending) /\ CallsIn(heap, native, scenes) /\ native \in CallType
  BY NativeIs DEF Calm
<1>3. /\ pending.cap = 1 /\ native.fn = "foreach" /\ pending.args \in Places
      /\ \A v \in PtrsOf(Obj(pending.args)) : Own(heap, v)
  BY <1>1, <1>2 DEF PendingIn, Places, At, Obj
<1>4. Own(heap, native.array) /\ Own(heap, native.callback)
  BY <1>2, <1>3 DEF CallsIn
<1>5. PICK frame : frame = NewFrame(Obj(native.callback), Obj(pending.args), 1)
  OBVIOUS
<1>6. frame \in FrameType /\ \A r \in Reg : frame.regs[r] \in Pointer => Own(heap, frame.regs[r])
  <2>1. Obj(native.callback) \in Object /\ \A v \in PtrsOf(Obj(native.callback)) : Own(heap, v)
    BY <1>4, OwnedFields
  <2>2. Obj(pending.args) \in Object /\ 1 \in Reg
    BY <1>3, ObjTyped, FramesAssumption DEF Reg
  <2> QED BY <1>3, <1>5, <2>1, <2>2, NewFrameIs
<1>7. PICK caller : caller = [native EXCEPT !.done = @ + 1]
  OBVIOUS
<1>8. /\ caller \in CallType /\ caller.fn = "foreach"
      /\ caller.array = native.array /\ caller.callback = native.callback
  BY <1>2, <1>3, <1>7 DEF CallType
<1> QED BY <1>1, <1>3, <1>4, <1>5, <1>6, <1>7, <1>8, PushSceneStep

------------------------------------------------------------------------------
(* The element that foreach is at. *)
Element == Get(Obj(native.array), native.done)

(* The element is owned and no header. *)
LEMMA ElementIs ==
  ASSUME Typed, Calm, native.fn = "foreach"
  PROVE  /\ Element \in Datum
         /\ Element \in Pointer => Own(heap, Element) /\ At(heap, Element).type # "redirect"
<1>1. Own(heap, native.array)
  BY NativeIs DEF CallsIn
<1>2. native.array \in Places /\ Obj(native.array) \in Object /\ \A v \in PtrsOf(Obj(native.array)) : Own(heap, v)
  BY <1>1, OwnedFields
<1>3. Good(heap, Obj(native.array))
  BY <1>2, CalmIs
<1>4. Element \in Datum /\ (Element \in Pointer => Element \in PtrsOf(Obj(native.array)))
  BY <1>2, GetIs DEF Element
<1> QED BY <1>2, <1>3, <1>4 DEF Good

(* The arguments of a callback are the global and the element. *)
LEMMA CallbackArgumentsAre ==
  ASSUME NEW g \in Datum, NEW v \in Datum
  PROVE  LET f == CallbackArguments(g, v) IN
         f \in Fields /\ {f[i] : i \in DOMAIN f} \subseteq {g, v}
<1>1. PICK a : a = Put(NoFields, 0, g)
  OBVIOUS
<1>2. a \in Fields /\ {a[i] : i \in DOMAIN a} \subseteq {g} \cup {NoFields[i] : i \in DOMAIN NoFields}
  <2>1. NoFields \in Fields /\ 0 \in Nat
    BY NoFieldsIs
  <2>2. Put(NoFields, 0, g) \in Fields
        /\ {Put(NoFields, 0, g)[i] : i \in DOMAIN Put(NoFields, 0, g)} \subseteq {g} \cup {NoFields[i] : i \in DOMAIN NoFields}
    BY <2>1, PutIs, Zenon
  <2> QED BY <1>1, <2>2
<1>3. {NoFields[i] : i \in DOMAIN NoFields} = {}
  BY DEF NoFields
<1>4. PICK f : f = CallbackArguments(g, v)
  OBVIOUS
<1>5. f \in Fields /\ {f[i] : i \in DOMAIN f} \subseteq {v} \cup {a[i] : i \in DOMAIN a}
  <2>1. a \in Fields /\ 1 \in Nat
    BY <1>2
  <2>2. Put(a, 1, v) \in Fields
        /\ {Put(a, 1, v)[i] : i \in DOMAIN Put(a, 1, v)} \subseteq {v} \cup {a[i] : i \in DOMAIN a}
    BY <2>1, PutIs, Zenon
  <2> QED BY <1>1, <1>4, <2>2 DEF CallbackArguments
<1> HIDE DEF CallbackArguments
<1> QED BY <1>2, <1>3, <1>4, <1>5

(* The args are given their elements, in the heap h that the step has made   *)
(* so far.                                                                  *)
LEMMA PassedIs ==
  ASSUME Typed, Calm, native.fn = "foreach", NEW h, NEW u, World(h, current, u), Kept(heap, h), NEW p \in In(h),
         At(h, global).type # "redirect",
         Element \in Pointer => At(h, Element).type # "redirect",
         PassArguments(h, p)
  PROVE  /\ World(heap', current, u) /\ Kept(heap, heap')
         /\ \A x \in In(h) : At(heap', x).type = At(h, x).type
         /\ \A v \in Pointer : ApartIn(h, v) /\ ~Own(heap, v) => ApartIn(heap', v)
         /\ pc' = "alloc" /\ pending' \in RequestType /\ pending'.op = "scene"
         /\ \A g, scs : PendingIn(heap', g, scs, native, pending')
         /\ Kept(h, heap')
<1>1. Element \in Datum /\ (Element \in Pointer => Own(heap, Element))
  BY ElementIs
<1>2. global \in Datum /\ Own(heap, global)
  BY DEF Typed, Datum, Calm, RootsIn
<1>3. PICK f : f = CallbackArguments(global, Element)
  OBVIOUS
<1>4. f \in Fields /\ {f[i] : i \in DOMAIN f} \subseteq {global, Element}
  <2>1. LET g == CallbackArguments(global, Element) IN g \in Fields /\ {g[i] : i \in DOMAIN g} \subseteq {global, Element}
    BY <1>1, <1>2, CallbackArgumentsAre, Zenon
  <2> QED BY <1>3, <2>1
<1>5. PICK o : o = [At(h, p) EXCEPT !.fields = f]
  OBVIOUS
<1>6. heap' = Store(h, p, o) /\ Issue(RequestScene("scene", native.rd, p))
  BY <1>3, <1>5 DEF PassArguments, Store, At, Element
<1>7. \A v \in PtrsOf(o) : v \in {global, Element} /\ v \in Pointer
  <2>1. p[1] \in {0, 1} /\ p[2] \in Nat \ {0} /\ p[2] <= Len(h[p[1]])
    BY PointerIs DEF In
  <2>2. h[p[1]] \in Seq(Object) /\ Len(h[p[1]]) \in Nat
    BY <2>1, LenProperties DEF World, Heaps
  <2>3. p[2] \in 1 .. Len(h[p[1]])
    BY <2>1, <2>2
  <2>4. At(h, p) \in Object
    BY <2>2, <2>3, ElementOfSeq DEF At
  <2>5. o.fields = f
    BY <1>5, <2>4 DEF Object
  <2> QED BY <1>4, <2>5 DEF PtrsOf
<1>8. \A v : Own(heap, v) => Own(h, v)
  BY OwnKept
<1>9. \A v \in PtrsOf(o) : Own(h, v) /\ Own(heap, v) /\ At(h, v).type # "redirect"
  BY <1>1, <1>2, <1>7, <1>8
<1>10. Good(h, o)
  BY <1>9 DEF Good, Own
<1>11. /\ World(heap', current, u) /\ Kept(h, heap') /\ In(heap') = In(h)
       /\ \A x \in In(h) : At(heap', x).type = At(h, x).type
       /\ \A x \in In(h) : At(heap', x).fields = IF x = p THEN f ELSE At(h, x).fields
       /\ \A v \in Pointer : v \notin {f[i] : i \in DOMAIN f} /\ ApartIn(h, v) => ApartIn(heap', v)
  <2>1. Good(h, [At(h, p) EXCEPT !.fields = f]) /\ heap' = Store(h, p, [At(h, p) EXCEPT !.fields = f])
    BY <1>5, <1>6, <1>10
  <2> QED BY <1>4, <2>1, WorldFields, SMTT(20)
<1>12. Kept(heap, heap')
  BY <1>11, KeptTwice
<1>13. ASSUME NEW v \in Pointer, ApartIn(h, v), ~Own(heap, v) PROVE ApartIn(heap', v)
  <2>1. v \notin {f[i] : i \in DOMAIN f}
    BY <1>1, <1>2, <1>4, <1>13
  <2> QED BY <1>11, <1>13, <2>1
<1> DEFINE q == RequestScene("scene", native.rd, p)
<1>14. q \in RequestType /\ q.op = "scene" /\ q.args = p /\ q.type # "none" /\ q.cap = 1
  <2>1. native.rd \in Reg /\ p \in Datum
    BY NativeIs DEF CallType, In, Datum
  <2>2. Request("scene", "object", 1, native.rd, NoFields) \in RequestType
    BY <2>1, NothingCaptured, RequestIs
  <2> QED BY <2>1, <2>2 DEF RequestScene, RequestType, Request
<1>15. pc' = "alloc" /\ pending' = q
  BY <1>6 DEF Issue
<1> HIDE DEF q
<1>16. \A v \in PtrsOf(At(heap', p)) : Own(heap', v)
  <2>1. At(heap', p).fields = f
    BY <1>11
  <2>2. \A v \in PtrsOf(At(heap', p)) : v \in PtrsOf(o)
    <3>1. At(heap', p) = o
      <4>1. o \in Object
        <5>1. p[1] \in {0, 1} /\ p[2] \in Nat \ {0} /\ p[2] <= Len(h[p[1]])
          BY PointerIs DEF In
        <5>2. h[p[1]] \in Seq(Object) /\ Len(h[p[1]]) \in Nat
          BY <5>1, LenProperties DEF World, Heaps
        <5>3. p[2] \in 1 .. Len(h[p[1]])
          BY <5>1, <5>2
        <5>4. At(h, p) \in Object
          BY <5>2, <5>3, ElementOfSeq DEF At
        <5> QED BY <1>4, <1>5, <5>4 DEF Object
      <4>2. h \in Heaps
        BY DEF World
      <4> QED BY <1>6, <4>1, <4>2, StoreIs
    <3> QED BY <3>1
  <2> QED BY <1>9, <1>12, <2>2, OwnKept
<1>17. \A g, scs : PendingIn(heap', g, scs, native, pending')
  BY <1>11, <1>14, <1>15, <1>16 DEF PendingIn
<1> QED BY <1>11, <1>12, <1>13, <1>14, <1>15, <1>17

(* WorldFields, for a heap with a name. *)
LEMMA FieldsIs ==
  ASSUME NEW h, NEW c, NEW u, World(h, c, u), NEW p \in In(h), NEW f \in Fields,
         Good(h, [At(h, p) EXCEPT !.fields = f]),
         NEW k, k = Store(h, p, [At(h, p) EXCEPT !.fields = f])
  PROVE  /\ World(k, c, u) /\ Kept(h, k)
         /\ In(k) = In(h)
         /\ \A x \in In(h) : At(k, x).type = At(h, x).type
         /\ \A x \in In(h) : At(k, x).fields = IF x = p THEN f ELSE At(h, x).fields
         /\ \A v \in Pointer : v \notin {f[i] : i \in DOMAIN f} /\ ApartIn(h, v) => ApartIn(k, v)
<1> DEFINE r == Store(h, p, [At(h, p) EXCEPT !.fields = f])
<1>1. /\ World(r, c, u) /\ Kept(h, r)
      /\ In(r) = In(h)
      /\ \A x \in In(h) : At(r, x).type = At(h, x).type
      /\ \A x \in In(h) : At(r, x).fields = IF x = p THEN f ELSE At(h, x).fields
      /\ \A v \in Pointer : v \notin {f[i] : i \in DOMAIN f} /\ ApartIn(h, v) => ApartIn(r, v)
  BY WorldFields
<1>2. k = r
  OBVIOUS
<1> HIDE DEF r
<1> QED BY <1>1, <1>2

(* cvm_create_array in the loop of foreach: the array goes into the external one. *)
LEMMA CbArgServedStep ==
  ASSUME Typed, Calm, CbArgServed
  PROVE  Typed' /\ Calm'
<1> DEFINE t == NewTable(1, NoFields)  k == Grown(heap, current, t)
           e == Scene.external
           external == [Obj(e) EXCEPT !.fields = Put(@, Count(Obj(e)), Fresh)]
           created == Allocated(t, e, external)
<1>1. /\ t \in Object /\ t.type = "object" /\ t.cap = 1 /\ t.id = NoId /\ t.fields = NoFields
      /\ \A p, x : Allocated(t, p, x) = Store(k, p, x)
      /\ World(k, current, used[current] + 1 + 1) /\ Kept(heap, k)
      /\ In(k) = In(heap) \cup {Fresh} /\ Fresh \notin In(heap) /\ Fresh \in Pointer /\ At(k, Fresh) = t
      /\ \A x \in In(heap) : At(k, x) = At(heap, x)
      /\ \A v \in Pointer : ApartIn(heap, v) => ApartIn(k, v)
      /\ ApartIn(k, Fresh)
  BY TableIs
<1>2. /\ pending.op = "cb_arg" /\ Fits(pending.cap) /\ Taken(1)
      /\ IF NeedExpand(external)
         THEN /\ heap' = created
              /\ Issue([Request("external", "object", 2 * external.cap, native.rd, NoFields) EXCEPT !.args = Fresh])
         ELSE PassArguments(created, Fresh)
      /\ current' = current /\ global' = global /\ scenes' = scenes /\ todo' = todo
      /\ native' = native /\ program' = program
  BY DEF CbArgServed
<1> HIDE DEF t, k
<1>3. native.fn = "foreach" /\ pending.cap = 1 /\ native.rd \in Reg
  <2>1. PendingIn(heap, global, scenes, native, pending)
    BY DEF Calm
  <2> QED BY <1>2, <2>1, NativeIs DEF PendingIn, CallType
<1>4. /\ used' \in [{0, 1} -> Nat] /\ used'[current] = used[current] + 1 + 1
      /\ used'[Other] = used[Other] /\ used'[current] <= BlockSize
  BY <1>2, <1>3, TakenIs
<1>5. 1 \in 1 .. Len(scenes) /\ e = scenes[1].external /\ scenes \in Scenes
  BY TopIs, SceneIs
<1>6. /\ e \in Pointer /\ e \in Places /\ Obj(e).id = NoId /\ Obj(e).type # "redirect"
      /\ Obj(e) \in Object /\ Good(heap, Obj(e)) /\ \A v : Own(heap, v) => v # e
  <2>1. /\ e \in Pointer /\ e \in Places /\ Obj(e).id = NoId /\ Obj(e).type # "redirect"
        /\ \A v : Own(heap, v) => v # e
    BY <1>5, ExternalsAre
  <2> QED BY <2>1, ObjTyped, CalmIs
<1> HIDE DEF e
<1>7. PICK f : f = Put(Obj(e).fields, Count(Obj(e)), Fresh)
  OBVIOUS
<1>8. f \in Fields /\ {f[i] : i \in DOMAIN f} \subseteq {Fresh} \cup {Obj(e).fields[i] : i \in DOMAIN Obj(e).fields}
  <2>1. PICK of, n : of = Obj(e).fields /\ n = Count(Obj(e))
    OBVIOUS
  <2>2. of \in Fields /\ n \in Nat /\ Fresh \in Datum
    <3>1. IsFiniteSet(DOMAIN Obj(e).fields)
      BY <1>6, ObjectIs
    <3>2. Cardinality(DOMAIN Obj(e).fields) \in Nat
      BY <3>1, FS_CardinalityType
    <3> QED BY <1>1, <1>6, <2>1, <3>2 DEF Object, Datum, Count
  <2>3. Put(of, n, Fresh) \in Fields
        /\ {Put(of, n, Fresh)[i] : i \in DOMAIN Put(of, n, Fresh)} \subseteq {Fresh} \cup {of[i] : i \in DOMAIN of}
    BY <2>2, PutIs, Zenon
  <2> QED BY <1>7, <2>1, <2>3
<1>9. external = [At(k, e) EXCEPT !.fields = f] /\ e \in In(k) /\ created = Store(k, e, [At(k, e) EXCEPT !.fields = f])
  <2>1. e \in In(heap) /\ At(heap, e) = Obj(e)
    BY <1>6 DEF Places, At, Obj
  <2>2. external = [At(k, e) EXCEPT !.fields = f]
    BY <1>1, <1>7, <2>1
  <2> HIDE DEF external
  <2> QED BY <1>1, <2>1, <2>2
<1>10. external \in Object /\ external.cap \in Nat /\ external.fields = f /\ external.id = NoId
  <2>1. external = [Obj(e) EXCEPT !.fields = f]
    BY <1>7
  <2> HIDE DEF external
  <2> QED BY <1>6, <1>8, <2>1 DEF Object
<1> HIDE DEF external
<1>11. Good(k, external)
  <2> SUFFICES ASSUME NEW v \in PtrsOf(external) PROVE v \in In(k) /\ At(k, v).type # "redirect"
    BY <1>10 DEF Good
  <2>1. v \in Pointer /\ (v = Fresh \/ v \in PtrsOf(Obj(e)))
    BY <1>8, <1>10 DEF PtrsOf
  <2>2. CASE v = Fresh
    BY <2>2, <1>1
  <2>3. CASE v \in PtrsOf(Obj(e))
    <3>1. v \in In(heap) /\ At(heap, v).type # "redirect"
      BY <2>3, <1>6 DEF Good
    <3> QED BY <3>1, <1>1
  <2> QED BY <2>1, <2>2, <2>3
<1>12. /\ World(created, current, used[current] + 1 + 1) /\ Kept(k, created) /\ In(created) = In(k)
       /\ \A x \in In(k) : At(created, x).type = At(k, x).type
       /\ \A x \in In(k) : At(created, x).fields = IF x = e THEN f ELSE At(k, x).fields
       /\ \A v \in Pointer : v \notin {f[i] : i \in DOMAIN f} /\ ApartIn(k, v) => ApartIn(created, v)
  <2>1. Good(k, [At(k, e) EXCEPT !.fields = f])
    BY <1>9, <1>11
  <2>2. PICK x : x = Store(k, e, [At(k, e) EXCEPT !.fields = f])
    OBVIOUS
  <2>3. x = created
    BY <1>9, <2>2
  <2>4. World(k, current, used[current] + 1 + 1)
    BY <1>1
  <2>5. /\ World(x, current, used[current] + 1 + 1) /\ Kept(k, x) /\ In(x) = In(k)
        /\ \A y \in In(k) : At(x, y).type = At(k, y).type
        /\ \A y \in In(k) : At(x, y).fields = IF y = e THEN f ELSE At(k, y).fields
        /\ \A v \in Pointer : v \notin {f[i] : i \in DOMAIN f} /\ ApartIn(k, v) => ApartIn(x, v)
    <3>1. f \in Fields /\ e \in In(k)
      BY <1>8, <1>9
    <3> QED BY <3>1, <2>1, <2>2, <2>4, FieldsIs
  <2> HIDE DEF created
  <2> QED BY <2>3, <2>5
<1> HIDE DEF created
<1>13. /\ Kept(heap, created) /\ Fresh \in In(created)
       /\ \A x \in In(heap) : At(created, x).type = At(heap, x).type
  BY <1>1, <1>12, KeptTwice
<1>14. ASSUME NEW v \in Pointer, ApartIn(heap, v), v \in In(heap) PROVE ApartIn(created, v)
  <2>1. v # Fresh /\ v \notin PtrsOf(Obj(e))
    BY <1>1, <1>6, <1>14 DEF ApartIn, Places, At, Obj
  <2>2. v \notin {f[i] : i \in DOMAIN f}
    BY <1>8, <1>14, <2>1 DEF PtrsOf
  <2> QED BY <1>1, <1>12, <1>14, <2>2
<1>15. ASSUME NEW i \in 1 .. Len(scenes)
       PROVE  LET x == scenes[i].external IN
              /\ x \in Pointer /\ x \in In(heap) /\ At(created, x).type # "redirect" /\ ApartIn(created, x)
              /\ ~Own(heap, x) /\ x \in In(created)
  <2>1. PICK x : x = scenes[i].external
    OBVIOUS
  <2>2. /\ x \in Pointer /\ x \in Places /\ Obj(x).type # "redirect" /\ ApartIn(heap, x)
        /\ \A v : Own(heap, v) => v # x
    BY <2>1, ExternalsAre
  <2>3. x \in In(heap) /\ At(heap, x).type # "redirect"
    BY <2>2 DEF Places, At, Obj
  <2>4. x \in Pointer /\ x \in In(heap) /\ At(created, x).type # "redirect" /\ ApartIn(created, x)
        /\ ~Own(heap, x) /\ x \in In(created)
    BY <1>13, <1>14, <2>2, <2>3 DEF Kept
  <2> QED BY <2>1, <2>4
<1>16. At(created, global).type # "redirect" /\ global \in In(created)
  <2>1. global \in In(heap) /\ At(heap, global).type # "redirect"
    BY DEF Calm, RootsIn, Own
  <2> QED BY <1>13, <2>1 DEF Kept
<1>17. Rewritten(scenes, scenes', {})
  BY <1>2, <1>5 DEF Rewritten
<1>18. CASE NeedExpand(external)
  <2> DEFINE q == [Request("external", "object", 2 * external.cap, native.rd, NoFields) EXCEPT !.args = Fresh]
  <2>1. q \in RequestType /\ q.op = "external" /\ q.args = Fresh /\ q.type # "none"
    <3>1. 2 * external.cap \in Nat /\ Fresh \in Datum
      BY <1>1, <1>10 DEF Datum
    <3>2. Request("external", "object", 2 * external.cap, native.rd, NoFields) \in RequestType
      BY <1>3, <3>1, NothingCaptured, RequestIs
    <3> QED BY <3>1, <3>2 DEF RequestType, Request
  <2>2. heap' = created /\ pc' = "alloc" /\ pending' = q
    BY <1>2, <1>18 DEF Issue
  <2> HIDE DEF q
  <2>3. PendingIn(heap', global, scenes', native, pending')
    BY <1>3, <1>13, <2>1, <2>2 DEF PendingIn
  <2> QED BY <1>2, <1>4, <1>12, <1>13, <1>15, <1>16, <1>17, <2>1, <2>2, <2>3, HeapStep
<1>19. CASE ~NeedExpand(external)
  <2>1. PassArguments(created, Fresh)
    BY <1>2, <1>19
  <2>2. Element \in Pointer => At(created, Element).type # "redirect"
    BY <1>3, <1>13, ElementIs DEF Own
  <2>3. /\ World(heap', current, used[current] + 1 + 1) /\ Kept(heap, heap')
        /\ \A x \in In(created) : At(heap', x).type = At(created, x).type
        /\ \A v \in Pointer : ApartIn(created, v) /\ ~Own(heap, v) => ApartIn(heap', v)
        /\ pc' = "alloc" /\ pending' \in RequestType /\ pending'.op = "scene"
        /\ PendingIn(heap', global, scenes', native, pending')
    BY <1>3, <1>12, <1>13, <1>16, <2>1, <2>2, PassedIs
  <2>4. At(heap', global).type # "redirect"
    BY <1>16, <2>3
  <2>5. ASSUME NEW i \in 1 .. Len(scenes)
        PROVE  At(heap', scenes[i].external).type # "redirect" /\ ApartIn(heap', scenes[i].external)
    BY <1>15, <2>3
  <2> QED BY <1>2, <1>4, <1>17, <2>3, <2>4, <2>5, HeapStep
<1> QED BY <1>18, <1>19

(* The external array grows (_cvm_set_hash). *)
LEMMA ExternalServedStep ==
  ASSUME Typed, Calm, ExternalServed
  PROVE  Typed' /\ Calm'
<1> DEFINE e == Scene.external
           o == NewTable(pending.cap, Obj(e).fields)
           header == [NewTable(0, NoFields) EXCEPT !.type = "redirect", !.fwd = Fresh]
           h == Allocated(o, e, header)
<1>1. /\ pending.op = "external" /\ Fits(pending.cap) /\ Taken(pending.cap)
      /\ PassArguments(h, pending.args)
      /\ scenes' = [scenes EXCEPT ![1].external = Fresh]
      /\ current' = current /\ global' = global /\ todo' = todo
      /\ native' = native /\ program' = program
  BY DEF ExternalServed
<1>2. native.fn = "foreach" /\ pending.cap \in Nat /\ pending.args \in In(heap)
  <2>1. PendingIn(heap, global, scenes, native, pending) /\ pending \in RequestType
    BY DEF Calm, Typed
  <2> QED BY <1>1, <2>1 DEF PendingIn, RequestType
<1>3. /\ used' \in [{0, 1} -> Nat] /\ used'[current] = used[current] + 1 + pending.cap
      /\ used'[Other] = used[Other] /\ used'[current] <= BlockSize
  BY <1>1, <1>2, TakenIs
<1>4. 1 \in 1 .. Len(scenes) /\ e = scenes[1].external /\ scenes \in Scenes /\ scenes[1] \in SceneType
  BY TopIs, SceneIs
<1>5. /\ e \in Pointer /\ e \in In(heap) /\ At(heap, e) = Obj(e) /\ At(heap, e).id = NoId
      /\ At(heap, e) \in Object /\ ApartIn(heap, e) /\ e[1] = current
      /\ \A v : Own(heap, v) => v # e
  <2>1. /\ e \in Pointer /\ e \in Places /\ Obj(e).id = NoId
        /\ ApartIn(heap, e) /\ \A v : Own(heap, v) => v # e
    BY <1>4, ExternalsAre
  <2> QED BY <2>1, ObjTyped, CalmIs DEF Places, At, Obj
<1> HIDE DEF e
<1>6. /\ o \in Object /\ o.type \in {"object", "closure"} /\ o.cap = pending.cap
      /\ o.fields = At(heap, e).fields /\ o.fwd = Undefined /\ o.id = At(heap, e).id /\ o.type # "redirect"
  <2>1. Obj(e).fields \in Fields /\ NoId \in Ids \cup {NoId}
    BY <1>5 DEF Object
  <2>2. /\ o \in Object /\ o.type = "object" /\ o.cap = pending.cap /\ o.fields = Obj(e).fields
        /\ o.fwd = Undefined /\ o.id = NoId
    BY <1>2, <2>1, NewObjectIs DEF NewTable
  <2> HIDE DEF o
  <2> QED BY <1>5, <2>2
<1>7. Fresh \in Pointer
  BY <1>6, AllocatedIs DEF GrowsTo
<1>8. /\ header \in Object /\ header.type = "redirect" /\ header.cap = 0 /\ header.fields = NoFields
      /\ header.fwd = Fresh /\ header.id = At(heap, e).id
  BY <1>5, <1>7, NoFieldsIs DEF NewTable, NewObject, Object
<1> HIDE DEF o, header
<1>9. /\ World(h, current, used[current] + 1 + pending.cap) /\ Kept(heap, h)
      /\ \A x \in In(heap) : x # e => At(h, x) = At(heap, x)
      /\ \A v \in Pointer : ApartIn(heap, v) => ApartIn(h, v)
      /\ Fresh \in In(h) /\ Fresh \notin In(heap) /\ At(h, Fresh) = o
  BY <1>2, <1>5, <1>6, <1>8, ReplacedIs
<1> HIDE DEF h
<1>10. Own(heap, global) /\ At(heap, global).type # "redirect"
  BY DEF Calm, RootsIn
<1>11. At(h, global).type # "redirect"
  BY <1>5, <1>9, <1>10 DEF Own
<1>12. Element \in Pointer => At(h, Element).type # "redirect"
  BY <1>2, <1>5, <1>9, ElementIs DEF Own
<1>13. pending.args \in In(h)
  BY <1>2, <1>9 DEF Kept
<1>14. /\ World(heap', current, used[current] + 1 + pending.cap) /\ Kept(heap, heap') /\ Kept(h, heap')
       /\ \A x \in In(h) : At(heap', x).type = At(h, x).type
       /\ \A v \in Pointer : ApartIn(h, v) /\ ~Own(heap, v) => ApartIn(heap', v)
       /\ pc' = "alloc" /\ pending' \in RequestType /\ pending'.op = "scene"
       /\ PendingIn(heap', global, scenes', native, pending')
  BY <1>1, <1>2, <1>9, <1>11, <1>12, <1>13, PassedIs
<1>15. ApartIn(heap, Fresh)
  <2> SUFFICES ASSUME NEW p \in In(heap) PROVE Fresh \notin PtrsOf(At(heap, p))
    BY DEF ApartIn
  <2>1. Good(heap, At(heap, p))
    BY CalmIs DEF Places, At, Obj
  <2> QED BY <1>9, <2>1 DEF Good
<1>16. ExternalIn(heap', Fresh) /\ ApartIn(heap', Fresh)
  <2>1. At(h, Fresh).type # "redirect" /\ At(h, Fresh).id = NoId
    BY <1>5, <1>6, <1>9
  <2>2. ~Own(heap, Fresh)
    BY <1>9 DEF Own
  <2> QED BY <1>7, <1>9, <1>14, <1>15, <2>1, <2>2 DEF ExternalIn, Kept
<1> DEFINE top == [scenes[1] EXCEPT !.external = Fresh]
<1>17. top \in SceneType /\ top.external = Fresh /\ top.frames = scenes[1].frames /\ top.caller = scenes[1].caller
  BY <1>4, <1>7 DEF SceneType
<1>18. scenes' = [scenes EXCEPT ![1] = top]
  BY <1>1
<1> HIDE DEF top
<1>19. scenes' \in Scenes /\ Len(scenes') = Len(scenes) /\ scenes'[1] = top
       /\ \A s \in 1 .. Len(scenes) : s # 1 => scenes'[s] = scenes[s]
  <2> DEFINE r == [scenes EXCEPT ![1] = top]
  <2>1. r \in Scenes /\ Len(r) = Len(scenes) /\ r[1] = top /\ \A s \in 1 .. Len(scenes) : s # 1 => r[s] = scenes[s]
    BY <1>4, <1>17, FirstReplaced DEF Topped
  <2>2. scenes' = r
    BY <1>18
  <2> HIDE DEF r
  <2> QED BY <2>1, <2>2
<1>20. \A s \in 1 .. Len(scenes) : /\ scenes'[s].caller = scenes[s].caller /\ HeldBy(scenes'[s]) = HeldBy(scenes[s])
                                   /\ scenes'[s].external = IF s = 1 THEN Fresh ELSE scenes[s].external
  BY <1>4, <1>17, <1>19 DEF HeldBy
<1>21. CallsIn(heap', native', scenes') /\ native' \in CallType
  <2>1. CallsIn(heap', native, scenes) /\ native \in CallType
    BY <1>14, NativeIs, CallsKept
  <2>2. {scenes'[s].caller : s \in 1 .. Len(scenes')} = {scenes[s].caller : s \in 1 .. Len(scenes)}
    BY <1>19, <1>20
  <2> QED BY <1>1, <2>1, <2>2 DEF CallsIn
<1>22. RootsIn(heap', global, scenes')
  <2>1. RootsIn(heap, global, scenes)
    BY DEF Calm
  <2>2. Own(heap', global) /\ At(heap', global).type # "redirect"
    <3>1. global \in In(h)
      BY <1>9, <1>10 DEF Own, Kept
    <3> QED BY <1>10, <1>11, <1>14, <3>1, OwnKept
  <2>3. ASSUME NEW s \in 1 .. Len(scenes'), s # 1
        PROVE  LET x == scenes'[s].external IN
               /\ ExternalIn(heap', x) /\ ApartIn(heap', x) /\ x # Fresh /\ x = scenes[s].external
               /\ s \in 1 .. Len(scenes)
    <3>1. PICK x : x = scenes[s].external
      OBVIOUS
    <3>2. s \in 1 .. Len(scenes) /\ scenes'[s].external = x
      BY <1>19, <1>20, <2>3, <3>1
    <3>3. /\ x \in Pointer /\ x \in In(heap) /\ At(heap, x).id = NoId /\ At(heap, x).type # "redirect"
          /\ ApartIn(heap, x) /\ ~Own(heap, x)
      <4>1. /\ x \in Pointer /\ x \in Places /\ Obj(x).id = NoId /\ Obj(x).type # "redirect"
            /\ ApartIn(heap, x) /\ \A v : Own(heap, v) => v # x
        BY <3>1, <3>2, ExternalsAre
      <4> QED BY <4>1 DEF Places, At, Obj
    <3>4. x # e
      BY <1>4, <2>1, <2>3, <3>1, <3>2 DEF RootsIn
    <3>5. x \in In(h) /\ At(h, x) = At(heap, x) /\ ApartIn(h, x)
      BY <1>9, <3>3, <3>4 DEF Kept
    <3>6. ExternalIn(heap', x) /\ ApartIn(heap', x)
      BY <1>14, <3>3, <3>5 DEF ExternalIn, Kept
    <3>7. x # Fresh
      BY <1>9, <3>3
    <3> QED BY <3>1, <3>2, <3>6, <3>7
  <2>4. ASSUME NEW s \in 1 .. Len(scenes'), NEW v \in HeldBy(scenes'[s]) PROVE Own(heap', v)
    <3>1. v \in HeldBy(scenes[s]) /\ s \in 1 .. Len(scenes)
      BY <1>19, <1>20
    <3>2. Own(heap, v)
      BY <2>1, <3>1 DEF RootsIn
    <3> QED BY <1>14, <3>2, OwnKept
  <2>5. scenes'[1].external = Fresh
    BY <1>4, <1>20
  <2>6. \A s \in 1 .. Len(scenes') : ExternalIn(heap', scenes'[s].external) /\ ApartIn(heap', scenes'[s].external)
    BY <1>16, <2>3, <2>5
  <2>7. ASSUME NEW s \in 1 .. Len(scenes'), NEW r \in 1 .. Len(scenes'), s # r
        PROVE  scenes'[s].external # scenes'[r].external
    <3>1. CASE s = 1
      BY <3>1, <2>3, <2>5, <2>7
    <3>2. CASE r = 1
      BY <3>2, <2>3, <2>5, <2>7
    <3>3. CASE s # 1 /\ r # 1
      <4>1. /\ scenes'[s].external = scenes[s].external /\ scenes'[r].external = scenes[r].external
            /\ s \in 1 .. Len(scenes) /\ r \in 1 .. Len(scenes)
        BY <3>3, <2>3
      <4> QED BY <4>1, <2>1, <2>7 DEF RootsIn
    <3> QED BY <3>1, <3>2, <3>3
  <2> QED BY <2>2, <2>4, <2>6, <2>7 DEF RootsIn
<1> QED BY <1>1, <1>3, <1>14, <1>19, <1>21, <1>22, CalmStep

------------------------------------------------------------------------------
(* Closures.  E: what is next to each node; the least set that contains A and  *)
(* what is next to its members is reached in as many rounds as there are nodes. *)
Next1(E, x) == x \cup UNION {E[y] : y \in x}
Least(E, A, S) ==
  /\ A \subseteq S /\ \A y \in S : E[y] \subseteq S
  /\ \A T : A \subseteq T /\ (\A y \in T \cap S : E[y] \subseteq T) => S \subseteq T

(* A function on the numbers up to N, defined by what follows each value. *)
Iterates(f, N, X, G, A) == f \in [0 .. N -> X] /\ f[0] = A /\ \A n \in 1 .. N : f[n] = G[f[n - 1]]

(* What follows a value can be applied any number of times. *)
LEMMA Iterated ==
  ASSUME NEW N \in Nat, NEW X, NEW G \in [X -> X], NEW A \in X
  PROVE  \E f : Iterates(f, N, X, G, A)
<1> DEFINE Is(f, m) == f \in [0 .. m -> X] /\ f[0] = A /\ \A n \in 1 .. m : f[n] = G[f[n - 1]]
           S == {m \in Nat : \E f : Is(f, m)}
<1>1. 0 \in S
  <2>1. Is([n \in 0 .. 0 |-> A], 0)
    OBVIOUS
  <2> HIDE DEF Is
  <2> QED BY <2>1
<1>2. ASSUME NEW m \in Nat, m \in S PROVE m + 1 \in S
  <2>1. PICK f : Is(f, m)
    BY <1>2
  <2> DEFINE g == [n \in 0 .. m + 1 |-> IF n = m + 1 THEN G[f[m]] ELSE f[n]]
  <2>2. f[m] \in X /\ G[f[m]] \in X
    BY <2>1
  <2>3. \A n \in 0 .. m : g[n] = f[n] /\ g[n] \in X
    BY <2>1
  <2>4. g[m + 1] = G[f[m]]
    OBVIOUS
  <2>5. g \in [0 .. m + 1 -> X]
    <3>1. \A n \in 0 .. m + 1 : g[n] \in X
      BY <2>2, <2>3, <2>4
    <3> QED BY <3>1
  <2> HIDE DEF g
  <2>6. Is(g, m + 1)
    <3>1. ASSUME NEW n \in 1 .. m + 1 PROVE g[n] = G[g[n - 1]]
      <4>1. CASE n = m + 1
        <5>1. n - 1 = m /\ m \in 0 .. m
          BY <4>1
        <5> QED BY <4>1, <5>1, <2>3, <2>4
      <4>2. CASE n # m + 1
        <5>1. n \in 1 .. m /\ n \in 0 .. m /\ n - 1 \in 0 .. m
          BY <4>2
        <5> QED BY <5>1, <2>1, <2>3
      <4> QED BY <4>1, <4>2
    <3>2. g[0] = A
      BY <2>1, <2>3
    <3> QED BY <3>1, <3>2, <2>5
  <2> HIDE DEF Is
  <2> QED BY <2>6
<1>3. N \in S
  <2> HIDE DEF S
  <2> QED BY <1>1, <1>2, NatInd
<1> QED BY <1>3 DEF Iterates

(* A finite U: as many rounds as it has members reach the least set that is
   closed under E (the shape of Machine's Reachable and of Visible). *)
LEMMA Closed ==
  ASSUME NEW U, IsFiniteSet(U), NEW N \in Nat, Cardinality(U) <= N,
         NEW E \in [U -> SUBSET U], NEW A \in SUBSET U, NEW f,
         f[0] = A, \A n \in 0 .. N - 1 : f[n] \subseteq U => f[n + 1] = Next1(E, f[n])
  PROVE  f[N] \subseteq U /\ Least(E, A, f[N])
<1> DEFINE Fine(n) == /\ f[n] \subseteq U /\ A \subseteq f[n]
                      /\ \A T : A \subseteq T /\ (\A y \in T \cap U : E[y] \subseteq T) => f[n] \subseteq T
           End(n) == \A y \in f[n] : E[y] \subseteq f[n]
           S == {n \in Nat : n <= N => Fine(n) /\ (End(n) \/ n <= Cardinality(f[n]))}
<1>0. \A x \in SUBSET U : IsFiniteSet(x) /\ Cardinality(x) \in Nat /\ Cardinality(x) <= Cardinality(U)
  BY FS_Subset, FS_CardinalityType
<1>1. 0 \in S
  <2>1. Fine(0)
    OBVIOUS
  <2>2. 0 <= Cardinality(f[0])
    BY <1>0
  <2> QED BY <2>1, <2>2
<1>2. ASSUME NEW n \in Nat, n \in S PROVE n + 1 \in S
  <2> SUFFICES ASSUME n + 1 <= N PROVE Fine(n + 1) /\ (End(n + 1) \/ n + 1 <= Cardinality(f[n + 1]))
    OBVIOUS
  <2>1. Fine(n) /\ (End(n) \/ n <= Cardinality(f[n]))
    BY <1>2
  <2>2. f[n + 1] = Next1(E, f[n])
    BY <2>1
  <2>3. /\ f[n] \subseteq f[n + 1]
        /\ \A x \in f[n + 1] : x \in f[n] \/ \E y \in f[n] : x \in E[y]
        /\ \A y \in f[n] : E[y] \subseteq f[n + 1]
    BY <2>2 DEF Next1
  <2>4. Fine(n + 1)
    <3>1. f[n + 1] \subseteq U /\ A \subseteq f[n + 1]
      BY <2>1, <2>3
    <3>2. ASSUME NEW T, A \subseteq T, \A y \in T \cap U : E[y] \subseteq T PROVE f[n + 1] \subseteq T
      <4>1. f[n] \subseteq T
        BY <3>2, <2>1
      <4> QED BY <4>1, <3>2, <2>1, <2>3
    <3> QED BY <3>1, <3>2
  <2>5. CASE End(n)
    <3>1. f[n + 1] = f[n]
      BY <2>5, <2>3
    <3> QED BY <3>1, <2>4, <2>5
  <2>6. CASE ~End(n)
    <3>a. PICK y \in f[n] : ~(E[y] \subseteq f[n])
      BY <2>6
    <3>1. PICK x \in E[y] : x \notin f[n]
      BY <3>a
    <3>2. x \in f[n + 1] /\ f[n] \subseteq f[n + 1] \ {x}
      BY <3>1, <2>3
    <3>3. IsFiniteSet(f[n + 1]) /\ f[n + 1] \ {x} \in SUBSET U
      BY <2>4, <1>0
    <3>4. Cardinality(f[n + 1] \ {x}) = Cardinality(f[n + 1]) - 1
      BY <3>2, <3>3, FS_RemoveElement
    <3>5. Cardinality(f[n]) <= Cardinality(f[n + 1] \ {x})
      BY <3>2, <3>3, <1>0, FS_Subset
    <3>6. n <= Cardinality(f[n])
      BY <2>1, <2>6
    <3>7. Cardinality(f[n]) \in Nat /\ Cardinality(f[n + 1]) \in Nat
      BY <2>1, <2>4, <1>0
    <3>8. n + 1 <= Cardinality(f[n + 1])
      BY <3>4, <3>5, <3>6, <3>7
    <3> QED BY <3>8, <2>4
  <2> QED BY <2>5, <2>6
<1>3. N \in S
  <2> HIDE DEF S
  <2> QED BY <1>1, <1>2, NatInd
<1>4. Fine(N) /\ (End(N) \/ N <= Cardinality(f[N]))
  BY <1>3
<1>5. End(N)
  <2> SUFFICES ASSUME ~End(N) PROVE FALSE
    OBVIOUS
  <2>1. N <= Cardinality(f[N])
    BY <1>4
  <2>2. f[N] \subseteq U /\ Cardinality(f[N]) <= Cardinality(U) /\ Cardinality(f[N]) \in Nat /\ Cardinality(U) \in Nat
    BY <1>0, <1>4
  <2>3. Cardinality(f[N]) = Cardinality(U)
    BY <2>1, <2>2
  <2>4. f[N] = U
    BY <2>2, <2>3, FS_Subset
  <2> QED BY <2>4
<1>6. Least(E, A, f[N])
  <2> SUFFICES ASSUME NEW T, A \subseteq T, \A y \in T \cap f[N] : E[y] \subseteq T PROVE f[N] \subseteq T
    BY <1>4, <1>5 DEF Least
  <2>1. A \subseteq T \cap f[N] /\ \A y \in (T \cap f[N]) \cap U : E[y] \subseteq T \cap f[N]
    BY <1>4, <1>5
  <2>2. f[N] \subseteq T \cap f[N]
    BY <2>1, <1>4
  <2> QED BY <2>2
<1> QED BY <1>4, <1>6

------------------------------------------------------------------------------
(* What a heap, its roots and the C function that runs show of a machine.      *)
IsHeader(o) == o.type \in {"redirect", "left"}
IdIn(h, v) == IF IsPtr(v) THEN At(h, v).id ELSE v
FieldsOf(h, o) == [k \in DOMAIN o.fields |-> IdIn(h, o.fields[k])]
AbsOf(h, o) == [type |-> o.type, fields |-> FieldsOf(h, o)]
RegsOf(h, regs) == [r \in Reg |-> IdIn(h, regs[r])]
FrameOf(h, f) == [regs |-> RegsOf(h, f.regs), rd |-> f.rd]
CallOf(h, c) ==
  [fn |-> c.fn, rd |-> c.rd, array |-> IdIn(h, c.array), callback |-> IdIn(h, c.callback), done |-> c.done]
SceneOf(h, sc) ==
  [frames |-> [f \in 1 .. Len(sc.frames) |-> FrameOf(h, sc.frames[f])], caller |-> CallOf(h, sc.caller)]
ScenesOf(h, scs) == [s \in 1 .. Len(scs) |-> SceneOf(h, scs[s])]
Record(O, g, scs, nat) == [objects |-> O, global |-> g, scenes |-> scs, native |-> nat]

(* The pointers of the roots that scripts, or C functions that run scripts, hold. *)
CallsOf(nat, scs) == {nat} \cup {scs[s].caller : s \in 1 .. Len(scs)}
Root(g, scs, nat, v) ==
  /\ v \in Pointer
  /\ \/ v = g
     \/ \E s \in 1 .. Len(scs) : v \in HeldBy(scs[s])
     \/ \E c \in CallsOf(nat, scs) : v \in {c.array, c.callback}

(* Every way through headers ends; D: where. *)
Chains(h) ==
  \A S : /\ \A p \in In(h) : ~IsHeader(At(h, p)) => p \in S
         /\ \A p \in In(h) : IsHeader(At(h, p)) /\ At(h, p).fwd \in S => p \in S
         => In(h) \subseteq S
Denotes(h, D) ==
  \A p \in In(h) :
    /\ D[p] \in In(h) /\ ~IsHeader(At(h, D[p])) /\ At(h, D[p]).id = At(h, p).id
    /\ ~IsHeader(At(h, p)) => D[p] = p
    /\ IsHeader(At(h, p)) =>
         /\ At(h, p).fwd \in In(h) /\ At(h, At(h, p).fwd).id = At(h, p).id /\ D[p] = D[At(h, p).fwd]
Linked(h) ==
  \A p \in In(h) : \A v \in PtrsOf(At(h, p)) :
    v \in In(h) /\ (At(h, p).id # NoId => At(h, v).id # NoId)
Tables(h) == {p \in In(h) : ~IsHeader(At(h, p)) /\ At(h, p).id # NoId}

(* W has the tables that the roots lead to. *)
Closing(h, g, scs, nat, D, W) ==
  /\ \A v : Root(g, scs, nat, v) => D[v] \in W
  /\ \A p \in W \cap In(h) : \A v \in PtrsOf(At(h, p)) : D[v] \in W
Shows(h, V, O) ==
  /\ O = [i \in DOMAIN O |-> O[i]]
  /\ \A p \in V : At(h, p).id \in DOMAIN O
  /\ \A i \in DOMAIN O : \E p \in V : At(h, p).id = i /\ O[i] = AbsOf(h, At(h, p))

View(h, g, scs, nat, m, D, V) ==
  /\ h \in Heaps /\ g \in Pointer /\ scs \in Scenes /\ nat \in CallType
  /\ \A v : Root(g, scs, nat, v) => Own(h, v)
  /\ Linked(h) /\ Chains(h) /\ Denotes(h, D)
  /\ V \subseteq Tables(h) /\ IsFiniteSet(V)
  /\ Closing(h, g, scs, nat, D, V)
  /\ \A W : Closing(h, g, scs, nat, D, W) => V \subseteq W
  /\ m = Record(m.objects, IdIn(h, g), ScenesOf(h, scs), CallOf(h, nat))
  /\ Shows(h, V, m.objects)

------------------------------------------------------------------------------
(* Machine and ObjectHeap mean the same by what they both name. *)
LEMMA SameNotions ==
  /\ M!Undefined = Undefined /\ M!Zero = Zero /\ M!Reg = Reg /\ M!NoFields = NoFields /\ M!NoCall = NoCall
  /\ \A S : M!Cardinality(S) = Cardinality(S) /\ M!Range(S) = Range(S)
  /\ \A o, k : M!Get(o, k) = Get(o, k)
  /\ \A f, k, v : M!Put(f, k, v) = Put(f, k, v)
  /\ \A regs, r : M!Operand(regs, r) = Operand(regs, r)
  /\ \A f, a, rd : M!NewFrame(f, a, rd) = NewFrame(f, a, rd)
  /\ \A g : M!MainFrame(g) = MainFrame(g)
  /\ \A g, e : M!CallbackArguments(g, e) = CallbackArguments(g, e)
<1>1. M!Undefined = Undefined /\ M!Zero = Zero /\ M!Reg = Reg /\ M!NoFields = NoFields /\ M!NoCall = NoCall
  BY DEF M!NoCall, NoCall, M!Undefined, Undefined, M!Zero, Zero, M!Reg, Reg, M!NoFields, NoFields
<1>2. \A S : M!Cardinality(S) = Cardinality(S)
  BY DEF Cardinality, M!Cardinality
<1>3. \A S : M!Range(S) = Range(S)
  BY DEF Range, M!Range
<1>4. \A o, k : M!Get(o, k) = Get(o, k)
  BY <1>1 DEF M!Get, Get
<1>5. \A f, k, v : M!Put(f, k, v) = Put(f, k, v)
  BY DEF M!Put, Put, M!Undefined, Undefined
<1>6. \A regs, r : M!Operand(regs, r) = Operand(regs, r)
  BY <1>1 DEF M!Operand, Operand
<1>7. \A f, a, rd : M!NewFrame(f, a, rd) = NewFrame(f, a, rd)
  BY <1>4 DEF M!NewFrame, NewFrame, M!Undefined, Undefined, M!Reg, Reg
<1>8. \A g : M!MainFrame(g) = MainFrame(g)
  BY DEF M!MainFrame, MainFrame, M!Undefined, Undefined, M!Reg, Reg
<1>9. \A g, e : M!CallbackArguments(g, e) = CallbackArguments(g, e)
  BY <1>1, <1>5 DEF M!CallbackArguments, CallbackArguments
<1> QED BY <1>1, <1>2, <1>3, <1>4, <1>5, <1>6, <1>7, <1>8, <1>9

(* What a machine can reach. *)
LEMMA ReachableIs ==
  ASSUME NEW m, IsFiniteSet(DOMAIN m.objects),
         NEW E, E = [i \in DOMAIN m.objects |-> Range(m.objects[i].fields) \cap DOMAIN m.objects]
  PROVE  /\ M!Reachable(m) \subseteq DOMAIN m.objects
         /\ Least(E, M!Roots(m) \cap DOMAIN m.objects, M!Reachable(m))
<1> DEFINE U == DOMAIN m.objects
           N == M!Cardinality(DOMAIN m.objects)
           A == M!Roots(m) \cap DOMAIN m.objects
           Step(x) == UNION {near \cup ((UNION {M!Range(m.objects[i].fields) : i \in near}) \cap DOMAIN m.objects) :
                               near \in {x}}
           Is(f, k) == f = [n \in 0 .. k |-> IF n = 0 THEN A ELSE Step(f[n - 1])]
<1>1. M!Reachable(m) = (CHOOSE f : Is(f, N))[N]
  BY DEF M!Reachable
<1>2. IsFiniteSet(U) /\ N \in Nat /\ Cardinality(U) <= N
  <2>1. N = Cardinality(U)
    BY SameNotions
  <2>2. Cardinality(U) \in Nat
    BY FS_CardinalityType
  <2> QED BY <2>1, <2>2
<1>3. A \in SUBSET U
  OBVIOUS
<1>4. E \in [U -> SUBSET U]
  OBVIOUS
<1>5. ASSUME NEW x \in SUBSET U PROVE Step(x) = Next1(E, x) /\ Step(x) \in SUBSET U
  <2>1. Step(x) = x \cup ((UNION {M!Range(m.objects[i].fields) : i \in x}) \cap U)
    OBVIOUS
  <2>2. (UNION {M!Range(m.objects[i].fields) : i \in x}) \cap U = UNION {E[i] : i \in x}
    <3>1. \A i \in x : E[i] = Range(m.objects[i].fields) \cap U
      OBVIOUS
    <3>2. \A S : M!Range(S) = Range(S)
      BY SameNotions
    <3> QED BY <3>1, <3>2
  <2> HIDE DEF Step
  <2> QED BY <2>1, <2>2 DEF Next1
<1> HIDE DEF N, A, Step
<1>6. \E f : Is(f, N)
  <2> DEFINE G == [x \in SUBSET U |-> Step(x)]
  <2>1. G \in [SUBSET U -> SUBSET U]
    BY <1>5
  <2>2. \A x \in SUBSET U : G[x] = Step(x)
    OBVIOUS
  <2> HIDE DEF G
  <2>3. PICK f \in [0 .. N -> SUBSET U] : f[0] = A /\ \A n \in 1 .. N : f[n] = G[f[n - 1]]
    <3>1. PICK X : X = SUBSET U
      OBVIOUS
    <3>2. G \in [X -> X] /\ A \in X /\ N \in Nat
      BY <2>1, <3>1, <1>2, <1>3
    <3>3. PICK f : Iterates(f, N, X, G, A)
      BY <3>2, Iterated
    <3> QED BY <3>1, <3>3 DEF Iterates
  <2>4. \A n \in 0 .. N : f[n] = IF n = 0 THEN A ELSE Step(f[n - 1])
    <3> TAKE n \in 0 .. N
    <3>1. CASE n = 0
      BY <3>1, <2>3
    <3>2. CASE n # 0
      <4>1. n \in 1 .. N /\ n - 1 \in 0 .. N
        BY <3>2, <1>2
      <4>2. f[n - 1] \in SUBSET U /\ f[n] = G[f[n - 1]]
        BY <2>3, <4>1
      <4>3. f[n] = Step(f[n - 1])
        BY <4>2, <2>2
      <4> QED BY <3>2, <4>3
    <3> QED BY <3>1, <3>2
  <2>5. f = [n \in 0 .. N |-> f[n]]
    BY <2>3
  <2>6. Is(f, N)
    BY <2>4, <2>5
  <2> QED BY <2>6
<1>7. PICK f : Is(f, N) /\ M!Reachable(m) = f[N]
  <2> HIDE DEF Is
  <2> QED BY <1>1, <1>6
<1>8. f[0] = A /\ \A n \in 0 .. N - 1 : f[n + 1] = Step(f[n])
  <2>1. \A n \in 0 .. N : f[n] = IF n = 0 THEN A ELSE Step(f[n - 1])
    BY <1>7
  <2> HIDE DEF Is
  <2>2. 0 \in 0 .. N
    BY <1>2
  <2>3. ASSUME NEW n \in 0 .. N - 1 PROVE f[n + 1] = Step(f[n])
    <3>1. PICK k : k = n + 1
      OBVIOUS
    <3>2. k \in 0 .. N /\ k # 0 /\ k - 1 = n
      BY <3>1, <1>2
    <3>3. f[k] = Step(f[k - 1])
      BY <2>1, <3>2
    <3> QED BY <3>1, <3>2, <3>3
  <2> QED BY <2>1, <2>2, <2>3
<1> HIDE DEF Is
<1>9. \A n \in 0 .. N - 1 : f[n] \subseteq U => f[n + 1] = Next1(E, f[n])
  BY <1>5, <1>8
<1>10. f[N] \subseteq U /\ Least(E, A, f[N])
  <2> HIDE DEF U
  <2> QED BY <1>2, <1>3, <1>4, <1>8, <1>9, Closed
<1> QED BY <1>7, <1>10 DEF A

(* The same in terms of pointers: K is what m can reach. *)
Reaches(O, R, K) ==
  /\ K \subseteq DOMAIN O
  /\ \A i \in DOMAIN O : i \in R => i \in K
  /\ \A i \in K : \A k \in DOMAIN O[i].fields : O[i].fields[k] \in DOMAIN O => O[i].fields[k] \in K
  /\ \A T : /\ \A i \in DOMAIN O : i \in R => i \in T
            /\ \A i \in T \cap DOMAIN O : \A k \in DOMAIN O[i].fields : O[i].fields[k] \in DOMAIN O => O[i].fields[k] \in T
            => K \subseteq T

(* Machine's Reachable is the least set of objects that has the roots and what
   its members' fields hold. *)
LEMMA ReachesIs ==
  ASSUME NEW m, IsFiniteSet(DOMAIN m.objects)
  PROVE  Reaches(m.objects, M!Roots(m), M!Reachable(m))
<1>1. PICK K, R, O : K = M!Reachable(m) /\ R = M!Roots(m) /\ O = m.objects
  OBVIOUS
<1>2. PICK E : E = [i \in DOMAIN O |-> Range(O[i].fields) \cap DOMAIN O]
  OBVIOUS
<1>3. K \subseteq DOMAIN O /\ Least(E, R \cap DOMAIN O, K)
  BY <1>1, <1>2, ReachableIs
<1>4. ASSUME NEW i \in DOMAIN O
      PROVE  /\ \A k \in DOMAIN O[i].fields : O[i].fields[k] \in DOMAIN O => O[i].fields[k] \in E[i]
             /\ \A x \in E[i] : x \in DOMAIN O /\ \E k \in DOMAIN O[i].fields : x = O[i].fields[k]
  <2>1. Range(O[i].fields) = {O[i].fields[k] : k \in DOMAIN O[i].fields}
    BY DEF Range
  <2>2. E[i] = Range(O[i].fields) \cap DOMAIN O
    BY <1>2
  <2> QED BY <2>1, <2>2
<1>5. \A i \in K : \A k \in DOMAIN O[i].fields : O[i].fields[k] \in DOMAIN O => O[i].fields[k] \in K
  BY <1>3, <1>4 DEF Least
<1>6. \A i \in DOMAIN O : i \in R => i \in K
  BY <1>3 DEF Least
<1>7. ASSUME NEW T, \A i \in DOMAIN O : i \in R => i \in T,
             \A i \in T \cap DOMAIN O : \A k \in DOMAIN O[i].fields : O[i].fields[k] \in DOMAIN O => O[i].fields[k] \in T
      PROVE  K \subseteq T
  <2>1. R \cap DOMAIN O \subseteq T
    BY <1>7
  <2>2. \A y \in T \cap K : E[y] \subseteq T
    <3> TAKE y \in T \cap K
    <3>1. y \in T \cap DOMAIN O
      BY <1>3
    <3> QED BY <3>1, <1>4, <1>7
  <2> QED BY <2>1, <2>2, <1>3 DEF Least
<1>8. Reaches(O, R, K)
  BY <1>3, <1>5, <1>6, <1>7, Zenon DEF Reaches
<1> QED BY <1>1, <1>8

------------------------------------------------------------------------------
(* No name of a table is another value of the model. *)
LEMMA IdsAre == Undefined \notin Ids /\ Zero \notin Ids /\ NoId \notin Ids
<1> SUFFICES ASSUME NEW j \in Ids PROVE j # Undefined /\ j # Zero
  BY DEF NoId
<1>1. PICK p \in Programs : j \in {<<i>> : i \in 1 .. p.blockSize}
  BY Zenon DEF Ids
<1>2. PICK i \in 1 .. p.blockSize : j = <<i>>
  BY <1>1
<1>3. i # 0
  BY <1>2, HeapAssumption
<1> QED BY <1>2, <1>3 DEF Undefined, Zero

(* What stands for a pointer is the identity at the place it points to. *)
LEMMA IdInIs ==
  ASSUME NEW h, NEW v \in Datum
  PROVE  /\ v \in Pointer => IdIn(h, v) = At(h, v).id
         /\ v \notin Pointer => IdIn(h, v) = v /\ v \in {Undefined, Zero}
         /\ IdIn(h, v) \in Ids => v \in Pointer
BY PointerIs, IdsAre DEF IdIn, Datum

(* What a scene holds: its registers, its external array, the call it is for. *)
LEMMA HeldIs ==
  ASSUME NEW sc, NEW v
  PROVE  v \in HeldBy(sc) <=> v \in Pointer /\ \E f \in 1 .. Len(sc.frames) : \E r \in Reg : v = sc.frames[f].regs[r]
BY DEF HeldBy

(* The identities that roots hold. *)
LEMMA RootsAre ==
  ASSUME NEW h, NEW g \in Pointer, NEW scs \in Scenes, NEW nat \in CallType, NEW O, NEW i \in Ids
  PROVE  i \in M!Roots(Record(O, IdIn(h, g), ScenesOf(h, scs), CallOf(h, nat)))
           <=> \E v : Root(g, scs, nat, v) /\ i = At(h, v).id
<1>1. PICK m : m = Record(O, IdIn(h, g), ScenesOf(h, scs), CallOf(h, nat))
  OBVIOUS
<1>2. m.global = IdIn(h, g) /\ m.scenes = ScenesOf(h, scs) /\ m.native = CallOf(h, nat)
  BY <1>1 DEF Record
<1>3. DOMAIN m.scenes = 1 .. Len(scs) /\ \A s \in 1 .. Len(scs) : m.scenes[s] = SceneOf(h, scs[s])
  BY <1>2 DEF ScenesOf
<1>4. \A s \in 1 .. Len(scs) :
        /\ m.scenes[s].frames = [f \in 1 .. Len(scs[s].frames) |-> FrameOf(h, scs[s].frames[f])]
        /\ m.scenes[s].caller = CallOf(h, scs[s].caller)
  <2> TAKE s \in 1 .. Len(scs)
  <2>1. m.scenes[s] = SceneOf(h, scs[s])
    BY <1>3
  <2>2. PICK x : x = CallOf(h, scs[s].caller)
    OBVIOUS
  <2>3. PICK y : y = [f \in 1 .. Len(scs[s].frames) |-> FrameOf(h, scs[s].frames[f])]
    OBVIOUS
  <2>4. m.scenes[s] = [frames |-> y, caller |-> x]
    BY <2>1, <2>2, <2>3 DEF SceneOf
  <2>5. m.scenes[s].frames = y /\ m.scenes[s].caller = x
    BY <2>4
  <2> QED BY <2>2, <2>3, <2>5
<1> DEFINE Frs == M!Frames(m)  Cls == M!Calls(m)
<1>5. \A x : x \in Frs <=> \E s \in 1 .. Len(scs) : \E f \in 1 .. Len(scs[s].frames) : x = FrameOf(h, scs[s].frames[f])
  <2> TAKE x
  <2>1. x \in Frs <=> \E s \in DOMAIN m.scenes : x \in M!Range(m.scenes[s].frames)
    BY DEF M!Frames
  <2>2. ASSUME NEW s \in 1 .. Len(scs)
        PROVE  x \in M!Range(m.scenes[s].frames) <=> \E f \in 1 .. Len(scs[s].frames) : x = FrameOf(h, scs[s].frames[f])
    <3>1. m.scenes[s].frames = [f \in 1 .. Len(scs[s].frames) |-> FrameOf(h, scs[s].frames[f])]
      BY <1>4
    <3> QED BY <3>1 DEF M!Range
  <2> HIDE DEF Frs
  <2> QED BY <2>1, <2>2, <1>3
<1>6. \A x : x \in Cls <=> \E c \in CallsOf(nat, scs) : x = CallOf(h, c)
  <2> TAKE x
  <2>1. x \in Cls <=> x = m.native \/ \E s \in DOMAIN m.scenes : x = m.scenes[s].caller
    BY DEF M!Calls
  <2> HIDE DEF Cls
  <2> QED BY <2>1, <1>2, <1>3, <1>4 DEF CallsOf
<1>7. i \in M!Roots(m) <=> i = m.global \/ (\E x \in Frs : i \in M!Range(x.regs)) \/ \E c \in Cls : i \in {c.array, c.callback}
  <2> HIDE DEF Frs, Cls
  <2>1. M!Roots(m) = {m.global} \cup (UNION {M!Range(f.regs) : f \in Frs}) \cup UNION {{c.array, c.callback} : c \in Cls}
    BY DEF M!Roots, Frs, Cls
  <2> QED BY <2>1
<1> HIDE DEF Frs, Cls
<1>8. (\E x \in Frs : i \in M!Range(x.regs))
        <=> \E s \in 1 .. Len(scs) : \E f \in 1 .. Len(scs[s].frames) : \E r \in Reg : i = IdIn(h, scs[s].frames[f].regs[r])
  <2>1. ASSUME NEW s \in 1 .. Len(scs), NEW f \in 1 .. Len(scs[s].frames)
        PROVE  i \in M!Range(FrameOf(h, scs[s].frames[f]).regs) <=> \E r \in Reg : i = IdIn(h, scs[s].frames[f].regs[r])
    <3>1. FrameOf(h, scs[s].frames[f]).regs = [r \in Reg |-> IdIn(h, scs[s].frames[f].regs[r])]
      BY DEF FrameOf, RegsOf
    <3> QED BY <3>1 DEF M!Range
  <2> QED BY <2>1, <1>5
<1>9. (\E c \in Cls : i \in {c.array, c.callback})
        <=> \E c \in CallsOf(nat, scs) : i \in {IdIn(h, c.array), IdIn(h, c.callback)}
  <2>1. \A c : CallOf(h, c).array = IdIn(h, c.array) /\ CallOf(h, c).callback = IdIn(h, c.callback)
    BY DEF CallOf
  <2> QED BY <2>1, <1>6
<1>10. \A s \in 1 .. Len(scs) : \A f \in 1 .. Len(scs[s].frames) : \A r \in Reg : scs[s].frames[f].regs[r] \in Datum
  <2> TAKE s \in 1 .. Len(scs)
  <2> TAKE f \in 1 .. Len(scs[s].frames)
  <2>1. scs[s].frames[f].regs \in [Reg -> Datum]
    BY SceneIs
  <2> QED BY <2>1
<1>11. \A c \in CallsOf(nat, scs) : c.array \in Datum /\ c.callback \in Datum
  <2>1. \A s \in 1 .. Len(scs) : scs[s].caller \in CallType
    BY SceneIs
  <2> QED BY <2>1 DEF CallsOf, CallType
<1>12. \A v \in Datum : i = IdIn(h, v) <=> v \in Pointer /\ i = At(h, v).id
  BY IdInIs
<1>13. g \in Datum
  BY DEF Datum
<1>14. \A s \in 1 .. Len(scs) : \A v : v \in HeldBy(scs[s]) <=> v \in Pointer /\
          \E f \in 1 .. Len(scs[s].frames) : \E r \in Reg : v = scs[s].frames[f].regs[r]
  BY HeldIs
<1>15. ASSUME i \in M!Roots(m) PROVE \E v : Root(g, scs, nat, v) /\ i = At(h, v).id
  <2>1. CASE i = m.global
    <3>1. g \in Pointer /\ i = At(h, g).id
      BY <2>1, <1>2, <1>12, <1>13
    <3> QED BY <3>1 DEF Root
  <2>2. CASE \E s \in 1 .. Len(scs) : \E f \in 1 .. Len(scs[s].frames) : \E r \in Reg : i = IdIn(h, scs[s].frames[f].regs[r])
    <3>1. PICK s \in 1 .. Len(scs) : \E f \in 1 .. Len(scs[s].frames) : \E r \in Reg : i = IdIn(h, scs[s].frames[f].regs[r])
      BY <2>2
    <3>2. PICK f \in 1 .. Len(scs[s].frames) : \E r \in Reg : i = IdIn(h, scs[s].frames[f].regs[r])
      BY <3>1
    <3>3. PICK r \in Reg : i = IdIn(h, scs[s].frames[f].regs[r])
      BY <3>2
    <3>4. PICK v : v = scs[s].frames[f].regs[r]
      OBVIOUS
    <3>5. v \in Pointer /\ i = At(h, v).id
      BY <3>3, <3>4, <1>10, <1>12
    <3>6. v \in HeldBy(scs[s])
      BY <3>4, <3>5, <1>14
    <3> QED BY <3>5, <3>6 DEF Root
  <2>3. CASE \E c \in CallsOf(nat, scs) : i \in {IdIn(h, c.array), IdIn(h, c.callback)}
    <3>1. PICK c \in CallsOf(nat, scs) : i \in {IdIn(h, c.array), IdIn(h, c.callback)}
      BY <2>3
    <3>2. PICK v \in {c.array, c.callback} : i = IdIn(h, v)
      BY <3>1
    <3>3. v \in Pointer /\ i = At(h, v).id
      BY <3>2, <1>11, <1>12
    <3> QED BY <3>2, <3>3 DEF Root
  <2> QED BY <1>7, <1>8, <1>9, <1>15, <2>1, <2>2, <2>3
<1>16. ASSUME NEW v, Root(g, scs, nat, v), i = At(h, v).id PROVE i \in M!Roots(m)
  <2>0. v \in Pointer /\ v \in Datum /\ i = IdIn(h, v)
    BY <1>12, <1>16 DEF Root, Datum
  <2>1. CASE v = g
    BY <2>0, <2>1, <1>2, <1>7
  <2>2. CASE \E s \in 1 .. Len(scs) : v \in HeldBy(scs[s])
    <3>0. PICK u \in 1 .. Len(scs) : v \in HeldBy(scs[u])
      BY <2>2
    <3>4. \E f \in 1 .. Len(scs[u].frames) : \E r \in Reg : v = scs[u].frames[f].regs[r]
      BY <3>0, HeldIs
    <3>1. \E t \in 1 .. Len(scs) : \E f \in 1 .. Len(scs[t].frames) : \E r \in Reg : v = scs[t].frames[f].regs[r]
      BY <3>4
    <3>2. \E s \in 1 .. Len(scs) : \E f \in 1 .. Len(scs[s].frames) : \E r \in Reg : i = IdIn(h, scs[s].frames[f].regs[r])
      BY <2>0, <3>1
    <3> QED BY <3>2, <1>7, <1>8
  <2>3. CASE \E c \in CallsOf(nat, scs) : v \in {c.array, c.callback}
    <3>1. \E c \in CallsOf(nat, scs) : i \in {IdIn(h, c.array), IdIn(h, c.callback)}
      BY <2>0, <2>3
    <3> QED BY <3>1, <1>7, <1>9
  <2> QED BY <1>16, <2>1, <2>2, <2>3 DEF Root
<1> QED BY <1>1, <1>15, <1>16

------------------------------------------------------------------------------
(* O has a picture of every table of W. *)
Pictures(h, W, O) ==
  \A p \in W : At(h, p).id \in DOMAIN O /\ O[At(h, p).id] = AbsOf(h, At(h, p))

(* No two of them have the same identity. *)
DistinctIn(h, W) == \A p, q \in W : At(h, p).id = At(h, q).id => p = q

(* What is at a place of a heap. *)
LEMMA InIs ==
  ASSUME NEW h \in Heaps, NEW p \in In(h)
  PROVE  At(h, p) \in Object
<1>1. p \in Pointer /\ p[1] \in {0, 1} /\ p[2] \in Nat \ {0} /\ p[2] <= Len(h[p[1]])
  BY PointerIs DEF In
<1>2. h[p[1]] \in Seq(Object)
  BY <1>1 DEF Heaps
<1>3. p[2] \in 1 .. Len(h[p[1]])
  BY <1>1, <1>2, LenProperties
<1> QED BY <1>2, <1>3, ElementOfSeq DEF At

(* The fields that stand for those of an object. *)
LEMMA AbsIs ==
  ASSUME NEW h, NEW o \in Object
  PROVE  /\ AbsOf(h, o).type = o.type /\ DOMAIN AbsOf(h, o).fields = DOMAIN o.fields
         /\ \A k \in DOMAIN o.fields : AbsOf(h, o).fields[k] = IdIn(h, o.fields[k])
         /\ AbsOf(h, o).fields = FieldsOf(h, o)
BY DEF AbsOf, FieldsOf

(* A machine whose tables, or more, are pictured in O is what remains of O. *)
LEMMA Pictured ==
  ASSUME NEW h, NEW g, NEW scs, NEW nat, NEW m, NEW D, NEW V, View(h, g, scs, nat, m, D, V),
         NEW O, IsFiniteSet(DOMAIN O), DOMAIN O \subseteq Ids,
         NEW W, Closing(h, g, scs, nat, D, W), Pictures(h, W, O)
  PROVE  /\ m = M!Collected(Record(O, IdIn(h, g), ScenesOf(h, scs), CallOf(h, nat)))
         /\ Pictures(h, V, m.objects)
<1>1. PICK x : x = Record(O, IdIn(h, g), ScenesOf(h, scs), CallOf(h, nat))
  OBVIOUS
<1>2. PICK K, R : K = M!Reachable(x) /\ R = M!Roots(x)
  OBVIOUS
<1>3. x.objects = O
  BY <1>1 DEF Record
<1>4. Reaches(O, R, K)
  BY <1>2, <1>3, ReachesIs
<1>5. \A i \in Ids : i \in R <=> \E v : Root(g, scs, nat, v) /\ i = At(h, v).id
  <2> TAKE i \in Ids
  <2>1. g \in Pointer /\ scs \in Scenes /\ nat \in CallType
    BY DEF View
  <2> QED BY <2>1, <1>1, <1>2, RootsAre
<1>6. V \subseteq W /\ V \subseteq Tables(h) /\ h \in Heaps /\ Closing(h, g, scs, nat, D, V) /\ Shows(h, V, m.objects)
  BY DEF View
<1>7. \A v : Root(g, scs, nat, v) => v \in In(h) /\ D[v] \in V /\ At(h, D[v]).id = At(h, v).id
  <2>1. \A v : Root(g, scs, nat, v) => v \in In(h) /\ D[v] \in V
    BY <1>6 DEF View, Own, Closing
  <2>2. Denotes(h, D)
    BY DEF View
  <2> QED BY <2>1, <2>2 DEF Denotes
<1>8. ASSUME NEW p \in V
      PROVE  /\ p \in In(h) /\ At(h, p) \in Object
             /\ \A v \in PtrsOf(At(h, p)) : v \in In(h) /\ D[v] \in V /\ At(h, D[v]).id = At(h, v).id
             /\ At(h, p).id \in DOMAIN O /\ At(h, p).id \in Ids /\ O[At(h, p).id] = AbsOf(h, At(h, p))
  <2>1. p \in In(h) /\ p \in W
    BY <1>6 DEF Tables
  <2>2. \A v \in PtrsOf(At(h, p)) : v \in In(h)
    BY <2>1 DEF View, Linked
  <2>3. \A v \in PtrsOf(At(h, p)) : D[v] \in V
    BY <2>1, <1>6 DEF Closing
  <2>4. Denotes(h, D)
    BY DEF View
  <2>5. At(h, p) \in Object
    BY <2>1, <1>6, InIs
  <2> QED BY <2>1, <2>2, <2>3, <2>4, <2>5 DEF Denotes, Pictures
<1>9. ASSUME NEW p \in V, NEW k \in DOMAIN At(h, p).fields, NEW v, v = At(h, p).fields[k]
      PROVE  /\ O[At(h, p).id].fields[k] = IdIn(h, v)
             /\ v \in Pointer => v \in PtrsOf(At(h, p)) /\ IdIn(h, v) = At(h, v).id
             /\ IdIn(h, v) \in Ids => v \in Pointer
  <2>1. v \in Datum
    BY <1>8, <1>9, ObjectIs
  <2>2. O[At(h, p).id].fields[k] = IdIn(h, v)
    BY <1>8, <1>9, AbsIs
  <2>3. v \in Pointer => v \in PtrsOf(At(h, p))
    BY <1>9 DEF PtrsOf
  <2> QED BY <2>1, <2>2, <2>3, IdInIs
<1>10. \A p \in V : At(h, p).id \in K
  <2>1. PICK T : T = {p \in V : At(h, p).id \in K}
    OBVIOUS
  <2>2. ASSUME NEW v, Root(g, scs, nat, v) PROVE D[v] \in T
    <3>1. D[v] \in V /\ At(h, D[v]).id = At(h, v).id
      BY <2>2, <1>7
    <3>2. At(h, D[v]).id \in R /\ At(h, D[v]).id \in DOMAIN O
      BY <3>1, <2>2, <1>5, <1>8
    <3>3. At(h, D[v]).id \in K
      BY <3>2, <1>4 DEF Reaches
    <3> QED BY <3>1, <3>3, <2>1
  <2>3. ASSUME NEW p \in T \cap In(h), NEW v \in PtrsOf(At(h, p)) PROVE D[v] \in T
    <3>1. p \in V /\ At(h, p).id \in K
      BY <2>1
    <3>2. PICK k \in DOMAIN At(h, p).fields : v = At(h, p).fields[k] /\ v \in Pointer
      BY DEF PtrsOf
    <3>3. D[v] \in V /\ At(h, D[v]).id = At(h, v).id
      BY <3>1, <1>8
    <3>4. O[At(h, p).id].fields[k] = At(h, D[v]).id
      BY <3>1, <3>2, <3>3, <1>9
    <3>5. At(h, D[v]).id \in DOMAIN O /\ k \in DOMAIN O[At(h, p).id].fields
      <4>1. O[At(h, p).id] = AbsOf(h, At(h, p)) /\ At(h, p) \in Object
        BY <3>1, <1>8
      <4>2. DOMAIN O[At(h, p).id].fields = DOMAIN At(h, p).fields
        BY <4>1, AbsIs
      <4> QED BY <4>2, <3>3, <1>8
    <3>6. At(h, D[v]).id \in K
      BY <3>1, <3>4, <3>5, <1>4 DEF Reaches
    <3> QED BY <3>3, <3>6, <2>1
  <2>4. V \subseteq T
    BY <2>2, <2>3 DEF View, Closing
  <2> QED BY <2>1, <2>4
<1>11. \A i \in K : i \in DOMAIN O /\ \E p \in V : At(h, p).id = i
  <2>1. PICK T : T = {At(h, p).id : p \in V}
    OBVIOUS
  <2>2. ASSUME NEW i \in DOMAIN O, i \in R PROVE i \in T
    <3>1. PICK v : Root(g, scs, nat, v) /\ i = At(h, v).id
      BY <2>2, <1>5
    <3> QED BY <3>1, <2>1, <1>7
  <2>3. ASSUME NEW i \in T \cap DOMAIN O, NEW k \in DOMAIN O[i].fields, O[i].fields[k] \in DOMAIN O
        PROVE  O[i].fields[k] \in T
    <3>1. PICK p \in V : At(h, p).id = i
      BY <2>1
    <3>2. O[i] = AbsOf(h, At(h, p)) /\ At(h, p) \in Object
      BY <3>1, <1>8
    <3>3. k \in DOMAIN At(h, p).fields
      BY <3>2, AbsIs
    <3>4. PICK v : v = At(h, p).fields[k]
      OBVIOUS
    <3>5. O[i].fields[k] = IdIn(h, v)
      BY <3>1, <3>3, <3>4, <1>9
    <3>6. v \in Pointer /\ v \in PtrsOf(At(h, p)) /\ IdIn(h, v) = At(h, v).id
      BY <3>3, <3>4, <3>5, <2>3, <1>9
    <3>7. D[v] \in V /\ At(h, D[v]).id = At(h, v).id
      BY <3>6, <1>8
    <3> QED BY <3>5, <3>6, <3>7, <2>1
  <2>4. K \subseteq T
    BY <2>2, <2>3, <1>4 DEF Reaches
  <2> QED BY <2>1, <2>4, <1>4 DEF Reaches
<1>12. /\ m.objects = [i \in DOMAIN m.objects |-> m.objects[i]]
       /\ \A p \in V : At(h, p).id \in DOMAIN m.objects
       /\ \A i \in DOMAIN m.objects : \E p \in V : At(h, p).id = i /\ m.objects[i] = AbsOf(h, At(h, p))
  BY <1>6 DEF Shows
<1>13. DOMAIN m.objects = K /\ \A i \in K : m.objects[i] = O[i]
  <2>1. DOMAIN m.objects = K
    BY <1>10, <1>11, <1>12
  <2> QED BY <2>1, <1>8, <1>12
<1>14. m.objects = [i \in K |-> O[i]]
  BY <1>12, <1>13
<1>15. Pictures(h, V, m.objects)
  BY <1>8, <1>12, <1>13 DEF Pictures
<1>16. M!Collected(x) = [x EXCEPT !.objects = [i \in K |-> O[i]]]
  BY <1>2, <1>3 DEF M!Collected
<1>17. PICK P : P = [i \in K |-> O[i]]
  OBVIOUS
<1>18. [x EXCEPT !.objects = P] = Record(P, IdIn(h, g), ScenesOf(h, scs), CallOf(h, nat))
  BY <1>1 DEF Record
<1>19. m = Record(m.objects, IdIn(h, g), ScenesOf(h, scs), CallOf(h, nat))
  BY DEF View
<1> QED BY <1>1, <1>14, <1>15, <1>16, <1>17, <1>18, <1>19

------------------------------------------------------------------------------
(* A pointer leads where the table leads that it used to lead to: headers stay headers. *)
LEMMA Onward ==
  ASSUME NEW h, Chains(h), NEW D, Denotes(h, D), NEW k, NEW E, Denotes(k, E),
         \A p \in In(h) : At(h, p).id # NoId =>
           p \in In(k) /\ (IsHeader(At(h, p)) => IsHeader(At(k, p)) /\ At(k, p).fwd = At(h, p).fwd)
  PROVE  \A y \in In(h) : At(h, y).id # NoId => E[y] = E[D[y]]
<1>1. PICK S : S = {y \in In(h) : At(h, y).id # NoId => E[y] = E[D[y]]}
  OBVIOUS
<1>2. \A p \in In(h) : ~IsHeader(At(h, p)) => p \in S
  BY <1>1 DEF Denotes
<1>3. ASSUME NEW p \in In(h), IsHeader(At(h, p)), At(h, p).fwd \in S PROVE p \in S
  <2>1. At(h, p).fwd \in In(h) /\ At(h, At(h, p).fwd).id = At(h, p).id /\ D[p] = D[At(h, p).fwd]
    BY <1>3 DEF Denotes
  <2>2. SUFFICES ASSUME At(h, p).id # NoId PROVE E[p] = E[D[p]]
    BY <1>1
  <2>3. p \in In(k) /\ IsHeader(At(k, p)) /\ At(k, p).fwd = At(h, p).fwd
    BY <1>3, <2>2
  <2>4. E[p] = E[At(h, p).fwd]
    BY <2>3 DEF Denotes
  <2>5. E[At(h, p).fwd] = E[D[At(h, p).fwd]]
    BY <1>1, <1>3, <2>1, <2>2
  <2> QED BY <2>1, <2>4, <2>5
<1>4. In(h) \subseteq S
  BY <1>2, <1>3, Zenon DEF Chains
<1> QED BY <1>1, <1>4

(* Where pointers lead to is determined. *)
LEMMA Unmoved ==
  ASSUME NEW h, Chains(h), NEW D, Denotes(h, D), NEW E, Denotes(h, E)
  PROVE  \A y \in In(h) : E[y] = D[y]
<1>1. PICK S : S = {y \in In(h) : E[y] = D[y]}
  OBVIOUS
<1>2. \A p \in In(h) : ~IsHeader(At(h, p)) => p \in S
  BY <1>1 DEF Denotes
<1>3. \A p \in In(h) : IsHeader(At(h, p)) /\ At(h, p).fwd \in S => p \in S
  BY <1>1 DEF Denotes
<1>4. In(h) \subseteq S
  BY <1>2, <1>3, Zenon DEF Chains
<1> QED BY <1>1, <1>4

(* The identities of a machine. *)
LEMMA ViewIds ==
  ASSUME NEW h, NEW g, NEW scs, NEW nat, NEW m, NEW D, NEW V, View(h, g, scs, nat, m, D, V)
  PROVE  IsFiniteSet(DOMAIN m.objects) /\ DOMAIN m.objects \subseteq Ids
         /\ m = Record(m.objects, IdIn(h, g), ScenesOf(h, scs), CallOf(h, nat))
         /\ m.global = IdIn(h, g) /\ m.scenes = ScenesOf(h, scs) /\ m.native = CallOf(h, nat)
<1>1. IsFiniteSet(V) /\ V \subseteq Tables(h) /\ h \in Heaps /\ Shows(h, V, m.objects)
      /\ m = Record(m.objects, IdIn(h, g), ScenesOf(h, scs), CallOf(h, nat))
  BY DEF View
<1>2. \A p \in V : At(h, p).id \in Ids
  <2> TAKE p \in V
  <2>1. p \in In(h) /\ At(h, p).id # NoId
    BY <1>1 DEF Tables
  <2>2. At(h, p) \in Object
    BY <2>1, <1>1, InIs
  <2> QED BY <2>1, <2>2, ObjectIs
<1>3. PICK T : T = {At(h, p).id : p \in V}
  OBVIOUS
<1>4. IsFiniteSet(T)
  <2>1. PICK e : e = [p \in V |-> At(h, p).id]
    OBVIOUS
  <2>2. e \in [V -> T] /\ \A i \in T : \E p \in V : e[p] = i
    BY <2>1, <1>3
  <2>3. e \in Surjection(V, T)
    BY <2>2 DEF Surjection
  <2> QED BY <2>3, <1>1, FS_Surjection
<1>5. DOMAIN m.objects \subseteq T
  BY <1>1, <1>3 DEF Shows
<1>6. IsFiniteSet(DOMAIN m.objects)
  BY <1>4, <1>5, FS_Subset
<1>7. DOMAIN m.objects \subseteq Ids
  BY <1>2, <1>3, <1>5
<1>8. PICK O, a, b, c : O = m.objects /\ a = IdIn(h, g) /\ b = ScenesOf(h, scs) /\ c = CallOf(h, nat)
  OBVIOUS
<1>9. m = Record(O, a, b, c)
  BY <1>1, <1>8
<1>10. m.global = a /\ m.scenes = b /\ m.native = c
  BY <1>9 DEF Record
<1> QED BY <1>1, <1>6, <1>7, <1>8, <1>10

(* A step of the machine. *)
LEMMA Stepped ==
  ASSUME NEW h, NEW g, NEW scs, NEW nat, NEW m, NEW D, NEW V, View(h, g, scs, nat, m, D, V),
         NEW k, NEW f, NEW t, NEW c, NEW n, NEW E, NEW U, View(k, f, t, c, n, E, U),
         IdIn(k, f) = IdIn(h, g),
         NEW O, IsFiniteSet(DOMAIN O), DOMAIN O \subseteq Ids,
         NEW W, Closing(k, f, t, c, E, W), Pictures(k, W, O)
  PROVE  M!Changed(m, n, ScenesOf(k, t), CallOf(k, c), O) /\ Pictures(k, U, n.objects)
<1>1. n = M!Collected(Record(O, IdIn(k, f), ScenesOf(k, t), CallOf(k, c))) /\ Pictures(k, U, n.objects)
  BY Pictured
<1>2. n.scenes = ScenesOf(k, t) /\ n.native = CallOf(k, c)
  BY ViewIds
<1>3. m = Record(m.objects, IdIn(h, g), ScenesOf(h, scs), CallOf(h, nat))
  BY ViewIds
<1>4. PICK a, b, d, i, o, e : /\ a = ScenesOf(h, scs) /\ b = CallOf(h, nat) /\ i = IdIn(h, g) /\ o = m.objects
                              /\ d = ScenesOf(k, t) /\ e = CallOf(k, c)
  OBVIOUS
<1>5. m = Record(o, i, a, b)
  BY <1>3, <1>4
<1>6. [m EXCEPT !.scenes = d, !.native = e, !.objects = O] = Record(O, i, d, e)
  <2>1. PICK q : q = [m EXCEPT !.scenes = d, !.native = e, !.objects = O]
    OBVIOUS
  <2>2. /\ q.objects = O /\ q.global = i /\ q.scenes = d /\ q.native = e
        /\ q = [j \in {"objects", "global", "scenes", "native"} |-> q[j]]
    BY <1>5, <2>1 DEF Record
  <2>3. q = [objects |-> O, global |-> i, scenes |-> d, native |-> e]
    BY <2>2
  <2> QED BY <2>1, <2>3 DEF Record
<1> QED BY <1>1, <1>2, <1>4, <1>6 DEF M!Changed

(* A step that the machine does not take. *)
LEMMA Standing ==
  ASSUME NEW h, NEW g, NEW scs, NEW nat, NEW m, NEW D, NEW V, View(h, g, scs, nat, m, D, V),
         NEW k, NEW f, NEW t, NEW c, NEW n, NEW E, NEW U, View(k, f, t, c, n, E, U),
         IdIn(k, f) = IdIn(h, g), ScenesOf(k, t) = ScenesOf(h, scs), CallOf(k, c) = CallOf(h, nat),
         Pictures(h, V, m.objects),
         NEW W, Closing(k, f, t, c, E, W), Pictures(k, W, m.objects)
  PROVE  n = m /\ Pictures(k, U, n.objects)
<1>1. IsFiniteSet(DOMAIN m.objects) /\ DOMAIN m.objects \subseteq Ids
  BY ViewIds
<1>2. n = M!Collected(Record(m.objects, IdIn(k, f), ScenesOf(k, t), CallOf(k, c))) /\ Pictures(k, U, n.objects)
  BY <1>1, Pictured
<1>3. Closing(h, g, scs, nat, D, V)
  BY DEF View
<1>4. m = M!Collected(Record(m.objects, IdIn(h, g), ScenesOf(h, scs), CallOf(h, nat)))
  BY <1>1, <1>3, Pictured
<1> QED BY <1>2, <1>4

(* The tables of V, wherever they are in k. *)
Carried(h, V, k, E) ==
  \A p \in V : /\ At(k, E[p]).id = At(h, p).id /\ AbsOf(k, At(k, E[p])) = AbsOf(h, At(h, p))
               /\ \A w \in PtrsOf(At(k, E[p])) : \E x \in V : E[w] = E[x]
Carrying(f, t, c, V, E) == \A v : Root(f, t, c, v) => \E p \in V : E[v] = E[p]

(* A view of the heap before a step is carried over to the heap after it: what
   was reached leads, through E, to what is reached now, with the same fields. *)
LEMMA CarriedOver ==
  ASSUME NEW h, NEW V, NEW O, Pictures(h, V, O), NEW k, NEW f, NEW t, NEW c, NEW E,
         Carried(h, V, k, E), Carrying(f, t, c, V, E)
  PROVE  \E W : Closing(k, f, t, c, E, W) /\ Pictures(k, W, O) /\ (\A q \in W : \E p \in V : q = E[p])
<1>0. PICK W : W = {E[p] : p \in V}
  OBVIOUS
<1>1. \A v : Root(f, t, c, v) => E[v] \in W
  BY <1>0 DEF Carrying
<1>2. ASSUME NEW q \in W PROVE /\ \A v \in PtrsOf(At(k, q)) : E[v] \in W
                               /\ At(k, q).id \in DOMAIN O /\ O[At(k, q).id] = AbsOf(k, At(k, q))
  <2>1. PICK p \in V : q = E[p]
    BY <1>0
  <2> QED BY <1>0, <2>1 DEF Carried, Pictures
<1>3. Closing(k, f, t, c, E, W) /\ Pictures(k, W, O)
  BY <1>1, <1>2 DEF Closing, Pictures
<1> QED BY <1>0, <1>3

------------------------------------------------------------------------------
(* The scenes of the machine, and of the heap, changed in the same way. *)
FramesOf(h, fs) == [f \in 1 .. Len(fs) |-> FrameOf(h, fs[f])]
TopFrames(scs, fs) == [scs EXCEPT ![1].frames = fs]
FirstRegs(fs, regs) == [fs EXCEPT ![1].regs = regs]
TopRegs(scs, regs) == TopFrames(scs, FirstRegs(scs[1].frames, regs))
OnTop(x, s) == <<x>> \o s

AbsFrames(h) == {FrameOf(h, f) : f \in FrameType}
AbsScenes(h) == {SceneOf(h, s) : s \in SceneType}

(* A function on the first numbers is a sequence. *)
LEMMA Listed ==
  ASSUME NEW n \in Nat, NEW T, NEW f, f = [i \in 1 .. n |-> f[i]], \A i \in 1 .. n : f[i] \in T
  PROVE  f \in Seq(T) /\ Len(f) = n
<1>1. f \in [1 .. n -> T]
  OBVIOUS
<1>2. f \in Seq(T)
  BY <1>1, SeqDef
<1>3. DOMAIN f = 1 .. n
  OBVIOUS
<1> QED BY <1>2, <1>3, LenProperties

(* The frames and the scenes of the machine are those of the code, one by one. *)
LEMMA FramesOfIs ==
  ASSUME NEW h, NEW fs \in Seq(FrameType)
  PROVE  /\ FramesOf(h, fs) \in Seq(AbsFrames(h)) /\ Len(FramesOf(h, fs)) = Len(fs) /\ Len(fs) \in Nat
         /\ \A f \in 1 .. Len(fs) : FramesOf(h, fs)[f] = FrameOf(h, fs[f]) /\ fs[f] \in FrameType
         /\ DOMAIN FramesOf(h, fs) = 1 .. Len(fs)
<1>1. Len(fs) \in Nat
  BY LenProperties
<1>2. \A f \in 1 .. Len(fs) : fs[f] \in FrameType
  BY ElementOfSeq
<1>3. PICK F : F = FramesOf(h, fs)
  OBVIOUS
<1>4. F = [f \in 1 .. Len(fs) |-> F[f]] /\ \A f \in 1 .. Len(fs) : F[f] = FrameOf(h, fs[f])
  BY <1>3 DEF FramesOf
<1>5. \A f \in 1 .. Len(fs) : F[f] \in AbsFrames(h)
  BY <1>2, <1>4 DEF AbsFrames
<1>6. F \in Seq(AbsFrames(h)) /\ Len(F) = Len(fs)
  BY <1>1, <1>4, <1>5, Listed
<1> QED BY <1>1, <1>2, <1>3, <1>4, <1>6

(* The same, of scenes. *)
LEMMA ScenesOfIs ==
  ASSUME NEW h, NEW scs \in Seq(SceneType)
  PROVE  /\ ScenesOf(h, scs) \in Seq(AbsScenes(h)) /\ Len(ScenesOf(h, scs)) = Len(scs) /\ Len(scs) \in Nat
         /\ \A s \in 1 .. Len(scs) : ScenesOf(h, scs)[s] = SceneOf(h, scs[s]) /\ scs[s] \in SceneType
         /\ DOMAIN ScenesOf(h, scs) = 1 .. Len(scs)
<1>1. Len(scs) \in Nat
  BY LenProperties
<1>2. \A s \in 1 .. Len(scs) : scs[s] \in SceneType
  BY ElementOfSeq
<1>3. PICK F : F = ScenesOf(h, scs)
  OBVIOUS
<1>4. F = [s \in 1 .. Len(scs) |-> F[s]] /\ \A s \in 1 .. Len(scs) : F[s] = SceneOf(h, scs[s])
  BY <1>3 DEF ScenesOf
<1>5. \A s \in 1 .. Len(scs) : F[s] \in AbsScenes(h)
  BY <1>2, <1>4 DEF AbsScenes
<1>6. F \in Seq(AbsScenes(h)) /\ Len(F) = Len(scs)
  BY <1>1, <1>4, <1>5, Listed
<1> QED BY <1>1, <1>2, <1>3, <1>4, <1>6

(* The parts of one scene. *)
LEMMA SceneOfIs ==
  ASSUME NEW h, NEW sc
  PROVE  SceneOf(h, sc) = [frames |-> FramesOf(h, sc.frames), caller |-> CallOf(h, sc.caller)]
         /\ SceneOf(h, sc).frames = FramesOf(h, sc.frames) /\ SceneOf(h, sc).caller = CallOf(h, sc.caller)
<1>1. PICK F, c : F = FramesOf(h, sc.frames) /\ c = CallOf(h, sc.caller)
  OBVIOUS
<1>2. SceneOf(h, sc) = [frames |-> F, caller |-> c]
  BY <1>1 DEF SceneOf, FramesOf
<1> QED BY <1>1, <1>2

(* The frames of the scene on top. *)
LEMMA TopFramesOf ==
  ASSUME NEW h, NEW scs \in Scenes, NEW fs \in Seq(FrameType) \ {<<>>}
  PROVE  /\ ScenesOf(h, TopFrames(scs, fs)) = TopFrames(ScenesOf(h, scs), FramesOf(h, fs))
         /\ TopFrames(scs, fs) \in Scenes /\ TopFrames(scs, fs)[1].frames = fs
         /\ Len(TopFrames(scs, fs)) = Len(scs)
<1>1. PICK sc : sc = [scs[1] EXCEPT !.frames = fs]
  OBVIOUS
<1>2. sc \in SceneType /\ sc.frames = fs /\ sc.caller = scs[1].caller
  BY <1>1, SceneIs DEF SceneType
<1>3. PICK t : t = TopFrames(scs, fs)
  OBVIOUS
<1>4. t = [scs EXCEPT ![1] = sc]
  BY <1>1, <1>3 DEF TopFrames
<1>5. Topped(scs, sc, t)
  BY <1>2, <1>4, FirstReplaced
<1>6. t \in Seq(SceneType) /\ Len(t) = Len(scs) /\ t[1] = sc /\ \A s \in 1 .. Len(scs) : s # 1 => t[s] = scs[s]
  BY <1>5, SceneIs DEF Topped
<1>7. scs \in Seq(SceneType) /\ 1 \in 1 .. Len(scs)
  BY SceneIs
<1>8. PICK S : S = ScenesOf(h, scs)
  OBVIOUS
<1>9. S = [s \in 1 .. Len(scs) |-> SceneOf(h, scs[s])]
  BY <1>8 DEF ScenesOf
<1>10. PICK F, c : F = FramesOf(h, fs) /\ c = CallOf(h, scs[1].caller)
  OBVIOUS
<1>11. SceneOf(h, sc) = [frames |-> F, caller |-> c]
  BY <1>2, <1>10, SceneOfIs
<1>12. PICK G : G = FramesOf(h, scs[1].frames)
  OBVIOUS
<1>13. S[1] = [frames |-> G, caller |-> c]
  <2>1. SceneOf(h, scs[1]) = [frames |-> G, caller |-> c]
    BY <1>10, <1>12, SceneOfIs
  <2> QED BY <2>1, <1>7, <1>9
<1>14. [S[1] EXCEPT !.frames = F] = [frames |-> F, caller |-> c]
  BY <1>13
<1>15. TopFrames(S, F) = [S EXCEPT ![1] = [frames |-> F, caller |-> c]]
  BY <1>14 DEF TopFrames
<1>16. [S EXCEPT ![1] = [frames |-> F, caller |-> c]] = ScenesOf(h, t)
  <2>1. ScenesOf(h, t) = [s \in 1 .. Len(scs) |-> SceneOf(h, t[s])]
    BY <1>6 DEF ScenesOf
  <2>2. \A s \in 1 .. Len(scs) : SceneOf(h, t[s]) = IF s = 1 THEN [frames |-> F, caller |-> c] ELSE S[s]
    <3> TAKE s \in 1 .. Len(scs)
    <3>1. CASE s = 1
      BY <3>1, <1>6, <1>11
    <3>2. CASE s # 1
      BY <3>2, <1>6, <1>9
    <3> QED BY <3>1, <3>2
  <2>3. PICK x : x = [frames |-> F, caller |-> c]
    OBVIOUS
  <2>4. [S EXCEPT ![1] = x] = [s \in 1 .. Len(scs) |-> IF s = 1 THEN x ELSE S[s]]
    BY <1>9
  <2>5. [s \in 1 .. Len(scs) |-> SceneOf(h, t[s])] = [s \in 1 .. Len(scs) |-> IF s = 1 THEN x ELSE S[s]]
    BY <2>2, <2>3
  <2> QED BY <2>1, <2>3, <2>4, <2>5
<1>17. t \in Scenes
  BY <1>5 DEF Topped
<1> QED BY <1>2, <1>3, <1>6, <1>8, <1>10, <1>15, <1>16, <1>17

(* The registers of the first frame. *)
FirstHas(fs, regs, t) ==
  /\ t \in Seq(FrameType) /\ t # <<>> /\ Len(t) = Len(fs)
  /\ \A f \in 1 .. Len(fs) : t[f].regs = (IF f = 1 THEN regs ELSE fs[f].regs) /\ t[f].rd = fs[f].rd

(* Registers of the first frame that are set are set in the machine. *)
LEMMA FirstRegsOf ==
  ASSUME NEW h, NEW fs \in Seq(FrameType) \ {<<>>}, NEW regs \in [Reg -> Datum]
  PROVE  /\ FramesOf(h, FirstRegs(fs, regs)) = FirstRegs(FramesOf(h, fs), RegsOf(h, regs))
         /\ FirstHas(fs, regs, FirstRegs(fs, regs))
<1>1. Len(fs) \in Nat \ {0} /\ 1 \in 1 .. Len(fs) /\ fs \in Seq(FrameType)
  BY EmptySeq, LenProperties
<1>2. fs[1] \in FrameType
  BY <1>1, ElementOfSeq
<1>3. PICK fr : fr = [fs[1] EXCEPT !.regs = regs]
  OBVIOUS
<1>4. fr \in FrameType /\ fr.regs = regs /\ fr.rd = fs[1].rd
  BY <1>2, <1>3 DEF FrameType
<1>5. PICK t : t = FirstRegs(fs, regs)
  OBVIOUS
<1>6. t = [fs EXCEPT ![1] = fr]
  BY <1>3, <1>5 DEF FirstRegs
<1>7. t \in Seq(FrameType) /\ Len(t) = Len(fs) /\ \A f \in 1 .. Len(fs) : t[f] = IF f = 1 THEN fr ELSE fs[f]
  BY <1>1, <1>4, <1>6, ExceptSeq
<1>8. t # <<>>
  BY <1>1, <1>7, EmptySeq
<1>9. \A f \in 1 .. Len(fs) : t[f].regs = (IF f = 1 THEN regs ELSE fs[f].regs) /\ t[f].rd = fs[f].rd
  BY <1>4, <1>7
<1>10. PICK F, R : F = FramesOf(h, fs) /\ R = RegsOf(h, regs)
  OBVIOUS
<1>11. F = [f \in 1 .. Len(fs) |-> FrameOf(h, fs[f])]
  BY <1>10 DEF FramesOf
<1>12. PICK x : x = [regs |-> R, rd |-> fs[1].rd]
  OBVIOUS
<1>13. FrameOf(h, fr) = x
  BY <1>4, <1>10, <1>12 DEF FrameOf
<1>14. [F[1] EXCEPT !.regs = R] = x
  <2>1. PICK Q, r : Q = RegsOf(h, fs[1].regs) /\ r = fs[1].rd
    OBVIOUS
  <2>2. F[1] = [regs |-> Q, rd |-> r]
    BY <2>1, <1>1, <1>11 DEF FrameOf
  <2> QED BY <2>1, <2>2, <1>12
<1>15. FirstRegs(F, R) = [F EXCEPT ![1] = x]
  BY <1>14 DEF FirstRegs
<1>16. [F EXCEPT ![1] = x] = [f \in 1 .. Len(fs) |-> IF f = 1 THEN x ELSE FrameOf(h, fs[f])]
  BY <1>11
<1>17. FramesOf(h, t) = [f \in 1 .. Len(fs) |-> FrameOf(h, t[f])]
  BY <1>7 DEF FramesOf
<1>18. \A f \in 1 .. Len(fs) : FrameOf(h, t[f]) = IF f = 1 THEN x ELSE FrameOf(h, fs[f])
  BY <1>7, <1>13
<1>19. FramesOf(h, t) = FirstRegs(F, R)
  <2>1. PICK A : A = [f \in 1 .. Len(fs) |-> IF f = 1 THEN x ELSE FrameOf(h, fs[f])]
    OBVIOUS
  <2>2. FramesOf(h, t) = A
    BY <2>1, <1>17, <1>18
  <2>3. FirstRegs(F, R) = A
    BY <2>1, <1>15, <1>16
  <2> QED BY <2>2, <2>3
<1> QED BY <1>5, <1>7, <1>8, <1>9, <1>10, <1>19 DEF FirstHas

(* The registers of the frame on top. *)
LEMMA TopRegsOf ==
  ASSUME NEW h, NEW scs \in Scenes, NEW regs \in [Reg -> Datum]
  PROVE  /\ ScenesOf(h, TopRegs(scs, regs)) = TopRegs(ScenesOf(h, scs), RegsOf(h, regs))
         /\ TopRegs(scs, regs) \in Scenes /\ TopRegs(scs, regs)[1].frames[1].regs = regs
<1>1. scs[1].frames \in Seq(FrameType) \ {<<>>} /\ 1 \in 1 .. Len(scs[1].frames)
      /\ scs \in Seq(SceneType) /\ 1 \in 1 .. Len(scs)
  <2>1. /\ scs[1].frames \in Seq(FrameType) /\ scs[1].frames # <<>> /\ Len(scs[1].frames) \in Nat \ {0}
        /\ scs \in Seq(SceneType) /\ 1 \in 1 .. Len(scs)
    BY SceneIs
  <2> QED BY <2>1
<1>2. PICK fs : fs = FirstRegs(scs[1].frames, regs)
  OBVIOUS
<1>3. /\ FramesOf(h, fs) = FirstRegs(FramesOf(h, scs[1].frames), RegsOf(h, regs))
      /\ fs \in Seq(FrameType) \ {<<>>} /\ fs[1].regs = regs
  <2>1. /\ FramesOf(h, fs) = FirstRegs(FramesOf(h, scs[1].frames), RegsOf(h, regs))
        /\ FirstHas(scs[1].frames, regs, fs)
    BY <1>1, <1>2, FirstRegsOf
  <2> QED BY <2>1, <1>1 DEF FirstHas
<1>4. /\ ScenesOf(h, TopFrames(scs, fs)) = TopFrames(ScenesOf(h, scs), FramesOf(h, fs))
      /\ TopFrames(scs, fs) \in Scenes /\ TopFrames(scs, fs)[1].frames = fs
  BY <1>3, TopFramesOf
<1>5. ScenesOf(h, scs)[1].frames = FramesOf(h, scs[1].frames)
  <2>1. ScenesOf(h, scs)[1] = SceneOf(h, scs[1])
    BY <1>1, ScenesOfIs
  <2> QED BY <2>1, SceneOfIs
<1> QED BY <1>2, <1>3, <1>4, <1>5 DEF TopRegs

(* One more, one less. *)
AddedTo(T, x, s, t) ==
  /\ t \in Seq(T) /\ t # <<>> /\ Len(t) = Len(s) + 1 /\ Len(s) \in Nat /\ t[1] = x
  /\ \A i \in 2 .. Len(s) + 1 : t[i] = s[i - 1]

(* What is put on top comes first, the rest follows. *)
LEMMA OnTopIs ==
  ASSUME NEW T, NEW x \in T, NEW s \in Seq(T)
  PROVE  AddedTo(T, x, s, OnTop(x, s))
<1>1. Len(s) \in Nat
  BY LenProperties
<1>2. <<x>> \in Seq(T) /\ Len(<<x>>) = 1 /\ <<x>>[1] = x
  OBVIOUS
<1>3. PICK t : t = <<x>> \o s
  OBVIOUS
<1>4. t \in Seq(T) /\ Len(t) = 1 + Len(s)
      /\ \A i \in 1 .. 1 + Len(s) : t[i] = IF i <= 1 THEN <<x>>[i] ELSE s[i - 1]
  BY <1>2, <1>3, ConcatProperties
<1>5. t[1] = x
  BY <1>1, <1>2, <1>4
<1>6. \A i \in 2 .. Len(s) + 1 : t[i] = s[i - 1]
  BY <1>1, <1>4
<1>7. t # <<>>
  BY <1>1, <1>4, EmptySeq
<1> QED BY <1>1, <1>3, <1>4, <1>5, <1>6, <1>7 DEF OnTop, AddedTo

(* Two sequences with the same elements are one. *)
LEMMA SameSeq ==
  ASSUME NEW T, NEW s \in Seq(T), NEW t \in Seq(T), Len(s) = Len(t), \A i \in 1 .. Len(s) : s[i] = t[i]
  PROVE  s = t
<1>1. s = [i \in 1 .. Len(s) |-> s[i]] /\ t = [i \in 1 .. Len(t) |-> t[i]]
  BY LenProperties
<1> QED BY <1>1

(* A frame or a scene that is put on top is put on top in the machine. *)
LEMMA FramesOnTop ==
  ASSUME NEW h, NEW f \in FrameType, NEW fs \in Seq(FrameType)
  PROVE  FramesOf(h, OnTop(f, fs)) = OnTop(FrameOf(h, f), FramesOf(h, fs))
<1>1. PICK t, F, x : t = OnTop(f, fs) /\ F = FramesOf(h, fs) /\ x = FrameOf(h, f)
  OBVIOUS
<1>2. t \in Seq(FrameType) /\ Len(t) = Len(fs) + 1 /\ Len(fs) \in Nat /\ t[1] = f
      /\ \A i \in 2 .. Len(fs) + 1 : t[i] = fs[i - 1]
  <2>1. AddedTo(FrameType, f, fs, t)
    BY <1>1, OnTopIs
  <2> QED BY <2>1 DEF AddedTo
<1>3. F \in Seq(AbsFrames(h)) /\ Len(F) = Len(fs) /\ \A i \in 1 .. Len(fs) : F[i] = FrameOf(h, fs[i])
  BY <1>1, FramesOfIs
<1>4. x \in AbsFrames(h)
  BY <1>1 DEF AbsFrames
<1>5. PICK G : G = FramesOf(h, t)
  OBVIOUS
<1>6. G \in Seq(AbsFrames(h)) /\ Len(G) = Len(t) /\ \A i \in 1 .. Len(t) : G[i] = FrameOf(h, t[i])
  BY <1>2, <1>5, FramesOfIs
<1>7. PICK H : H = OnTop(x, F)
  OBVIOUS
<1>8. H \in Seq(AbsFrames(h)) /\ Len(H) = Len(F) + 1 /\ H[1] = x /\ \A i \in 2 .. Len(F) + 1 : H[i] = F[i - 1]
  <2>1. AddedTo(AbsFrames(h), x, F, H)
    BY <1>3, <1>4, <1>7, OnTopIs
  <2> QED BY <2>1 DEF AddedTo
<1>9. \A i \in 1 .. Len(t) : G[i] = H[i]
  <2> TAKE i \in 1 .. Len(t)
  <2>1. CASE i = 1
    BY <2>1, <1>1, <1>2, <1>6, <1>8
  <2>2. CASE i # 1
    <3>1. i \in 2 .. Len(fs) + 1 /\ i - 1 \in 1 .. Len(fs)
      BY <2>2, <1>2
    <3> QED BY <3>1, <1>2, <1>3, <1>6, <1>8
  <2> QED BY <2>1, <2>2
<1>10. G = H
  BY <1>2, <1>3, <1>6, <1>8, <1>9, SameSeq
<1> QED BY <1>1, <1>5, <1>7, <1>10

(* The same, of scenes. *)
LEMMA ScenesOnTop ==
  ASSUME NEW h, NEW sc \in SceneType, NEW scs \in Seq(SceneType)
  PROVE  ScenesOf(h, OnTop(sc, scs)) = OnTop(SceneOf(h, sc), ScenesOf(h, scs))
<1>1. PICK t, F, x : t = OnTop(sc, scs) /\ F = ScenesOf(h, scs) /\ x = SceneOf(h, sc)
  OBVIOUS
<1>2. t \in Seq(SceneType) /\ Len(t) = Len(scs) + 1 /\ Len(scs) \in Nat /\ t[1] = sc
      /\ \A i \in 2 .. Len(scs) + 1 : t[i] = scs[i - 1]
  <2>1. AddedTo(SceneType, sc, scs, t)
    BY <1>1, OnTopIs
  <2> QED BY <2>1 DEF AddedTo
<1>3. F \in Seq(AbsScenes(h)) /\ Len(F) = Len(scs) /\ \A i \in 1 .. Len(scs) : F[i] = SceneOf(h, scs[i])
  BY <1>1, ScenesOfIs
<1>4. x \in AbsScenes(h)
  BY <1>1 DEF AbsScenes
<1>5. PICK G : G = ScenesOf(h, t)
  OBVIOUS
<1>6. G \in Seq(AbsScenes(h)) /\ Len(G) = Len(t) /\ \A i \in 1 .. Len(t) : G[i] = SceneOf(h, t[i])
  BY <1>2, <1>5, ScenesOfIs
<1>7. PICK H : H = OnTop(x, F)
  OBVIOUS
<1>8. H \in Seq(AbsScenes(h)) /\ Len(H) = Len(F) + 1 /\ H[1] = x /\ \A i \in 2 .. Len(F) + 1 : H[i] = F[i - 1]
  <2>1. AddedTo(AbsScenes(h), x, F, H)
    BY <1>3, <1>4, <1>7, OnTopIs
  <2> QED BY <2>1 DEF AddedTo
<1>9. \A i \in 1 .. Len(t) : G[i] = H[i]
  <2> TAKE i \in 1 .. Len(t)
  <2>1. CASE i = 1
    BY <2>1, <1>1, <1>2, <1>6, <1>8
  <2>2. CASE i # 1
    <3>1. i \in 2 .. Len(scs) + 1 /\ i - 1 \in 1 .. Len(scs)
      BY <2>2, <1>2
    <3> QED BY <3>1, <1>2, <1>3, <1>6, <1>8
  <2> QED BY <2>1, <2>2
<1>10. G = H
  BY <1>2, <1>3, <1>6, <1>8, <1>9, SameSeq
<1> QED BY <1>1, <1>5, <1>7, <1>10

(* What is left when the first element is taken away. *)
LEMMA TailIs ==
  ASSUME NEW T, NEW s \in Seq(T), Len(s) > 1
  PROVE  /\ Tail(s) \in Seq(T) /\ Tail(s) # <<>> /\ Len(Tail(s)) = Len(s) - 1 /\ Len(s) \in Nat
         /\ \A i \in 1 .. Len(s) - 1 : Tail(s)[i] = s[i + 1] /\ i + 1 \in 1 .. Len(s)
<1>1. Len(s) \in Nat /\ s # <<>>
  BY LenProperties, EmptySeq
<1>2. PICK t : t = Tail(s)
  OBVIOUS
<1>3. t \in Seq(T) /\ Len(t) = Len(s) - 1 /\ \A i \in 1 .. Len(t) : t[i] = s[i + 1]
  BY <1>1, <1>2, HeadTailProperties
<1>4. t # <<>>
  BY <1>1, <1>3, EmptySeq
<1>5. \A i \in 1 .. Len(s) - 1 : t[i] = s[i + 1] /\ i + 1 \in 1 .. Len(s)
  BY <1>1, <1>3
<1> QED BY <1>1, <1>2, <1>3, <1>4, <1>5

(* A frame or a scene that is left is left in the machine. *)
LEMMA FramesTail ==
  ASSUME NEW h, NEW fs \in Seq(FrameType), Len(fs) > 1
  PROVE  FramesOf(h, Tail(fs)) = Tail(FramesOf(h, fs))
<1>1. PICK t, F : t = Tail(fs) /\ F = FramesOf(h, fs)
  OBVIOUS
<1>2. t \in Seq(FrameType) /\ Len(t) = Len(fs) - 1 /\ Len(fs) \in Nat
      /\ \A i \in 1 .. Len(fs) - 1 : t[i] = fs[i + 1] /\ i + 1 \in 1 .. Len(fs)
  BY <1>1, TailIs
<1>3. F \in Seq(AbsFrames(h)) /\ Len(F) = Len(fs) /\ \A i \in 1 .. Len(fs) : F[i] = FrameOf(h, fs[i])
  BY <1>1, FramesOfIs
<1>4. PICK G : G = FramesOf(h, t)
  OBVIOUS
<1>5. G \in Seq(AbsFrames(h)) /\ Len(G) = Len(t) /\ \A i \in 1 .. Len(t) : G[i] = FrameOf(h, t[i])
  BY <1>2, <1>4, FramesOfIs
<1>6. PICK H : H = Tail(F)
  OBVIOUS
<1>7. H \in Seq(AbsFrames(h)) /\ Len(H) = Len(F) - 1 /\ \A i \in 1 .. Len(F) - 1 : H[i] = F[i + 1]
  BY <1>3, <1>6, TailIs
<1>8. \A i \in 1 .. Len(t) : G[i] = H[i]
  <2> TAKE i \in 1 .. Len(t)
  <2>1. i \in 1 .. Len(F) - 1 /\ t[i] = fs[i + 1] /\ i + 1 \in 1 .. Len(fs)
    BY <1>2, <1>3
  <2> QED BY <2>1, <1>3, <1>5, <1>7
<1>9. G = H
  BY <1>2, <1>3, <1>5, <1>7, <1>8, SameSeq
<1> QED BY <1>1, <1>4, <1>6, <1>9

(* The same, of scenes. *)
LEMMA ScenesTail ==
  ASSUME NEW h, NEW scs \in Seq(SceneType), Len(scs) > 1
  PROVE  ScenesOf(h, Tail(scs)) = Tail(ScenesOf(h, scs))
<1>1. PICK t, F : t = Tail(scs) /\ F = ScenesOf(h, scs)
  OBVIOUS
<1>2. t \in Seq(SceneType) /\ Len(t) = Len(scs) - 1 /\ Len(scs) \in Nat
      /\ \A i \in 1 .. Len(scs) - 1 : t[i] = scs[i + 1] /\ i + 1 \in 1 .. Len(scs)
  BY <1>1, TailIs
<1>3. F \in Seq(AbsScenes(h)) /\ Len(F) = Len(scs) /\ \A i \in 1 .. Len(scs) : F[i] = SceneOf(h, scs[i])
  BY <1>1, ScenesOfIs
<1>4. PICK G : G = ScenesOf(h, t)
  OBVIOUS
<1>5. G \in Seq(AbsScenes(h)) /\ Len(G) = Len(t) /\ \A i \in 1 .. Len(t) : G[i] = SceneOf(h, t[i])
  BY <1>2, <1>4, ScenesOfIs
<1>6. PICK H : H = Tail(F)
  OBVIOUS
<1>7. H \in Seq(AbsScenes(h)) /\ Len(H) = Len(F) - 1 /\ \A i \in 1 .. Len(F) - 1 : H[i] = F[i + 1]
  BY <1>3, <1>6, TailIs
<1>8. \A i \in 1 .. Len(t) : G[i] = H[i]
  <2> TAKE i \in 1 .. Len(t)
  <2>1. i \in 1 .. Len(F) - 1 /\ t[i] = scs[i + 1] /\ i + 1 \in 1 .. Len(scs)
    BY <1>2, <1>3
  <2> QED BY <2>1, <1>3, <1>5, <1>7
<1>9. G = H
  BY <1>2, <1>3, <1>5, <1>7, <1>8, SameSeq
<1> QED BY <1>1, <1>4, <1>6, <1>9

------------------------------------------------------------------------------
(* y is in k what x is in h. *)
Follows(h, k, D, E, x, y) ==
  IF x \in Pointer THEN y \in Pointer /\ At(k, y).id = At(h, x).id /\ E[y] = E[D[x]] ELSE y = x
FollowsCall(h, k, D, E, x, y) ==
  /\ y.fn = x.fn /\ y.rd = x.rd /\ y.done = x.done
  /\ Follows(h, k, D, E, x.array, y.array) /\ Follows(h, k, D, E, x.callback, y.callback)
FollowsScene(h, k, D, E, x, y) ==
  /\ FollowsCall(h, k, D, E, x.caller, y.caller) /\ Len(y.frames) = Len(x.frames)
  /\ \A f \in 1 .. Len(x.frames) : /\ y.frames[f].rd = x.frames[f].rd
                                   /\ \A r \in Reg : Follows(h, k, D, E, x.frames[f].regs[r], y.frames[f].regs[r])
FollowsScenes(h, k, D, E, scs, t) ==
  Len(t) = Len(scs) /\ \A s \in 1 .. Len(scs) : FollowsScene(h, k, D, E, scs[s], t[s])
FollowsFields(h, k, D, E, o, u) ==
  /\ u.type = o.type /\ u.id = o.id /\ DOMAIN u.fields = DOMAIN o.fields
  /\ \A i \in DOMAIN o.fields : Follows(h, k, D, E, o.fields[i], u.fields[i])

(* A value that follows another stands for the same value of the machine. *)
LEMMA IdFollows ==
  ASSUME NEW h, NEW k, NEW D, NEW E, NEW x \in Datum, NEW y, Follows(h, k, D, E, x, y)
  PROVE  IdIn(k, y) = IdIn(h, x) /\ y \in Datum
<1>1. CASE x \in Pointer
  BY <1>1, IdInIs DEF Follows, Datum
<1>2. CASE x \notin Pointer
  <2>1. IdIn(h, x) = x /\ IdIn(k, x) = x
    BY <1>2, IdInIs
  <2> QED BY <1>2, <2>1 DEF Follows
<1> QED BY <1>1, <1>2

(* A call that follows another is the same call of the machine. *)
LEMMA CallFollows ==
  ASSUME NEW h, NEW k, NEW D, NEW E, NEW x \in CallType, NEW y, FollowsCall(h, k, D, E, x, y)
  PROVE  CallOf(k, y) = CallOf(h, x)
<1>1. x.array \in Datum /\ x.callback \in Datum
  BY DEF CallType
<1>2. IdIn(k, y.array) = IdIn(h, x.array) /\ IdIn(k, y.callback) = IdIn(h, x.callback)
  BY <1>1, IdFollows DEF FollowsCall
<1>3. y.fn = x.fn /\ y.rd = x.rd /\ y.done = x.done
  BY DEF FollowsCall
<1> QED BY <1>2, <1>3 DEF CallOf

(* Scenes whose values follow are the same scenes of the machine. *)
LEMMA ScenesFollow ==
  ASSUME NEW h, NEW k, NEW D, NEW E, NEW scs \in Scenes, NEW t, FollowsScenes(h, k, D, E, scs, t)
  PROVE  ScenesOf(k, t) = ScenesOf(h, scs)
<1>1. ASSUME NEW s \in 1 .. Len(scs) PROVE SceneOf(k, t[s]) = SceneOf(h, scs[s])
  <2>1. FollowsScene(h, k, D, E, scs[s], t[s])
    BY DEF FollowsScenes
  <2>2. scs[s].caller \in CallType /\ \A f \in 1 .. Len(scs[s].frames) : scs[s].frames[f].regs \in [Reg -> Datum]
    BY SceneIs
  <2>3. CallOf(k, t[s].caller) = CallOf(h, scs[s].caller)
    BY <2>1, <2>2, CallFollows DEF FollowsScene
  <2>4. ASSUME NEW f \in 1 .. Len(scs[s].frames) PROVE FrameOf(k, t[s].frames[f]) = FrameOf(h, scs[s].frames[f])
    <3>1. t[s].frames[f].rd = scs[s].frames[f].rd
          /\ \A r \in Reg : Follows(h, k, D, E, scs[s].frames[f].regs[r], t[s].frames[f].regs[r])
      BY <2>1 DEF FollowsScene
    <3>2. \A r \in Reg : IdIn(k, t[s].frames[f].regs[r]) = IdIn(h, scs[s].frames[f].regs[r])
      <4> TAKE r \in Reg
      <4>1. scs[s].frames[f].regs[r] \in Datum
        BY <2>2
      <4> QED BY <4>1, <3>1, IdFollows
    <3>3. RegsOf(k, t[s].frames[f].regs) = RegsOf(h, scs[s].frames[f].regs)
      BY <3>2 DEF RegsOf
    <3> QED BY <3>1, <3>3 DEF FrameOf
  <2>5. FramesOf(k, t[s].frames) = FramesOf(h, scs[s].frames)
    <3>1. Len(t[s].frames) = Len(scs[s].frames)
      BY <2>1 DEF FollowsScene
    <3> QED BY <3>1, <2>4 DEF FramesOf
  <2> QED BY <2>3, <2>5, SceneOfIs
<1>2. Len(t) = Len(scs)
  BY DEF FollowsScenes
<1> QED BY <1>1, <1>2 DEF ScenesOf

(* The roots that follow roots. *)
LEMMA RootFollows ==
  ASSUME NEW h, NEW k, NEW D, NEW E, NEW g \in Pointer, NEW f, NEW scs \in Scenes, NEW t \in Scenes, NEW nat \in CallType, NEW c,
         Follows(h, k, D, E, g, f), FollowsScenes(h, k, D, E, scs, t), FollowsCall(h, k, D, E, nat, c),
         NEW v, Root(f, t, c, v)
  PROVE  \E x : Root(g, scs, nat, x) /\ E[v] = E[D[x]]
<1>1. CASE v = f
  BY <1>1 DEF Follows, Root
<1>2. ASSUME NEW s \in 1 .. Len(t), v \in HeldBy(t[s]) PROVE \E x : Root(g, scs, nat, x) /\ E[v] = E[D[x]]
  <2>1. s \in 1 .. Len(scs) /\ FollowsScene(h, k, D, E, scs[s], t[s])
    BY DEF FollowsScenes
  <2>2. PICK i \in 1 .. Len(t[s].frames) : \E r \in Reg : v = t[s].frames[i].regs[r]
    BY <1>2, HeldIs
  <2>3. PICK r \in Reg : v = t[s].frames[i].regs[r]
    BY <2>2
  <2>4. PICK x : x = scs[s].frames[i].regs[r]
    OBVIOUS
  <2>5. i \in 1 .. Len(scs[s].frames) /\ Follows(h, k, D, E, x, v)
    BY <2>1, <2>3, <2>4 DEF FollowsScene
  <2>6. v \in Pointer
    BY DEF Root
  <2>7. x \in Pointer /\ E[v] = E[D[x]]
    BY <2>5, <2>6 DEF Follows
  <2>8. x \in HeldBy(scs[s])
    BY <2>4, <2>5, <2>7, HeldIs
  <2> QED BY <2>1, <2>7, <2>8 DEF Root
<1>3. ASSUME NEW y \in CallsOf(c, t), v \in {y.array, y.callback} PROVE \E x : Root(g, scs, nat, x) /\ E[v] = E[D[x]]
  <2>1. \E z \in CallsOf(nat, scs) : FollowsCall(h, k, D, E, z, y)
    <3>1. CASE y = c
      BY <3>1 DEF CallsOf
    <3>2. ASSUME NEW s \in 1 .. Len(t), y = t[s].caller PROVE \E z \in CallsOf(nat, scs) : FollowsCall(h, k, D, E, z, y)
      <4>1. s \in 1 .. Len(scs) /\ FollowsCall(h, k, D, E, scs[s].caller, y)
        BY <3>2 DEF FollowsScenes, FollowsScene
      <4> QED BY <4>1 DEF CallsOf
    <3> QED BY <1>3, <3>1, <3>2 DEF CallsOf
  <2>2. PICK z \in CallsOf(nat, scs) : FollowsCall(h, k, D, E, z, y)
    BY <2>1
  <2>3. PICK x \in {z.array, z.callback} : Follows(h, k, D, E, x, v)
    BY <1>3, <2>2 DEF FollowsCall
  <2>4. v \in Pointer
    BY DEF Root
  <2>5. x \in Pointer /\ E[v] = E[D[x]]
    BY <2>3, <2>4 DEF Follows
  <2> QED BY <2>3, <2>5 DEF Root
<1> QED BY <1>1, <1>2, <1>3 DEF Root

(* Whatever moves, is forwarded or grows: the machine stands. *)
LEMMA Moving ==
  ASSUME NEW h, NEW g, NEW scs, NEW nat, NEW m, NEW D, NEW V, View(h, g, scs, nat, m, D, V),
         NEW k, NEW f, NEW t, NEW c, NEW n, NEW E, NEW U, View(k, f, t, c, n, E, U),
         Pictures(h, V, m.objects),
         Follows(h, k, D, E, g, f), FollowsScenes(h, k, D, E, scs, t), FollowsCall(h, k, D, E, nat, c),
         \A p \in V : FollowsFields(h, k, D, E, At(h, p), At(k, E[p]))
  PROVE  n = m /\ Pictures(k, U, n.objects) /\ (DistinctIn(h, V) => DistinctIn(k, U))
<1>1. h \in Heaps /\ g \in Pointer /\ scs \in Scenes /\ nat \in CallType /\ t \in Scenes /\ V \subseteq Tables(h)
  BY DEF View
<1>2. IdIn(k, f) = IdIn(h, g) /\ ScenesOf(k, t) = ScenesOf(h, scs) /\ CallOf(k, c) = CallOf(h, nat)
  <2>1. g \in Datum
    BY <1>1 DEF Datum
  <2> QED BY <2>1, <1>1, IdFollows, ScenesFollow, CallFollows
<1>3. \A x : Root(g, scs, nat, x) => D[x] \in V
  BY DEF View, Closing
<1>4. \A v : Root(f, t, c, v) => \E p \in V : E[v] = E[p]
  <2> TAKE v
  <2> HAVE Root(f, t, c, v)
  <2>1. PICK x : Root(g, scs, nat, x) /\ E[v] = E[D[x]]
    BY <1>1, RootFollows
  <2> QED BY <2>1, <1>3
<1>5. ASSUME NEW p \in V
      PROVE  /\ At(k, E[p]).id = At(h, p).id /\ AbsOf(k, At(k, E[p])) = AbsOf(h, At(h, p))
             /\ \A w \in PtrsOf(At(k, E[p])) : \E x \in V : E[w] = E[x]
  <2>1. PICK o, u : o = At(h, p) /\ u = At(k, E[p])
    OBVIOUS
  <2>2. FollowsFields(h, k, D, E, o, u)
    BY <2>1
  <2>3. p \in In(h) /\ o \in Object
    BY <2>1, <1>1, InIs DEF Tables
  <2>4. \A i \in DOMAIN o.fields : o.fields[i] \in Datum
    BY <2>3, ObjectIs
  <2>5. \A i \in DOMAIN o.fields : IdIn(k, u.fields[i]) = IdIn(h, o.fields[i])
    BY <2>2, <2>4, IdFollows DEF FollowsFields
  <2>6. FieldsOf(k, u) = FieldsOf(h, o)
    BY <2>2, <2>5 DEF FieldsOf, FollowsFields
  <2>7. AbsOf(k, u) = AbsOf(h, o) /\ u.id = o.id
    BY <2>2, <2>6 DEF AbsOf, FollowsFields
  <2>8. ASSUME NEW w \in PtrsOf(u) PROVE \E x \in V : E[w] = E[x]
    <3>1. PICK i \in DOMAIN u.fields : w = u.fields[i] /\ w \in Pointer
      BY DEF PtrsOf
    <3>2. i \in DOMAIN o.fields /\ Follows(h, k, D, E, o.fields[i], w)
      BY <3>1, <2>2 DEF FollowsFields
    <3>3. PICK x : x = o.fields[i]
      OBVIOUS
    <3>4. x \in Pointer /\ E[w] = E[D[x]]
      BY <3>1, <3>2, <3>3 DEF Follows
    <3>5. x \in PtrsOf(At(h, p))
      BY <3>2, <3>3, <3>4, <2>1 DEF PtrsOf
    <3>6. D[x] \in V
      BY <3>5, <2>3 DEF View, Closing
    <3> QED BY <3>4, <3>6
  <2> QED BY <2>1, <2>7, <2>8
<1>6. Carried(h, V, k, E)
  BY <1>5 DEF Carried
<1>7. Carrying(f, t, c, V, E)
  BY <1>4 DEF Carrying
<1>8. PICK O : O = m.objects
  OBVIOUS
<1>9. Pictures(h, V, O)
  BY <1>8
<1>10. \E W : Closing(k, f, t, c, E, W) /\ Pictures(k, W, O) /\ (\A q \in W : \E p \in V : q = E[p])
  BY <1>6, <1>7, <1>9, CarriedOver
<1>11. PICK W : Closing(k, f, t, c, E, W) /\ Pictures(k, W, m.objects) /\ (\A q \in W : \E p \in V : q = E[p])
  BY <1>8, <1>10
<1>12. n = m /\ Pictures(k, U, n.objects)
  BY <1>2, <1>11, Standing
<1>13. ASSUME DistinctIn(h, V), NEW x \in U, NEW y \in U, At(k, x).id = At(k, y).id PROVE x = y
  <2>1. U \subseteq W
    BY <1>11 DEF View
  <2>2. PICK p \in V, q \in V : x = E[p] /\ y = E[q]
    BY <2>1, <1>11
  <2>3. p = q
    BY <2>2, <1>5, <1>13 DEF DistinctIn
  <2> QED BY <2>2, <2>3
<1> QED BY <1>12, <1>13 DEF DistinctIn


------------------------------------------------------------------------------
(* During a collection.  A cell is what holds a value: the global, an        *)
(* external array of a scene, a register, a field of an object.              *)
IsCell(h, scs, c) ==
  \/ c = <<"global">>
  \/ \E s \in 1 .. Len(scs) : c = <<"external", s>>
  \/ \E s \in 1 .. Len(scs) : \E f \in 1 .. Len(scs[s].frames) : \E r \in Reg : c = <<"reg", s, f, r>>
  \/ \E p \in In(h) : \E k \in DOMAIN At(h, p).fields : c = <<"field", p, k>>
Val(h, g, scs, c) ==
  CASE c[1] = "global" -> g
    [] c[1] = "external" -> scs[c[2]].external
    [] c[1] = "reg" -> scs[c[2]].frames[c[3]].regs[c[4]]
    [] c[1] = "field" -> At(h, c[2]).fields[c[3]]
InCopy(cur, c) == c[1] = "field" => c[2][1] = 1 - cur

(* Where an object is, or will be found. *)
Fwd(h, v) == IF At(h, v).type = "left" THEN At(h, v).fwd ELSE v

HeadersIn(cur, h) ==
  \A p \in In(h) :
    /\ At(h, p).type = "redirect" => p[1] = cur /\ Forwards(h, p)
    /\ At(h, p).type = "left" =>
         /\ p[1] = cur /\ At(h, p).cap = 0
         /\ At(h, p).fwd \in In(h) /\ At(h, p).fwd[1] = 1 - cur
         /\ At(h, At(h, p).fwd).id = At(h, p).id
    /\ At(h, p).type \in {"object", "closure"} => At(h, p).fwd = Undefined
Room(cur, h, u) ==
  /\ u \in [{0, 1} -> Nat]
  /\ \A b \in {0, 1} : IsFiniteSet(Units(h[b]))
  /\ Cardinality(Units(h[1 - cur])) <= u[1 - cur]
  /\ Cardinality(Units(h[cur])) + u[1 - cur] <= u[cur]
Forwarding(cur, h) ==
  /\ \A p \in In(h), q \in In(h) :
       At(h, p).type = "left" /\ At(h, q).type = "left" /\ p # q => At(h, p).fwd # At(h, q).fwd
  /\ \A q \in In(h) : q[1] = 1 - cur => \E p \in In(h) : At(h, p).type = "left" /\ At(h, p).fwd = q

(* What a cell of each kind may point to. *)
Fit(h, c, v) ==
  /\ v \in In(h)
  /\ c[1] # "reg" => At(h, v).type # "redirect"
  /\ c[1] \in {"global", "reg"} => At(h, v).id # NoId
  /\ c[1] = "external" => At(h, v).id = NoId
  /\ c[1] = "field" /\ At(h, c[2]).id # NoId => At(h, v).id # NoId
Values(h, g, scs) ==
  \A c : IsCell(h, scs, c) /\ Val(h, g, scs, c) \in Pointer => Fit(h, c, Val(h, g, scs, c))

(* c holds the only pointer to its table that cells of these kinds hold.     *)
Sole(h, g, scs, c, kinds) ==
  \A d : /\ IsCell(h, scs, d) /\ d # c /\ d[1] \in kinds /\ Val(h, g, scs, d) \in Pointer
         => Fwd(h, Val(h, g, scs, d)) # Fwd(h, Val(h, g, scs, c))
Apart(h, g, scs) ==
  \A c : IsCell(h, scs, c) /\ c[1] = "external" => Sole(h, g, scs, c, {"external", "field"})
Plain(h, g, scs, c) ==
  Val(h, g, scs, c) \in Pointer => At(h, Val(h, g, scs, c)).type # "redirect"
Asked(h, g, scs, pnd) ==
  /\ pnd.op \in {"new", "grow", "import"} /\ pnd.args = Undefined /\ pnd.type # "none"
  /\ pnd.op \in {"new", "import"} => pnd.cap = 1
  /\ pnd.op = "new" => \A r \in DOMAIN pnd.captured : Plain(h, g, scs, <<"reg", 1, 1, pnd.captured[r]>>)
  /\ pnd.op = "grow" =>
       LET c == <<"reg", 1, 1, pnd.reg>> IN
       Val(h, g, scs, c) \in Pointer /\ Plain(h, g, scs, c) /\ Sole(h, g, scs, c, {"global", "field"})

(* The cells in T are yet to be marked. *)
ToMark(cur, h, g, scs, T) ==
  /\ \A c \in T : IsCell(h, scs, c) /\ InCopy(cur, c)
  /\ \A c : /\ IsCell(h, scs, c) /\ InCopy(cur, c)
            /\ Val(h, g, scs, c) \in Pointer /\ Val(h, g, scs, c)[1] = cur
            => c \in T
(* What was copied, but for the objects in X, a root or an earlier copy points to. *)
Reached(cur, h, g, scs, X) ==
  \A q \in In(h) : q[1] = 1 - cur /\ q \notin X =>
    \E c : /\ IsCell(h, scs, c) /\ InCopy(cur, c) /\ Val(h, g, scs, c) = q
           /\ c[1] = "field" => c[2][2] < q[2]

Copying(cur, h, u, g, scs, pnd, T) ==
  /\ h \in Heaps /\ cur \in {0, 1} /\ g \in Pointer /\ scs \in Scenes /\ pnd \in RequestType
  /\ HeadersIn(cur, h) /\ Room(cur, h, u) /\ Forwarding(cur, h)
  /\ Values(h, g, scs) /\ Apart(h, g, scs) /\ Asked(h, g, scs, pnd) /\ ToMark(cur, h, g, scs, T)

NoForeach(nat, scs) ==
  \A c \in {nat} \cup {scs[s].caller : s \in 1 .. Len(scs)} :
    c.fn # "foreach" /\ c.array = Undefined /\ c.callback = Undefined
Busy ==
  /\ Copying(current, heap, used, global, scenes, pending, Range(todo))
  /\ Reached(current, heap, global, scenes, {})
  /\ NoForeach(native, scenes)
  /\ used[current] <= BlockSize /\ Len(heap[current]) <= BlockSize

------------------------------------------------------------------------------
(* The object at a place of a heap. *)
LEMMA AtIs ==
  ASSUME NEW h \in Heaps, NEW p \in In(h)
  PROVE  /\ At(h, p) \in Object
         /\ p \in Pointer /\ p = <<p[1], p[2]>> /\ p[1] \in {0, 1} /\ p[2] \in 1 .. Len(h[p[1]])
         /\ h[p[1]] \in Seq(Object) /\ Len(h[p[1]]) \in Nat
<1>1. p \in Pointer /\ p = <<p[1], p[2]>> /\ p[1] \in {0, 1} /\ p[2] \in Nat \ {0} /\ p[2] <= Len(h[p[1]])
  BY PointerIs DEF In
<1>2. h[p[1]] \in Seq(Object) /\ Len(h[p[1]]) \in Nat
  BY <1>1, LenProperties DEF Heaps
<1>3. p[2] \in 1 .. Len(h[p[1]])
  BY <1>1, <1>2
<1> QED BY <1>1, <1>2, <1>3, ElementOfSeq DEF At

(* The parts of a cell. *)
LEMMA CellIs ==
  ASSUME NEW h, NEW scs, NEW c, IsCell(h, scs, c)
  PROVE  /\ c[1] \in {"global", "external", "reg", "field"}
         /\ c[1] = "global" => c = <<"global">>
         /\ c[1] = "external" => c = <<"external", c[2]>> /\ c[2] \in 1 .. Len(scs)
         /\ c[1] = "reg" => /\ c = <<"reg", c[2], c[3], c[4]>> /\ c[2] \in 1 .. Len(scs)
                            /\ c[3] \in 1 .. Len(scs[c[2]].frames) /\ c[4] \in Reg
         /\ c[1] = "field" => c = <<"field", c[2], c[3]>> /\ c[2] \in In(h) /\ c[3] \in DOMAIN At(h, c[2]).fields
<1>1. CASE c = <<"global">>
  BY <1>1
<1>2. CASE \E s \in 1 .. Len(scs) : c = <<"external", s>>
  BY <1>2
<1>3. CASE \E s \in 1 .. Len(scs) : \E f \in 1 .. Len(scs[s].frames) : \E r \in Reg : c = <<"reg", s, f, r>>
  <2>1. PICK s \in 1 .. Len(scs) : \E f \in 1 .. Len(scs[s].frames) : \E r \in Reg : c = <<"reg", s, f, r>>
    BY <1>3
  <2>2. PICK f \in 1 .. Len(scs[s].frames) : \E r \in Reg : c = <<"reg", s, f, r>>
    BY <2>1
  <2>3. PICK r \in Reg : c = <<"reg", s, f, r>>
    BY <2>2
  <2>4. c[1] = "reg" /\ c[2] = s /\ c[3] = f /\ c[4] = r
    BY <2>3
  <2> QED BY <2>3, <2>4
<1>4. CASE \E p \in In(h) : \E k \in DOMAIN At(h, p).fields : c = <<"field", p, k>>
  BY <1>4
<1> QED BY <1>1, <1>2, <1>3, <1>4 DEF IsCell

(* What a cell of each kind holds. *)
LEMMA ValIs ==
  ASSUME NEW h, NEW g, NEW scs
  PROVE  /\ Val(h, g, scs, <<"global">>) = g
         /\ \A s : Val(h, g, scs, <<"external", s>>) = scs[s].external
         /\ \A s, f, r : Val(h, g, scs, <<"reg", s, f, r>>) = scs[s].frames[f].regs[r]
         /\ \A p, k : Val(h, g, scs, <<"field", p, k>>) = At(h, p).fields[k]
BY DEF Val

(* The value of a cell of each kind. *)
LEMMA ValOf ==
  ASSUME NEW h, NEW g, NEW scs, NEW c
  PROVE  /\ c[1] = "global" => Val(h, g, scs, c) = g
         /\ c[1] = "external" => Val(h, g, scs, c) = scs[c[2]].external
         /\ c[1] = "reg" => Val(h, g, scs, c) = scs[c[2]].frames[c[3]].regs[c[4]]
         /\ c[1] = "field" => Val(h, g, scs, c) = At(h, c[2]).fields[c[3]]
BY DEF Val

(* Every cell holds a value. *)
LEMMA ValTyped ==
  ASSUME NEW h \in Heaps, NEW g \in Pointer, NEW scs \in Scenes, NEW c, IsCell(h, scs, c)
  PROVE  /\ Val(h, g, scs, c) \in Datum
         /\ c[1] \in {"global", "external"} => Val(h, g, scs, c) \in Pointer
<1>1. CASE c[1] = "global"
  <2>1. Val(h, g, scs, c) = g
    BY <1>1, ValOf
  <2> QED BY <2>1 DEF Datum
<1>2. CASE c[1] = "external"
  <2>1. scs[c[2]].external \in Pointer
    BY <1>2, CellIs, SceneIs
  <2> QED BY <1>2, <2>1, ValOf DEF Datum
<1>3. CASE c[1] = "reg"
  <2>1. c[2] \in 1 .. Len(scs) /\ c[3] \in 1 .. Len(scs[c[2]].frames) /\ c[4] \in Reg
    BY <1>3, CellIs
  <2>2. scs[c[2]].frames[c[3]].regs \in [Reg -> Datum]
    BY <2>1, SceneIs
  <2>3. Val(h, g, scs, c) = scs[c[2]].frames[c[3]].regs[c[4]]
    BY <1>3, ValOf
  <2>4. scs[c[2]].frames[c[3]].regs[c[4]] \in Datum
    BY <2>1, <2>2
  <2> QED BY <1>3, <2>3, <2>4
<1>4. CASE c[1] = "field"
  <2>1. c[2] \in In(h) /\ c[3] \in DOMAIN At(h, c[2]).fields
    BY <1>4, CellIs
  <2>2. At(h, c[2]) \in Object
    BY <2>1, AtIs
  <2>3. At(h, c[2]).fields[c[3]] \in Datum
    BY <2>1, <2>2, ObjectIs
  <2> QED BY <1>4, <2>3, ValOf
<1> QED BY <1>1, <1>2, <1>3, <1>4, CellIs
------------------------------------------------------------------------------
(* A cell is written.  The headers stay, and so does every other cell.       *)
SameHeaders(h, k) ==
  /\ k \in Heaps /\ In(k) = In(h) /\ \A b \in {0, 1} : Len(k[b]) = Len(h[b])
  /\ \A p \in In(h) : /\ At(k, p).type = At(h, p).type /\ At(k, p).cap = At(h, p).cap
                      /\ At(k, p).fwd = At(h, p).fwd /\ At(k, p).id = At(h, p).id
Written(h, g, scs, k, g2, scs2, c, v) ==
  /\ SameHeaders(h, k) /\ g2 \in Pointer /\ scs2 \in Scenes
  /\ \A d : IsCell(k, scs2, d) <=> IsCell(h, scs, d)
  /\ \A d : IsCell(h, scs, d) => Val(k, g2, scs2, d) = IF d = c THEN v ELSE Val(h, g, scs, d)

(* A change of fields takes no unit. *)
LEMMA UnitsSame ==
  ASSUME NEW h \in Heaps, NEW k, SameHeaders(h, k), NEW b \in {0, 1}
  PROVE  Units(k[b]) = Units(h[b])
<1>1. Len(k[b]) = Len(h[b]) /\ Len(h[b]) \in Nat
  BY LenProperties DEF SameHeaders, Heaps
<1>2. ASSUME NEW i \in 1 .. Len(h[b]) PROVE k[b][i].type = h[b][i].type /\ k[b][i].cap = h[b][i].cap
  <2>1. <<b, i>> \in In(h)
    BY <1>1 DEF In, Pointer
  <2>2. At(k, <<b, i>>) = k[b][i] /\ At(h, <<b, i>>) = h[b][i]
    BY DEF At
  <2> QED BY <2>1, <2>2 DEF SameHeaders
<1> QED BY <1>1, <1>2 DEF Units

(* Headers that are the same mean the same. *)
LEMMA HeadersSame ==
  ASSUME NEW h \in Heaps, NEW k, NEW cur \in {0, 1}, NEW u, SameHeaders(h, k),
         HeadersIn(cur, h), Room(cur, h, u), Forwarding(cur, h)
  PROVE  /\ HeadersIn(cur, k) /\ Room(cur, k, u) /\ Forwarding(cur, k)
         /\ \A v \in In(h) : Fwd(k, v) = Fwd(h, v)
<1>1. HeadersIn(cur, k)
  <2> SUFFICES ASSUME NEW p \in In(h)
               PROVE  /\ At(k, p).type = "redirect" => p[1] = cur /\ Forwards(k, p)
                      /\ At(k, p).type = "left" =>
                           /\ p[1] = cur /\ At(k, p).cap = 0
                           /\ At(k, p).fwd \in In(k) /\ At(k, p).fwd[1] = 1 - cur
                           /\ At(k, At(k, p).fwd).id = At(k, p).id
                      /\ At(k, p).type \in {"object", "closure"} => At(k, p).fwd = Undefined
    BY DEF HeadersIn, SameHeaders
  <2>1. /\ At(h, p).type = "redirect" => p[1] = cur /\ Forwards(h, p)
        /\ At(h, p).type = "left" =>
             /\ p[1] = cur /\ At(h, p).cap = 0
             /\ At(h, p).fwd \in In(h) /\ At(h, p).fwd[1] = 1 - cur
             /\ At(h, At(h, p).fwd).id = At(h, p).id
        /\ At(h, p).type \in {"object", "closure"} => At(h, p).fwd = Undefined
    BY DEF HeadersIn
  <2> QED BY <2>1 DEF SameHeaders, Forwards
<1>2. Room(cur, k, u)
  <2>1. Units(k[cur]) = Units(h[cur]) /\ Units(k[1 - cur]) = Units(h[1 - cur])
        /\ \A b \in {0, 1} : Units(k[b]) = Units(h[b])
    BY UnitsSame
  <2> QED BY <2>1 DEF Room
<1>3. Forwarding(cur, k)
  BY DEF Forwarding, SameHeaders
<1>4. \A v \in In(h) : Fwd(k, v) = Fwd(h, v)
  BY DEF Fwd, SameHeaders
<1> QED BY <1>1, <1>2, <1>3, <1>4

(* Nothing in the block that is filled is a header. *)
LEMMA CopyIs ==
  ASSUME NEW h \in Heaps, NEW cur \in {0, 1}, HeadersIn(cur, h), NEW v \in In(h)
  PROVE  /\ v[1] = 1 - cur => At(h, v).type \in {"object", "closure"} /\ Fwd(h, v) = v
         /\ Fwd(h, v) \in In(h) /\ At(h, Fwd(h, v)).id = At(h, v).id
         /\ v[1] = cur \/ v[1] = 1 - cur
<1>1. At(h, v).type \in {"object", "closure", "redirect", "left"} /\ v[1] \in {0, 1}
  BY AtIs, ObjectIs
<1>2. /\ At(h, v).type = "redirect" => v[1] = cur
      /\ At(h, v).type = "left" => /\ v[1] = cur /\ At(h, v).fwd \in In(h) /\ At(h, v).fwd[1] = 1 - cur
                                   /\ At(h, At(h, v).fwd).id = At(h, v).id
  BY DEF HeadersIn
<1> QED BY <1>1, <1>2 DEF Fwd

(* A cell is given the copy of its table. *)
LEMMA CopyingWritten ==
  ASSUME NEW cur, NEW h, NEW u, NEW g, NEW scs, NEW pnd, NEW T, Copying(cur, h, u, g, scs, pnd, T),
         NEW c, IsCell(h, scs, c), InCopy(cur, c), NEW w, w = Val(h, g, scs, c), w \in Pointer,
         NEW v, v \in In(h), v[1] = 1 - cur, At(h, v).id = At(h, w).id,
         At(h, w).type # "redirect" => v = Fwd(h, w),
         NEW k, NEW g2, NEW scs2, Written(h, g, scs, k, g2, scs2, c, v),
         NEW T2, T2 \subseteq T, T \subseteq T2 \cup {c}
  PROVE  Copying(cur, k, u, g2, scs2, pnd, T2)
<1>1. /\ h \in Heaps /\ cur \in {0, 1} /\ g \in Pointer /\ scs \in Scenes /\ pnd \in RequestType
      /\ HeadersIn(cur, h) /\ Room(cur, h, u) /\ Forwarding(cur, h)
      /\ Values(h, g, scs) /\ Apart(h, g, scs) /\ Asked(h, g, scs, pnd) /\ ToMark(cur, h, g, scs, T)
  BY DEF Copying
<1>2. /\ SameHeaders(h, k) /\ k \in Heaps /\ In(k) = In(h) /\ g2 \in Pointer /\ scs2 \in Scenes
      /\ \A p \in In(h) : At(k, p).type = At(h, p).type /\ At(k, p).id = At(h, p).id
  BY DEF Written, SameHeaders
<1>3. /\ HeadersIn(cur, k) /\ Room(cur, k, u) /\ Forwarding(cur, k)
      /\ \A x \in In(h) : Fwd(k, x) = Fwd(h, x)
  BY <1>1, <1>2, HeadersSame
<1>4. /\ At(h, v).type \in {"object", "closure"} /\ Fwd(h, v) = v /\ v \in Pointer /\ v[1] # cur
  BY <1>1, CopyIs DEF In
<1> DEFINE V(d) == Val(h, g, scs, d)  V2(d) == Val(k, g2, scs2, d)
<1>5. /\ \A d : IsCell(k, scs2, d) <=> IsCell(h, scs, d)
      /\ \A d : IsCell(h, scs, d) => V2(d) = IF d = c THEN v ELSE V(d)
      /\ V(c) = w /\ \A d : IsCell(h, scs, d) /\ V(d) \in Pointer => Fit(h, d, V(d))
  BY <1>1 DEF Written, Values
<1>6. \A d : /\ V2(d) = Val(k, g2, scs2, d) /\ V(d) = Val(h, g, scs, d)
  OBVIOUS
<1> HIDE DEF V, V2
<1>7. \A d : IsCell(h, scs, d) => /\ V2(d) \in Pointer <=> V(d) \in Pointer
                                  /\ V(d) \in Pointer => V2(d) \in In(h) /\ V(d) \in In(h)
  BY <1>4, <1>5 DEF Fit
<1>8. ASSUME NEW d, IsCell(h, scs, d), V(d) \in Pointer PROVE Fit(k, d, V2(d))
  <2>1. Fit(h, d, V(d)) /\ V2(d) = IF d = c THEN v ELSE V(d)
    BY <1>5, <1>8
  <2>2. d[1] = "field" => d[2] \in In(h)
    BY <1>8, CellIs
  <2>3. CASE d = c
    BY <2>1, <2>2, <2>3, <1>2, <1>4, <1>5 DEF Fit
  <2>4. CASE d # c
    BY <2>1, <2>2, <2>4, <1>2 DEF Fit
  <2> QED BY <2>3, <2>4
<1>9. Values(k, g2, scs2)
  BY <1>5, <1>6, <1>7, <1>8 DEF Values
<1>10. ASSUME NEW d, IsCell(h, scs, d), V(d) \in Pointer, At(h, V(d)).type # "redirect"
       PROVE  Fwd(k, V2(d)) = Fwd(h, V(d)) /\ At(k, V2(d)).type # "redirect"
  <2>1. CASE d = c
    BY <2>1, <1>2, <1>3, <1>4, <1>5, <1>10
  <2>2. CASE d # c
    BY <2>2, <1>2, <1>3, <1>5, <1>7, <1>10
  <2> QED BY <2>1, <2>2
<1>11. ASSUME NEW d, IsCell(h, scs, d), V(d) \in Pointer, d[1] # "reg"
       PROVE  At(h, V(d)).type # "redirect"
  BY <1>5, <1>11 DEF Fit
<1>12. ASSUME NEW e, IsCell(h, scs, e), V(e) \in Pointer, At(h, V(e)).type # "redirect",
              NEW kinds, "reg" \notin kinds, Sole(h, g, scs, e, kinds)
       PROVE  Sole(k, g2, scs2, e, kinds)
  <2> SUFFICES ASSUME NEW d, IsCell(h, scs, d), d # e, d[1] \in kinds, V2(d) \in Pointer
               PROVE  Fwd(k, V2(d)) # Fwd(k, V2(e))
    BY <1>5, <1>6 DEF Sole
  <2>1. V(d) \in Pointer /\ d[1] # "reg"
    BY <1>7, <1>12
  <2>2. Fwd(h, V(d)) # Fwd(h, V(e))
    BY <1>6, <1>12, <2>1 DEF Sole
  <2> QED BY <2>1, <2>2, <1>10, <1>11, <1>12
<1>13. Apart(k, g2, scs2)
  <2> SUFFICES ASSUME NEW e, IsCell(h, scs, e), e[1] = "external" PROVE Sole(k, g2, scs2, e, {"external", "field"})
    BY <1>5 DEF Apart
  <2>1. V(e) \in Pointer
    BY <1>1, <1>6, ValTyped
  <2>2. Sole(h, g, scs, e, {"external", "field"}) /\ At(h, V(e)).type # "redirect"
    BY <1>1, <1>11, <2>1 DEF Apart
  <2> QED BY <2>1, <2>2, <1>12
<1>14. ASSUME NEW d, IsCell(h, scs, d), Plain(h, g, scs, d) PROVE Plain(k, g2, scs2, d)
  BY <1>6, <1>7, <1>10, <1>14 DEF Plain
<1>15. \A r \in Reg : IsCell(h, scs, <<"reg", 1, 1, r>>)
  <2>1. 1 \in 1 .. Len(scs) /\ 1 \in 1 .. Len(scs[1].frames)
    BY <1>1, SceneIs
  <2> QED BY <2>1 DEF IsCell
<1>16. Asked(k, g2, scs2, pnd)
  <2>1. pnd.op = "new" => \A r \in DOMAIN pnd.captured : Plain(k, g2, scs2, <<"reg", 1, 1, pnd.captured[r]>>)
    <3>1. \A r \in DOMAIN pnd.captured : pnd.captured[r] \in Reg
      BY <1>1 DEF RequestType
    <3> QED BY <3>1, <1>1, <1>14, <1>15 DEF Asked
  <2>2. ASSUME pnd.op = "grow", NEW e, e = <<"reg", 1, 1, pnd.reg>>
        PROVE  V2(e) \in Pointer /\ Plain(k, g2, scs2, e) /\ Sole(k, g2, scs2, e, {"global", "field"})
    <3>1. IsCell(h, scs, e)
      BY <1>1, <1>15, <2>2 DEF RequestType
    <3>2. V(e) \in Pointer /\ Plain(h, g, scs, e) /\ Sole(h, g, scs, e, {"global", "field"})
      BY <1>1, <1>6, <2>2 DEF Asked
    <3>3. At(h, V(e)).type # "redirect"
      BY <3>2, <1>6 DEF Plain
    <3>4. Sole(k, g2, scs2, e, {"global", "field"})
      BY <3>1, <3>2, <3>3, <1>12
    <3> QED BY <3>1, <3>2, <3>4, <1>7, <1>14
  <2> QED BY <2>1, <2>2, <1>1, <1>6 DEF Asked
<1>17. ToMark(cur, k, g2, scs2, T2)
  <2>1. /\ \A d \in T : IsCell(h, scs, d) /\ InCopy(cur, d)
        /\ \A d : IsCell(h, scs, d) /\ InCopy(cur, d) /\ V(d) \in Pointer /\ V(d)[1] = cur => d \in T
    BY <1>1, <1>6 DEF ToMark
  <2>2. ASSUME NEW d, IsCell(k, scs2, d), InCopy(cur, d), V2(d) \in Pointer, V2(d)[1] = cur PROVE d \in T2
    BY <2>1, <2>2, <1>4, <1>5
  <2> QED BY <2>1, <2>2, <1>5, <1>6 DEF ToMark
<1> QED BY <1>1, <1>2, <1>3, <1>9, <1>13, <1>16, <1>17 DEF Copying
(* What was reached stays so when a cell that pointed to a copy still does.  *)
LEMMA ReachedWritten ==
  ASSUME NEW cur \in {0, 1}, NEW h, NEW g, NEW scs, NEW X, Reached(cur, h, g, scs, X),
         NEW c, IsCell(h, scs, c), InCopy(cur, c), NEW w, w = Val(h, g, scs, c),
         NEW v, w[1] = 1 - cur => v = w, X \subseteq {v}, v \in X /\ c[1] = "field" => c[2][2] < v[2],
         NEW k, NEW g2, NEW scs2, Written(h, g, scs, k, g2, scs2, c, v)
  PROVE  Reached(cur, k, g2, scs2, {})
<1>1. /\ In(k) = In(h) /\ \A d : IsCell(k, scs2, d) <=> IsCell(h, scs, d)
      /\ \A d : IsCell(h, scs, d) => Val(k, g2, scs2, d) = IF d = c THEN v ELSE Val(h, g, scs, d)
  BY DEF Written, SameHeaders
<1> SUFFICES ASSUME NEW q \in In(h), q[1] = 1 - cur
             PROVE  \E d : /\ IsCell(h, scs, d) /\ InCopy(cur, d) /\ Val(k, g2, scs2, d) = q
                           /\ d[1] = "field" => d[2][2] < q[2]
  BY <1>1 DEF Reached
<1>2. CASE q \in X
  BY <1>1, <1>2
<1>3. CASE q \notin X
  <2>1. PICK d : /\ IsCell(h, scs, d) /\ InCopy(cur, d) /\ Val(h, g, scs, d) = q
                 /\ d[1] = "field" => d[2][2] < q[2]
    BY <1>3 DEF Reached
  <2>2. Val(k, g2, scs2, d) = q
    BY <2>1, <1>1
  <2> QED BY <2>1, <2>2
<1> QED BY <1>2, <1>3

------------------------------------------------------------------------------
(* An object is copied.                                                      *)
CopyOf(o, cap, copy) ==
  /\ copy \in Object /\ copy.type = o.type /\ copy.cap = cap
  /\ copy.fields = o.fields /\ copy.fwd = o.fwd /\ copy.id = o.id
LeftBy(o, q, header) ==
  /\ header \in Object /\ header.type = "left" /\ header.cap = 0
  /\ header.fields = o.fields /\ header.fwd = q /\ header.id = o.id
Copied(cur, h, k, p, q, cap) ==
  /\ k \in Heaps /\ q \in Pointer /\ q[1] = 1 - cur /\ q[2] = Len(h[1 - cur]) + 1
  /\ In(k) = In(h) \cup {q} /\ q \notin In(h) /\ Len(k[cur]) = Len(h[cur])
  /\ CopyOf(At(h, p), cap, At(k, q)) /\ LeftBy(At(h, p), q, At(k, p))
  /\ \A x \in In(h) : x # p => At(k, x) = At(h, x)

(* A header left behind frees what the object took. *)
LEMMA LeftRoom ==
  ASSUME NEW cur \in {0, 1}, NEW h \in Heaps, NEW u, Room(cur, h, u), NEW p \in In(h), p[1] = cur,
         NEW cap \in Nat, cap <= At(h, p).cap,
         NEW l \in Heaps, p \in In(l), At(l, p).type # "left", At(l, p).cap = At(h, p).cap,
         \A c \in {0, 1} : IsFiniteSet(Units(l[c])), Units(l[cur]) = Units(h[cur]),
         Cardinality(Units(l[1 - cur])) = Cardinality(Units(h[1 - cur])) + cap + 1,
         NEW header \in Object, header.type = "left",
         NEW u2, u2 \in [{0, 1} -> Nat], u2[cur] = u[cur], u2[1 - cur] = u[1 - cur] + 1 + cap
  PROVE  Room(cur, Store(l, p, header), u2)
<1> DEFINE k == Store(l, p, header)
<1>1. 1 - cur \in {0, 1} /\ 1 - cur # cur
  OBVIOUS
<1>2. /\ \A c \in {0, 1} : IsFiniteSet(Units(k[c]))
      /\ Cardinality(Units(k[cur])) + At(h, p).cap + 1 = Cardinality(Units(l[cur]))
      /\ Units(k[1 - cur]) = Units(l[1 - cur])
  BY <1>1, UnitsStore
<1> HIDE DEF k
<1>3. u \in [{0, 1} -> Nat]
  BY DEF Room
<1> DEFINE x == Cardinality(Units(h[cur]))  y == Cardinality(Units(k[cur]))
           z == Cardinality(Units(h[1 - cur]))  n == At(h, p).cap
<1>4. y + n + 1 = x /\ Cardinality(Units(k[1 - cur])) = z + cap + 1
  BY <1>2
<1>5. /\ x \in Nat /\ y \in Nat /\ z \in Nat /\ n \in Nat
      /\ z <= u[1 - cur] /\ x + u[1 - cur] <= u[cur] /\ cap <= n
  <2>1. x \in Nat /\ y \in Nat /\ z \in Nat
    BY <1>1, <1>2, FS_CardinalityType DEF Room
  <2>2. n \in Nat
    BY AtIs DEF Object
  <2> QED BY <2>1, <2>2 DEF Room
<1>6. Cardinality(Units(k[1 - cur])) <= u2[1 - cur] /\ y + u2[1 - cur] <= u2[cur]
  <2> HIDE DEF x, y, z, n
  <2>1. PICK v, w \in Nat : v = u[1 - cur] /\ w = u[cur]
    BY <1>1, <1>3
  <2> QED BY <2>1, <1>1, <1>3, <1>4, <1>5
<1>7. Room(cur, k, u2)
  BY <1>2, <1>3, <1>6 DEF Room
<1> QED BY <1>7 DEF k

(* What a copy and the header left behind do to the heap, and to the words that are free. *)
LEMMA CopiedIs ==
  ASSUME NEW cur \in {0, 1}, NEW h \in Heaps, NEW u, Room(cur, h, u), NEW p \in In(h), p[1] = cur,
         At(h, p).type # "left", NEW cap \in Nat, cap <= At(h, p).cap,
         NEW q, q = <<1 - cur, Len(h[1 - cur]) + 1>>,
         NEW copy, CopyOf(At(h, p), cap, copy), NEW header, LeftBy(At(h, p), q, header),
         NEW k, k = Store(Grown(h, 1 - cur, copy), p, header),
         NEW u2, u2 \in [{0, 1} -> Nat], u2[cur] = u[cur], u2[1 - cur] = u[1 - cur] + 1 + cap
  PROVE  Copied(cur, h, k, p, q, cap) /\ Room(cur, k, u2)
<1> DEFINE b == 1 - cur  l == Grown(h, b, copy)
<1>1. b \in {0, 1} /\ b # cur /\ {0, 1} = {cur, b}
  OBVIOUS
<1>2. At(h, p) \in Object /\ At(h, p).cap \in Nat /\ p \in Pointer
  BY AtIs DEF Object
<1>3. copy \in Object /\ copy.type = At(h, p).type /\ copy.cap = cap
  BY DEF CopyOf
<1> HIDE DEF b
<1>4. GrowsTo(h, b, copy, l, q)
  BY <1>1, <1>3, GrownIs DEF b
<1>5. /\ l \in Heaps /\ q \in Pointer /\ q[1] = b /\ q[2] = Len(h[b]) + 1 /\ In(l) = In(h) \cup {q} /\ q \notin In(h)
      /\ At(l, q) = copy /\ (\A x \in In(h) : At(l, x) = At(h, x)) /\ l[1 - b] = h[1 - b]
  BY <1>4 DEF GrowsTo
<1>6. /\ \A c \in {0, 1} : IsFiniteSet(Units(l[c]))
      /\ Cardinality(Units(l[b])) = Cardinality(Units(h[b])) + cap + 1
      /\ \A c \in {0, 1} : c # b => Units(l[c]) = Units(h[c])
  <2>1. (\A c \in {0, 1} : IsFiniteSet(Units(h[c]))) /\ copy.type # "left"
    BY <1>3 DEF Room
  <2>2. /\ \A c \in {0, 1} : IsFiniteSet(Units(Grown(h, b, copy)[c]))
        /\ Cardinality(Units(Grown(h, b, copy)[b])) = Cardinality(Units(h[b])) + copy.cap + 1
        /\ \A c \in {0, 1} : c # b => Units(Grown(h, b, copy)[c]) = Units(h[c])
    BY <1>1, <1>3, <2>1, UnitsGrown, Zenon
  <2> QED BY <1>3, <2>2
<1>7. header \in Object /\ header.type = "left"
  BY DEF LeftBy
<1>8. k = Store(l, p, header)
  BY DEF b
<1> HIDE DEF l
<1>9. p \in In(l) /\ At(l, p) = At(h, p)
  BY <1>5
<1>10. /\ k \in Heaps /\ In(k) = In(l)
       /\ \A x \in In(l) : At(k, x) = IF x = p THEN header ELSE At(l, x)
       /\ \A c \in {0, 1} : Len(k[c]) = Len(l[c])
  <2>1. /\ Store(l, p, header) \in Heaps /\ In(Store(l, p, header)) = In(l)
        /\ \A x \in In(l) : At(Store(l, p, header), x) = IF x = p THEN header ELSE At(l, x)
        /\ \A c \in {0, 1} : Len(Store(l, p, header)[c]) = Len(l[c])
    BY <1>5, <1>7, <1>9, StoreIs
  <2> QED BY <1>8, <2>1
<1>12. Copied(cur, h, k, p, q, cap)
  <2>1. p # q
    BY <1>5
  <2>2. Len(k[cur]) = Len(h[cur])
    <3>1. 1 - b = cur
      BY DEF b
    <3> QED BY <1>1, <1>5, <1>10, <3>1
  <2> QED BY <1>5, <1>9, <1>10, <2>1, <2>2 DEF Copied, b
<1>13. Room(cur, k, u2)
  <2>1. Units(l[cur]) = Units(h[cur]) /\ Cardinality(Units(l[1 - cur])) = Cardinality(Units(h[1 - cur])) + cap + 1
    BY <1>1, <1>6 DEF b
  <2>2. /\ l \in Heaps /\ p \in In(l) /\ At(l, p).type # "left" /\ At(l, p).cap = At(h, p).cap
        /\ header \in Object /\ header.type = "left" /\ \A c \in {0, 1} : IsFiniteSet(Units(l[c]))
    BY <1>5, <1>6, <1>7, <1>9
  <2>3. Room(cur, Store(l, p, header), u2)
    BY <2>1, <2>2, LeftRoom
  <2> QED BY <2>3, <1>8
<1> QED BY <1>12, <1>13

(* The cells after that: those of the copy are new. *)
LEMMA CellsCopied ==
  ASSUME NEW cur, NEW h \in Heaps, NEW k, NEW p \in In(h), NEW q, NEW cap, Copied(cur, h, k, p, q, cap),
         NEW g, NEW scs
  PROVE  /\ \A d : IsCell(h, scs, d) => IsCell(k, scs, d) /\ Val(k, g, scs, d) = Val(h, g, scs, d)
         /\ \A d : IsCell(k, scs, d) =>
              \/ IsCell(h, scs, d)
              \/ /\ d[1] = "field" /\ d[2] = q /\ d = <<"field", q, d[3]>>
                 /\ IsCell(h, scs, <<"field", p, d[3]>>)
                 /\ d[3] \in DOMAIN At(h, p).fields
                 /\ Val(k, g, scs, d) = Val(h, g, scs, <<"field", p, d[3]>>)
<1>1. At(h, p) \in Object
  BY AtIs
<1>2. /\ In(k) = In(h) \cup {q} /\ q \notin In(h)
      /\ At(k, q).fields = At(h, p).fields /\ \A x \in In(h) : At(k, x).fields = At(h, x).fields
  BY DEF Copied, CopyOf, LeftBy
<1>3. ASSUME NEW d, IsCell(h, scs, d)
      PROVE  IsCell(k, scs, d) /\ Val(k, g, scs, d) = Val(h, g, scs, d)
  <2>1. CASE d[1] = "field"
    <3>1. d = <<"field", d[2], d[3]>> /\ d[2] \in In(h) /\ d[3] \in DOMAIN At(h, d[2]).fields
      BY <1>3, <2>1, CellIs
    <3>2. d[2] \in In(k) /\ At(k, d[2]).fields = At(h, d[2]).fields
      BY <3>1, <1>2
    <3>3. IsCell(k, scs, d)
      BY <3>1, <3>2, Zenon DEF IsCell
    <3> QED BY <3>2, <3>3, <2>1, ValOf
  <2>2. CASE d[1] # "field"
    <3>1. IsCell(k, scs, d)
      BY <1>3, <2>2 DEF IsCell
    <3>2. Val(k, g, scs, d) = Val(h, g, scs, d)
      BY <1>3, <2>2, CellIs DEF Val
    <3> QED BY <3>1, <3>2
  <2> QED BY <2>1, <2>2
<1>4. ASSUME NEW d, IsCell(k, scs, d), ~IsCell(h, scs, d)
      PROVE  /\ d[1] = "field" /\ d[2] = q /\ d = <<"field", q, d[3]>>
             /\ IsCell(h, scs, <<"field", p, d[3]>>)
             /\ d[3] \in DOMAIN At(h, p).fields
             /\ Val(k, g, scs, d) = Val(h, g, scs, <<"field", p, d[3]>>)
  <2>1. d[1] = "field"
    BY <1>4 DEF IsCell
  <2>2. d = <<"field", d[2], d[3]>> /\ d[2] \in In(k) /\ d[3] \in DOMAIN At(k, d[2]).fields
    BY <1>4, <2>1, CellIs
  <2>3. d[2] \notin In(h)
    <3> SUFFICES ASSUME d[2] \in In(h) PROVE IsCell(h, scs, d)
      BY <1>4
    <3>1. d[3] \in DOMAIN At(h, d[2]).fields
      BY <2>2, <1>2
    <3> QED BY <2>2, <3>1, Zenon DEF IsCell
  <2>4. d[2] = q /\ d[3] \in DOMAIN At(h, p).fields
    BY <1>2, <2>2, <2>3
  <2>5. IsCell(h, scs, <<"field", p, d[3]>>)
    BY <2>4, Zenon DEF IsCell
  <2>6. Val(k, g, scs, d) = Val(h, g, scs, <<"field", p, d[3]>>)
    BY <1>2, <2>1, <2>4, ValOf, ValIs
  <2> QED BY <2>1, <2>2, <2>4, <2>5, <2>6
<1> QED BY <1>3, <1>4
(* The headers after that. *)
LEMMA HeadersCopied ==
  ASSUME NEW cur \in {0, 1}, NEW h \in Heaps, HeadersIn(cur, h), Forwarding(cur, h),
         NEW p \in In(h), p[1] = cur, At(h, p).type \in {"object", "closure"},
         NEW cap, NEW k, NEW q, Copied(cur, h, k, p, q, cap)
  PROVE  /\ HeadersIn(cur, k) /\ Forwarding(cur, k)
         /\ \A v \in In(h) : Fwd(h, v) \in In(h) /\ Fwd(k, v) = IF Fwd(h, v) = p THEN q ELSE Fwd(h, v)
         /\ \A v \in In(h) : /\ At(k, v).id = At(h, v).id
                             /\ At(k, v).type = "redirect" <=> At(h, v).type = "redirect"
         /\ At(k, q).id = At(h, p).id
<1>1. /\ k \in Heaps /\ q \in Pointer /\ q[1] = 1 - cur /\ In(k) = In(h) \cup {q} /\ q \notin In(h) /\ p # q
      /\ \A x \in In(h) : x # p => At(k, x) = At(h, x)
      /\ At(k, q).type = At(h, p).type /\ At(k, q).fwd = At(h, p).fwd /\ At(k, q).id = At(h, p).id
      /\ At(k, p).type = "left" /\ At(k, p).cap = 0 /\ At(k, p).fwd = q /\ At(k, p).id = At(h, p).id
  BY DEF Copied, CopyOf, LeftBy
<1>2. \A v \in In(h) : /\ At(k, v).id = At(h, v).id
                       /\ At(k, v).type = "redirect" <=> At(h, v).type = "redirect"
  BY <1>1
<1>3. ASSUME NEW x \in In(h)
      PROVE  /\ At(h, x).type = "redirect" => x[1] = cur /\ Forwards(h, x)
             /\ At(h, x).type = "left" =>
                  /\ x[1] = cur /\ At(h, x).cap = 0
                  /\ At(h, x).fwd \in In(h) /\ At(h, x).fwd[1] = 1 - cur
                  /\ At(h, At(h, x).fwd).id = At(h, x).id
             /\ At(h, x).type \in {"object", "closure"} => At(h, x).fwd = Undefined
  BY DEF HeadersIn
<1>4. ASSUME NEW x \in In(k)
      PROVE  /\ At(k, x).type = "redirect" => x[1] = cur /\ Forwards(k, x)
             /\ At(k, x).type = "left" =>
                  /\ x[1] = cur /\ At(k, x).cap = 0
                  /\ At(k, x).fwd \in In(k) /\ At(k, x).fwd[1] = 1 - cur
                  /\ At(k, At(k, x).fwd).id = At(k, x).id
             /\ At(k, x).type \in {"object", "closure"} => At(k, x).fwd = Undefined
  <2>1. CASE x = q
    <3>1. At(h, p).fwd = Undefined
      BY <1>3
    <3> QED BY <2>1, <3>1, <1>1
  <2>2. CASE x = p
    BY <2>2, <1>1
  <2>3. CASE x \in In(h) /\ x # p
    <3>1. At(k, x) = At(h, x)
      BY <1>1, <2>3
    <3>2. At(h, x).type = "redirect" => Forwards(k, x)
      BY <2>3, <3>1, <1>1, <1>2, <1>3 DEF Forwards
    <3> QED BY <2>3, <3>1, <3>2, <1>1, <1>2, <1>3
  <2> QED BY <2>1, <2>2, <2>3, <1>1
<1>5. HeadersIn(cur, k)
  BY <1>4 DEF HeadersIn
<1>6. ASSUME NEW v \in In(h)
      PROVE  Fwd(h, v) \in In(h) /\ Fwd(k, v) = IF Fwd(h, v) = p THEN q ELSE Fwd(h, v)
  <2>1. CASE v = p
    <3>1. Fwd(h, v) = p /\ Fwd(k, v) = q
      BY <2>1, <1>1 DEF Fwd
    <3> QED BY <3>1
  <2>2. CASE v # p
    <3>1. Fwd(k, v) = Fwd(h, v)
      BY <2>2, <1>1 DEF Fwd
    <3>2. Fwd(h, v) \in In(h) /\ Fwd(h, v) # p
      <4>1. CASE At(h, v).type = "left"
        <5>1. At(h, v).fwd \in In(h) /\ At(h, v).fwd[1] = 1 - cur /\ 1 - cur # cur
          BY <4>1, <1>3
        <5> QED BY <4>1, <5>1 DEF Fwd
      <4>2. CASE At(h, v).type # "left"
        BY <2>2, <4>2 DEF Fwd
      <4> QED BY <4>1, <4>2
    <3> QED BY <3>1, <3>2
  <2> QED BY <2>1, <2>2
<1>7. Forwarding(cur, k)
  <2>1. ASSUME NEW x \in In(k), NEW y \in In(k), At(k, x).type = "left", At(k, y).type = "left", x # y
        PROVE  At(k, x).fwd # At(k, y).fwd
    <3>1. x \in In(h) /\ y \in In(h)
      BY <2>1, <1>1
    <3>2. ASSUME NEW z \in In(h), At(k, z).type = "left", z # p
          PROVE  At(h, z).type = "left" /\ At(k, z).fwd = At(h, z).fwd /\ At(k, z).fwd # q
      BY <3>2, <1>1, <1>3
    <3>3. CASE x = p \/ y = p
      BY <2>1, <3>1, <3>2, <3>3, <1>1
    <3>4. CASE x # p /\ y # p
      BY <2>1, <3>1, <3>2, <3>4 DEF Forwarding
    <3> QED BY <3>3, <3>4
  <2>2. ASSUME NEW y \in In(k), y[1] = 1 - cur
        PROVE  \E x \in In(k) : At(k, x).type = "left" /\ At(k, x).fwd = y
    <3>1. CASE y = q
      BY <3>1, <1>1
    <3>2. CASE y # q
      <4>1. PICK x \in In(h) : At(h, x).type = "left" /\ At(h, x).fwd = y
        BY <3>2, <2>2, <1>1 DEF Forwarding
      <4>2. x # p
        BY <4>1
      <4> QED BY <4>1, <4>2, <1>1
    <3> QED BY <3>1, <3>2
  <2> QED BY <2>1, <2>2 DEF Forwarding
<1> QED BY <1>1, <1>2, <1>5, <1>6, <1>7

(* The cells of a copy, one for each pointer it holds. *)
Pointed(p, o) == {<<"field", p, i>> : i \in {k \in DOMAIN o.fields : o.fields[k] \in Pointer}}

(* A copy is made, its pointers are yet to be marked. *)
LEMMA CopyingCopied ==
  ASSUME NEW cur, NEW h, NEW u, NEW g, NEW scs, NEW pnd, NEW T, Copying(cur, h, u, g, scs, pnd, T),
         NEW p \in In(h), p[1] = cur, At(h, p).type \in {"object", "closure"},
         NEW cap, NEW k, NEW q, Copied(cur, h, k, p, q, cap), NEW u2, Room(cur, k, u2),
         NEW N, N = Pointed(q, At(h, p))
  PROVE  Copying(cur, k, u2, g, scs, pnd, T \cup N)
<1>0. N = {<<"field", q, i>> : i \in {i \in DOMAIN At(h, p).fields : At(h, p).fields[i] \in Pointer}}
  BY DEF Pointed
<1>1. /\ h \in Heaps /\ cur \in {0, 1} /\ g \in Pointer /\ scs \in Scenes /\ pnd \in RequestType
      /\ HeadersIn(cur, h) /\ Forwarding(cur, h)
      /\ Values(h, g, scs) /\ Apart(h, g, scs) /\ Asked(h, g, scs, pnd) /\ ToMark(cur, h, g, scs, T)
  BY DEF Copying
<1>2. /\ HeadersIn(cur, k) /\ Forwarding(cur, k)
      /\ \A v \in In(h) : Fwd(h, v) \in In(h) /\ Fwd(k, v) = IF Fwd(h, v) = p THEN q ELSE Fwd(h, v)
      /\ \A v \in In(h) : /\ At(k, v).id = At(h, v).id
                          /\ At(k, v).type = "redirect" <=> At(h, v).type = "redirect"
      /\ At(k, q).id = At(h, p).id
  BY <1>1, HeadersCopied
<1>3. /\ k \in Heaps /\ q \in Pointer /\ q[1] = 1 - cur /\ In(k) = In(h) \cup {q} /\ q \notin In(h)
      /\ At(k, q).fields = At(h, p).fields
  BY DEF Copied, CopyOf
<1> DEFINE V(d) == Val(h, g, scs, d)  V2(d) == Val(k, g, scs, d)  Twin(d) == <<"field", p, d[3]>>
<1>4. /\ \A d : IsCell(h, scs, d) => IsCell(k, scs, d) /\ V2(d) = V(d)
      /\ \A d : IsCell(k, scs, d) /\ ~IsCell(h, scs, d) =>
            /\ d[1] = "field" /\ d[2] = q /\ d = <<"field", q, d[3]>>
            /\ d[3] \in DOMAIN At(h, p).fields
            /\ IsCell(h, scs, Twin(d)) /\ V2(d) = V(Twin(d))
      /\ \A d : Twin(d)[1] = "field" /\ Twin(d)[2] = p
  BY <1>1, CellsCopied
<1>5. \A d : V2(d) = Val(k, g, scs, d) /\ V(d) = Val(h, g, scs, d)
  OBVIOUS
<1> HIDE DEF V, V2, Twin
<1>6. \A d : IsCell(h, scs, d) /\ V(d) \in Pointer => Fit(h, d, V(d)) /\ V(d) \in In(h)
  BY <1>1, <1>5 DEF Values, Fit
<1>7. Values(k, g, scs)
  <2> SUFFICES ASSUME NEW d, IsCell(k, scs, d), V2(d) \in Pointer PROVE Fit(k, d, V2(d))
    BY <1>5 DEF Values
  <2>1. CASE IsCell(h, scs, d)
    <3>1. Fit(h, d, V(d)) /\ V2(d) = V(d) /\ (d[1] = "field" => d[2] \in In(h))
      BY <2>1, <1>4, <1>6, CellIs
    <3> QED BY <3>1, <1>2, <1>3 DEF Fit
  <2>2. CASE ~IsCell(h, scs, d)
    <3>1. /\ Fit(h, Twin(d), V(Twin(d))) /\ V2(d) = V(Twin(d)) /\ d[1] = "field" /\ d[2] = q
          /\ Twin(d)[1] = "field" /\ Twin(d)[2] = p
      BY <2>2, <1>4, <1>6
    <3> QED BY <3>1, <1>2, <1>3 DEF Fit
  <2> QED BY <2>1, <2>2
<1>8. ASSUME NEW v \in In(h), NEW w \in In(h), Fwd(h, v) # Fwd(h, w) PROVE Fwd(k, v) # Fwd(k, w)
  BY <1>2, <1>3, <1>8
<1>9. ASSUME NEW c, IsCell(h, scs, c), c[1] # "field", V(c) \in Pointer, NEW kinds, Sole(h, g, scs, c, kinds)
      PROVE  Sole(k, g, scs, c, kinds)
  <2> SUFFICES ASSUME NEW d, IsCell(k, scs, d), d # c, d[1] \in kinds, V2(d) \in Pointer
               PROVE  Fwd(k, V2(d)) # Fwd(k, V2(c))
    BY <1>5 DEF Sole
  <2>1. \A e : IsCell(h, scs, e) /\ e # c /\ e[1] \in kinds /\ V(e) \in Pointer => Fwd(h, V(e)) # Fwd(h, V(c))
    BY <1>5, <1>9 DEF Sole
  <2>2. V2(c) = V(c) /\ V(c) \in In(h)
    BY <1>4, <1>6, <1>9
  <2>3. CASE IsCell(h, scs, d)
    <3>1. V2(d) = V(d) /\ V(d) \in In(h) /\ Fwd(h, V(d)) # Fwd(h, V(c))
      BY <2>1, <2>3, <1>4, <1>6
    <3> QED BY <3>1, <2>2, <1>8
  <2>4. CASE ~IsCell(h, scs, d)
    <3>1. /\ V2(d) = V(Twin(d)) /\ IsCell(h, scs, Twin(d)) /\ Twin(d)[1] = "field" /\ d[1] = "field"
      BY <2>4, <1>4
    <3>2. V(Twin(d)) \in In(h) /\ Fwd(h, V(Twin(d))) # Fwd(h, V(c))
      BY <3>1, <2>1, <1>6, <1>9
    <3> QED BY <3>1, <3>2, <2>2, <1>8
  <2> QED BY <2>3, <2>4
<1>10. Apart(k, g, scs)
  <2> SUFFICES ASSUME NEW c, IsCell(k, scs, c), c[1] = "external" PROVE Sole(k, g, scs, c, {"external", "field"})
    BY DEF Apart
  <2>1. IsCell(h, scs, c) /\ c[1] # "field"
    BY <1>4
  <2>2. V(c) \in Pointer
    BY <2>1, <1>1, <1>5, ValTyped
  <2>3. Sole(h, g, scs, c, {"external", "field"})
    BY <2>1, <1>1 DEF Apart
  <2> QED BY <2>1, <2>2, <2>3, <1>9
<1>11. ASSUME NEW d, IsCell(h, scs, d), Plain(h, g, scs, d) PROVE Plain(k, g, scs, d)
  BY <1>2, <1>4, <1>5, <1>6, <1>11 DEF Plain
<1>12. \A r \in Reg : IsCell(h, scs, <<"reg", 1, 1, r>>)
  <2>1. 1 \in 1 .. Len(scs) /\ 1 \in 1 .. Len(scs[1].frames)
    BY <1>1, SceneIs
  <2> QED BY <2>1 DEF IsCell
<1>13. Asked(k, g, scs, pnd)
  <2>1. pnd.op = "new" => \A r \in DOMAIN pnd.captured : Plain(k, g, scs, <<"reg", 1, 1, pnd.captured[r]>>)
    <3>1. \A r \in DOMAIN pnd.captured : pnd.captured[r] \in Reg
      BY <1>1 DEF RequestType
    <3> QED BY <3>1, <1>1, <1>11, <1>12 DEF Asked
  <2>2. ASSUME pnd.op = "grow", NEW e, e = <<"reg", 1, 1, pnd.reg>>
        PROVE  V2(e) \in Pointer /\ Plain(k, g, scs, e) /\ Sole(k, g, scs, e, {"global", "field"})
    <3>1. IsCell(h, scs, e) /\ e[1] # "field"
      BY <1>1, <1>12, <2>2 DEF RequestType
    <3>2. V(e) \in Pointer /\ Plain(h, g, scs, e) /\ Sole(h, g, scs, e, {"global", "field"})
      BY <1>1, <1>5, <2>2 DEF Asked
    <3>3. Sole(k, g, scs, e, {"global", "field"})
      BY <3>1, <3>2, <1>9
    <3> QED BY <3>1, <3>2, <3>3, <1>4, <1>11
  <2> QED BY <2>1, <2>2, <1>1, <1>5 DEF Asked
<1>14. ToMark(cur, k, g, scs, T \cup N)
  <2>1. ASSUME NEW d \in T \cup N PROVE IsCell(k, scs, d) /\ InCopy(cur, d)
    <3>1. CASE d \in T
      BY <3>1, <1>1, <1>4 DEF ToMark
    <3>2. CASE d \in N
      <4>1. PICK i \in DOMAIN At(h, p).fields : d = <<"field", q, i>>
        BY <3>2, <1>0
      <4>2. IsCell(k, scs, d)
        BY <4>1, <1>3, Zenon DEF IsCell
      <4> QED BY <4>1, <4>2, <1>3 DEF InCopy
    <3> QED BY <3>1, <3>2
  <2>2. ASSUME NEW d, IsCell(k, scs, d), InCopy(cur, d), V2(d) \in Pointer, V2(d)[1] = cur
        PROVE  d \in T \cup N
    <3>1. CASE IsCell(h, scs, d)
      BY <3>1, <2>2, <1>1, <1>4, <1>5 DEF ToMark
    <3>2. CASE ~IsCell(h, scs, d)
      <4>1. /\ d = <<"field", q, d[3]>> /\ d[3] \in DOMAIN At(h, p).fields /\ V2(d) = V(Twin(d))
        BY <2>2, <3>2, <1>4
      <4>2. V(Twin(d)) = At(h, p).fields[d[3]]
        <5>1. Val(h, g, scs, <<"field", p, d[3]>>) = At(h, p).fields[d[3]]
          <6>1. PICK i, x : i = d[3] /\ x = <<"field", p, i>>
            OBVIOUS
          <6>2. x[1] = "field" /\ x[2] = p /\ x[3] = i
            BY <6>1
          <6>3. Val(h, g, scs, x) = At(h, x[2]).fields[x[3]]
            BY <6>2, ValOf
          <6> QED BY <6>1, <6>2, <6>3
        <5> QED BY <5>1 DEF V, Twin
      <4> QED BY <1>0, <2>2, <4>1, <4>2
    <3> QED BY <3>1, <3>2
  <2> QED BY <2>1, <2>2, <1>5 DEF ToMark
<1> QED BY <1>1, <1>2, <1>3, <1>7, <1>10, <1>13, <1>14 DEF Copying

(* What was copied before stays reached. *)
LEMMA ReachedCopied ==
  ASSUME NEW cur, NEW h \in Heaps, NEW g, NEW scs, Reached(cur, h, g, scs, {}),
         NEW p \in In(h), NEW cap, NEW k, NEW q, Copied(cur, h, k, p, q, cap)
  PROVE  Reached(cur, k, g, scs, {q})
<1> SUFFICES ASSUME NEW x \in In(k), x[1] = 1 - cur, x # q
             PROVE  \E c : /\ IsCell(k, scs, c) /\ InCopy(cur, c) /\ Val(k, g, scs, c) = x
                           /\ c[1] = "field" => c[2][2] < x[2]
  BY DEF Reached
<1>1. x \in In(h)
  BY DEF Copied
<1>2. PICK c : /\ IsCell(h, scs, c) /\ InCopy(cur, c) /\ Val(h, g, scs, c) = x
               /\ c[1] = "field" => c[2][2] < x[2]
  BY <1>1 DEF Reached
<1>3. IsCell(k, scs, c) /\ Val(k, g, scs, c) = x
  BY <1>2, CellsCopied
<1> QED BY <1>2, <1>3
------------------------------------------------------------------------------
(* What the assignment to a cell does. *)
ExternalSet(scs, s, v, t) ==
  /\ t \in Scenes /\ Len(t) = Len(scs)
  /\ \A x \in 1 .. Len(scs) : /\ t[x].caller = scs[x].caller /\ t[x].frames = scs[x].frames
                              /\ t[x].external = IF x = s THEN v ELSE scs[x].external
RegSet(scs, s, f, r, v, t) ==
  /\ t \in Scenes /\ Len(t) = Len(scs)
  /\ \A x \in 1 .. Len(scs) :
       /\ t[x].caller = scs[x].caller /\ t[x].external = scs[x].external
       /\ Len(t[x].frames) = Len(scs[x].frames)
       /\ \A y \in 1 .. Len(scs[x].frames) : t[x].frames[y].rd = scs[x].frames[y].rd
       /\ \A y \in 1 .. Len(scs[x].frames) : \A z \in Reg :
            t[x].frames[y].regs[z] = IF x = s /\ y = f /\ z = r THEN v ELSE scs[x].frames[y].regs[z]

(* One of the scenes, changed. *)
LEMMA OneReplaced ==
  ASSUME NEW scs \in Scenes, NEW s \in 1 .. Len(scs), NEW sc \in SceneType
  PROVE  /\ [scs EXCEPT ![s] = sc] \in Scenes /\ Len([scs EXCEPT ![s] = sc]) = Len(scs)
         /\ \A x \in 1 .. Len(scs) : [scs EXCEPT ![s] = sc][x] = IF x = s THEN sc ELSE scs[x]
<1> DEFINE t == [scs EXCEPT ![s] = sc]
<1>1. scs \in Seq(SceneType) /\ Len(scs) \in Nat \ {0}
  BY SceneIs
<1>2. t \in Seq(SceneType) /\ Len(t) = Len(scs) /\ \A x \in 1 .. Len(scs) : t[x] = IF x = s THEN sc ELSE scs[x]
  BY <1>1, ExceptSeq
<1>3. t # <<>>
  BY <1>1, <1>2, EmptySeq
<1> HIDE DEF t
<1>4. t \in Scenes
  BY <1>2, <1>3 DEF Scenes
<1> QED BY <1>2, <1>4 DEF t

(* What the assignment to an external array does. *)
LEMMA ExternalSetIs ==
  ASSUME NEW scs \in Scenes, NEW s \in 1 .. Len(scs), NEW v \in Pointer
  PROVE  ExternalSet(scs, s, v, [scs EXCEPT ![s].external = v])
<1> DEFINE sc == [scs[s] EXCEPT !.external = v]  t == [scs EXCEPT ![s] = sc]
<1>1. scs[s] \in SceneType
  BY SceneIs
<1>2. sc \in SceneType /\ sc.external = v /\ sc.caller = scs[s].caller /\ sc.frames = scs[s].frames
  BY <1>1 DEF SceneType
<1>3. [scs EXCEPT ![s].external = v] = t
  OBVIOUS
<1> HIDE DEF sc
<1>4. t \in Scenes /\ Len(t) = Len(scs) /\ \A x \in 1 .. Len(scs) : t[x] = IF x = s THEN sc ELSE scs[x]
  BY <1>2, OneReplaced
<1> HIDE DEF t
<1>5. ExternalSet(scs, s, v, t)
  BY <1>2, <1>4 DEF ExternalSet
<1> QED BY <1>3, <1>5

(* What the assignment to a register does. *)
LEMMA RegSetIs ==
  ASSUME NEW scs \in Scenes, NEW s \in 1 .. Len(scs), NEW f \in 1 .. Len(scs[s].frames), NEW r \in Reg,
         NEW v \in Datum
  PROVE  RegSet(scs, s, f, r, v, [scs EXCEPT ![s].frames[f].regs[r] = v])
<1> DEFINE fr == [scs[s].frames[f] EXCEPT !.regs = [@ EXCEPT ![r] = v]]
           fs == [scs[s].frames EXCEPT ![f] = fr]
           sc == [scs[s] EXCEPT !.frames = fs]  t == [scs EXCEPT ![s] = sc]
<1>1. /\ scs[s] \in SceneType /\ scs[s].frames \in Seq(FrameType) /\ Len(scs[s].frames) \in Nat \ {0}
      /\ scs[s].frames[f] \in FrameType /\ scs[s].frames[f].regs \in [Reg -> Datum]
  BY SceneIs
<1>2. /\ fr \in FrameType /\ fr.rd = scs[s].frames[f].rd
      /\ \A z \in Reg : fr.regs[z] = IF z = r THEN v ELSE scs[s].frames[f].regs[z]
  BY <1>1 DEF FrameType
<1> HIDE DEF fr
<1>3. /\ fs \in Seq(FrameType) /\ Len(fs) = Len(scs[s].frames)
      /\ \A y \in 1 .. Len(scs[s].frames) : fs[y] = IF y = f THEN fr ELSE scs[s].frames[y]
  BY <1>1, <1>2, ExceptSeq
<1>4. fs # <<>>
  BY <1>1, <1>3, EmptySeq
<1>5. [scs EXCEPT ![s].frames[f].regs[r] = v] = [scs EXCEPT ![s] = [scs[s] EXCEPT !.frames = fs]]
  BY DEF fr
<1> HIDE DEF fs
<1>6. sc \in SceneType /\ sc.external = scs[s].external /\ sc.caller = scs[s].caller /\ sc.frames = fs
  BY <1>1, <1>3, <1>4 DEF SceneType
<1>7. [scs EXCEPT ![s].frames[f].regs[r] = v] = t
  BY <1>5
<1> HIDE DEF sc
<1>8. t \in Scenes /\ Len(t) = Len(scs) /\ \A x \in 1 .. Len(scs) : t[x] = IF x = s THEN sc ELSE scs[x]
  BY <1>6, OneReplaced
<1> HIDE DEF t
<1>9. ASSUME NEW x \in 1 .. Len(scs)
      PROVE  /\ t[x].caller = scs[x].caller /\ t[x].external = scs[x].external
             /\ Len(t[x].frames) = Len(scs[x].frames)
             /\ \A y \in 1 .. Len(scs[x].frames) : t[x].frames[y].rd = scs[x].frames[y].rd
             /\ \A y \in 1 .. Len(scs[x].frames) : \A z \in Reg :
                  t[x].frames[y].regs[z] = IF x = s /\ y = f /\ z = r THEN v ELSE scs[x].frames[y].regs[z]
  <2>1. CASE x = s
    <3>1. t[x] = sc
      BY <2>1, <1>8
    <3>3. ASSUME NEW y \in 1 .. Len(scs[x].frames) PROVE t[x].frames[y].rd = scs[x].frames[y].rd
      BY <2>1, <3>1, <1>2, <1>3, <1>6
    <3>2. ASSUME NEW y \in 1 .. Len(scs[x].frames), NEW z \in Reg
          PROVE  t[x].frames[y].regs[z] = IF y = f /\ z = r THEN v ELSE scs[x].frames[y].regs[z]
      <4>1. t[x].frames[y] = IF y = f THEN fr ELSE scs[x].frames[y]
        BY <2>1, <3>1, <1>3, <1>6
      <4> QED BY <2>1, <4>1, <1>2
    <3> QED BY <2>1, <3>1, <3>2, <3>3, <1>3, <1>6
  <2>2. CASE x # s
    BY <2>2, <1>8
  <2> QED BY <2>1, <2>2
<1>10. RegSet(scs, s, f, r, v, t)
  BY <1>8, <1>9 DEF RegSet
<1> QED BY <1>7, <1>10

(* A heap has the headers it has. *)
LEMMA SameHeadersIs == ASSUME NEW h \in Heaps PROVE SameHeaders(h, h)
BY DEF SameHeaders

(* The scenes keep their cells when their frames keep their number. *)
LEMMA CellsSame ==
  ASSUME NEW h, NEW k, In(k) = In(h), \A p \in In(h) : DOMAIN At(k, p).fields = DOMAIN At(h, p).fields,
         NEW scs, NEW t, Len(t) = Len(scs),
         \A x \in 1 .. Len(scs) : Len(t[x].frames) = Len(scs[x].frames), NEW d
  PROVE  IsCell(k, t, d) <=> IsCell(h, scs, d)
<1>1. (\E p \in In(k) : \E i \in DOMAIN At(k, p).fields : d = <<"field", p, i>>)
        <=> (\E p \in In(h) : \E i \in DOMAIN At(h, p).fields : d = <<"field", p, i>>)
  OBVIOUS
<1>2. (\E s \in 1 .. Len(t) : \E f \in 1 .. Len(t[s].frames) : \E r \in Reg : d = <<"reg", s, f, r>>)
        <=> (\E s \in 1 .. Len(scs) : \E f \in 1 .. Len(scs[s].frames) : \E r \in Reg : d = <<"reg", s, f, r>>)
  OBVIOUS
<1> QED BY <1>1, <1>2 DEF IsCell

(* WriteCell leaves the scenes, their frames and what these return to. *)
SameShape(scs, t) ==
  /\ t \in Scenes /\ Len(t) = Len(scs)
  /\ \A s \in 1 .. Len(scs) :
       /\ t[s].caller = scs[s].caller /\ Len(t[s].frames) = Len(scs[s].frames)
       /\ \A f \in 1 .. Len(scs[s].frames) : t[s].frames[f].rd = scs[s].frames[f].rd
LEMMA ShapeKept ==
  ASSUME NEW k, scenes \in Scenes, NEW c, IsCell(k, scenes, c), NEW v \in Pointer, WriteCell(c, v, k)
  PROVE  SameShape(scenes, scenes')
<1>1. /\ c[1] = "external" => c[2] \in 1 .. Len(scenes)
      /\ c[1] = "reg" => /\ c[2] \in 1 .. Len(scenes)
                         /\ c[3] \in 1 .. Len(scenes[c[2]].frames) /\ c[4] \in Reg
  BY CellIs
<1>2. CASE c[1] = "external"
  <2>1. scenes' = [scenes EXCEPT ![c[2]].external = v]
    BY <1>2 DEF WriteCell
  <2>2. ExternalSet(scenes, c[2], v, scenes')
    BY <1>1, <1>2, <2>1, ExternalSetIs
  <2> QED BY <2>2 DEF ExternalSet, SameShape
<1>3. CASE c[1] = "reg"
  <2>1. scenes' = [scenes EXCEPT ![c[2]].frames[c[3]].regs[c[4]] = v]
    BY <1>3 DEF WriteCell
  <2>2. RegSet(scenes, c[2], c[3], c[4], v, scenes')
    <3>1. v \in Datum
      BY DEF Datum
    <3> QED BY <1>1, <1>3, <2>1, <3>1, RegSetIs
  <2> QED BY <2>2 DEF RegSet, SameShape
<1>4. CASE c[1] # "external" /\ c[1] # "reg"
  <2>1. scenes' = scenes
    BY <1>4 DEF WriteCell
  <2> QED BY <2>1 DEF SameShape
<1> QED BY <1>2, <1>3, <1>4

(* WriteCell writes its cell, and that is all. *)
LEMMA WrittenIs ==
  ASSUME NEW k \in Heaps, scenes \in Scenes, global \in Pointer, NEW c, IsCell(k, scenes, c),
         NEW v \in Pointer, WriteCell(c, v, k)
  PROVE  /\ Written(k, global, scenes, heap', global', scenes', c, v)
         /\ Len(scenes') = Len(scenes) /\ \A s \in 1 .. Len(scenes) : scenes'[s].caller = scenes[s].caller
<1>1. /\ c[1] \in {"global", "external", "reg", "field"}
      /\ c[1] = "global" => c = <<"global">>
      /\ c[1] = "external" => c = <<"external", c[2]>> /\ c[2] \in 1 .. Len(scenes)
      /\ c[1] = "reg" => /\ c = <<"reg", c[2], c[3], c[4]>> /\ c[2] \in 1 .. Len(scenes)
                         /\ c[3] \in 1 .. Len(scenes[c[2]].frames) /\ c[4] \in Reg
      /\ c[1] = "field" => c = <<"field", c[2], c[3]>> /\ c[2] \in In(k) /\ c[3] \in DOMAIN At(k, c[2]).fields
  BY CellIs
<1>2. \A d : IsCell(k, scenes, d) =>
        /\ d[1] \in {"global", "external", "reg", "field"}
        /\ d[1] = "global" => d = <<"global">>
        /\ d[1] = "external" => d = <<"external", d[2]>> /\ d[2] \in 1 .. Len(scenes)
        /\ d[1] = "reg" => /\ d = <<"reg", d[2], d[3], d[4]>> /\ d[2] \in 1 .. Len(scenes)
                           /\ d[3] \in 1 .. Len(scenes[d[2]].frames) /\ d[4] \in Reg
        /\ d[1] = "field" => d = <<"field", d[2], d[3]>> /\ d[2] \in In(k) /\ d[3] \in DOMAIN At(k, d[2]).fields
  BY CellIs
<1>3. \A h, g, scs, d :
         /\ d[1] = "global" => Val(h, g, scs, d) = g
         /\ d[1] = "external" => Val(h, g, scs, d) = scs[d[2]].external
         /\ d[1] = "reg" => Val(h, g, scs, d) = scs[d[2]].frames[d[3]].regs[d[4]]
         /\ d[1] = "field" => Val(h, g, scs, d) = At(h, d[2]).fields[d[3]]
  BY ValOf
<1>4. CASE c[1] = "global"
  <2>1. heap' = k /\ global' = v /\ scenes' = scenes
    BY <1>4 DEF WriteCell
  <2>2. SameHeaders(k, heap')
    BY <2>1, SameHeadersIs
  <2>3. \A d : IsCell(k, scenes, d) =>
           Val(heap', global', scenes', d) = IF d = c THEN v ELSE Val(k, global, scenes, d)
    BY <1>1, <1>2, <1>3, <1>4, <2>1
  <2> QED BY <2>1, <2>2, <2>3 DEF Written
<1>5. CASE c[1] = "external"
  <2>1. heap' = k /\ global' = global /\ scenes' = [scenes EXCEPT ![c[2]].external = v]
    BY <1>5 DEF WriteCell
  <2>2. ExternalSet(scenes, c[2], v, scenes')
    BY <1>1, <1>5, <2>1, ExternalSetIs
  <2>3. /\ scenes' \in Scenes /\ Len(scenes') = Len(scenes)
        /\ \A x \in 1 .. Len(scenes) :
             /\ scenes'[x].caller = scenes[x].caller /\ scenes'[x].frames = scenes[x].frames
             /\ scenes'[x].external = IF x = c[2] THEN v ELSE scenes[x].external
    BY <2>2 DEF ExternalSet
  <2>4. heap' = k /\ global' = global
    BY <2>1
  <2>5. SameHeaders(k, heap') /\ \A d : IsCell(heap', scenes', d) <=> IsCell(k, scenes, d)
    BY <2>3, <2>4, SameHeadersIs, CellsSame
  <2>6. ASSUME NEW d, IsCell(k, scenes, d)
        PROVE  Val(heap', global', scenes', d) = IF d = c THEN v ELSE Val(k, global, scenes, d)
    <3>1. CASE d[1] = "external"
      <4>1. d[2] \in 1 .. Len(scenes) /\ (d = c <=> d[2] = c[2])
        BY <1>1, <1>2, <1>5, <2>6, <3>1
      <4> QED BY <3>1, <4>1, <1>3, <2>3
    <3>2. CASE d[1] # "external"
      <4>1. d # c
        BY <1>5, <3>2
      <4> QED BY <3>2, <4>1, <1>2, <1>3, <2>3, <2>4, <2>6
    <3> QED BY <3>1, <3>2
  <2> QED BY <2>3, <2>4, <2>5, <2>6 DEF Written
<1>6. CASE c[1] = "reg"
  <2>1. heap' = k /\ global' = global /\ scenes' = [scenes EXCEPT ![c[2]].frames[c[3]].regs[c[4]] = v]
    BY <1>6 DEF WriteCell
  <2>2. RegSet(scenes, c[2], c[3], c[4], v, scenes')
    <3>1. v \in Datum
      BY DEF Datum
    <3> QED BY <1>1, <1>6, <2>1, <3>1, RegSetIs
  <2>3. /\ scenes' \in Scenes /\ Len(scenes') = Len(scenes)
        /\ \A x \in 1 .. Len(scenes) :
             /\ scenes'[x].caller = scenes[x].caller /\ scenes'[x].external = scenes[x].external
             /\ Len(scenes'[x].frames) = Len(scenes[x].frames)
             /\ \A y \in 1 .. Len(scenes[x].frames) : \A z \in Reg :
                  scenes'[x].frames[y].regs[z] =
                    IF x = c[2] /\ y = c[3] /\ z = c[4] THEN v ELSE scenes[x].frames[y].regs[z]
    BY <2>2 DEF RegSet
  <2>4. heap' = k /\ global' = global
    BY <2>1
  <2>5. SameHeaders(k, heap') /\ \A d : IsCell(heap', scenes', d) <=> IsCell(k, scenes, d)
    BY <2>3, <2>4, SameHeadersIs, CellsSame
  <2>6. ASSUME NEW d, IsCell(k, scenes, d)
        PROVE  Val(heap', global', scenes', d) = IF d = c THEN v ELSE Val(k, global, scenes, d)
    <3>1. CASE d[1] = "reg"
      <4>1. /\ d[2] \in 1 .. Len(scenes) /\ d[3] \in 1 .. Len(scenes[d[2]].frames) /\ d[4] \in Reg
            /\ d = c <=> d[2] = c[2] /\ d[3] = c[3] /\ d[4] = c[4]
        BY <1>1, <1>2, <1>6, <2>6, <3>1
      <4>2. /\ Val(k, global, scenes, d) = scenes[d[2]].frames[d[3]].regs[d[4]]
            /\ Val(heap', global', scenes', d) = scenes'[d[2]].frames[d[3]].regs[d[4]]
        BY <3>1, <1>3
      <4>3. PICK x, y, z : x = d[2] /\ y = d[3] /\ z = d[4]
        OBVIOUS
      <4>4. scenes'[x].frames[y].regs[z] =
              IF x = c[2] /\ y = c[3] /\ z = c[4] THEN v ELSE scenes[x].frames[y].regs[z]
        BY <4>1, <4>3, <2>3
      <4> QED BY <4>1, <4>2, <4>3, <4>4
    <3>2. CASE d[1] # "reg"
      <4>1. d # c
        BY <1>6, <3>2
      <4> QED BY <3>2, <4>1, <1>2, <1>3, <2>3, <2>4, <2>6
    <3> QED BY <3>1, <3>2
  <2> QED BY <2>3, <2>4, <2>5, <2>6 DEF Written
<1>7. CASE c[1] = "field"
  <2> DEFINE p == c[2]  i == c[3]  f == [At(k, p).fields EXCEPT ![i] = v]  o == [At(k, p) EXCEPT !.fields = f]
  <2>1. p \in In(k) /\ i \in DOMAIN At(k, p).fields /\ c = <<"field", p, i>>
    BY <1>1, <1>7
  <2>2. global' = global /\ scenes' = scenes /\ heap' = Store(k, p, o)
    BY <1>7 DEF WriteCell, Store, At
  <2>3. At(k, p) \in Object /\ At(k, p).fields \in Fields
    BY <2>1, AtIs DEF Object
  <2>4. f \in Fields /\ DOMAIN f = DOMAIN At(k, p).fields
        /\ \A j \in DOMAIN f : f[j] = IF j = i THEN v ELSE At(k, p).fields[j]
    <3>1. PICK S \in SUBSET Nat : IsFiniteSet(S) /\ At(k, p).fields \in [S -> Datum \ {Undefined}]
      BY <2>3 DEF Fields
    <3>2. v \in Datum \ {Undefined}
      BY PointerIs DEF Datum
    <3>3. f \in [S -> Datum \ {Undefined}]
      BY <3>1, <3>2
    <3>4. f \in Fields
      <4> HIDE DEF f
      <4> QED BY <3>1, <3>3, FieldsTyped
    <3> QED BY <3>1, <3>4
  <2> HIDE DEF f
  <2>5. /\ o \in Object /\ o.type = At(k, p).type /\ o.cap = At(k, p).cap /\ o.fwd = At(k, p).fwd
        /\ o.id = At(k, p).id /\ o.fields = f
    BY <2>3, <2>4 DEF Object
  <2> HIDE DEF o
  <2>6. /\ heap' \in Heaps /\ In(heap') = In(k) /\ \A b \in {0, 1} : Len(heap'[b]) = Len(k[b])
        /\ \A x \in In(k) : At(heap', x) = IF x = p THEN o ELSE At(k, x)
    <3>1. /\ Store(k, p, o) \in Heaps /\ In(Store(k, p, o)) = In(k)
          /\ \A x \in In(k) : At(Store(k, p, o), x) = IF x = p THEN o ELSE At(k, x)
          /\ \A b \in {0, 1} : Len(Store(k, p, o)[b]) = Len(k[b])
      BY <2>1, <2>5, StoreIs
    <3> QED BY <2>2, <3>1
  <2>7. SameHeaders(k, heap')
    BY <2>5, <2>6 DEF SameHeaders
  <2>8. \A x \in In(k) : /\ DOMAIN At(heap', x).fields = DOMAIN At(k, x).fields
                         /\ \A j \in DOMAIN At(k, x).fields :
                              At(heap', x).fields[j] = IF x = p /\ j = i THEN v ELSE At(k, x).fields[j]
    BY <2>4, <2>5, <2>6
  <2>9. scenes' = scenes /\ global' = global
    BY <2>2
  <2>10. \A d : IsCell(heap', scenes', d) <=> IsCell(k, scenes, d)
    BY <2>6, <2>8, <2>9, CellsSame
  <2>11. ASSUME NEW d, IsCell(k, scenes, d)
         PROVE  Val(heap', global', scenes', d) = IF d = c THEN v ELSE Val(k, global, scenes, d)
    <3>1. CASE d[1] = "field"
      <4>1. d[2] \in In(k) /\ d[3] \in DOMAIN At(k, d[2]).fields /\ (d = c <=> d[2] = p /\ d[3] = i)
        BY <1>2, <2>1, <2>11, <3>1
      <4> QED BY <3>1, <4>1, <1>3, <2>8
    <3>2. CASE d[1] # "field"
      <4>1. d # c
        BY <1>7, <3>2
      <4> QED BY <3>2, <4>1, <1>2, <1>3, <2>9, <2>11
    <3> QED BY <3>1, <3>2
  <2> QED BY <2>7, <2>9, <2>10, <2>11 DEF Written
<1> QED BY <1>1, <1>4, <1>5, <1>6, <1>7

(* During a collection too, headers lead to tables and the blocks suffice. *)
LEMMA BusyIs ==
  ASSUME Typed, Busy, pc = "gc"
  PROVE  /\ Headers /\ Volume /\ used[Other] <= used[current]
<1>1. /\ current \in {0, 1} /\ Other \in {0, 1} /\ Other # current /\ {0, 1} = {current, Other}
      /\ Other = 1 - current
  BY DEF Typed, Other
<1>2. /\ heap \in Heaps /\ HeadersIn(current, heap) /\ Room(current, heap, used)
      /\ used[current] <= BlockSize /\ Len(heap[current]) <= BlockSize
  BY DEF Busy, Copying
<1>3. heap[Other] \in Seq(Object) /\ Len(heap[Other]) \in Nat
  BY <1>1, <1>2, LenProperties DEF Heaps
<1>4. ASSUME NEW i \in 1 .. Len(heap[Other]) PROVE heap[Other][i].type # "left"
  <2>1. <<Other, i>> \in In(heap)
    BY <1>1, PlaceIs DEF Places
  <2>2. At(heap, <<Other, i>>).type \in {"object", "closure"}
    <3> DEFINE v == <<Other, i>>
    <3>1. v \in In(heap) /\ v[1] = 1 - current
      BY <1>1, <2>1
    <3> HIDE DEF v
    <3> QED BY <3>1, <1>1, <1>2, CopyIs DEF v
  <2> QED BY <2>2 DEF At
<1>5. /\ \A b \in {0, 1} : IsFiniteSet(Units(heap[b])) /\ Cardinality(Units(heap[b])) \in Nat
      /\ Cardinality(Units(heap[Other])) <= used[Other]
      /\ Cardinality(Units(heap[current])) + used[Other] <= used[current]
      /\ used \in [{0, 1} -> Nat]
  BY <1>1, <1>2, FS_CardinalityType DEF Room
<1>6. Len(heap[Other]) <= Cardinality(Units(heap[Other]))
  BY <1>1, <1>3, <1>4, <1>5, UnitsBound
<1>7. BlockSize \in Nat
  BY BlockSizeIs DEF Typed
<1>8. used[Other] <= used[current] /\ Len(heap[Other]) <= BlockSize
  <2>1. used[current] \in Nat /\ used[Other] \in Nat
    BY <1>1, <1>5
  <2> QED BY <1>1, <1>2, <1>3, <1>5, <1>6, <1>7, <2>1
<1>9. Volume
  BY <1>1, <1>2, <1>5, <1>8 DEF Volume
<1>10. Headers
  BY <1>1, <1>2 DEF Headers, HeadersIn, Forwards, At, Obj, Places, Other
<1> QED BY <1>8, <1>9, <1>10

------------------------------------------------------------------------------
(* The nth key of a table.  Below: how many keys are smaller.                *)
Ranked(S, n, rank) ==
  /\ n \in Nat
  /\ \A k \in S : rank[k] \in 0 .. n - 1
  /\ \A j, k \in S : rank[j] = rank[k] => j = k
  /\ \A m \in 0 .. n - 1 : \E k \in S : rank[k] = m
Ranks(S, rank) == rank = [k \in S |-> Cardinality({j \in S : j < k})]

(* How many elements of a set are smaller: each number occurs once. *)
LEMMA RankIs ==
  ASSUME NEW S \in SUBSET Nat, IsFiniteSet(S), NEW rank, Ranks(S, rank)
  PROVE  Ranked(S, Cardinality(S), rank)
<1> DEFINE Below(k) == {j \in S : j < k}  n == Cardinality(S)
<1>1. n \in Nat
  BY FS_CardinalityType
<1>2. ASSUME NEW k \in S
      PROVE  IsFiniteSet(Below(k)) /\ Cardinality(Below(k)) \in Nat /\ rank[k] = Cardinality(Below(k))
  <2>1. Below(k) \in SUBSET S
    OBVIOUS
  <2>2. IsFiniteSet(Below(k))
    <3> HIDE DEF Below
    <3> QED BY <2>1, FS_Subset
  <2>3. rank[k] = Cardinality(Below(k))
    BY DEF Ranks
  <2> HIDE DEF Below
  <2> QED BY <2>2, <2>3, FS_CardinalityType
<1>3. ASSUME NEW k \in S, NEW T \in SUBSET S, Below(k) \cup {k} \subseteq T
      PROVE  rank[k] + 1 <= Cardinality(T)
  <2>1. k \notin Below(k)
    OBVIOUS
  <2> HIDE DEF Below
  <2>2. IsFiniteSet(Below(k) \cup {k}) /\ Cardinality(Below(k) \cup {k}) = Cardinality(Below(k)) + 1
    BY <1>2, <2>1, FS_AddElement
  <2>3. IsFiniteSet(T)
    BY FS_Subset
  <2>4. Cardinality(Below(k) \cup {k}) <= Cardinality(T)
    BY <1>3, <2>3, FS_Subset
  <2> QED BY <1>2, <2>2, <2>4
<1>4. ASSUME NEW k \in S PROVE rank[k] \in 0 .. n - 1
  <2>1. Below(k) \cup {k} \subseteq S
    OBVIOUS
  <2>2. rank[k] + 1 <= Cardinality(S)
    <3> HIDE DEF Below
    <3> QED BY <1>3, <2>1
  <2>3. rank[k] \in Nat
    BY <1>2
  <2> HIDE DEF Below
  <2> QED BY <1>1, <2>2, <2>3
<1>5. ASSUME NEW j \in S, NEW k \in S, j < k PROVE rank[j] < rank[k]
  <2>0. j \in Nat /\ k \in Nat /\ \A x \in S : x \in Nat
    OBVIOUS
  <2>1. Below(j) \cup {j} \subseteq Below(k) /\ Below(k) \in SUBSET S
    <3>1. \A x \in S : x < j => x < k
      BY <2>0, <1>5
    <3> QED BY <3>1, <1>5
  <2>2. rank[j] + 1 <= Cardinality(Below(k))
    <3> HIDE DEF Below
    <3> QED BY <1>3, <2>1
  <2>3. rank[k] = Cardinality(Below(k)) /\ rank[k] \in Nat /\ rank[j] \in Nat
    BY <1>2
  <2> HIDE DEF Below
  <2> QED BY <2>2, <2>3
<1>6. ASSUME NEW j \in S, NEW k \in S, rank[j] = rank[k] PROVE j = k
  <2>1. j < k \/ k < j \/ j = k
    OBVIOUS
  <2>2. rank[j] \in Nat /\ rank[k] \in Nat
    BY <1>2
  <2> QED BY <1>5, <1>6, <2>1, <2>2
<1>7. rank \in Injection(S, 0 .. n - 1)
  <2>1. rank \in [S -> 0 .. n - 1]
    <3>1. rank = [k \in S |-> rank[k]]
      BY DEF Ranks
    <3> HIDE DEF n
    <3> QED BY <1>4, <3>1
  <2> HIDE DEF n
  <2> QED BY <1>6, <2>1 DEF Injection, IsInjective
<1>8. IsFiniteSet(0 .. n - 1) /\ Cardinality(0 .. n - 1) = n
  <2>1. 0 \in Int /\ n - 1 \in Int
    BY <1>1
  <2>2. IsFiniteSet(0 .. n - 1) /\ Cardinality(0 .. n - 1) = IF 0 > n - 1 THEN 0 ELSE n - 1 - 0 + 1
    BY <2>1, FS_Interval
  <2> QED BY <1>1, <2>2
<1>9. rank \in Surjection(S, 0 .. n - 1)
  <2>1. Cardinality(S) = Cardinality(0 .. n - 1)
    BY <1>8
  <2> HIDE DEF n
  <2> QED BY <1>7, <1>8, <2>1, FS_Injection
<1>10. \A m \in 0 .. n - 1 : \E k \in S : rank[k] = m
  <2> HIDE DEF n
  <2> QED BY <1>9 DEF Surjection
<1> HIDE DEF n
<1> QED BY <1>1, <1>4, <1>6, <1>10 DEF n, Ranked

(* The cells of a copy, as hash_for_each visits them. *)
LEMMA FieldCellsAre ==
  ASSUME NEW o \in Object, NEW p \in Pointer
  PROVE  FieldCells(p, o) \in Seq(Cell) /\ Range(FieldCells(p, o)) = Pointed(p, o)
<1> DEFINE S == {k \in DOMAIN o.fields : IsPtr(o.fields[k])}
           rank == [k \in S |-> Cardinality({j \in S : j < k})]
           n == Cardinality(S)
           Nth(m) == CHOOSE k \in S : Cardinality({j \in S : j < k}) = m - 1
           cells == [m \in 1 .. n |-> <<"field", p, Nth(m)>>]
<1>1. IsFiniteSet(DOMAIN o.fields) /\ DOMAIN o.fields \subseteq Nat
      /\ \A k \in DOMAIN o.fields : o.fields[k] \in Datum
  BY ObjectIs
<1>2. S = {k \in DOMAIN o.fields : o.fields[k] \in Pointer}
  BY <1>1, PointerIs
<1>3. S \in SUBSET Nat /\ IsFiniteSet(S)
  <2>1. S \in SUBSET (DOMAIN o.fields)
    OBVIOUS
  <2> HIDE DEF S
  <2> QED BY <1>1, <2>1, FS_Subset
<1>4. FieldCells(p, o) = cells
  <2> DEFINE nth == [m \in 1 .. n |-> Nth(m)]
  <2>1. nth = CHOOSE f : f = nth
    <3> HIDE DEF nth
    <3> QED OBVIOUS
  <2>2. \A m \in 1 .. n : nth[m] = Nth(m)
    OBVIOUS
  <2>3. FieldCells(p, o) = [m \in 1 .. n |-> <<"field", p, nth[m]>>]
    BY <2>1, Zenon DEF FieldCells
  <2> HIDE DEF nth, Nth
  <2> QED BY <2>2, <2>3
<1>5. \A k \in S : rank[k] = Cardinality({j \in S : j < k})
  OBVIOUS
<1>r. rank = [k \in S |-> Cardinality({j \in S : j < k})] /\ n = Cardinality(S)
  OBVIOUS
<1> HIDE DEF S, rank, n
<1>6. /\ n \in Nat /\ (\A k \in S : rank[k] \in 0 .. n - 1)
      /\ \A j, k \in S : rank[j] = rank[k] => j = k
      /\ \A m \in 0 .. n - 1 : \E k \in S : rank[k] = m
  <2>1. Ranks(S, rank)
    BY <1>r DEF Ranks
  <2>2. Ranked(S, Cardinality(S), rank)
    BY <1>3, <2>1, RankIs
  <2>3. Ranked(S, n, rank)
    BY <2>2, <1>r
  <2> QED BY <2>3 DEF Ranked
<1>7. ASSUME NEW m \in 1 .. n PROVE Nth(m) \in S /\ rank[Nth(m)] = m - 1
  <2>1. m - 1 \in 0 .. n - 1
    BY <1>6
  <2> DEFINE IsNth(k) == Cardinality({j \in S : j < k}) = m - 1
  <2>2. ASSUME NEW k \in S PROVE IsNth(k) <=> rank[k] = m - 1
    BY <1>5
  <2>3. Nth(m) = (CHOOSE k \in S : IsNth(k))
    OBVIOUS
  <2> HIDE DEF IsNth, Nth
  <2>4. \E k \in S : rank[k] = m - 1
    BY <2>1, <1>6, Zenon
  <2>5. \E k \in S : IsNth(k)
    BY <2>2, <2>4, Zenon
  <2>6. Nth(m) \in S /\ IsNth(Nth(m))
    BY <2>3, <2>5, Zenon
  <2> QED BY <2>2, <2>6
<1> HIDE DEF Nth
<1>8. cells \in Seq(Cell)
  <2>1. ASSUME NEW m \in 1 .. n PROVE <<"field", p, Nth(m)>> \in Cell
    <3>1. Nth(m) \in Nat
      BY <1>3, <1>7
    <3> QED BY <3>1 DEF Cell
  <2> QED BY <1>6, <2>1
<1>9. Range(cells) = {<<"field", p, i>> : i \in S}
  <2>1. \A m \in DOMAIN cells : cells[m] = <<"field", p, Nth(m)>> /\ m \in 1 .. n
    OBVIOUS
  <2>2. ASSUME NEW i \in S PROVE \E m \in DOMAIN cells : cells[m] = <<"field", p, i>>
    <3>1. rank[i] + 1 \in 1 .. n
      BY <1>6
    <3>2. rank[Nth(rank[i] + 1)] = rank[i]
      <4>1. rank[i] \in Nat
        BY <1>6
      <4>2. rank[Nth(rank[i] + 1)] = (rank[i] + 1) - 1
        BY <1>7, <3>1
      <4> QED BY <4>1, <4>2
    <3>3. Nth(rank[i] + 1) = i
      BY <3>1, <3>2, <1>6, <1>7
    <3> QED BY <3>1, <3>3
  <2>3. DOMAIN cells = 1 .. n
    OBVIOUS
  <2> HIDE DEF cells
  <2>4. \A x \in Range(cells) : x \in {<<"field", p, i>> : i \in S}
    BY <1>7, <2>1 DEF Range
  <2>5. \A x \in {<<"field", p, i>> : i \in S} : x \in Range(cells)
    BY <2>2, Zenon DEF Range
  <2> QED BY <2>4, <2>5
<1> HIDE DEF cells
<1> QED BY <1>2, <1>4, <1>8, <1>9 DEF Pointed

(* The first of the cells is taken away. *)
LEMMA TodoIs ==
  ASSUME NEW s \in Seq(Cell), s # <<>>
  PROVE  /\ Head(s) \in Range(s) /\ Tail(s) \in Seq(Cell)
         /\ Range(Tail(s)) \subseteq Range(s) /\ Range(s) \subseteq Range(Tail(s)) \cup {Head(s)}
<1>1. /\ Head(s) \in Cell /\ Tail(s) \in Seq(Cell) /\ Len(Tail(s)) = Len(s) - 1
      /\ \A i \in 1 .. Len(Tail(s)) : Tail(s)[i] = s[i + 1]
  BY HeadTailProperties
<1>2. Len(s) \in Nat \ {0} /\ DOMAIN s = 1 .. Len(s) /\ Head(s) = s[1]
  BY EmptySeq, LenProperties
<1>3. PICK t : t = Tail(s)
  OBVIOUS
<1>4. t \in Seq(Cell) /\ Len(t) = Len(s) - 1 /\ DOMAIN t = 1 .. Len(t)
      /\ \A i \in 1 .. Len(t) : t[i] = s[i + 1]
  BY <1>1, <1>3, LenProperties
<1>5. ASSUME NEW i \in 1 .. Len(t) PROVE t[i] \in Range(s)
  <2>1. i + 1 \in DOMAIN s /\ t[i] = s[i + 1]
    BY <1>2, <1>4
  <2> QED BY <2>1 DEF Range
<1>6. ASSUME NEW i \in 1 .. Len(s), i # 1 PROVE s[i] \in Range(t)
  <2>1. i - 1 \in DOMAIN t /\ t[i - 1] = s[(i - 1) + 1] /\ (i - 1) + 1 = i
    BY <1>2, <1>4, <1>6
  <2> QED BY <2>1 DEF Range
<1>7. Head(s) \in Range(s)
  <2>1. 1 \in DOMAIN s
    BY <1>2
  <2> QED BY <1>2, <2>1 DEF Range
<1>8. Range(t) \subseteq Range(s)
  BY <1>4, <1>5 DEF Range
<1>9. Range(s) \subseteq Range(t) \cup {Head(s)}
  <2> SUFFICES ASSUME NEW i \in DOMAIN s PROVE s[i] \in Range(t) \cup {Head(s)}
    BY Zenon DEF Range
  <2> QED BY <1>2, <1>6
<1> QED BY <1>1, <1>3, <1>7, <1>8, <1>9

(* The cells of two sequences. *)
LEMMA RangeJoined ==
  ASSUME NEW s \in Seq(Cell), NEW t \in Seq(Cell)
  PROVE  s \o t \in Seq(Cell) /\ Range(s \o t) = Range(s) \cup Range(t)
<1>1. PICK c : c = s \o t
  OBVIOUS
<1>2. PICK m, n : m = Len(s) /\ n = Len(t)
  OBVIOUS
<1>3. /\ c \in Seq(Cell) /\ m \in Nat /\ n \in Nat
      /\ DOMAIN s = 1 .. m /\ DOMAIN t = 1 .. n /\ DOMAIN c = 1 .. m + n
      /\ \A i \in 1 .. m + n : c[i] = IF i <= m THEN s[i] ELSE t[i - m]
  <2>1. c \in Seq(Cell) /\ Len(c) = Len(s) + Len(t)
        /\ \A i \in 1 .. Len(s) + Len(t) : c[i] = IF i <= Len(s) THEN s[i] ELSE t[i - Len(s)]
    BY <1>1, ConcatProperties
  <2>2. Len(s) \in Nat /\ Len(t) \in Nat /\ DOMAIN s = 1 .. Len(s) /\ DOMAIN t = 1 .. Len(t)
    BY LenProperties
  <2>3. DOMAIN c = 1 .. Len(c)
    BY <2>1, LenProperties
  <2> QED BY <1>2, <2>1, <2>2, <2>3
<1>4. ASSUME NEW i \in 1 .. m PROVE s[i] \in Range(c)
  <2>1. i \in DOMAIN c /\ c[i] = s[i]
    BY <1>3
  <2> QED BY <2>1 DEF Range
<1>5. ASSUME NEW i \in 1 .. n PROVE t[i] \in Range(c)
  <2>1. i + m \in DOMAIN c /\ c[i + m] = t[(i + m) - m] /\ (i + m) - m = i
    BY <1>3
  <2> QED BY <2>1 DEF Range
<1>6. ASSUME NEW i \in 1 .. m + n PROVE c[i] \in Range(s) \cup Range(t)
  <2>1. CASE i <= m
    <3>1. i \in DOMAIN s /\ c[i] = s[i]
      BY <2>1, <1>3
    <3> QED BY <3>1 DEF Range
  <2>2. CASE ~(i <= m)
    <3>1. i - m \in DOMAIN t /\ c[i] = t[i - m]
      BY <2>2, <1>3
    <3> QED BY <3>1 DEF Range
  <2> QED BY <2>1, <2>2
<1>7. Range(c) = Range(s) \cup Range(t)
  BY <1>3, <1>4, <1>5, <1>6 DEF Range
<1> QED BY <1>1, <1>3, <1>7

------------------------------------------------------------------------------
(* What a step of the collector leaves is well-formed when the new heap is.  *)
LEMMA BusyStep ==
  ASSUME Typed, Busy, pc = "gc", pc' = "gc", UNCHANGED <<current, pending, native, program>>,
         todo' \in Seq(Cell),
         Copying(current, heap', used', global', scenes', pending, Range(todo')),
         Reached(current, heap', global', scenes', {}),
         Len(scenes') = Len(scenes), \A s \in 1 .. Len(scenes) : scenes'[s].caller = scenes[s].caller,
         used'[current] = used[current], Len(heap'[current]) = Len(heap[current])
  PROVE  Typed' /\ Busy'
<1>1. /\ heap' \in Heaps /\ global' \in Pointer /\ scenes' \in Scenes /\ used' \in [{0, 1} -> Nat]
  BY DEF Copying, Room
<1>2. Typed'
  BY <1>1 DEF Typed, Heaps, Scenes
<1>3. NoForeach(native', scenes')
  <2>1. {scenes'[s].caller : s \in 1 .. Len(scenes')} = {scenes[s].caller : s \in 1 .. Len(scenes)}
    OBVIOUS
  <2> QED BY <2>1 DEF Busy, NoForeach
<1>4. used'[current] <= BlockSize /\ Len(heap'[current]) <= BlockSize
  BY DEF Busy
<1>5. Busy'
  BY <1>3, <1>4 DEF Busy, BlockSize
<1> QED BY <1>2, <1>5

(* The table that young_gen_gc_mark finds in a cell. *)
LEMMA SubjectIs ==
  ASSUME Typed, Busy, pc = "gc", NEW c, IsCell(heap, scenes, c), NEW w,
         w = Val(heap, global, scenes, c), w \in Pointer
  PROVE  /\ Subject(c) \in In(heap) /\ Subject(c)[1] = w[1] /\ w \in In(heap)
         /\ At(heap, Subject(c)).type # "redirect" /\ At(heap, Subject(c)).id = At(heap, w).id
         /\ At(heap, w).type # "redirect" => Subject(c) = w
<1>1. Read(c) = w
  BY DEF Read, Val, Obj, At
<1>2. w \in In(heap) /\ (c[1] # "reg" => At(heap, w).type # "redirect")
  BY DEF Busy, Copying, Values, Fit
<1>3. /\ Resolve(w) \in In(heap) /\ Resolve(w)[1] = w[1]
      /\ At(heap, Resolve(w)).type # "redirect" /\ At(heap, Resolve(w)).id = At(heap, w).id
      /\ At(heap, w).type # "redirect" => Resolve(w) = w
  BY <1>2, BusyIs, ResolveIs DEF Places, At, Obj
<1>4. Subject(c) = Resolve(w) \/ (Subject(c) = w /\ c[1] # "reg")
  BY <1>1 DEF Subject
<1>5. CASE Subject(c) = Resolve(w)
  BY <1>2, <1>3, <1>5
<1>6. CASE Subject(c) = w /\ c[1] # "reg"
  BY <1>2, <1>6
<1> QED BY <1>4, <1>5, <1>6

(* A cell that holds no pointer needs no mark. *)
LEMMA CopyingLess ==
  ASSUME NEW cur, NEW h, NEW u, NEW g, NEW scs, NEW pnd, NEW T, Copying(cur, h, u, g, scs, pnd, T),
         NEW c, Val(h, g, scs, c) \notin Pointer, NEW T2, T2 \subseteq T, T \subseteq T2 \cup {c}
  PROVE  Copying(cur, h, u, g, scs, pnd, T2)
<1>1. ToMark(cur, h, g, scs, T)
  BY DEF Copying
<1>2. ToMark(cur, h, g, scs, T2)
  BY <1>1 DEF ToMark
<1> QED BY <1>2 DEF Copying

(* The object of the cell has been copied before, or is a copy: the cell gets *)
(* the address of the copy.                                                   *)
LEMMA ForwardedIs ==
  ASSUME Typed, Busy, pc = "gc", todo # <<>>, NEW c, c = Head(todo), IsPtr(Read(c)),
         Obj(Subject(c)).type = "left" \/ Subject(c)[1] # current, Forwarded(c),
         NEW w, w = Val(heap, global, scenes, c), NEW p, p = Subject(c), NEW v, v = Fwd(heap, p)
  PROVE  /\ w \in Pointer /\ w \in In(heap)
         /\ p \in In(heap) /\ p[1] = w[1] /\ At(heap, p).type # "redirect"
         /\ At(heap, p).id = At(heap, w).id /\ (At(heap, w).type # "redirect" => p = w)
         /\ v \in In(heap) /\ At(heap, v).id = At(heap, p).id /\ v[1] = 1 - current /\ v \in Pointer
         /\ p[1] = 1 - current => v = p
         /\ WriteCell(c, v, heap) /\ todo' = Tail(todo) /\ used' = used
         /\ Written(heap, global, scenes, heap', global', scenes', c, v)
         /\ Len(scenes') = Len(scenes) /\ \A s \in 1 .. Len(scenes) : scenes'[s].caller = scenes[s].caller
<1>1. c \in Range(todo)
  BY TodoIs DEF Typed
<1>2. Copying(current, heap, used, global, scenes, pending, Range(todo))
  BY DEF Busy
<1>3. /\ heap \in Heaps /\ current \in {0, 1} /\ global \in Pointer /\ scenes \in Scenes
      /\ HeadersIn(current, heap) /\ IsCell(heap, scenes, c)
  BY <1>1, <1>2 DEF Copying, ToMark
<1>4. w \in Pointer
  <2>1. Read(c) = w
    BY DEF Read, Val, Obj, At
  <2>2. w \in Datum
    BY <1>3, ValTyped
  <2> QED BY <2>1, <2>2, PointerIs
<1>5. /\ p \in In(heap) /\ p[1] = w[1] /\ w \in In(heap) /\ At(heap, p).type # "redirect"
      /\ At(heap, p).id = At(heap, w).id /\ (At(heap, w).type # "redirect" => p = w)
  BY <1>3, <1>4, SubjectIs
<1>6. /\ WriteCell(c, v, heap) /\ todo' = Tail(todo) /\ used' = used
      /\ At(heap, p).type = "left" \/ p[1] # current
  BY DEF Forwarded, Fwd, Obj, At
<1>7. /\ v \in In(heap) /\ At(heap, v).id = At(heap, p).id
      /\ p[1] = 1 - current => v = p
      /\ p[1] = current \/ p[1] = 1 - current
  BY <1>3, <1>5, CopyIs
<1>8. v[1] = 1 - current
  <2>1. CASE At(heap, p).type = "left"
    BY <2>1, <1>3, <1>5 DEF Fwd, HeadersIn
  <2>2. CASE At(heap, p).type # "left"
    BY <2>2, <1>6, <1>7
  <2> QED BY <2>1, <2>2
<1>9. v \in Pointer
  BY <1>7 DEF In
<1>10. /\ Written(heap, global, scenes, heap', global', scenes', c, v)
       /\ Len(scenes') = Len(scenes) /\ \A s \in 1 .. Len(scenes) : scenes'[s].caller = scenes[s].caller
  BY <1>3, <1>6, <1>9, WrittenIs
<1> QED BY <1>4, <1>5, <1>6, <1>7, <1>8, <1>9, <1>10

(* Such a cell keeps what holds during a collection. *)
LEMMA ForwardedStep ==
  ASSUME Typed, Busy, pc = "gc", pc' = "gc", UNCHANGED <<current, pending, native, program>>,
         todo # <<>>, NEW c, c = Head(todo), IsPtr(Read(c)),
         Obj(Subject(c)).type = "left" \/ Subject(c)[1] # current, Forwarded(c)
  PROVE  Typed' /\ Busy'
<1>1. /\ c \in Range(todo) /\ Tail(todo) \in Seq(Cell)
      /\ Range(Tail(todo)) \subseteq Range(todo) /\ Range(todo) \subseteq Range(Tail(todo)) \cup {c}
  BY TodoIs DEF Typed
<1>2. /\ Copying(current, heap, used, global, scenes, pending, Range(todo))
      /\ Reached(current, heap, global, scenes, {})
  BY DEF Busy
<1>3. /\ heap \in Heaps /\ current \in {0, 1} /\ global \in Pointer /\ scenes \in Scenes
      /\ HeadersIn(current, heap) /\ IsCell(heap, scenes, c) /\ InCopy(current, c)
  BY <1>1, <1>2 DEF Copying, ToMark
<1>4. PICK w, p, v : w = Val(heap, global, scenes, c) /\ p = Subject(c) /\ v = Fwd(heap, p)
  OBVIOUS
<1>5. /\ w \in Pointer /\ w \in In(heap)
      /\ p \in In(heap) /\ p[1] = w[1] /\ At(heap, p).type # "redirect"
      /\ At(heap, p).id = At(heap, w).id /\ (At(heap, w).type # "redirect" => p = w)
      /\ v \in In(heap) /\ At(heap, v).id = At(heap, p).id /\ v[1] = 1 - current /\ v \in Pointer
      /\ p[1] = 1 - current => v = p
      /\ WriteCell(c, v, heap) /\ todo' = Tail(todo) /\ used' = used
      /\ Written(heap, global, scenes, heap', global', scenes', c, v)
      /\ Len(scenes') = Len(scenes) /\ \A s \in 1 .. Len(scenes) : scenes'[s].caller = scenes[s].caller
  BY <1>4, ForwardedIs
<1>6. Copying(current, heap', used, global', scenes', pending, Range(Tail(todo)))
  <2>1. At(heap, w).type # "redirect" => v = Fwd(heap, w)
    BY <1>4, <1>5
  <2>2. At(heap, v).id = At(heap, w).id
    BY <1>5
  <2> QED BY <1>1, <1>2, <1>3, <1>4, <1>5, <2>1, <2>2, CopyingWritten
<1>7. Reached(current, heap', global', scenes', {})
  <2>1. w[1] = 1 - current => v = w
    <3> SUFFICES ASSUME w[1] = 1 - current PROVE v = w
      OBVIOUS
    <3>1. At(heap, w).type \in {"object", "closure"}
      BY <1>3, <1>5, CopyIs
    <3>2. p = w
      BY <3>1, <1>5
    <3> QED BY <3>2, <1>5
  <2>2. PICK X : X = {}
    OBVIOUS
  <2>3. Reached(current, heap, global, scenes, X) /\ X \subseteq {v}
        /\ (v \in X /\ c[1] = "field" => c[2][2] < v[2])
    BY <1>2, <2>2
  <2> QED BY <1>3, <1>4, <1>5, <2>1, <2>3, ReachedWritten
<1>8. used'[current] = used[current] /\ Len(heap'[current]) = Len(heap[current])
  BY <1>3, <1>5 DEF Written, SameHeaders
<1> QED BY <1>1, <1>5, <1>6, <1>7, <1>8, BusyStep

(* The object that Moved copies is left behind with the address of its copy. *)
LeftHeader(o, q) == [o EXCEPT !.type = "left", !.cap = 0, !.fwd = q]
LeftHeap(h, to, copy, cur, p, q) ==
  [h EXCEPT ![to] = Append(@, copy),
            ![cur][p[2]].type = "left", ![cur][p[2]].cap = 0, ![cur][p[2]].fwd = q]

(* How Moved changes the heap. *)
LEMMA LeftIs ==
  ASSUME NEW h \in Heaps, NEW cur \in {0, 1}, NEW to, to = 1 - cur, NEW p \in In(h), p[1] = cur,
         NEW q \in Pointer, NEW copy \in Object
  PROVE  /\ LeftBy(At(h, p), q, LeftHeader(At(h, p), q))
         /\ LeftHeap(h, to, copy, cur, p, q) = Store(Grown(h, to, copy), p, LeftHeader(At(h, p), q))
<1> DEFINE header == LeftHeader(At(h, p), q)
<1>1. At(h, p) \in Object /\ to \in {0, 1} /\ to # cur /\ p[2] \in 1 .. Len(h[cur]) /\ h[cur] \in Seq(Object)
  BY AtIs
<1>2. LeftBy(At(h, p), q, header)
  BY <1>1 DEF LeftBy, Object, LeftHeader
<1> DEFINE s == h[cur]  i == p[2]
           t == [s EXCEPT ![i].type = "left", ![i].cap = 0, ![i].fwd = q]
<1>3. t = [s EXCEPT ![i] = header]
  <2>1. s[i] = At(h, p)
    BY DEF At
  <2> QED BY <1>1, <2>1 DEF LeftHeader
<1>4. [h EXCEPT ![to] = Append(@, copy), ![cur][i].type = "left", ![cur][i].cap = 0, ![cur][i].fwd = q]
        = [h EXCEPT ![to] = Append(@, copy), ![cur] = t]
  <2> DEFINE g == [h EXCEPT ![to] = Append(@, copy)]
             t1 == [s EXCEPT ![i].type = "left"]  t2 == [t1 EXCEPT ![i].cap = 0]
             g1 == [g EXCEPT ![cur][i].type = "left"]  g2 == [g1 EXCEPT ![cur][i].cap = 0]
             g3 == [g2 EXCEPT ![cur][i].fwd = q]
  <2>1. DOMAIN g = {0, 1} /\ g[cur] = s
    BY <1>1 DEF Heaps
  <2>2. t = [t2 EXCEPT ![i].fwd = q]
    OBVIOUS
  <2>3. g1 = [g EXCEPT ![cur] = t1]
    <3> HIDE DEF g, s
    <3> QED BY <2>1
  <2>4. DOMAIN g1 = {0, 1} /\ g1[cur] = t1
    <3> HIDE DEF g, t1
    <3> QED BY <2>1, <2>3
  <2>5. g2 = [g1 EXCEPT ![cur] = t2]
    <3> HIDE DEF g1, t1
    <3> QED BY <2>4
  <2>6. DOMAIN g2 = {0, 1} /\ g2[cur] = t2
    <3> HIDE DEF g1, t2
    <3> QED BY <2>4, <2>5
  <2>7. g3 = [g2 EXCEPT ![cur] = t]
    <3> HIDE DEF g2, t2, t
    <3> QED BY <2>2, <2>6
  <2>8. g3 = [g EXCEPT ![cur] = t]
    <3> HIDE DEF g, g1, g2, t1, t2, t
    <3> QED BY <2>1, <2>3, <2>5, <2>7
  <2> QED BY <2>8
<1>5. Store(Grown(h, to, copy), p, header) = [h EXCEPT ![to] = Append(@, copy), ![cur] = [s EXCEPT ![i] = header]]
  <2> HIDE DEF header
  <2> QED BY <1>1 DEF Store, Grown, Heaps
<1> QED BY <1>2, <1>3, <1>4, <1>5 DEF LeftHeap

(* The copy of an object takes no more words than the object. *)
LEMMA CopyFits ==
  ASSUME NEW o \in Object, NEW copy, copy = IF NeedShrink(o) THEN [o EXCEPT !.cap = @ \div 2] ELSE o
  PROVE  CopyOf(o, copy.cap, copy) /\ copy.cap \in Nat /\ copy.cap <= o.cap
<1>1. o.cap \in Nat
  BY DEF Object
<1>2. o.cap \div 2 \in Nat /\ o.cap \div 2 <= o.cap
  BY <1>1
<1>3. PICK half : half = o.cap \div 2
  OBVIOUS
<1>4. copy = o \/ copy = [o EXCEPT !.cap = half]
  BY <1>3
<1> QED BY <1>1, <1>2, <1>3, <1>4 DEF CopyOf, Object

(* The object of the cell is copied, and the cell gets the address of the copy: *)
(* the cell c holds w, which leads to p; the copy of p goes to q, and k is the  *)
(* heap with the copy and the header left at p.                                 *)
MovesTo(c, w, p, copy, to, q, k, cap) ==
  /\ w = Val(heap, global, scenes, c) /\ p = Subject(c)
  /\ copy = IF NeedShrink(At(heap, p)) THEN [At(heap, p) EXCEPT !.cap = @ \div 2] ELSE At(heap, p)
  /\ to = 1 - current /\ q = <<to, Len(heap[to]) + 1>>
  /\ k = Store(Grown(heap, to, copy), p, LeftHeader(At(heap, p), q)) /\ cap = copy.cap
LEMMA MovedIs ==
  ASSUME Typed, Busy, pc = "gc", todo # <<>>, NEW c, c = Head(todo), IsPtr(Read(c)),
         Obj(Subject(c)).type # "left", Subject(c)[1] = current, Moved(c),
         NEW w, NEW p, NEW copy, NEW to, NEW q, NEW k, NEW cap, MovesTo(c, w, p, copy, to, q, k, cap)
  PROVE  /\ w \in Pointer /\ p \in In(heap) /\ p[1] = w[1] /\ w \in In(heap) /\ At(heap, p).type # "redirect"
         /\ At(heap, p).id = At(heap, w).id /\ (At(heap, w).type # "redirect" => p = w)
         /\ p[1] = current /\ At(heap, p).type \in {"object", "closure"} /\ At(heap, p) \in Object
         /\ copy \in Object /\ copy.fields = At(heap, p).fields
         /\ q \in Pointer /\ q[1] = 1 - current /\ q[2] = Len(heap[to]) + 1
         /\ WriteCell(c, q, k) /\ used' = [used EXCEPT ![to] = @ + 1 + cap]
         /\ todo' = FieldCells(q, copy) \o Tail(todo)
         /\ used' \in [{0, 1} -> Nat] /\ used'[current] = used[current]
         /\ Copied(current, heap, k, p, q, cap) /\ Room(current, k, used')
         /\ IsCell(k, scenes, c) /\ w = Val(k, global, scenes, c)
         /\ k \in Heaps /\ q \in In(k) /\ q \notin In(heap) /\ Len(k[current]) = Len(heap[current])
         /\ Written(k, global, scenes, heap', global', scenes', c, q)
         /\ Len(scenes') = Len(scenes) /\ \A s \in 1 .. Len(scenes) : scenes'[s].caller = scenes[s].caller
<1>0. /\ w = Val(heap, global, scenes, c) /\ p = Subject(c)
      /\ copy = IF NeedShrink(At(heap, p)) THEN [At(heap, p) EXCEPT !.cap = @ \div 2] ELSE At(heap, p)
      /\ to = 1 - current /\ q = <<to, Len(heap[to]) + 1>>
      /\ k = Store(Grown(heap, to, copy), p, LeftHeader(At(heap, p), q)) /\ cap = copy.cap
  BY DEF MovesTo
<1>1. c \in Range(todo)
  BY TodoIs DEF Typed
<1>2. Copying(current, heap, used, global, scenes, pending, Range(todo))
  BY DEF Busy
<1>3. /\ heap \in Heaps /\ current \in {0, 1} /\ global \in Pointer /\ scenes \in Scenes
      /\ Room(current, heap, used) /\ IsCell(heap, scenes, c)
  BY <1>1, <1>2 DEF Copying, ToMark
<1>4. w \in Pointer
  <2>1. Read(c) = w
    BY <1>0 DEF Read, Val, Obj, At
  <2>2. w \in Datum
    BY <1>0, <1>3, ValTyped
  <2> QED BY <2>1, <2>2, PointerIs
<1>5. /\ p \in In(heap) /\ p[1] = w[1] /\ w \in In(heap) /\ At(heap, p).type # "redirect"
      /\ At(heap, p).id = At(heap, w).id /\ (At(heap, w).type # "redirect" => p = w)
      /\ p[1] = current /\ At(heap, p).type # "left"
  BY <1>0, <1>3, <1>4, SubjectIs DEF At, Obj
<1>6. At(heap, p) \in Object /\ At(heap, p).type \in {"object", "closure"}
  BY <1>3, <1>5, AtIs, ObjectIs
<1>7. PICK header : header = LeftHeader(At(heap, p), q)
  OBVIOUS
<1>8. CopyOf(At(heap, p), cap, copy) /\ cap \in Nat /\ cap <= At(heap, p).cap /\ copy \in Object
  <2>1. CopyOf(At(heap, p), copy.cap, copy) /\ copy.cap \in Nat /\ copy.cap <= At(heap, p).cap
    BY <1>0, <1>6, CopyFits
  <2> QED BY <1>0, <2>1 DEF CopyOf
<1>9. q \in Pointer /\ q[1] = 1 - current /\ q[2] = Len(heap[to]) + 1
  <2>1. to \in {0, 1} /\ Len(heap[to]) \in Nat
    BY <1>0, <1>3, LenProperties DEF Heaps
  <2> QED BY <1>0, <2>1 DEF Pointer
<1>10. /\ WriteCell(c, q, k) /\ used' = [used EXCEPT ![to] = @ + 1 + cap]
       /\ todo' = FieldCells(q, copy) \o Tail(todo)
  <2>1. LeftHeap(heap, to, copy, current, p, q) = k
    BY <1>0, <1>3, <1>5, <1>7, <1>8, <1>9, LeftIs
  <2>2. /\ WriteCell(c, q, LeftHeap(heap, to, copy, current, p, q))
        /\ used' = [used EXCEPT ![to] = @ + 1 + copy.cap]
        /\ todo' = FieldCells(q, copy) \o Tail(todo)
    BY <1>0, Zenon DEF Moved, TakenIn, Obj, At, LeftHeap
  <2> QED BY <1>0, <2>1, <2>2
<1>11. LeftBy(At(heap, p), q, header)
  BY <1>0, <1>3, <1>5, <1>7, <1>8, <1>9, LeftIs
<1>12. used' \in [{0, 1} -> Nat] /\ used'[current] = used[current] /\ used'[1 - current] = used[1 - current] + 1 + cap
  <2>1. used \in [{0, 1} -> Nat] /\ 1 - current \in {0, 1} /\ 1 - current # current
    BY <1>3 DEF Room
  <2> QED BY <1>0, <2>1, <1>8, <1>10
<1>13. Copied(current, heap, k, p, q, cap) /\ Room(current, k, used')
  <2>1. q = <<1 - current, Len(heap[1 - current]) + 1>> /\ k = Store(Grown(heap, 1 - current, copy), p, header)
    BY <1>0, <1>7
  <2> QED BY <2>1, <1>3, <1>5, <1>8, <1>11, <1>12, CopiedIs
<1>14. IsCell(k, scenes, c) /\ w = Val(k, global, scenes, c)
  BY <1>0, <1>3, <1>5, <1>13, CellsCopied
<1>15. k \in Heaps /\ q \in In(k) /\ q \notin In(heap) /\ Len(k[current]) = Len(heap[current])
       /\ copy.fields = At(heap, p).fields
  BY <1>8, <1>13 DEF Copied, CopyOf
<1>16. /\ Written(k, global, scenes, heap', global', scenes', c, q)
       /\ Len(scenes') = Len(scenes) /\ \A s \in 1 .. Len(scenes) : scenes'[s].caller = scenes[s].caller
  BY <1>3, <1>9, <1>10, <1>14, <1>15, WrittenIs
<1> QED BY <1>4, <1>5, <1>6, <1>8, <1>9, <1>10, <1>12, <1>13, <1>14, <1>15, <1>16

(* The copy keeps what holds during a collection. *)
LEMMA MovedStep ==
  ASSUME Typed, Busy, pc = "gc", pc' = "gc", UNCHANGED <<current, pending, native, program>>,
         todo # <<>>, NEW c, c = Head(todo), IsPtr(Read(c)),
         Obj(Subject(c)).type # "left", Subject(c)[1] = current, Moved(c)
  PROVE  Typed' /\ Busy'
<1>1. /\ c \in Range(todo) /\ Tail(todo) \in Seq(Cell)
      /\ Range(Tail(todo)) \subseteq Range(todo) /\ Range(todo) \subseteq Range(Tail(todo)) \cup {c}
  BY TodoIs DEF Typed
<1>2. /\ Copying(current, heap, used, global, scenes, pending, Range(todo))
      /\ Reached(current, heap, global, scenes, {})
  BY DEF Busy
<1>3. /\ heap \in Heaps /\ current \in {0, 1} /\ global \in Pointer /\ scenes \in Scenes
      /\ HeadersIn(current, heap) /\ Forwarding(current, heap) /\ Room(current, heap, used)
      /\ IsCell(heap, scenes, c) /\ InCopy(current, c)
  BY <1>1, <1>2 DEF Copying, ToMark
<1>4. PICK w, p, copy, to, q, k, cap : MovesTo(c, w, p, copy, to, q, k, cap)
  BY DEF MovesTo
<1>5. /\ w \in Pointer /\ p \in In(heap) /\ p[1] = w[1] /\ w \in In(heap) /\ At(heap, p).type # "redirect"
      /\ At(heap, p).id = At(heap, w).id /\ (At(heap, w).type # "redirect" => p = w)
      /\ p[1] = current /\ At(heap, p).type \in {"object", "closure"} /\ At(heap, p) \in Object
      /\ copy \in Object /\ copy.fields = At(heap, p).fields
      /\ q \in Pointer /\ q[1] = 1 - current /\ q[2] = Len(heap[to]) + 1
      /\ WriteCell(c, q, k) /\ used' = [used EXCEPT ![to] = @ + 1 + cap]
      /\ todo' = FieldCells(q, copy) \o Tail(todo)
      /\ used' \in [{0, 1} -> Nat] /\ used'[current] = used[current]
      /\ Copied(current, heap, k, p, q, cap) /\ Room(current, k, used')
      /\ IsCell(k, scenes, c) /\ w = Val(k, global, scenes, c)
      /\ k \in Heaps /\ q \in In(k) /\ q \notin In(heap) /\ Len(k[current]) = Len(heap[current])
      /\ Written(k, global, scenes, heap', global', scenes', c, q)
      /\ Len(scenes') = Len(scenes) /\ \A s \in 1 .. Len(scenes) : scenes'[s].caller = scenes[s].caller
  BY <1>4, MovedIs
<1>6. PICK N : N = Pointed(q, At(heap, p))
  OBVIOUS
<1>7. Copying(current, k, used', global, scenes, pending, Range(todo) \cup N)
  <2>1. PICK u, T : u = used' /\ T = Range(todo)
    OBVIOUS
  <2>2. Copying(current, heap, used, global, scenes, pending, T) /\ Room(current, k, u)
    BY <1>2, <1>5, <2>1
  <2>3. Copying(current, k, u, global, scenes, pending, T \cup N)
    BY <1>5, <1>6, <2>2, CopyingCopied
  <2> QED BY <2>1, <2>3
<1>8. Reached(current, k, global, scenes, {q})
  BY <1>2, <1>3, <1>5, ReachedCopied
<1>9. todo' \in Seq(Cell) /\ Range(todo') = N \cup Range(Tail(todo))
  <2>1. FieldCells(q, copy) \in Seq(Cell) /\ Range(FieldCells(q, copy)) = Pointed(q, copy)
    BY <1>5, FieldCellsAre
  <2>2. Pointed(q, copy) = N
    BY <1>6, <1>5 DEF Pointed
  <2> QED BY <2>1, <2>2, <1>1, <1>5, RangeJoined
<1>10. /\ At(k, q).id = At(k, w).id /\ (At(k, w).type # "redirect" => q = Fwd(k, w))
  <2>1. /\ \A v \in In(heap) : Fwd(k, v) = IF Fwd(heap, v) = p THEN q ELSE Fwd(heap, v)
        /\ \A v \in In(heap) : /\ At(k, v).id = At(heap, v).id
                               /\ At(k, v).type = "redirect" <=> At(heap, v).type = "redirect"
        /\ At(k, q).id = At(heap, p).id
    BY <1>3, <1>5, HeadersCopied
  <2>2. At(heap, w).type # "redirect" => Fwd(heap, w) = p
    BY <1>5 DEF Fwd
  <2> QED BY <2>1, <2>2, <1>5
<1>11. Copying(current, heap', used', global', scenes', pending, Range(todo'))
  <2>1. Range(todo') \subseteq Range(todo) \cup N /\ Range(todo) \cup N \subseteq Range(todo') \cup {c}
    BY <1>1, <1>9
  <2>2. /\ w \in Pointer /\ q \in Pointer /\ q[1] = 1 - current /\ q \in In(k) /\ k \in Heaps
        /\ IsCell(k, scenes, c) /\ w = Val(k, global, scenes, c) /\ p[1] = current /\ p[1] = w[1]
        /\ Written(k, global, scenes, heap', global', scenes', c, q)
    BY <1>5
  <2> QED BY <1>3, <1>7, <1>10, <2>1, <2>2, CopyingWritten
<1>12. Reached(current, heap', global', scenes', {})
  <2>1. w[1] = 1 - current => q = w
    <3>1. w[1] = current /\ current # 1 - current
      BY <1>3, <1>5
    <3> QED BY <3>1
  <2>2. PICK X : X = {q}
    OBVIOUS
  <2>3. c[1] = "field" => c[2][2] < q[2]
    <3> SUFFICES ASSUME c[1] = "field" PROVE c[2][2] < q[2]
      OBVIOUS
    <3>1. c[2] \in In(heap) /\ c[2][1] = to
      BY <1>3, <1>4, CellIs DEF InCopy, MovesTo
    <3>2. c[2][2] \in 1 .. Len(heap[to]) /\ Len(heap[to]) \in Nat
      BY <3>1, <1>3, AtIs
    <3> QED BY <3>2, <1>5
  <2>4. Reached(current, k, global, scenes, X) /\ X \subseteq {q}
        /\ (q \in X /\ c[1] = "field" => c[2][2] < q[2])
    BY <1>8, <2>2, <2>3
  <2> QED BY <1>3, <1>5, <2>1, <2>4, ReachedWritten
<1>13. Len(heap'[current]) = Len(heap[current])
  BY <1>3, <1>5 DEF Written, SameHeaders
<1> QED BY <1>5, <1>9, <1>11, <1>12, <1>13, BusyStep

(* One call of young_gen_gc_mark. *)
LEMMA MarkStep ==
  ASSUME ~CollectPastEnd, Typed, Busy, Mark
  PROVE  Typed' /\ Busy' /\ pc' = "gc"
<1>1. PICK c : c = Head(todo)
  OBVIOUS
<1>2. /\ pc = "gc" /\ pc' = "gc" /\ todo # <<>> /\ UNCHANGED <<current, pending, native, program>>
      /\ IF ~IsPtr(Read(c)) THEN todo' = Tail(todo) /\ UNCHANGED <<heap, used, global, scenes>>
         ELSE IF Obj(Subject(c)).type = "left" \/ Subject(c)[1] # current THEN Forwarded(c)
         ELSE Moved(c)
  BY <1>1, Zenon DEF Mark
<1>3. CASE ~IsPtr(Read(c))
  <2>1. todo' = Tail(todo) /\ UNCHANGED <<heap, used, global, scenes>>
    BY <1>2, <1>3
  <2>2. /\ c \in Range(todo) /\ Tail(todo) \in Seq(Cell)
        /\ Range(Tail(todo)) \subseteq Range(todo) /\ Range(todo) \subseteq Range(Tail(todo)) \cup {c}
    BY <1>1, <1>2, TodoIs DEF Typed
  <2>3. Copying(current, heap, used, global, scenes, pending, Range(todo)) /\ Reached(current, heap, global, scenes, {})
    BY DEF Busy
  <2>4. Val(heap, global, scenes, c) \notin Pointer
    <3>1. IsCell(heap, scenes, c) /\ heap \in Heaps /\ global \in Pointer /\ scenes \in Scenes
      BY <2>2, <2>3 DEF Copying, ToMark
    <3>2. Val(heap, global, scenes, c) \in Datum
      BY <3>1, ValTyped
    <3>3. Read(c) = Val(heap, global, scenes, c)
      BY DEF Read, Val, Obj, At
    <3> QED BY <3>2, <3>3, <1>3, PointerIs
  <2>5. Copying(current, heap, used, global, scenes, pending, Range(Tail(todo)))
    BY <2>2, <2>3, <2>4, CopyingLess
  <2> QED BY <1>2, <2>1, <2>2, <2>3, <2>5, BusyStep
<1>4. CASE IsPtr(Read(c)) /\ (Obj(Subject(c)).type = "left" \/ Subject(c)[1] # current)
  BY <1>1, <1>2, <1>4, ForwardedStep
<1>5. CASE IsPtr(Read(c)) /\ Obj(Subject(c)).type # "left" /\ Subject(c)[1] = current
  BY <1>1, <1>2, <1>5, MovedStep
<1> QED BY <1>2, <1>3, <1>4, <1>5

(* Sequences of cells, joined one after the other. *)
Joining(f, n, first, part) == f = [i \in 0 .. n |-> IF i = 0 THEN first ELSE f[i - 1] \o part[i]]

Joins(n, first, part) ==
  /\ \E f : Joining(f, n, first, part)
  /\ \A f : Joining(f, n, first, part) =>
       /\ f[n] \in Seq(Cell)
       /\ \A c : c \in Range(f[n]) <=> c \in Range(first) \/ \E i \in 1 .. n : c \in Range(part[i])

(* A recursive concatenation has every element of its parts. *)
LEMMA JoiningIs ==
  ASSUME NEW n \in Nat, NEW first \in Seq(Cell), NEW part \in [1 .. n -> Seq(Cell)]
  PROVE  Joins(n, first, part)
<1> DEFINE J(x, i) == x \o part[i]
           Is(f, m) == f = [i \in 0 .. m |-> IF i = 0 THEN first ELSE J(f[i - 1], i)]
           S == {m \in Nat : \E f : Is(f, m)}
<1>1. \A x \in Seq(Cell), i \in 1 .. n :
        J(x, i) \in Seq(Cell) /\ Range(J(x, i)) = Range(x) \cup Range(part[i])
  BY RangeJoined
<1>2. \A f : Joining(f, n, first, part) <=> Is(f, n)
  BY DEF Joining
<1> HIDE DEF J
<1>3. 0 \in S
  <2> DEFINE f == [i \in 0 .. 0 |-> first]
  <2>1. Is(f, 0)
    OBVIOUS
  <2> QED BY <2>1
<1>4. ASSUME NEW m \in Nat, m \in S PROVE m + 1 \in S
  <2>1. PICK f : Is(f, m)
    BY <1>4
  <2> DEFINE g == [i \in 0 .. m + 1 |-> IF i = 0 THEN first ELSE J(f[i - 1], i)]
  <2>2. \A i \in 0 .. m : f[i] = g[i]
    BY <2>1
  <2>3. \A i \in 0 .. m + 1 : i # 0 => f[i - 1] = g[i - 1]
    <3> SUFFICES ASSUME NEW i \in 0 .. m + 1, i # 0 PROVE f[i - 1] = g[i - 1]
      OBVIOUS
    <3>1. i - 1 \in 0 .. m
      OBVIOUS
    <3> HIDE DEF g
    <3> QED BY <2>2, <3>1
  <2>4. g = [i \in 0 .. m + 1 |-> IF i = 0 THEN first ELSE J(g[i - 1], i)]
    <3>1. \A i \in 0 .. m + 1 : (IF i = 0 THEN first ELSE J(f[i - 1], i)) = (IF i = 0 THEN first ELSE J(g[i - 1], i))
      BY <2>3
    <3> QED BY <3>1
  <2> HIDE DEF g
  <2>5. Is(g, m + 1)
    BY <2>4
  <2> HIDE DEF Is
  <2> QED BY <2>5
<1>5. \E f : Is(f, n)
  <2>1. n \in S
    <3> HIDE DEF S
    <3> QED BY <1>3, <1>4, NatInd
  <2> QED BY <2>1
<1>6. ASSUME NEW f, Is(f, n)
      PROVE  /\ f[n] \in Seq(Cell)
             /\ \A c : c \in Range(f[n]) <=> c \in Range(first) \/ \E i \in 1 .. n : c \in Range(part[i])
  <2> DEFINE Fine(m) == /\ f[m] \in Seq(Cell)
                        /\ \A c : c \in Range(f[m]) <=> c \in Range(first) \/ \E i \in 1 .. m : c \in Range(part[i])
             T == {m \in Nat : m <= n => Fine(m)}
  <2>1. f[0] = first /\ \A m \in 0 .. n - 1 : f[m + 1] = J(f[m], m + 1)
    BY <1>6
  <2>2. Fine(0)
    BY <2>1
  <2>3. ASSUME NEW m \in Nat, m + 1 <= n, Fine(m) PROVE Fine(m + 1)
    <3>1. m \in 0 .. n - 1 /\ m + 1 \in 1 .. n
      BY <2>3
    <3>2. f[m + 1] \in Seq(Cell) /\ Range(f[m + 1]) = Range(f[m]) \cup Range(part[m + 1])
      BY <1>1, <2>1, <2>3, <3>1
    <3>3. \A c : (\E i \in 1 .. m + 1 : c \in Range(part[i]))
                   <=> (\E i \in 1 .. m : c \in Range(part[i])) \/ c \in Range(part[m + 1])
      <4>1. \A i : i \in 1 .. m + 1 <=> i \in 1 .. m \/ i = m + 1
        OBVIOUS
      <4> QED BY <4>1, Zenon
    <3>4. \A c : c \in Range(f[m + 1]) <=> c \in Range(first) \/ \E i \in 1 .. m + 1 : c \in Range(part[i])
      BY <3>2, <3>3, <2>3, Zenon
    <3> QED BY <3>2, <3>4
  <2>4. 0 \in T
    BY <2>2
  <2>5. ASSUME NEW m \in Nat, m \in T PROVE m + 1 \in T
    <3>1. m + 1 <= n => m <= n
      OBVIOUS
    <3> HIDE DEF Fine
    <3> QED BY <2>3, <2>5, <3>1
  <2>6. n \in T
    <3> HIDE DEF T
    <3> QED BY <2>4, <2>5, NatInd
  <2> HIDE DEF Fine
  <2>7. Fine(n)
    BY <2>6
  <2> QED BY <2>7 DEF Fine
<1> HIDE DEF Is
<1> QED BY <1>2, <1>5, <1>6 DEF Joins

(* What cvm_young_gc starts with: the cells of the roots. *)
RootCell(scs, c) ==
  \/ c = <<"global">>
  \/ \E s \in 1 .. Len(scs) : c = <<"external", s>>
  \/ \E s \in 1 .. Len(scs) : \E f \in 1 .. Len(scs[s].frames) : \E r \in Reg : c = <<"reg", s, f, r>>

(* The cells of a frame. *)
LEMMA RegCellsAre ==
  ASSUME NEW s \in Nat, NEW f \in Nat
  PROVE  /\ RegCells(s, f) \in Seq(Cell)
         /\ \A c : c \in Range(RegCells(s, f)) <=> \E r \in Reg : c = <<"reg", s, f, r>>
<1>1. RegisterNr \in Nat /\ Reg = 1 .. RegisterNr
  BY FramesAssumption DEF Reg
<1>2. \A r \in Reg : <<"reg", s, f, r>> \in Cell
  BY DEF Cell
<1>3. RegCells(s, f) \in [1 .. RegisterNr -> Cell] /\ \A r \in Reg : RegCells(s, f)[r] = <<"reg", s, f, r>>
  BY <1>1, <1>2 DEF RegCells
<1>4. RegCells(s, f) \in Seq(Cell) /\ DOMAIN RegCells(s, f) = Reg
  BY <1>1, <1>3
<1> QED BY <1>3, <1>4 DEF Range

(* The cells of a scene. *)
LEMMA SceneCellsAre ==
  ASSUME scenes \in Scenes, NEW s \in 1 .. Len(scenes)
  PROVE  /\ SceneCells(s) \in Seq(Cell)
         /\ \A c : c \in Range(SceneCells(s)) <=>
              c = <<"external", s>> \/ \E f \in 1 .. Len(scenes[s].frames) : \E r \in Reg : c = <<"reg", s, f, r>>
<1> DEFINE n == Len(scenes[s].frames)  first == << <<"external", s>> >>
           part == [f \in 1 .. n |-> RegCells(s, f)]
           Is(g) == g = [f \in 0 .. n |-> IF f = 0 THEN first ELSE g[f - 1] \o RegCells(s, f)]
<1>1. n \in Nat /\ s \in Nat
  BY SceneIs
<1>2. <<"external", s>> \in Cell
  BY <1>1 DEF Cell
<1>3. first \in Seq(Cell) /\ Range(first) = {<<"external", s>>}
  <2>1. first \in Seq(Cell) /\ DOMAIN first = {1} /\ first[1] = <<"external", s>>
    BY <1>2
  <2> HIDE DEF first
  <2> QED BY <2>1 DEF Range
<1>4. SceneCells(s) = (CHOOSE g : Is(g))[n]
  BY DEF SceneCells
<1> HIDE DEF first, n
<1>5. part \in [1 .. n -> Seq(Cell)]
  BY <1>1, RegCellsAre
<1>6. \A g : Is(g) <=> Joining(g, n, first, part)
  <2> TAKE g
  <2>1. \A f \in 0 .. n : (IF f = 0 THEN first ELSE g[f - 1] \o RegCells(s, f))
                            = (IF f = 0 THEN first ELSE g[f - 1] \o part[f])
    <3> SUFFICES ASSUME NEW f \in 0 .. n, f # 0 PROVE RegCells(s, f) = part[f]
      OBVIOUS
    <3>1. f \in 1 .. n
      BY <1>1
    <3> QED BY <3>1
  <2>2. [f \in 0 .. n |-> IF f = 0 THEN first ELSE g[f - 1] \o RegCells(s, f)]
          = [f \in 0 .. n |-> IF f = 0 THEN first ELSE g[f - 1] \o part[f]]
    <3> HIDE DEF part
    <3> QED BY <2>1, Zenon
  <2> HIDE DEF part
  <2> QED BY <2>2, Zenon DEF Joining
<1>7. \A f \in 1 .. n : part[f] = RegCells(s, f)
  OBVIOUS
<1> HIDE DEF part
<1>8. /\ \E g : Joining(g, n, first, part)
      /\ \A g : Joining(g, n, first, part) =>
           /\ g[n] \in Seq(Cell)
           /\ \A c : c \in Range(g[n]) <=> c \in Range(first) \/ \E f \in 1 .. n : c \in Range(part[f])
  <2>1. Joins(n, first, part)
    BY <1>1, <1>3, <1>5, JoiningIs
  <2> HIDE DEF Is
  <2> QED BY <2>1 DEF Joins
<1> HIDE DEF Is
<1>9. Is(CHOOSE g : Is(g))
  BY <1>6, <1>8
<1>10. PICK x : x = (CHOOSE g : Is(g))[n]
  OBVIOUS
<1>11. /\ x \in Seq(Cell)
       /\ \A c : c \in Range(x) <=> c \in Range(first) \/ \E f \in 1 .. n : c \in Range(part[f])
  BY <1>6, <1>8, <1>9, <1>10
<1>12. \A c : (\E f \in 1 .. n : c \in Range(part[f])) <=> \E f \in 1 .. n : \E r \in Reg : c = <<"reg", s, f, r>>
  <2>1. ASSUME NEW f \in 1 .. n, NEW c PROVE c \in Range(part[f]) <=> \E r \in Reg : c = <<"reg", s, f, r>>
    <3>1. f \in Nat
      BY <1>1
    <3> QED BY <3>1, <1>1, <1>7, RegCellsAre
  <2> QED BY <2>1, Zenon
<1>13. SceneCells(s) = x
  BY <1>4, <1>10
<1> QED BY <1>3, <1>11, <1>12, <1>13 DEF n

(* The cells of all scenes. *)
LEMMA RootCellsAre ==
  ASSUME scenes \in Scenes
  PROVE  RootCells \in Seq(Cell) /\ \A c : c \in Range(RootCells) <=> RootCell(scenes, c)
<1> DEFINE n == Len(scenes)  first == << <<"global">> >>
           part == [s \in 1 .. n |-> SceneCells(s)]
           Is(g) == g = [s \in 0 .. n |-> IF s = 0 THEN first ELSE g[s - 1] \o SceneCells(s)]
<1>1. n \in Nat
  BY SceneIs
<1>2. <<"global">> \in Cell
  BY DEF Cell
<1>3. first \in Seq(Cell) /\ Range(first) = {<<"global">>}
  <2>1. first \in Seq(Cell) /\ DOMAIN first = {1} /\ first[1] = <<"global">>
    BY <1>2
  <2> HIDE DEF first
  <2> QED BY <2>1 DEF Range
<1>4. RootCells = (CHOOSE g : Is(g))[n]
  BY DEF RootCells
<1>5. part \in [1 .. n -> Seq(Cell)]
  BY SceneCellsAre
<1>a. \A s \in 1 .. n : \A c : c \in Range(SceneCells(s)) <=>
              c = <<"external", s>> \/ \E f \in 1 .. Len(scenes[s].frames) : \E r \in Reg : c = <<"reg", s, f, r>>
  BY SceneCellsAre
<1> HIDE DEF first, n
<1>6. \A g : Is(g) <=> Joining(g, n, first, part)
  <2> TAKE g
  <2>1. \A s \in 0 .. n : (IF s = 0 THEN first ELSE g[s - 1] \o SceneCells(s))
                            = (IF s = 0 THEN first ELSE g[s - 1] \o part[s])
    <3> SUFFICES ASSUME NEW s \in 0 .. n, s # 0 PROVE SceneCells(s) = part[s]
      OBVIOUS
    <3>1. s \in 1 .. n
      BY <1>1
    <3> QED BY <3>1
  <2>2. [s \in 0 .. n |-> IF s = 0 THEN first ELSE g[s - 1] \o SceneCells(s)]
          = [s \in 0 .. n |-> IF s = 0 THEN first ELSE g[s - 1] \o part[s]]
    <3> HIDE DEF part
    <3> QED BY <2>1, Zenon
  <2> HIDE DEF part
  <2> QED BY <2>2, Zenon DEF Joining
<1>7. \A s \in 1 .. n : part[s] = SceneCells(s)
  OBVIOUS
<1> HIDE DEF part
<1>8. /\ \E g : Joining(g, n, first, part)
      /\ \A g : Joining(g, n, first, part) =>
           /\ g[n] \in Seq(Cell)
           /\ \A c : c \in Range(g[n]) <=> c \in Range(first) \/ \E s \in 1 .. n : c \in Range(part[s])
  <2>1. Joins(n, first, part)
    BY <1>1, <1>3, <1>5, JoiningIs
  <2> HIDE DEF Is
  <2> QED BY <2>1 DEF Joins
<1> HIDE DEF Is
<1>9. Is(CHOOSE g : Is(g))
  BY <1>6, <1>8
<1>10. PICK x : x = (CHOOSE g : Is(g))[n]
  OBVIOUS
<1>11. /\ x \in Seq(Cell)
       /\ \A c : c \in Range(x) <=> c \in Range(first) \/ \E s \in 1 .. n : c \in Range(part[s])
  BY <1>6, <1>8, <1>9, <1>10
<1>12. \A c : (\E s \in 1 .. n : c \in Range(part[s])) <=>
                \/ \E s \in 1 .. n : c = <<"external", s>>
                \/ \E s \in 1 .. n : \E f \in 1 .. Len(scenes[s].frames) : \E r \in Reg : c = <<"reg", s, f, r>>
  <2> DEFINE InRegs(s, c) == \E f \in 1 .. Len(scenes[s].frames) : \E r \in Reg : c = <<"reg", s, f, r>>
             IsExternal(s, c) == c = <<"external", s>>
  <2>1. \A s \in 1 .. n : \A c : c \in Range(part[s]) <=> IsExternal(s, c) \/ InRegs(s, c)
    <3>1. \A s \in 1 .. n : \A c : c \in Range(SceneCells(s)) <=> IsExternal(s, c) \/ InRegs(s, c)
      BY <1>a
    <3> HIDE DEF InRegs, IsExternal
    <3> QED BY <3>1, <1>7
  <2>2. \A c : (\E s \in 1 .. n : c \in Range(part[s])) <=>
                 \/ \E s \in 1 .. n : IsExternal(s, c)
                 \/ \E s \in 1 .. n : InRegs(s, c)
    <3> HIDE DEF InRegs, IsExternal
    <3> QED BY <2>1
  <2> QED BY <2>2
<1>13. RootCells = x
  BY <1>4, <1>10
<1>14. \A c : c \in Range(first) <=> c = <<"global">>
  BY <1>3
<1> QED BY <1>11, <1>12, <1>13, <1>14, Zenon DEF n, RootCell

(* Outside of a collection no header has a forwarding address. *)
LEMMA CalmValues ==
  ASSUME Typed, Calm
  PROVE  Values(heap, global, scenes)
<1> SUFFICES ASSUME NEW c, IsCell(heap, scenes, c), NEW v, v = Val(heap, global, scenes, c), v \in Pointer
             PROVE  Fit(heap, c, v)
  BY DEF Values
<1>1. /\ c[1] \in {"global", "external", "reg", "field"}
      /\ c[1] = "external" => c[2] \in 1 .. Len(scenes)
      /\ c[1] = "reg" => /\ c[2] \in 1 .. Len(scenes)
                         /\ c[3] \in 1 .. Len(scenes[c[2]].frames) /\ c[4] \in Reg
      /\ c[1] = "field" => c[2] \in In(heap) /\ c[3] \in DOMAIN At(heap, c[2]).fields
  BY CellIs
<1>2. RootsIn(heap, global, scenes)
  BY DEF Calm
<1>3. CASE c[1] = "global"
  <2>1. v = global
    BY <1>3, ValOf
  <2> QED BY <2>1, <1>2, <1>3 DEF RootsIn, Own, Fit
<1>4. CASE c[1] = "external"
  <2>1. v = scenes[c[2]].external
    BY <1>4, ValOf
  <2>2. ExternalIn(heap, v)
    BY <2>1, <1>1, <1>2, <1>4 DEF RootsIn
  <2> QED BY <2>2, <1>4 DEF ExternalIn, Fit
<1>5. CASE c[1] = "reg"
  <2>1. v = scenes[c[2]].frames[c[3]].regs[c[4]]
    BY <1>5, ValOf
  <2>2. Own(heap, v)
    BY <2>1, <1>1, <1>5, RegistersOwned
  <2> QED BY <2>2, <1>5 DEF Own, Fit
<1>6. CASE c[1] = "field"
  <2>1. v = At(heap, c[2]).fields[c[3]]
    BY <1>6, ValOf
  <2>2. v \in PtrsOf(At(heap, c[2]))
    BY <2>1, <1>1, <1>6 DEF PtrsOf
  <2>3. Good(heap, At(heap, c[2]))
    BY <1>1, <1>6 DEF Calm, World
  <2> QED BY <2>2, <2>3, <1>6 DEF Good, Fit
<1> QED BY <1>1, <1>3, <1>4, <1>5, <1>6

(* Nothing but its scene holds an external array. *)
LEMMA CalmApart ==
  ASSUME Typed, Calm
  PROVE  /\ Apart(heap, global, scenes)
         /\ \A p \in In(heap) : Fwd(heap, p) = p /\ p[1] = current
         /\ \A v, d : ApartIn(heap, v) /\ IsCell(heap, scenes, d) /\ d[1] = "field" =>
                        Val(heap, global, scenes, d) \notin Pointer \/ Val(heap, global, scenes, d) # v
<1>1. \A p \in In(heap) : Fwd(heap, p) = p /\ p[1] = current
  BY CalmIs DEF Fwd, Places, Obj, At
<1>2. ASSUME NEW v, NEW d, ApartIn(heap, v), IsCell(heap, scenes, d), d[1] = "field",
             Val(heap, global, scenes, d) \in Pointer
      PROVE  Val(heap, global, scenes, d) # v
  <2>1. d[2] \in In(heap) /\ d[3] \in DOMAIN At(heap, d[2]).fields
    BY <1>2, CellIs
  <2>2. Val(heap, global, scenes, d) = At(heap, d[2]).fields[d[3]]
    BY <1>2, ValOf
  <2>3. Val(heap, global, scenes, d) \in PtrsOf(At(heap, d[2]))
    BY <1>2, <2>1, <2>2 DEF PtrsOf
  <2> QED BY <1>2, <2>1, <2>3 DEF ApartIn
<1>3. Apart(heap, global, scenes)
  <2> SUFFICES ASSUME NEW c, IsCell(heap, scenes, c), c[1] = "external",
                      NEW d, IsCell(heap, scenes, d), d # c, d[1] \in {"external", "field"},
                      Val(heap, global, scenes, d) \in Pointer
               PROVE  Fwd(heap, Val(heap, global, scenes, d)) # Fwd(heap, Val(heap, global, scenes, c))
    BY DEF Apart, Sole
  <2>1. c = <<"external", c[2]>> /\ c[2] \in 1 .. Len(scenes)
    BY CellIs
  <2>2. Val(heap, global, scenes, c) = scenes[c[2]].external
    BY ValOf
  <2>3. /\ ExternalIn(heap, scenes[c[2]].external) /\ ApartIn(heap, scenes[c[2]].external)
        /\ \A t \in 1 .. Len(scenes) : c[2] # t => scenes[c[2]].external # scenes[t].external
    BY <2>1 DEF Calm, RootsIn
  <2>4. Val(heap, global, scenes, d) # scenes[c[2]].external
    <3>1. CASE d[1] = "external"
      <4>1. d = <<"external", d[2]>> /\ d[2] \in 1 .. Len(scenes)
        BY <3>1, CellIs
      <4>2. Val(heap, global, scenes, d) = scenes[d[2]].external /\ d[2] # c[2]
        BY <3>1, <4>1, <2>1, ValOf
      <4> QED BY <4>1, <4>2, <2>3
    <3>2. CASE d[1] = "field"
      BY <3>2, <2>3, <1>2
    <3> QED BY <3>1, <3>2
  <2>5. Val(heap, global, scenes, d) \in In(heap) /\ Val(heap, global, scenes, c) \in In(heap)
    BY <2>2, <2>3, CalmValues DEF Values, Fit, ExternalIn
  <2> QED BY <1>1, <2>2, <2>4, <2>5
<1> QED BY <1>1, <1>2, <1>3

(* The collector starts: every root is yet to be marked, nothing is copied.  *)
(* A foreach that waits would keep pointers where no cell is.                *)
LEMMA StartGCStep ==
  ASSUME Typed, Calm, pending.op # "none", ~CollectInForeach, Collectable, StartGC
  PROVE  Typed' /\ Busy' /\ pc' = "gc"
<1>1. /\ pc = "alloc" /\ pc' = "gc" /\ pending' = [pending EXCEPT !.retry = TRUE] /\ todo' = RootCells
      /\ heap' = [heap EXCEPT ![1 - current] = <<>>]
      /\ UNCHANGED <<used, current, global, scenes, native, program>>
  BY DEF StartGC
<1>2. /\ heap \in Heaps /\ current \in {0, 1} /\ 1 - current \in {0, 1} /\ 1 - current # current
      /\ global \in Pointer /\ scenes \in Scenes /\ pending \in RequestType /\ used \in [{0, 1} -> Nat]
  BY DEF Typed, Heaps, Scenes
<1>3. heap' = heap
  <2>1. heap[1 - current] = <<>>
    BY DEF Calm, World
  <2> QED BY <1>1, <1>2, <2>1 DEF Heaps
<1>4. /\ pending' \in RequestType /\ pending'.op = pending.op /\ pending'.type = pending.type
      /\ pending'.cap = pending.cap /\ pending'.args = pending.args /\ pending'.reg = pending.reg
      /\ pending'.captured = pending.captured
  BY <1>1, <1>2 DEF RequestType
<1>5. /\ RootCells \in Seq(Cell) /\ \A c : c \in Range(RootCells) <=> RootCell(scenes, c)
  BY <1>2, RootCellsAre
<1>6. Typed'
  BY <1>1, <1>2, <1>3, <1>4, <1>5 DEF Typed
<1>7. \A p \in In(heap) :
        /\ p[1] = current /\ At(heap, p).type # "left" /\ Fwd(heap, p) = p
        /\ At(heap, p).type = "redirect" => Forwards(heap, p)
        /\ At(heap, p).type # "redirect" => At(heap, p).fwd = Undefined
  BY CalmApart DEF Calm, World
<1>8. HeadersIn(current, heap) /\ Forwarding(current, heap)
  <2>1. HeadersIn(current, heap)
    BY <1>7 DEF HeadersIn
  <2>2. Forwarding(current, heap)
    BY <1>2, <1>7 DEF Forwarding
  <2> QED BY <2>1, <2>2
<1>9. Room(current, heap, used)
  <2>1. /\ \A b \in {0, 1} : IsFiniteSet(Units(heap[b])) /\ Cardinality(Units(heap[b])) \in Nat
        /\ heap[1 - current] = <<>> /\ Cardinality(Units(heap[current])) <= used[current]
        /\ used[1 - current] = 0
    BY FS_CardinalityType DEF Calm, World, Other
  <2>2. Units(heap[1 - current]) = {}
    <3>1. Len(heap[1 - current]) = 0
      BY <2>1, EmptySeq
    <3> QED BY <3>1 DEF Units
  <2>3. Cardinality(Units(heap[1 - current])) = 0
    BY <2>2, FS_EmptySet
  <2>4. Cardinality(Units(heap[current])) + used[1 - current] <= used[current]
    <3>1. Cardinality(Units(heap[current])) \in Nat
      BY <1>2, <2>1
    <3> QED BY <3>1, <2>1
  <2> QED BY <1>2, <2>1, <2>3, <2>4 DEF Room
<1>10. Values(heap, global, scenes) /\ Apart(heap, global, scenes)
  BY CalmValues, CalmApart
<1>11. \A c \in Waiting : c.fn # "foreach"
  BY DEF Collectable
<1>12. Waiting = {native} \cup {scenes[s].caller : s \in 1 .. Len(scenes)}
  BY DEF Waiting
<1>13. NoForeach(native, scenes)
  BY <1>11, <1>12 DEF NoForeach, Calm, CallsIn
<1>14. Asked(heap, global, scenes, pending')
  <2>1. native.fn # "foreach"
    BY <1>11, <1>12
  <2>2. /\ pending.op \in {"new", "grow", "import"} /\ pending.args = Undefined /\ pending.type # "none"
        /\ pending.op \in {"new", "import"} => pending.cap = 1
    BY <1>2, <2>1 DEF Calm, PendingIn, RequestType
  <2> DEFINE C(r) == <<"reg", 1, 1, r>>
  <2>3. \A r : C(r)[1] = "reg" /\ Val(heap, global, scenes, C(r)) = scenes[1].frames[1].regs[r]
    <3> TAKE r
    <3>1. PICK x : x = C(r)
      OBVIOUS
    <3>2. x[1] = "reg" /\ x[2] = 1 /\ x[3] = 1 /\ x[4] = r
      BY <3>1
    <3>3. Val(heap, global, scenes, x) = scenes[x[2]].frames[x[3]].regs[x[4]]
      BY <3>2, ValOf
    <3> HIDE DEF C
    <3> QED BY <3>1, <3>2, <3>3
  <2> HIDE DEF C
  <2>4. pending.op = "new" => \A r \in DOMAIN pending.captured : Plain(heap, global, scenes, C(pending.captured[r]))
    BY <2>3 DEF Calm, PendingIn, StorableIn, Plain
  <2>5. ASSUME pending.op = "grow"
        PROVE  /\ Val(heap, global, scenes, C(pending.reg)) \in Pointer /\ Plain(heap, global, scenes, C(pending.reg))
               /\ Sole(heap, global, scenes, C(pending.reg), {"global", "field"})
    <3>1. PICK v : v = scenes[1].frames[1].regs[pending.reg]
      OBVIOUS
    <3>2. /\ v \in Pointer /\ At(heap, v).type # "redirect" /\ ApartIn(heap, v) /\ global # v
          /\ Val(heap, global, scenes, C(pending.reg)) = v
      BY <2>3, <2>5, <3>1 DEF Calm, PendingIn, GrowingIn
    <3>3. 1 \in 1 .. Len(scenes) /\ 1 \in 1 .. Len(scenes[1].frames) /\ pending.reg \in Reg
      BY <1>2, SceneIs DEF RequestType
    <3>4. v \in In(heap)
      BY <3>1, <3>2, <3>3, RegistersOwned DEF Own
    <3>5. ASSUME NEW d, IsCell(heap, scenes, d), d[1] \in {"global", "field"}, Val(heap, global, scenes, d) \in Pointer
          PROVE  Fwd(heap, Val(heap, global, scenes, d)) # Fwd(heap, v)
      <4>1. Val(heap, global, scenes, d) \in In(heap)
        BY <1>10, <3>5 DEF Values, Fit
      <4>2. Val(heap, global, scenes, d) # v
        <5>1. CASE d[1] = "global"
          BY <5>1, <3>2, ValOf
        <5>2. CASE d[1] = "field"
          BY <5>2, <3>2, <3>5, CalmApart
        <5> QED BY <5>1, <5>2, <3>5
      <4> QED BY <4>1, <4>2, <3>4, <1>7
    <3> QED BY <3>2, <3>5 DEF Plain, Sole
  <2>6. pending'.op = "grow" =>
          LET c == <<"reg", 1, 1, pending'.reg>> IN
          Val(heap, global, scenes, c) \in Pointer /\ Plain(heap, global, scenes, c)
          /\ Sole(heap, global, scenes, c, {"global", "field"})
    BY <1>4, <2>5 DEF C
  <2>7. pending'.op = "new" =>
          \A r \in DOMAIN pending'.captured : Plain(heap, global, scenes, <<"reg", 1, 1, pending'.captured[r]>>)
    BY <1>4, <2>4 DEF C
  <2> QED BY <1>4, <2>2, <2>6, <2>7, Zenon DEF Asked
<1>15. ToMark(current, heap, global, scenes, Range(RootCells))
  <2>1. ASSUME NEW c, RootCell(scenes, c) PROVE IsCell(heap, scenes, c) /\ InCopy(current, c)
    <3>1. IsCell(heap, scenes, c)
      BY <2>1 DEF RootCell, IsCell
    <3>2. c[1] # "field"
      <4>1. CASE c = <<"global">>
        BY <4>1
      <4>2. CASE \E s \in 1 .. Len(scenes) : c = <<"external", s>>
        BY <4>2
      <4>3. CASE \E s \in 1 .. Len(scenes) : \E f \in 1 .. Len(scenes[s].frames) : \E r \in Reg : c = <<"reg", s, f, r>>
        BY <4>3
      <4> QED BY <2>1, <4>1, <4>2, <4>3 DEF RootCell
    <3> QED BY <3>1, <3>2 DEF InCopy
  <2>2. ASSUME NEW c, IsCell(heap, scenes, c), InCopy(current, c) PROVE RootCell(scenes, c)
    <3>1. ~\E p \in In(heap) : \E k \in DOMAIN At(heap, p).fields : c = <<"field", p, k>>
      <4> SUFFICES ASSUME NEW p \in In(heap), NEW k, c = <<"field", p, k>> PROVE FALSE
        OBVIOUS
      <4>1. p[1] = 1 - current
        BY <2>2 DEF InCopy
      <4> QED BY <4>1, <1>2, <1>7
    <3> QED BY <2>2, <3>1 DEF IsCell, RootCell
  <2> QED BY <1>5, <2>1, <2>2 DEF ToMark
<1>16. Reached(current, heap, global, scenes, {})
  BY <1>2, <1>7 DEF Reached
<1>17. used[current] <= BlockSize /\ Len(heap[current]) <= BlockSize
  BY <1>2, CalmIs DEF Calm, Volume
<1>18. Copying(current, heap, used, global, scenes, pending', Range(todo'))
  BY <1>1, <1>2, <1>4, <1>8, <1>9, <1>10, <1>14, <1>15 DEF Copying
<1>19. Busy'
  BY <1>1, <1>3, <1>13, <1>16, <1>17, <1>18 DEF Busy, BlockSize
<1> QED BY <1>1, <1>6, <1>19

(* The collector is done.  Nothing points into the block it emptied.         *)
LEMMA NothingLeft ==
  ASSUME Typed, Busy, pc = "gc", todo = <<>>
  PROVE  /\ \A c : IsCell(heap, scenes, c) /\ InCopy(current, c) /\ Val(heap, global, scenes, c) \in Pointer =>
              LET v == Val(heap, global, scenes, c) IN
              /\ Fit(heap, c, v) /\ v \in In(heap) /\ v[1] = 1 - current
              /\ At(heap, v).type \in {"object", "closure"} /\ Fwd(heap, v) = v
         /\ \A p \in Pointers(1 - current) : p[1] # current
<1>1. /\ heap \in Heaps /\ current \in {0, 1} /\ global \in Pointer /\ scenes \in Scenes
      /\ HeadersIn(current, heap) /\ Values(heap, global, scenes)
      /\ ToMark(current, heap, global, scenes, Range(todo))
  BY DEF Busy, Copying
<1>2. Range(todo) = {}
  <2>1. DOMAIN todo = {}
    OBVIOUS
  <2> QED BY <2>1 DEF Range
<1>3. ASSUME NEW c, IsCell(heap, scenes, c), InCopy(current, c), NEW v, v = Val(heap, global, scenes, c), v \in Pointer
      PROVE  /\ Fit(heap, c, v) /\ v \in In(heap) /\ v[1] = 1 - current
             /\ At(heap, v).type \in {"object", "closure"} /\ Fwd(heap, v) = v
  <2>1. Fit(heap, c, v) /\ v \in In(heap)
    BY <1>1, <1>3 DEF Values, Fit
  <2>2. v[1] # current
    BY <1>1, <1>2, <1>3 DEF ToMark
  <2>3. v[1] = 1 - current
    BY <1>1, <2>1, <2>2, CopyIs
  <2> QED BY <1>1, <2>1, <2>3, CopyIs
<1>4. ASSUME NEW c, IsCell(heap, scenes, c), InCopy(current, c), IsPtr(Val(heap, global, scenes, c))
      PROVE  Val(heap, global, scenes, c)[1] # current
  <2>1. Val(heap, global, scenes, c) \in Datum
    BY <1>1, <1>4, ValTyped
  <2>2. PICK v : v = Val(heap, global, scenes, c)
    OBVIOUS
  <2>3. v \in Pointer
    BY <1>4, <2>1, <2>2, PointerIs
  <2>4. v[1] = 1 - current
    BY <1>3, <1>4, <2>2, <2>3
  <2>5. current # 1 - current
    BY <1>1
  <2> QED BY <2>2, <2>4, <2>5
<1>5. \A v \in Pointer : IsPtr(v)
  BY PointerIs DEF Datum
<1>6. global[1] # current
  <2>1. PICK c : c = <<"global">>
    OBVIOUS
  <2>2. IsCell(heap, scenes, c) /\ c[1] = "global"
    BY <2>1 DEF IsCell
  <2>3. Val(heap, global, scenes, c) = global
    BY <2>2, ValOf
  <2> QED BY <2>2, <2>3, <1>1, <1>4, <1>5 DEF InCopy
<1>7. ASSUME NEW s \in 1 .. Len(scenes) PROVE scenes[s].external[1] # current
  <2>1. PICK c : c = <<"external", s>>
    OBVIOUS
  <2>2. IsCell(heap, scenes, c) /\ c[1] = "external" /\ c[2] = s
    BY <2>1 DEF IsCell
  <2>3. Val(heap, global, scenes, c) = scenes[s].external
    BY <2>2, ValOf
  <2>4. scenes[s].external \in Pointer
    BY <1>1, SceneIs
  <2> QED BY <2>2, <2>3, <2>4, <1>4, <1>5 DEF InCopy
<1>8. ASSUME NEW x \in Registers, IsPtr(scenes[x[1]].frames[x[2]].regs[x[3]])
      PROVE  scenes[x[1]].frames[x[2]].regs[x[3]][1] # current
  <2>1. PICK s, f, r : s = x[1] /\ f = x[2] /\ r = x[3]
    OBVIOUS
  <2>2. s \in DOMAIN scenes /\ f \in DOMAIN scenes[s].frames /\ r \in Reg
    <3>1. PICK y \in AllFrames : \E z \in Reg : x = <<y[1], y[2], z>>
      BY DEF Registers
    <3>2. PICK z \in Reg : x = <<y[1], y[2], z>>
      BY <3>1
    <3>3. s = y[1] /\ f = y[2] /\ r = z
      BY <2>1, <3>2
    <3>4. PICK t \in DOMAIN scenes : y \in {t} \X DOMAIN scenes[t].frames
      BY Zenon DEF AllFrames
    <3>5. y[1] = t /\ y[2] \in DOMAIN scenes[t].frames
      BY <3>4
    <3> QED BY <3>3, <3>4, <3>5
  <2>3. s \in 1 .. Len(scenes)
    BY <1>1, <2>2, SceneIs, LenProperties
  <2>4. f \in 1 .. Len(scenes[s].frames)
    <3>1. scenes[s].frames \in Seq(FrameType)
      BY <1>1, <2>3, SceneIs
    <3> QED BY <2>2, <3>1, LenProperties
  <2>5. PICK c : c = <<"reg", s, f, r>>
    OBVIOUS
  <2>6. IsCell(heap, scenes, c) /\ c[1] = "reg" /\ c[2] = s /\ c[3] = f /\ c[4] = r
    <3>1. IsCell(heap, scenes, c)
      BY <2>2, <2>3, <2>4, <2>5, Zenon DEF IsCell
    <3> QED BY <3>1, <2>5
  <2>7. Val(heap, global, scenes, c) = scenes[s].frames[f].regs[r]
    BY <2>6, ValOf
  <2> QED BY <2>1, <2>6, <2>7, <1>4, <1>8 DEF InCopy
<1>9. ASSUME NEW i \in 1 .. Len(heap[1 - current]), NEW v \in Targets(<<1 - current, i>>) PROVE v[1] # current
  <2>1. PICK q : q = <<1 - current, i>>
    OBVIOUS
  <2>2. 1 - current \in {0, 1}
    BY <1>1
  <2>3. q \in In(heap) /\ q[1] = 1 - current
    BY <2>1, <2>2, PlaceIs DEF Places
  <2>4. At(heap, q).type \in {"object", "closure"}
    BY <1>1, <2>3, CopyIs
  <2>5. At(heap, q).fwd = Undefined
    BY <1>1, <2>3, <2>4 DEF HeadersIn
  <2>6. Obj(q) = At(heap, q)
    BY DEF Obj, At
  <2>7. IsPtr(v) /\ \E k \in DOMAIN At(heap, q).fields : v = At(heap, q).fields[k]
    <3>1. v \in {At(heap, q).fields[k] : k \in DOMAIN At(heap, q).fields} \cup {Undefined} /\ IsPtr(v)
      BY <1>9, <2>1, <2>5, <2>6 DEF Targets
    <3>2. ~IsPtr(Undefined)
      BY DEF IsPtr, Undefined
    <3> QED BY <3>1, <3>2
  <2>8. PICK k \in DOMAIN At(heap, q).fields : v = At(heap, q).fields[k]
    BY <2>7
  <2>9. PICK c : c = <<"field", q, k>>
    OBVIOUS
  <2>10. IsCell(heap, scenes, c) /\ c[1] = "field" /\ c[2] = q /\ c[3] = k
    <3>1. IsCell(heap, scenes, c)
      BY <2>3, <2>9, Zenon DEF IsCell
    <3> QED BY <3>1, <2>9
  <2>11. Val(heap, global, scenes, c) = v /\ InCopy(current, c)
    BY <2>3, <2>8, <2>10, ValOf DEF InCopy
  <2> QED BY <2>7, <2>10, <2>11, <1>4
<1>10. \A p \in Pointers(1 - current) : p[1] # current
  <2> SUFFICES ASSUME NEW p \in Pointers(1 - current) PROVE p[1] # current
    OBVIOUS
  <2>1. CASE p \in Roots
    BY <2>1, <1>6, <1>7, <1>8 DEF Roots
  <2>2. CASE p \notin Roots
    <3>1. PICK i \in 1 .. Len(heap[1 - current]) : p \in Targets(<<1 - current, i>>)
      BY <2>2, Zenon DEF Pointers
    <3> QED BY <3>1, <1>9
  <2> QED BY <2>1, <2>2
<1> QED BY <1>3, <1>10

(* The block that is emptied. *)
Emptied(h, b) == [h EXCEPT ![b] = <<>>]
EmptiedTo(h, b, k) ==
  /\ k \in Heaps
  /\ In(k) = {p \in In(h) : p[1] = 1 - b}
  /\ \A p \in In(h) : p[1] = 1 - b => At(k, p) = At(h, p)
  /\ k[b] = <<>> /\ k[1 - b] = h[1 - b]

(* What becomes of the other block. *)
LEMMA EmptiedIs ==
  ASSUME NEW h \in Heaps, NEW b \in {0, 1}
  PROVE  EmptiedTo(h, b, Emptied(h, b))
<1> DEFINE k == Emptied(h, b)
<1>1. 1 - b \in {0, 1} /\ 1 - b # b /\ {0, 1} = {b, 1 - b}
  OBVIOUS
<1>2. k[b] = <<>> /\ k[1 - b] = h[1 - b] /\ DOMAIN k = {0, 1} /\ k = [c \in {0, 1} |-> k[c]]
  BY <1>1 DEF Heaps, Emptied
<1> HIDE DEF k
<1>3. <<>> \in Seq(Object) /\ Len(<<>>) = 0
  OBVIOUS
<1>4. \A c \in {0, 1} : k[c] \in Seq(Object)
  <2>1. h[1 - b] \in Seq(Object)
    BY <1>1 DEF Heaps
  <2> QED BY <2>1, <1>1, <1>2, <1>3
<1>5. k \in Heaps
  BY <1>2, <1>4, Zenon DEF Heaps
<1>6. \A p \in Pointer : p[1] \in {0, 1} /\ p[2] \in Nat \ {0}
  BY PointerIs
<1>7. In(k) = {p \in In(h) : p[1] = 1 - b}
  <2>1. ASSUME NEW p \in Pointer PROVE p[2] <= Len(k[p[1]]) <=> p[2] <= Len(h[p[1]]) /\ p[1] = 1 - b
    <3>1. CASE p[1] = b
      BY <3>1, <1>1, <1>2, <1>3, <1>6
    <3>2. CASE p[1] = 1 - b
      BY <3>2, <1>2
    <3> QED BY <3>1, <3>2, <1>1, <1>6
  <2> QED BY <2>1 DEF In
<1>8. \A p \in In(h) : p[1] = 1 - b => At(k, p) = At(h, p)
  BY <1>2 DEF At
<1> QED BY <1>2, <1>5, <1>7, <1>8 DEF k, EmptiedTo

(* young_gen_gc_end. *)
LEMMA EndGCStep ==
  ASSUME Typed, Busy, EndGC
  PROVE  Typed' /\ Calm' /\ pending'.op # "none"
<1>1. /\ pc = "gc" /\ pc' = "alloc" /\ todo = <<>> /\ current' = 1 - current
      /\ used' = [used EXCEPT ![current] = 0]
      /\ heap' = IF \E p \in Pointers(1 - current) : p[1] = current THEN heap ELSE [heap EXCEPT ![current] = <<>>]
      /\ UNCHANGED <<global, scenes, pending, todo, native, program>>
  BY DEF EndGC
<1>2. /\ heap \in Heaps /\ current \in {0, 1} /\ global \in Pointer /\ scenes \in Scenes /\ pending \in RequestType
      /\ HeadersIn(current, heap) /\ Room(current, heap, used) /\ Apart(heap, global, scenes)
      /\ Asked(heap, global, scenes, pending)
  BY DEF Busy, Copying
<1>3. PICK b : b = 1 - current
  OBVIOUS
<1>4. b \in {0, 1} /\ b # current /\ 1 - b = current /\ 1 - current = b
  BY <1>2, <1>3
<1>5. \A c : IsCell(heap, scenes, c) /\ InCopy(current, c) /\ Val(heap, global, scenes, c) \in Pointer =>
        /\ Fit(heap, c, Val(heap, global, scenes, c)) /\ Val(heap, global, scenes, c) \in In(heap)
        /\ Val(heap, global, scenes, c)[1] = b
        /\ At(heap, Val(heap, global, scenes, c)).type \in {"object", "closure"}
        /\ Fwd(heap, Val(heap, global, scenes, c)) = Val(heap, global, scenes, c)
  BY <1>1, <1>3, NothingLeft
<1>6. heap' = [heap EXCEPT ![current] = <<>>]
  BY <1>1, NothingLeft, Zenon
<1>7. /\ heap' \in Heaps /\ In(heap') = {p \in In(heap) : p[1] = b}
      /\ \A p \in In(heap) : p[1] = b => At(heap', p) = At(heap, p)
      /\ heap'[current] = <<>> /\ heap'[b] = heap[b]
  <2>1. PICK k : k = Emptied(heap, current)
    OBVIOUS
  <2>2. EmptiedTo(heap, current, k)
    BY <1>2, <2>1, EmptiedIs
  <2>3. heap' = k
    BY <1>6, <2>1 DEF Emptied
  <2> QED BY <1>3, <2>2, <2>3 DEF EmptiedTo
<1>8. used' \in [{0, 1} -> Nat] /\ used'[b] = used[b] /\ used'[current] = 0 /\ used[b] \in Nat /\ used[current] \in Nat
  BY <1>1, <1>2, <1>4 DEF Room
<1>9. Typed'
  BY <1>1, <1>2, <1>3, <1>4, <1>7, <1>8 DEF Typed, Heaps
<1>10. used'[b] <= BlockSize
  <2>1. used[b] <= used[current]
    BY <1>1, <1>3, BusyIs DEF Other
  <2>2. used[current] <= BlockSize /\ BlockSize \in Nat
    BY BlockSizeIs DEF Busy, Typed
  <2> QED BY <2>1, <2>2, <1>8
(* The cells that are left, and the values in them. *)
<1>11. ASSUME NEW p \in In(heap'), NEW k \in DOMAIN At(heap', p).fields, At(heap', p).fields[k] \in Pointer,
              NEW v, v = At(heap', p).fields[k]
       PROVE  \E c : /\ IsCell(heap, scenes, c) /\ InCopy(current, c) /\ c[1] = "field" /\ c[2] = p
                     /\ Val(heap, global, scenes, c) = v /\ Val(heap, global, scenes, c) \in Pointer
  <2>1. p \in In(heap) /\ p[1] = b /\ At(heap', p) = At(heap, p)
    BY <1>7
  <2>2. PICK c : c = <<"field", p, k>>
    OBVIOUS
  <2>3. c[1] = "field" /\ c[2] = p /\ c[3] = k
    BY <2>2
  <2>4. IsCell(heap, scenes, c)
    BY <1>11, <2>1, <2>2, Zenon DEF IsCell
  <2>5. Val(heap, global, scenes, c) = At(heap, p).fields[k]
    BY <2>3, ValOf
  <2>6. InCopy(current, c)
    BY <1>3, <2>1, <2>3 DEF InCopy
  <2> QED BY <1>11, <2>1, <2>3, <2>4, <2>5, <2>6
<1>12. ASSUME NEW s \in 1 .. Len(scenes), NEW e, e = scenes[s].external
       PROVE  \E c : /\ IsCell(heap, scenes, c) /\ InCopy(current, c) /\ c[1] = "external" /\ c[2] = s
                     /\ Val(heap, global, scenes, c) = e /\ Val(heap, global, scenes, c) \in Pointer
  <2>1. PICK c : c = <<"external", s>>
    OBVIOUS
  <2>2. IsCell(heap, scenes, c) /\ c[1] = "external" /\ c[2] = s
    BY <2>1 DEF IsCell
  <2>3. Val(heap, global, scenes, c) = e
    BY <1>12, <2>2, ValOf
  <2>4. e \in Pointer
    BY <1>2, <1>12, SceneIs
  <2> QED BY <2>2, <2>3, <2>4 DEF InCopy
<1>13. ASSUME NEW s \in 1 .. Len(scenes), NEW f \in 1 .. Len(scenes[s].frames), NEW r \in Reg, NEW v,
              v = scenes[s].frames[f].regs[r], v \in Pointer
       PROVE  \E c : /\ IsCell(heap, scenes, c) /\ InCopy(current, c) /\ c[1] = "reg" /\ c = <<"reg", s, f, r>>
                     /\ Val(heap, global, scenes, c) = v /\ Val(heap, global, scenes, c) \in Pointer
  <2>1. PICK c : c = <<"reg", s, f, r>>
    OBVIOUS
  <2>2. IsCell(heap, scenes, c)
    BY <2>1, Zenon DEF IsCell
  <2>3. c[1] = "reg" /\ c[2] = s /\ c[3] = f /\ c[4] = r
    BY <2>1
  <2>4. Val(heap, global, scenes, c) = v
    BY <1>13, <2>3, ValOf
  <2> QED BY <1>13, <2>1, <2>2, <2>3, <2>4 DEF InCopy
<1>14. \E c : /\ IsCell(heap, scenes, c) /\ InCopy(current, c) /\ c[1] = "global"
              /\ Val(heap, global, scenes, c) = global
  <2>1. PICK c : c = <<"global">>
    OBVIOUS
  <2>2. IsCell(heap, scenes, c) /\ c[1] = "global"
    BY <2>1 DEF IsCell
  <2>3. Val(heap, global, scenes, c) = global
    BY <2>2, ValOf
  <2> QED BY <2>2, <2>3 DEF InCopy
(* What they are. *)
<1>15. ASSUME NEW p \in In(heap')
       PROVE  /\ At(heap', p).type \in {"object", "closure"} /\ At(heap', p).fwd = Undefined
              /\ Good(heap', At(heap', p))
  <2>1. p \in In(heap) /\ p[1] = b /\ At(heap', p) = At(heap, p)
    BY <1>7
  <2>2. At(heap, p).type \in {"object", "closure"}
    BY <1>2, <1>3, <2>1, CopyIs
  <2>3. At(heap, p).fwd = Undefined
    BY <1>2, <2>1, <2>2 DEF HeadersIn
  <2>4. Good(heap', At(heap', p))
    <3> SUFFICES ASSUME NEW v \in PtrsOf(At(heap', p))
                 PROVE  /\ v \in In(heap') /\ At(heap', v).type # "redirect"
                        /\ At(heap', p).id # NoId => At(heap', v).id # NoId
      BY Zenon DEF Good
    <3>1. PICK k \in DOMAIN At(heap', p).fields : v = At(heap', p).fields[k] /\ v \in Pointer
      BY DEF PtrsOf
    <3>2. PICK c : /\ IsCell(heap, scenes, c) /\ InCopy(current, c) /\ c[1] = "field" /\ c[2] = p
                   /\ Val(heap, global, scenes, c) = v /\ Val(heap, global, scenes, c) \in Pointer
      BY <1>11, <3>1
    <3>3. /\ Fit(heap, c, v) /\ v \in In(heap) /\ v[1] = b /\ At(heap, v).type \in {"object", "closure"}
      BY <1>5, <3>2
    <3> QED BY <1>7, <2>1, <3>2, <3>3 DEF Fit
  <2> QED BY <2>1, <2>2, <2>3, <2>4
<1>16. World(heap', b, used'[b])
  <2>1. /\ \A d \in {0, 1} : IsFiniteSet(Units(heap[d]))
        /\ Cardinality(Units(heap[b])) <= used[b]
    BY <1>2, <1>3 DEF Room
  <2>2. Units(heap'[current]) = {}
    <3>1. Len(heap'[current]) = 0
      BY <1>7
    <3> QED BY <3>1 DEF Units
  <2>3. \A d \in {0, 1} : IsFiniteSet(Units(heap'[d]))
    BY <1>2, <1>4, <1>7, <2>1, <2>2, FS_EmptySet
  <2> QED BY <1>4, <1>7, <1>8, <1>15, <2>1, <2>3 DEF World
<1>17. ASSUME NEW v \in Pointer, NEW c, IsCell(heap, scenes, c), Val(heap, global, scenes, c) = v, InCopy(current, c),
              Sole(heap, global, scenes, c, {"external", "field"}) \/ Sole(heap, global, scenes, c, {"global", "field"}),
              c[1] # "field"
       PROVE  ApartIn(heap', v)
  <2> SUFFICES ASSUME NEW p \in In(heap'), v \in PtrsOf(At(heap', p)) PROVE FALSE
    BY DEF ApartIn
  <2>1. PICK k \in DOMAIN At(heap', p).fields : v = At(heap', p).fields[k]
    BY DEF PtrsOf
  <2>2. PICK d : /\ IsCell(heap, scenes, d) /\ InCopy(current, d) /\ d[1] = "field" /\ d[2] = p
                 /\ Val(heap, global, scenes, d) = v /\ Val(heap, global, scenes, d) \in Pointer
    BY <1>11, <2>1
  <2>3. d # c
    BY <1>17, <2>2
  <2> QED BY <1>17, <2>2, <2>3 DEF Sole
<1>18. RootsIn(heap', global, scenes)
  <2>1. Own(heap', global) /\ At(heap', global).type # "redirect"
    <3>1. PICK c : /\ IsCell(heap, scenes, c) /\ InCopy(current, c) /\ c[1] = "global"
                   /\ Val(heap, global, scenes, c) = global
      BY <1>14
    <3>2. /\ Fit(heap, c, global) /\ global \in In(heap) /\ global[1] = b
          /\ At(heap, global).type \in {"object", "closure"}
      BY <1>2, <1>5, <3>1
    <3> QED BY <1>7, <3>1, <3>2 DEF Fit, Own
  <2>2. ASSUME NEW s \in 1 .. Len(scenes)
        PROVE  /\ ExternalIn(heap', scenes[s].external) /\ ApartIn(heap', scenes[s].external)
               /\ \A t \in 1 .. Len(scenes) : s # t => scenes[s].external # scenes[t].external
               /\ \A v \in HeldBy(scenes[s]) : Own(heap', v)
    <3>1. PICK e : e = scenes[s].external
      OBVIOUS
    <3>2. PICK c : /\ IsCell(heap, scenes, c) /\ InCopy(current, c) /\ c[1] = "external" /\ c[2] = s
                   /\ Val(heap, global, scenes, c) = e /\ Val(heap, global, scenes, c) \in Pointer
      BY <1>12, <3>1
    <3>3. /\ Fit(heap, c, e) /\ e \in In(heap) /\ e[1] = b /\ e \in Pointer
          /\ At(heap, e).type \in {"object", "closure"}
      BY <1>5, <3>2
    <3>4. ExternalIn(heap', e)
      BY <1>7, <3>2, <3>3 DEF Fit, ExternalIn
    <3>5. Sole(heap, global, scenes, c, {"external", "field"})
      BY <1>2, <3>2 DEF Apart
    <3>6. ApartIn(heap', e)
      BY <1>17, <3>2, <3>3, <3>5
    <3>7. ASSUME NEW t \in 1 .. Len(scenes), s # t PROVE e # scenes[t].external
      <4>1. PICK d : /\ IsCell(heap, scenes, d) /\ InCopy(current, d) /\ d[1] = "external" /\ d[2] = t
                     /\ Val(heap, global, scenes, d) = scenes[t].external /\ Val(heap, global, scenes, d) \in Pointer
        BY <1>12
      <4>2. d # c
        BY <3>2, <3>7, <4>1
      <4>3. Fwd(heap, Val(heap, global, scenes, d)) # Fwd(heap, Val(heap, global, scenes, c))
        BY <3>5, <4>1, <4>2 DEF Sole
      <4> QED BY <3>2, <4>1, <4>3
    <3>8. ASSUME NEW v \in HeldBy(scenes[s]) PROVE Own(heap', v)
      <4>1. v \in Pointer /\ \E f \in 1 .. Len(scenes[s].frames) : \E r \in Reg : v = scenes[s].frames[f].regs[r]
        BY DEF HeldBy
      <4>2. PICK f \in 1 .. Len(scenes[s].frames) : \E r \in Reg : v = scenes[s].frames[f].regs[r]
        BY <4>1
      <4>3. PICK r \in Reg : v = scenes[s].frames[f].regs[r]
        BY <4>2
      <4>4. PICK d : /\ IsCell(heap, scenes, d) /\ InCopy(current, d) /\ d[1] = "reg"
                     /\ Val(heap, global, scenes, d) = v /\ Val(heap, global, scenes, d) \in Pointer
        BY <1>13, <4>1, <4>3
      <4>5. Fit(heap, d, v) /\ v \in In(heap) /\ v[1] = b
        BY <1>5, <4>4
      <4> QED BY <1>7, <4>4, <4>5 DEF Fit, Own
    <3> QED BY <3>1, <3>4, <3>6, <3>7, <3>8
  <2> QED BY <2>1, <2>2 DEF RootsIn
<1>19. CallsIn(heap', native, scenes)
  BY DEF Busy, NoForeach, CallsIn
<1>20. PendingIn(heap', global, scenes, native, pending)
  <2>1. /\ pending.op \in {"new", "grow", "import"} /\ pending.args = Undefined /\ pending.type # "none"
        /\ pending.op \in {"new", "import"} => pending.cap = 1
    BY <1>2 DEF Asked
  <2>2. 1 \in 1 .. Len(scenes) /\ 1 \in 1 .. Len(scenes[1].frames) /\ pending.reg \in Reg
    BY <1>2, SceneIs DEF RequestType
  <2>3. ASSUME pending.op = "new", NEW r \in DOMAIN pending.captured
        PROVE  StorableIn(heap', scenes[1].frames[1].regs[pending.captured[r]])
    <3>1. pending.captured[r] \in Reg
      BY <1>2, <2>3 DEF RequestType
    <3>2. PICK v : v = scenes[1].frames[1].regs[pending.captured[r]]
      OBVIOUS
    <3>3. CASE v \in Pointer
      <4>1. PICK c : /\ IsCell(heap, scenes, c) /\ InCopy(current, c)
                     /\ Val(heap, global, scenes, c) = v /\ Val(heap, global, scenes, c) \in Pointer
        BY <1>13, <2>2, <3>1, <3>2, <3>3
      <4>2. v \in In(heap) /\ v[1] = b /\ At(heap, v).type \in {"object", "closure"}
        BY <1>5, <4>1
      <4> QED BY <1>7, <3>2, <4>2 DEF StorableIn
    <3>4. CASE v \notin Pointer
      BY <3>2, <3>4 DEF StorableIn
    <3> QED BY <3>3, <3>4
  <2>4. ASSUME pending.op = "grow" PROVE GrowingIn(heap', global, scenes[1].frames[1].regs[pending.reg])
    <3>1. PICK c : c = <<"reg", 1, 1, pending.reg>>
      OBVIOUS
    <3>2. /\ Val(heap, global, scenes, c) \in Pointer
          /\ Sole(heap, global, scenes, c, {"global", "field"})
      BY <1>2, <2>4, <3>1, Zenon DEF Asked
    <3>3. PICK v : v = scenes[1].frames[1].regs[pending.reg]
      OBVIOUS
    <3>4. c[1] = "reg" /\ c[2] = 1 /\ c[3] = 1 /\ c[4] = pending.reg
      BY <3>1
    <3>5. Val(heap, global, scenes, c) = v /\ v \in Pointer
      BY <3>2, <3>3, <3>4, ValOf
    <3>6. IsCell(heap, scenes, c) /\ InCopy(current, c)
      <4>1. IsCell(heap, scenes, c)
        BY <2>2, <3>1, Zenon DEF IsCell
      <4> QED BY <4>1, <3>4 DEF InCopy
    <3>7. /\ v \in In(heap) /\ v[1] = b /\ At(heap, v).type \in {"object", "closure"} /\ Fwd(heap, v) = v
      BY <1>5, <3>5, <3>6
    <3>8. ApartIn(heap', v)
      BY <1>17, <3>2, <3>4, <3>5, <3>6
    <3>9. global # v
      <4>1. PICK d : /\ IsCell(heap, scenes, d) /\ InCopy(current, d) /\ d[1] = "global"
                     /\ Val(heap, global, scenes, d) = global
        BY <1>14
      <4>2. d # c
        BY <3>4, <4>1
      <4> QED BY <1>2, <3>2, <3>5, <4>1, <4>2 DEF Sole
    <3> QED BY <1>7, <3>3, <3>5, <3>7, <3>8, <3>9 DEF GrowingIn
  <2> QED BY <2>1, <2>3, <2>4 DEF PendingIn
<1>21. Calm'
  BY <1>1, <1>3, <1>4, <1>8, <1>10, <1>16, <1>18, <1>19, <1>20 DEF Calm, Other, BlockSize
<1>22. pending.op # "none"
  BY <1>2 DEF Asked
<1> QED BY <1>1, <1>9, <1>21, <1>22

------------------------------------------------------------------------------
(* The inductive invariant. *)
Waits == pc = "alloc" => pending.op # "none"
Inv == Typed /\ (pc # "gc" => Calm) /\ (pc = "gc" => Busy) /\ Waits

(* cvm_state_new establishes it. *)
LEMMA InitInv == ASSUME Init PROVE Inv
<1>1. /\ used = [b \in {0, 1} |-> IF b = 0 THEN 4 ELSE 0] /\ current = 0 /\ global = <<0, 1>>
      /\ pc = "run" /\ pending = NoRequest /\ todo = <<>> /\ native = NoCall /\ program \in Programs
  BY DEF Init
<1>2. PICK a, b : a = NewObject("object", 1, NoFields, <<1>>) /\ b = NewObject("object", 1, NoFields, NoId)
  OBVIOUS
<1>3. heap = [c \in {0, 1} |-> IF c = 0 THEN <<a, b>> ELSE <<>>]
  BY <1>2 DEF Init
<1>4. BlockSize \in Nat /\ BlockSize >= 4 /\ <<1>> \in Ids /\ <<1>> # NoId
  <2>1. program.blockSize \in Nat \ (0 .. 3)
    BY <1>1, HeapAssumption
  <2>2. 1 \in 1 .. program.blockSize
    BY <2>1
  <2>3. <<1>> \in {<<i>> : i \in 1 .. program.blockSize}
    BY <2>2
  <2>4. <<1>> \in Ids
    BY <2>3, <1>1 DEF Ids
  <2>5. <<1>> # NoId
    BY DEF NoId, Undefined
  <2> QED BY <2>1, <2>4, <2>5 DEF BlockSize
<1>5. /\ a \in Object /\ a.type = "object" /\ a.cap = 1 /\ a.fields = NoFields /\ a.fwd = Undefined /\ a.id = <<1>>
      /\ b \in Object /\ b.type = "object" /\ b.cap = 1 /\ b.fields = NoFields /\ b.fwd = Undefined /\ b.id = NoId
  BY <1>2, <1>4, NoFieldsIs DEF NewObject, Object
<1>6. PtrsOf(a) = {} /\ PtrsOf(b) = {}
  BY <1>5, NoFieldsIs
<1>7. /\ <<a, b>> \in Seq(Object) /\ Len(<<a, b>>) = 2 /\ <<a, b>>[1] = a /\ <<a, b>>[2] = b
      /\ <<>> \in Seq(Object) /\ Len(<<>>) = 0
  BY <1>5
<1>8. heap[0] = <<a, b>> /\ heap[1] = <<>> /\ heap \in Heaps
  BY <1>3, <1>7 DEF Heaps
<1>9. /\ <<0, 1>> \in In(heap) /\ <<0, 2>> \in In(heap) /\ <<0, 1>> \in Pointer /\ <<0, 2>> \in Pointer
      /\ At(heap, <<0, 1>>) = a /\ At(heap, <<0, 2>>) = b
  BY <1>7, <1>8 DEF In, At, Pointer
<1>10. ASSUME NEW p \in In(heap) PROVE At(heap, p) \in {a, b}
  <2>1. p[1] \in {0, 1} /\ p[2] \in Nat \ {0} /\ p[2] <= Len(heap[p[1]])
    BY PointerIs DEF In
  <2>2. p[1] = 0
    BY <2>1, <1>7, <1>8
  <2>3. p[2] \in {1, 2}
    BY <2>1, <2>2, <1>7, <1>8
  <2> QED BY <2>2, <2>3, <1>7, <1>8 DEF At
<1>11. /\ \A c \in {0, 1} : IsFiniteSet(Units(heap[c]))
       /\ Cardinality(Units(heap[0])) <= 4
  <2> DEFINE u == Units(heap[0])  s == 1 .. 2  t == 0 .. 1
  <2>1. u = s \X t
    BY <1>5, <1>7, <1>8 DEF Units
  <2>2. Units(heap[1]) = {}
    BY <1>7, <1>8 DEF Units
  <2>3. IsFiniteSet(s) /\ Cardinality(s) = 2 /\ IsFiniteSet(t) /\ Cardinality(t) = 2
    <3>1. \A i, j \in Int : IsFiniteSet(i .. j) /\ Cardinality(i .. j) = IF i > j THEN 0 ELSE j - i + 1
      BY FS_Interval
    <3>2. PICK i, j, k \in Int : i = 0 /\ j = 1 /\ k = 2
      OBVIOUS
    <3>3. IsFiniteSet(j .. k) /\ IsFiniteSet(i .. j)
      BY <3>1
    <3>4. Cardinality(j .. k) = 2 /\ Cardinality(i .. j) = 2
      <4>1. PICK x, y : x = Cardinality(j .. k) /\ y = Cardinality(i .. j)
        OBVIOUS
      <4>2. x = (IF j > k THEN 0 ELSE k - j + 1) /\ y = (IF i > j THEN 0 ELSE j - i + 1)
        BY <3>1, <4>1, Zenon
      <4>3. x = 2 /\ y = 2
        BY <3>2, <4>2
      <4> QED BY <4>1, <4>3
    <3> QED BY <3>2, <3>3, <3>4
  <2>4. IsFiniteSet(u) /\ Cardinality(u) = 4
    BY <2>1, <2>3, FS_Product
  <2>5. IsFiniteSet(Units(heap[1]))
    BY <2>2, FS_EmptySet
  <2> QED BY <2>4, <2>5
<1>12. World(heap, current, used[current])
  <2>1. current = 0 /\ used[0] = 4 /\ 1 - current = 1
    BY <1>1
  <2>2. ASSUME NEW p \in In(heap)
        PROVE  /\ At(heap, p).type # "left" /\ At(heap, p).type # "redirect" /\ At(heap, p).fwd = Undefined
               /\ Good(heap, At(heap, p))
    BY <1>5, <1>6, <1>10 DEF Good
  <2> QED BY <2>1, <2>2, <1>8, <1>11 DEF World
<1>13. PICK f : f = MainFrame(<<0, 1>>)
  OBVIOUS
<1>14. /\ f \in FrameType /\ \A r \in Reg : f.regs[r] \in Pointer => f.regs[r] = <<0, 1>>
  <2>1. 1 \in Reg /\ Undefined \notin Pointer /\ <<0, 1>> \in Datum /\ Undefined \in Datum
    BY <1>9, FramesAssumption, PointerIs DEF Reg, Datum
  <2> QED BY <2>1, <1>13 DEF MainFrame, FrameType
<1>15. PICK sc : sc = [external |-> <<0, 2>>, frames |-> <<f>>, caller |-> NoCall]
  OBVIOUS
<1>16. sc.external = <<0, 2>> /\ sc.frames = <<f>> /\ sc.caller = NoCall /\ sc \in SceneType
  <2>1. <<f>> \in Seq(FrameType) \ {<<>>}
    BY <1>14
  <2> QED BY <2>1, <1>9, <1>15, NothingCaptured DEF SceneType
<1>17. scenes = <<sc>>
  BY <1>13, <1>15 DEF Init
<1>18. scenes \in Scenes /\ Len(scenes) = 1 /\ scenes[1] = sc
  BY <1>16, <1>17 DEF Scenes
<1>19. HeldBy(sc) \subseteq {<<0, 1>>}
  <2>1. Len(sc.frames) = 1 /\ sc.frames[1] = f
    BY <1>16
  <2>2. ASSUME NEW i \in 1 .. Len(sc.frames), NEW r \in Reg, sc.frames[i].regs[r] \in Pointer
        PROVE  sc.frames[i].regs[r] = <<0, 1>>
    <3>1. i = 1
      BY <2>1
    <3> QED BY <3>1, <2>1, <2>2, <1>14
  <2>3. ASSUME NEW v \in HeldBy(sc) PROVE v = <<0, 1>>
    <3>1. PICK i \in 1 .. Len(sc.frames), r \in Reg : v = sc.frames[i].regs[r]
      BY DEF HeldBy
    <3>2. v \in Pointer
      BY DEF HeldBy
    <3> QED BY <2>2, <3>1, <3>2
  <2> QED BY <2>3
<1>20. Own(heap, <<0, 1>>) /\ ExternalIn(heap, <<0, 2>>) /\ ApartIn(heap, <<0, 2>>)
  BY <1>4, <1>5, <1>6, <1>9, <1>10 DEF Own, ExternalIn, ApartIn
<1>21. RootsIn(heap, global, scenes)
  <2>1. Own(heap, global) /\ At(heap, global).type # "redirect"
    BY <1>1, <1>5, <1>9, <1>20
  <2>2. ASSUME NEW s \in 1 .. Len(scenes)
        PROVE  /\ ExternalIn(heap, scenes[s].external) /\ ApartIn(heap, scenes[s].external)
               /\ \A t \in 1 .. Len(scenes) : s # t => scenes[s].external # scenes[t].external
               /\ \A v \in HeldBy(scenes[s]) : Own(heap, v)
    <3>1. s = 1 /\ \A t \in 1 .. Len(scenes) : t = 1
      BY <1>18
    <3> QED BY <3>1, <1>16, <1>18, <1>19, <1>20
  <2> QED BY <2>1, <2>2 DEF RootsIn
<1>22. NoCall.fn = "none" /\ NoCall.array = Undefined /\ NoCall.callback = Undefined
  BY DEF NoCall
<1>23. CallsIn(heap, native, scenes)
  <2>1. \A s \in 1 .. Len(scenes) : scenes[s].caller = NoCall
    BY <1>16, <1>18
  <2> QED BY <2>1, <1>1, <1>22 DEF CallsIn
<1>24. pending.op = "none" /\ pending.args = Undefined
  BY <1>1 DEF NoRequest, Request
<1>25. PendingIn(heap, global, scenes, native, pending)
  BY <1>24 DEF PendingIn
<1>26. used[0] = 4 /\ used[1] = 0 /\ used \in [{0, 1} -> Nat]
  BY <1>1
<1>27. Calm
  BY <1>1, <1>4, <1>12, <1>21, <1>23, <1>24, <1>25, <1>26 DEF Calm, Other
<1>28. Typed
  BY <1>1, <1>8, <1>9, <1>18, <1>26, NothingCaptured DEF Typed, Heaps, Scenes
<1> QED BY <1>1, <1>27, <1>28 DEF Inv, Waits

(* A step of each kind keeps it. *)
LEMMA InstructionStep ==
  ASSUME Typed, Calm, ~StaleFields, Instruction
  PROVE  Typed' /\ Calm' /\ pc' # "gc" /\ Waits'
<1>1. PICK d \in Reg :
        \/ Uses("load") /\ Load(d)
        \/ Uses("object") /\ New(d, "object", NoFields)
        \/ \E s \in Operands :
             \/ Uses("move") /\ Move(d, s)
             \/ \E k \in Key : Uses("set") /\ SetObj(d, k, s)
        \/ \E r \in Reg :
             \/ \E c \in Reg : Uses("closure") /\ New(d, "closure", [x \in {c} |-> r])
             \/ \E k \in Key : Uses("get") /\ GetObj(d, r, k)
             \/ \E a \in Reg : Uses("call") /\ Call(d, r, a)
             \/ Uses("call") /\ Return(r)
  BY DEF Instruction
<1>2. Operands \subseteq Reg \cup {0}
  BY DEF Operands
<1>3. CASE Load(d)
  <2>1. Typed' /\ Calm'
    BY <1>3, LoadStep
  <2> QED BY <1>3, <2>1 DEF Load, Running, Quiet, Waits
<1>4. ASSUME NEW type \in {"object", "closure"}, NEW captured \in UNION {[S -> Reg] : S \in SUBSET Reg},
             New(d, type, captured)
      PROVE  Typed' /\ Calm' /\ pc' # "gc" /\ Waits'
  <2>1. Typed' /\ Calm'
    BY <1>4, NewStep
  <2>2. pc' = "alloc" /\ pending'.op = "new"
    BY <1>4 DEF New, Issue, Request
  <2> QED BY <2>1, <2>2 DEF Waits
<1>5. CASE New(d, "object", NoFields)
  BY <1>4, <1>5, NothingCaptured
<1>6. ASSUME NEW s \in Operands, Move(d, s) PROVE Typed' /\ Calm' /\ pc' # "gc" /\ Waits'
  <2>1. Typed' /\ Calm'
    BY <1>2, <1>6, MoveStep
  <2> QED BY <1>6, <2>1 DEF Move, Running, Quiet, Waits
<1>7. ASSUME NEW s \in Operands, NEW k \in Key, SetObj(d, k, s)
      PROVE  Typed' /\ Calm' /\ pc' # "gc" /\ Waits'
  <2>1. Typed' /\ Calm'
    BY <1>2, <1>7, SetObjStep
  <2>2. pc = "run" /\ ((pc' = "alloc" /\ pending'.op = "grow") \/ UNCHANGED <<pc, pending>>)
    BY <1>7 DEF SetObj, Running, Issue, Request
  <2> QED BY <2>1, <2>2 DEF Waits
<1>8. ASSUME NEW r \in Reg, NEW c \in Reg, New(d, "closure", [x \in {c} |-> r])
      PROVE  Typed' /\ Calm' /\ pc' # "gc" /\ Waits'
  <2>1. PICK captured : captured = [x \in {c} |-> r]
    OBVIOUS
  <2>2. captured \in [{c} -> Reg] /\ {c} \in SUBSET Reg
    BY <2>1
  <2>3. captured \in UNION {[S -> Reg] : S \in SUBSET Reg}
    BY <2>2
  <2> QED BY <1>4, <1>8, <2>1, <2>3
<1>9. ASSUME NEW r \in Reg, NEW k \in Key, GetObj(d, r, k) PROVE Typed' /\ Calm' /\ pc' # "gc" /\ Waits'
  <2>1. Typed' /\ Calm'
    BY <1>9, GetObjStep
  <2> QED BY <1>9, <2>1 DEF GetObj, Running, Quiet, Waits
<1>10. ASSUME NEW r \in Reg, NEW a \in Reg, Call(d, r, a) PROVE Typed' /\ Calm' /\ pc' # "gc" /\ Waits'
  <2>1. Typed' /\ Calm'
    BY <1>10, CallStep
  <2> QED BY <1>10, <2>1 DEF Call, Running, Quiet, Waits
<1>11. ASSUME NEW r \in Reg, Return(r) PROVE Typed' /\ Calm' /\ pc' # "gc" /\ Waits'
  <2>1. Typed' /\ Calm'
    BY <1>11, ReturnStep
  <2> QED BY <1>11, <2>1 DEF Return, Running, Quiet, Waits
<1> QED BY <1>1, <1>3, <1>5, <1>6, <1>7, <1>8, <1>9, <1>10, <1>11

(* The allocations of the instructions. *)
LEMMA AllocatorStep ==
  ASSUME Typed, Calm, Waits, Allocator
  PROVE  Typed' /\ Calm' /\ pc' # "gc" /\ Waits'
<1>1. CASE NewServed
  <2>1. Typed' /\ Calm'
    BY <1>1, NewServedStep
  <2> QED BY <1>1, <2>1 DEF NewServed, Served, Waits
<1>2. CASE GrowServed
  <2>1. Typed' /\ Calm'
    BY <1>2, GrowServedStep
  <2> QED BY <1>2, <2>1 DEF GrowServed, Served, Waits
<1>3. CASE OutOfMemory
  <2>1. Typed' /\ Calm'
    BY <1>3, OutOfMemoryStep
  <2> QED BY <1>3, <2>1 DEF OutOfMemory, Waits
<1> QED BY <1>1, <1>2, <1>3 DEF Allocator

(* Import, and the end of a scene. *)
LEMMA FromCStep ==
  ASSUME Typed, Calm, FromC
  PROVE  Typed' /\ Calm' /\ pc' # "gc" /\ Waits'
<1>1. ASSUME NEW d \in Reg, Import(d) PROVE Typed' /\ Calm' /\ pc' # "gc" /\ Waits'
  <2>1. Typed' /\ Calm'
    BY <1>1, ImportStep
  <2>2. pc' = "alloc" /\ pending'.op = "import"
    BY <1>1 DEF Import, Issue, RequestScene, Request
  <2> QED BY <2>1, <2>2 DEF Waits
<1>2. CASE ImportServed
  <2>1. Typed' /\ Calm'
    BY <1>2, ImportServedStep
  <2> QED BY <1>2, <2>1 DEF ImportServed, PushScene, Waits
<1>3. ASSUME NEW v \in {Undefined} \cup Range(Regs), Leave(v) PROVE Typed' /\ Calm' /\ pc' # "gc" /\ Waits'
  <2>1. Running /\ (LeaveImport(v) \/ LeaveCallback)
    BY <1>3 DEF Leave
  <2>2. CASE LeaveImport(v)
    <3>1. Typed' /\ Calm'
      BY <1>3, <2>2, LeaveImportStep
    <3> QED BY <2>1, <2>2, <3>1 DEF LeaveImport, Running, Waits
  <2>3. CASE LeaveCallback
    <3>1. Typed' /\ Calm'
      BY <1>3, <2>3, LeaveCallbackStep
    <3> QED BY <2>3, <3>1 DEF LeaveCallback, Waits
  <2> QED BY <2>1, <2>2, <2>3
<1> QED BY <1>1, <1>2, <1>3 DEF FromC

(* The steps of foreach. *)
LEMMA ForeachStep ==
  ASSUME Typed, Calm, Foreach
  PROVE  Typed' /\ Calm' /\ pc' # "gc" /\ Waits'
<1>1. ASSUME NEW d \in Reg, NEW a \in Reg, ForeachCall(d, a) PROVE Typed' /\ Calm' /\ pc' # "gc" /\ Waits'
  <2>1. Typed' /\ Calm'
    BY <1>1, ForeachCallStep
  <2> QED BY <1>1, <2>1 DEF ForeachCall, Waits
<1>2. CASE ForeachNext
  <2>1. Typed' /\ Calm'
    BY <1>2, ForeachNextStep
  <2>2. pc' = "alloc" /\ pending'.op = "cb_arg"
    BY <1>2 DEF ForeachNext, Issue, Request
  <2> QED BY <2>1, <2>2 DEF Waits
<1>3. CASE CbArgServed
  <2>1. Typed' /\ Calm'
    BY <1>3, CbArgServedStep
  <2>2. pc' = "alloc" /\ pending'.op \in {"external", "scene"}
    BY <1>3 DEF CbArgServed, PassArguments, Issue, RequestScene, Request
  <2> QED BY <2>1, <2>2 DEF Waits
<1>4. CASE ExternalServed
  <2>1. Typed' /\ Calm'
    BY <1>4, ExternalServedStep
  <2>2. pc' = "alloc" /\ pending'.op = "scene"
    BY <1>4 DEF ExternalServed, PassArguments, Issue, RequestScene, Request
  <2> QED BY <2>1, <2>2 DEF Waits
<1>5. CASE SceneServed
  <2>1. Typed' /\ Calm'
    BY <1>5, SceneServedStep
  <2> QED BY <1>5, <2>1 DEF SceneServed, PushScene, Waits
<1>6. CASE ForeachDone
  <2>1. Typed' /\ Calm'
    BY <1>6, ForeachDoneStep
  <2> QED BY <1>6, <2>1 DEF ForeachDone, Waits
<1> QED BY <1>1, <1>2, <1>3, <1>4, <1>5, <1>6 DEF Foreach

(* Nothing happens. *)
LEMMA StutterStep == ASSUME Inv, UNCHANGED vars PROVE Inv'
<1>1. /\ heap' = heap /\ used' = used /\ current' = current /\ global' = global /\ scenes' = scenes
      /\ pc' = pc /\ pending' = pending /\ todo' = todo /\ native' = native /\ program' = program
  BY DEF vars
<1>2. Typed'
  BY <1>1 DEF Inv, Typed
<1>3. pc # "gc" => Calm'
  BY <1>1 DEF Inv, Calm, Other, BlockSize
<1>4. pc = "gc" => Busy'
  BY <1>1 DEF Inv, Busy, BlockSize
<1> QED BY <1>1, <1>2, <1>3, <1>4 DEF Inv, Waits

(* Every step. *)
LEMMA NextInv ==
  ASSUME ~StaleFields, ~CollectPastEnd, ~CollectInForeach, Inv, [CallbacksNext]_vars
  PROVE  Inv'
<1>1. Typed /\ (pc # "gc" => Calm) /\ (pc = "gc" => Busy) /\ Waits
  BY DEF Inv
<1>2. CASE Collectable /\ StartGC
  <2>1. pc = "alloc"
    BY <1>2 DEF StartGC
  <2>2. Typed' /\ Busy' /\ pc' = "gc"
    BY <1>1, <1>2, <2>1, StartGCStep DEF Waits
  <2> QED BY <2>2 DEF Inv, Waits
<1>3. CASE Mark
  <2>1. pc = "gc"
    BY <1>3 DEF Mark
  <2>2. Typed' /\ Busy' /\ pc' = "gc"
    BY <1>1, <1>3, <2>1, MarkStep
  <2> QED BY <2>2 DEF Inv, Waits
<1>4. CASE EndGC
  <2>1. pc = "gc" /\ pc' = "alloc"
    BY <1>4 DEF EndGC
  <2>2. Typed' /\ Calm' /\ pending'.op # "none"
    BY <1>1, <1>4, <2>1, EndGCStep
  <2> QED BY <2>1, <2>2 DEF Inv, Waits
<1>5. CASE Allocator
  <2>1. pc = "alloc"
    BY <1>5 DEF Allocator, NewServed, GrowServed, OutOfMemory
  <2>2. Typed' /\ Calm' /\ pc' # "gc" /\ Waits'
    BY <1>1, <1>5, <2>1, AllocatorStep
  <2> QED BY <2>2 DEF Inv
<1>6. CASE Instruction
  <2>1. pc = "run"
    <3>1. /\ \A d : Load(d) => pc = "run"
          /\ \A d, type, captured : New(d, type, captured) => pc = "run"
          /\ \A d, s : Move(d, s) => pc = "run"
          /\ \A d, k, s : SetObj(d, k, s) => pc = "run"
          /\ \A d, r, k : GetObj(d, r, k) => pc = "run"
          /\ \A d, r, a : Call(d, r, a) => pc = "run"
          /\ \A r : Return(r) => pc = "run"
      BY DEF Load, New, Move, SetObj, GetObj, Call, Return, Running
    <3> QED BY <1>6, <3>1, Zenon DEF Instruction
  <2>2. Typed' /\ Calm' /\ pc' # "gc" /\ Waits'
    BY <1>1, <1>6, <2>1, InstructionStep
  <2> QED BY <2>2 DEF Inv
<1>7. CASE FromC
  <2>1. pc \in {"run", "alloc"}
    BY <1>7 DEF FromC, Import, ImportServed, Leave, Running
  <2>2. Typed' /\ Calm' /\ pc' # "gc" /\ Waits'
    BY <1>1, <1>7, <2>1, FromCStep
  <2> QED BY <2>2 DEF Inv
<1>8. CASE Foreach
  <2>1. pc \in {"run", "alloc", "native"}
    BY <1>8 DEF Foreach, ForeachCall, ForeachNext, CbArgServed, ExternalServed, SceneServed, ForeachDone,
                InForeach, Running
  <2>2. Typed' /\ Calm' /\ pc' # "gc" /\ Waits'
    BY <1>1, <1>8, <2>1, ForeachStep
  <2> QED BY <2>2 DEF Inv
<1>9. CASE UNCHANGED vars
  BY <1>9, StutterStep
<1> QED BY <1>2, <1>3, <1>4, <1>5, <1>6, <1>7, <1>8, <1>9 DEF CallbacksNext

(* The invariant holds of every program that stores no pointer to a REDIRECT header
   and of every run that collects no garbage while a foreach is running. *)
THEOREM Invariance == ASSUME ~StaleFields, ~CollectPastEnd, ~CollectInForeach PROVE CallbacksSpec => []Inv
<1>1. Init => Inv
  BY InitInv
<1>2. Inv /\ [CallbacksNext]_vars => Inv'
  BY NextInv
<1> QED BY <1>1, <1>2, PTL DEF CallbacksSpec

------------------------------------------------------------------------------
(* What follows from it. *)
LEMMA InvIs ==
  ASSUME Inv
  PROVE  Typed /\ Headers /\ Volume /\ Values(heap, global, scenes)
<1>1. CASE pc # "gc"
  BY <1>1, CalmIs, CalmValues DEF Inv
<1>2. CASE pc = "gc"
  BY <1>2, BusyIs DEF Inv, Busy, Copying
<1> QED BY <1>1, <1>2

(* Every pointer of a root or an object is to an object of a block.          *)
LEMMA SlotsPlaced ==
  ASSUME Inv
  PROVE  /\ global \in Places
         /\ \A s \in 1 .. Len(scenes) : scenes[s].external \in Places
         /\ \A s \in 1 .. Len(scenes) : \A f \in 1 .. Len(scenes[s].frames) : \A r \in Reg :
              scenes[s].frames[f].regs[r] \in Pointer => scenes[s].frames[f].regs[r] \in Places
         /\ \A p \in Places : /\ \A k \in DOMAIN Obj(p).fields :
                                   Obj(p).fields[k] \in Pointer => Obj(p).fields[k] \in Places
                              /\ Obj(p).fwd \in Places \cup {Undefined}
<1>1. Typed /\ Headers /\ Values(heap, global, scenes) /\ scenes \in Scenes /\ global \in Pointer
  BY InvIs, TopIs DEF Typed
<1>2. ASSUME NEW c, IsCell(heap, scenes, c), NEW v, v = Val(heap, global, scenes, c), v \in Pointer
      PROVE  v \in Places
  BY <1>1, <1>2 DEF Values, Fit, Places
<1>3. global \in Places
  <2>1. PICK c : c = <<"global">>
    OBVIOUS
  <2>2. IsCell(heap, scenes, c) /\ c[1] = "global"
    BY <2>1 DEF IsCell
  <2> QED BY <2>2, <1>1, <1>2, ValOf
<1>4. ASSUME NEW s \in 1 .. Len(scenes) PROVE scenes[s].external \in Places
  <2>1. PICK c : c = <<"external", s>>
    OBVIOUS
  <2>2. IsCell(heap, scenes, c) /\ c[1] = "external" /\ c[2] = s
    BY <2>1 DEF IsCell
  <2>3. Val(heap, global, scenes, c) = scenes[s].external
    BY <2>2, ValOf
  <2>4. scenes[s].external \in Pointer
    BY <1>1, SceneIs
  <2> QED BY <2>2, <2>3, <2>4, <1>2
<1>5. ASSUME NEW s \in 1 .. Len(scenes), NEW f \in 1 .. Len(scenes[s].frames), NEW r \in Reg,
             scenes[s].frames[f].regs[r] \in Pointer
      PROVE  scenes[s].frames[f].regs[r] \in Places
  <2>1. PICK c : c = <<"reg", s, f, r>>
    OBVIOUS
  <2>2. IsCell(heap, scenes, c)
    BY <2>1, Zenon DEF IsCell
  <2>3. c[1] = "reg" /\ c[2] = s /\ c[3] = f /\ c[4] = r
    BY <2>1
  <2>4. Val(heap, global, scenes, c) = scenes[s].frames[f].regs[r]
    BY <2>3, ValOf
  <2> QED BY <1>5, <2>2, <2>4, <1>2
<1>6. ASSUME NEW p \in Places, NEW k \in DOMAIN Obj(p).fields, Obj(p).fields[k] \in Pointer
      PROVE  Obj(p).fields[k] \in Places
  <2>1. Obj(p) = At(heap, p)
    BY DEF Obj, At
  <2>2. PICK c : c = <<"field", p, k>>
    OBVIOUS
  <2>3. IsCell(heap, scenes, c)
    BY <2>1, <2>2, <1>6, Zenon DEF IsCell, Places
  <2>4. c[1] = "field" /\ c[2] = p /\ c[3] = k
    BY <2>2
  <2>5. Val(heap, global, scenes, c) = Obj(p).fields[k]
    BY <2>1, <2>4, ValOf
  <2> QED BY <1>6, <2>3, <2>5, <1>2
<1>7. ASSUME NEW p \in Places PROVE Obj(p).fwd \in Places \cup {Undefined}
  <2>1. Obj(p).type \in {"object", "closure", "redirect", "left"}
    BY <1>1, ObjTyped, ObjectIs
  <2> QED BY <2>1, <1>1 DEF Headers
<1> QED BY <1>3, <1>4, <1>5, <1>6, <1>7

(* What Pointers collects are places. *)
LEMMA PointersPlaced ==
  ASSUME Inv, NEW b \in {0, 1}, NEW v \in Pointers(b)
  PROVE  v \in Places
<1>1. Typed /\ scenes \in Scenes
  BY InvIs, TopIs
<1>2. ~IsPtr(Undefined)
  BY DEF IsPtr, Undefined
<1>3. ASSUME NEW x \in Registers, v = scenes[x[1]].frames[x[2]].regs[x[3]], IsPtr(v) PROVE v \in Places
  <2>1. PICK s, f, r : s = x[1] /\ f = x[2] /\ r = x[3]
    OBVIOUS
  <2>2. s \in DOMAIN scenes /\ f \in DOMAIN scenes[s].frames /\ r \in Reg
    <3>1. PICK y \in AllFrames : \E z \in Reg : x = <<y[1], y[2], z>>
      BY DEF Registers
    <3>2. PICK z \in Reg : x = <<y[1], y[2], z>>
      BY <3>1
    <3>3. s = y[1] /\ f = y[2] /\ r = z
      BY <2>1, <3>2
    <3>4. PICK t \in DOMAIN scenes : y \in {t} \X DOMAIN scenes[t].frames
      BY Zenon DEF AllFrames
    <3>5. y[1] = t /\ y[2] \in DOMAIN scenes[t].frames
      BY <3>4
    <3> QED BY <3>3, <3>4, <3>5
  <2>3. s \in 1 .. Len(scenes)
    BY <1>1, <2>2, SceneIs, LenProperties
  <2>4. f \in 1 .. Len(scenes[s].frames) /\ scenes[s].frames[f].regs \in [Reg -> Datum]
    <3>1. scenes[s].frames \in Seq(FrameType)
      BY <1>1, <2>3, SceneIs
    <3>2. f \in 1 .. Len(scenes[s].frames)
      BY <2>2, <3>1, LenProperties
    <3> QED BY <3>2, <1>1, <2>3, SceneIs
  <2>5. v \in Datum
    BY <1>3, <2>1, <2>2, <2>4
  <2>6. v \in Pointer
    BY <1>3, <2>5, PointerIs
  <2> QED BY <1>3, <2>1, <2>2, <2>3, <2>4, <2>6, SlotsPlaced
<1>4. CASE v \in Roots
  BY <1>3, <1>4, SlotsPlaced DEF Roots
<1>5. CASE v \notin Roots
  <2>1. PICK i \in 1 .. Len(heap[b]) : v \in Targets(<<b, i>>)
    BY <1>5, Zenon DEF Pointers
  <2>2. PICK q : q = <<b, i>>
    OBVIOUS
  <2>3. q \in Places
    BY <1>1, <2>2, PlaceIs
  <2>4. v \in {Obj(q).fields[k] : k \in DOMAIN Obj(q).fields} \cup {Obj(q).fwd} /\ IsPtr(v)
    BY <2>1, <2>2 DEF Targets
  <2>5. CASE v = Obj(q).fwd
    BY <2>3, <2>4, <2>5, <1>2, SlotsPlaced
  <2>6. CASE v # Obj(q).fwd
    <3>1. PICK k \in DOMAIN Obj(q).fields : v = Obj(q).fields[k]
      BY <2>4, <2>6
    <3>2. Obj(q).fields[k] \in Datum
      BY <1>1, <2>3, ObjTyped, ObjectIs
    <3>3. v \in Pointer
      BY <2>4, <3>1, <3>2, PointerIs
    <3> QED BY <2>3, <3>1, <3>3, SlotsPlaced
  <2> QED BY <2>5, <2>6
<1> QED BY <1>4, <1>5

(* Outside of a collection every pointer is to an object of the block in use, and none
   to what a collection left behind: all registers, fields, captured values, externals
   and the global are followed by young_gen_gc_mark. *)
THEOREM Dangling ==
  ASSUME ~StaleFields, ~CollectPastEnd, ~CollectInForeach
  PROVE  CallbacksSpec => []NoDangling
<1>1. Inv => NoDangling
  <2> SUFFICES ASSUME Inv, pc \in {"run", "alloc"}, NEW p \in Pointers(current)
               PROVE  p[1] = current /\ IsAddress(p) /\ Obj(p).type # "left"
    BY DEF NoDangling
  <2>1. Typed /\ Calm /\ current \in {0, 1}
    BY DEF Inv, Typed
  <2>2. p \in Places
    BY <2>1, PointersPlaced
  <2> QED BY <2>1, <2>2, CalmIs, ObjTyped DEF IsAddress
<1> QED BY <1>1, Invariance, PTL

(* The copies of a collection need no more room than the originals had, whatever has
   been copied so far: the allocations of young_gen_gc_mark, unchecked, fit. *)
THEOREM Replacement ==
  ASSUME ~StaleFields, ~CollectPastEnd, ~CollectInForeach
  PROVE  CallbacksSpec => []ReplacementFits
<1>1. Inv => ReplacementFits
  BY BusyIs DEF Inv, ReplacementFits, Other
<1> QED BY <1>1, Invariance, PTL

(* No object is copied twice and every GC_LEFT header has the address of a copy of its own. *)
THEOREM Injective ==
  ASSUME ~StaleFields, ~CollectPastEnd, ~CollectInForeach
  PROVE  CallbacksSpec => []ForwardingInjective
<1>1. ASSUME Inv, pc = "gc", NEW left, left = {i \in 1 .. Len(heap[current]) : heap[current][i].type = "left"}
      PROVE  /\ Cardinality(left) = Len(heap[1 - current])
             /\ {heap[current][i].fwd : i \in left} = {1 - current} \X (1 .. Len(heap[1 - current]))
  <2>1. /\ Typed /\ current \in {0, 1} /\ heap \in Heaps /\ HeadersIn(current, heap) /\ Forwarding(current, heap)
    BY <1>1 DEF Inv, Busy, Copying
  <2>2. PICK b, n, m : b = 1 - current /\ n = Len(heap[1 - current]) /\ m = Len(heap[current])
    OBVIOUS
  <2>3. b \in {0, 1} /\ b # current /\ n \in Nat /\ m \in Nat /\ n = Len(heap[b])
    BY <2>1, <2>2, LenProperties DEF Heaps
  <2>4. ASSUME NEW i \in left
        PROVE  /\ i \in 1 .. m /\ <<current, i>> \in In(heap) /\ At(heap, <<current, i>>) = heap[current][i]
               /\ heap[current][i].type = "left"
               /\ heap[current][i].fwd \in {b} \X (1 .. n)
    <3>1. i \in 1 .. m /\ heap[current][i].type = "left"
      BY <1>1, <2>2
    <3>2. PICK p : p = <<current, i>>
      OBVIOUS
    <3>3. p \in In(heap) /\ At(heap, p) = heap[current][i]
      BY <2>1, <2>2, <3>1, <3>2, PlaceIs DEF Places, At
    <3>4. At(heap, p).fwd \in In(heap) /\ At(heap, p).fwd[1] = b
      BY <2>1, <2>2, <3>1, <3>3 DEF HeadersIn
    <3>5. PICK q : q = At(heap, p).fwd
      OBVIOUS
    <3>6. q[2] \in 1 .. n /\ q = <<b, q[2]>>
      BY <2>1, <2>3, <3>4, <3>5, PointerIs DEF In
    <3>7. q \in {b} \X (1 .. n)
      BY <3>6
    <3> QED BY <3>1, <3>2, <3>3, <3>5, <3>7
  <2>5. ASSUME NEW j \in 1 .. n PROVE \E i \in left : heap[current][i].fwd = <<b, j>>
    <3>1. PICK q : q = <<b, j>>
      OBVIOUS
    <3>2. q \in In(heap) /\ q[1] = 1 - current
      BY <2>1, <2>2, <2>3, <3>1, PlaceIs DEF Places
    <3>3. PICK p \in In(heap) : At(heap, p).type = "left" /\ At(heap, p).fwd = q
      BY <2>1, <3>2 DEF Forwarding
    <3>4. p[1] = current
      BY <2>1, <3>3 DEF HeadersIn
    <3>5. p[2] \in 1 .. m /\ At(heap, p) = heap[current][p[2]]
      BY <2>2, <2>3, <3>4, PointerIs DEF In, At
    <3>6. p[2] \in left
      BY <1>1, <2>2, <3>3, <3>5
    <3> QED BY <3>1, <3>3, <3>5, <3>6
  <2>6. ASSUME NEW i \in left, NEW j \in left, i # j PROVE heap[current][i].fwd # heap[current][j].fwd
    <3>1. PICK p, q : p = <<current, i>> /\ q = <<current, j>>
      OBVIOUS
    <3>2. p \in In(heap) /\ q \in In(heap) /\ At(heap, p) = heap[current][i] /\ At(heap, q) = heap[current][j]
          /\ At(heap, p).type = "left" /\ At(heap, q).type = "left"
      BY <2>4, <3>1
    <3>3. p # q
      BY <2>6, <3>1
    <3> QED BY <2>1, <3>2, <3>3 DEF Forwarding
  <2>7. {heap[current][i].fwd : i \in left} = {b} \X (1 .. n)
    <3>1. ASSUME NEW x \in {b} \X (1 .. n) PROVE x \in {heap[current][i].fwd : i \in left}
      <4>1. x[2] \in 1 .. n /\ x = <<b, x[2]>>
        OBVIOUS
      <4> QED BY <4>1, <2>5
    <3>2. ASSUME NEW x \in {heap[current][i].fwd : i \in left} PROVE x \in {b} \X (1 .. n)
      <4>1. PICK i \in left : x = heap[current][i].fwd
        OBVIOUS
      <4> QED BY <4>1, <2>4
    <3>3. PICK A, B : A = {heap[current][i].fwd : i \in left} /\ B = {b} \X (1 .. n)
      OBVIOUS
    <3>4. A \subseteq B /\ B \subseteq A
      BY <3>1, <3>2, <3>3, Zenon
    <3> QED BY <3>3, <3>4
  <2> DEFINE f == [i \in left |-> heap[current][i].fwd[2]]
  <2>8. f \in Bijection(left, 1 .. n)
    <3>1. ASSUME NEW i \in left PROVE f[i] \in 1 .. n /\ heap[current][i].fwd = <<b, f[i]>>
      <4>1. PICK x : x = heap[current][i].fwd
        OBVIOUS
      <4>2. x \in {b} \X (1 .. n) /\ f[i] = x[2]
        BY <2>4, <4>1
      <4>3. x[2] \in 1 .. n /\ x = <<b, x[2]>>
        BY <4>2
      <4> QED BY <4>1, <4>2, <4>3
    <3>2. \A i, j \in left : i # j => f[i] # f[j]
      BY <2>6, <3>1
    <3>3. \A j \in 1 .. n : \E i \in left : f[i] = j
      <4> TAKE j \in 1 .. n
      <4>1. PICK i \in left : heap[current][i].fwd = <<b, j>>
        BY <2>5
      <4> QED BY <4>1
    <3>4. f \in [left -> 1 .. n]
      BY <3>1
    <3> HIDE DEF f
    <3> QED BY <3>2, <3>3, <3>4 DEF Bijection, Injection, Surjection, IsInjective
  <2>9. IsFiniteSet(1 .. n) /\ Cardinality(1 .. n) = n
    BY <2>3, UpTo
  <2>10. IsFiniteSet(left)
    <3>1. left \subseteq 1 .. m
      BY <2>4
    <3>2. IsFiniteSet(1 .. m)
      BY <2>3, FS_Interval
    <3> QED BY <3>1, <3>2, FS_Subset
  <2>11. Cardinality(left) = n
    <3>1. PICK T : T = 1 .. n
      OBVIOUS
    <3>2. IsFiniteSet(T) /\ Cardinality(T) = n
      BY <2>9, <3>1
    <3>3. f \in Bijection(left, T)
      BY <2>8, <3>1
    <3> HIDE DEF f
    <3>4. ExistsBijection(left, T)
      BY <3>3 DEF ExistsBijection
    <3>5. Cardinality(left) = Cardinality(T)
      BY <2>10, <3>4, FS_Bijection
    <3> QED BY <3>2, <3>5
  <2> QED BY <2>2, <2>7, <2>11
<1>2. Inv => ForwardingInjective
  BY <1>1 DEF ForwardingInjective
<1> QED BY <1>2, Invariance, PTL

(* A collection copies nothing but what a root or an earlier copy points to. *)
THEOREM NoGarbage ==
  ASSUME ~StaleFields, ~CollectPastEnd, ~CollectInForeach
  PROVE  CallbacksSpec => []CopiesReached
<1>1. ASSUME Inv, pc = "gc", NEW i \in 1 .. Len(heap[1 - current]), NEW q, q = <<1 - current, i>>
      PROVE  q \in Roots \/ \E j \in 1 .. i - 1 : q \in Targets(<<1 - current, j>>)
  <2>1. Typed /\ current \in {0, 1} /\ scenes \in Scenes /\ heap \in Heaps /\ Reached(current, heap, global, scenes, {})
    BY <1>1, TopIs DEF Inv, Busy, Copying
  <2>2. 1 - current \in {0, 1} /\ q \in In(heap) /\ q[1] = 1 - current /\ q[2] = i /\ q \in Pointer
    BY <1>1, <2>1, PlaceIs DEF Places, In
  <2>3. PICK c : /\ IsCell(heap, scenes, c) /\ InCopy(current, c) /\ Val(heap, global, scenes, c) = q
                 /\ c[1] = "field" => c[2][2] < q[2]
    BY <2>1, <2>2 DEF Reached
  <2>4. IsPtr(q)
    BY <2>2, PointerIs DEF Datum
  <2>5. /\ c[1] \in {"global", "external", "reg", "field"}
        /\ c[1] = "external" => c[2] \in 1 .. Len(scenes)
        /\ c[1] = "reg" => /\ c[2] \in 1 .. Len(scenes)
                           /\ c[3] \in 1 .. Len(scenes[c[2]].frames) /\ c[4] \in Reg
        /\ c[1] = "field" => c[2] \in In(heap) /\ c[3] \in DOMAIN At(heap, c[2]).fields
    BY <2>3, CellIs
  <2>6. CASE c[1] = "global"
    BY <2>3, <2>6, ValOf DEF Roots
  <2>7. CASE c[1] = "external"
    <3>1. q = scenes[c[2]].external
      BY <2>3, <2>7, ValOf
    <3> QED BY <2>5, <2>7, <3>1 DEF Roots
  <2>8. CASE c[1] = "reg"
    <3>1. q = scenes[c[2]].frames[c[3]].regs[c[4]]
      BY <2>3, <2>8, ValOf
    <3>2. c[2] \in DOMAIN scenes /\ c[3] \in DOMAIN scenes[c[2]].frames /\ c[4] \in Reg
      <4>1. scenes \in Seq(SceneType)
        BY <2>1, SceneIs
      <4>2. scenes[c[2]].frames \in Seq(FrameType)
        BY <2>1, <2>5, <2>8, SceneIs
      <4> QED BY <2>5, <2>8, <4>1, <4>2
    <3>3. PICK x : x = <<c[2], c[3]>>
      OBVIOUS
    <3>4. x \in {c[2]} \X DOMAIN scenes[c[2]].frames
      BY <3>2, <3>3
    <3>5. x \in AllFrames
      BY <3>2, <3>4, Zenon DEF AllFrames
    <3>6. PICK y : y = <<x[1], x[2], c[4]>>
      OBVIOUS
    <3>7. y \in Registers
      BY <3>2, <3>5, <3>6 DEF Registers
    <3>8. q = scenes[y[1]].frames[y[2]].regs[y[3]]
      BY <3>1, <3>3, <3>6
    <3> QED BY <3>7, <3>8, <2>4 DEF Roots
  <2>9. CASE c[1] = "field"
    <3>1. q = At(heap, c[2]).fields[c[3]]
      BY <2>3, <2>9, ValOf
    <3>2. c[2] \in In(heap) /\ c[2][1] = 1 - current /\ c[2][2] < i /\ c[3] \in DOMAIN At(heap, c[2]).fields
      BY <2>2, <2>3, <2>5, <2>9 DEF InCopy
    <3>3. PICK j : j = c[2][2]
      OBVIOUS
    <3>4. c[2] = <<1 - current, j>> /\ j \in 1 .. i - 1
      BY <3>2, <3>3, <1>1, PointerIs DEF In
    <3>5. Obj(c[2]) = At(heap, c[2])
      BY DEF Obj, At
    <3>6. q \in Targets(c[2])
      BY <2>4, <3>1, <3>2, <3>5 DEF Targets
    <3> QED BY <3>4, <3>6
  <2> QED BY <2>5, <2>6, <2>7, <2>8, <2>9
<1>2. Inv => CopiesReached
  BY <1>1 DEF CopiesReached
<1> QED BY <1>2, Invariance, PTL

(* Places and capacities are within the bounds of TypeOK. *)
LEMMA PlacesBounded ==
  ASSUME Typed, Headers, Volume
  PROVE  /\ Places \subseteq Address /\ BlockSize \in Nat
         /\ \A p \in Places : Obj(p).cap \in 0 .. BlockSize
         /\ used \in [{0, 1} -> 0 .. BlockSize]
<1>1. Places \subseteq Address
  BY PlacesAre DEF Allotted
<1>2. BlockSize \in Nat /\ current \in {0, 1} /\ Other \in {0, 1} /\ {0, 1} = {current, Other} /\ used \in [{0, 1} -> Nat]
  BY BlockSizeIs DEF Typed, Other
<1>3. \A b \in {0, 1} : /\ heap[b] \in Seq(Object) /\ IsFiniteSet(Units(heap[b]))
                       /\ Cardinality(Units(heap[b])) \in Nat
  BY FS_CardinalityType DEF Typed, Volume
<1>4. \A b \in {0, 1} : used[b] <= BlockSize /\ Cardinality(Units(heap[b])) <= BlockSize
  <2>1. PICK x, y : x = Cardinality(Units(heap[current])) /\ y = Cardinality(Units(heap[Other]))
    OBVIOUS
  <2>2. /\ x \in Nat /\ y \in Nat /\ used[Other] \in Nat /\ used[current] \in Nat
        /\ y <= used[Other] /\ x + used[Other] <= used[current] /\ used[current] <= BlockSize
    BY <1>2, <1>3, <2>1 DEF Volume
  <2>3. x <= BlockSize /\ y <= BlockSize /\ used[Other] <= BlockSize
    BY <1>2, <2>2
  <2> QED BY <1>2, <2>1, <2>2, <2>3
<1>5. ASSUME NEW p \in Places PROVE Obj(p).cap \in 0 .. BlockSize
  <2>1. /\ p[1] \in {0, 1} /\ p[2] \in 1 .. Len(heap[p[1]]) /\ Obj(p) \in Object /\ Obj(p).cap \in Nat
        /\ Obj(p) = heap[p[1]][p[2]]
    BY ObjTyped, ObjectIs DEF Obj
  <2>2. CASE Obj(p).type = "left"
    BY <2>1, <2>2, <1>2 DEF Headers
  <2>3. CASE Obj(p).type # "left"
    <3>1. PICK t : t = heap[p[1]]
      OBVIOUS
    <3>2. t \in Seq(Object) /\ IsFiniteSet(Units(t)) /\ Cardinality(Units(t)) \in Nat /\ Cardinality(Units(t)) <= BlockSize
      BY <1>3, <1>4, <2>1, <3>1
    <3>3. t[p[2]].cap + 1 <= Cardinality(Units(t))
      BY <2>1, <2>3, <3>1, <3>2, UnitsBound
    <3>4. Obj(p).cap + 1 <= Cardinality(Units(t))
      BY <2>1, <3>1, <3>3
    <3>5. PICK x, y : x = Obj(p).cap /\ y = Cardinality(Units(t))
      OBVIOUS
    <3>6. x \in Nat /\ y \in Nat /\ x + 1 <= y /\ y <= BlockSize
      BY <2>1, <3>2, <3>4, <3>5
    <3>7. x \in 0 .. BlockSize
      BY <1>2, <3>6
    <3> QED BY <3>5, <3>7
  <2> QED BY <2>2, <2>3
<1>6. used \in [{0, 1} -> 0 .. BlockSize]
  BY <1>2, <1>4
<1> QED BY <1>1, <1>2, <1>5, <1>6

(* The state has its type: addresses are within the block, and so is what allocated counts. *)
THEOREM TypeCorrect ==
  ASSUME ~StaleFields, ~CollectPastEnd, ~CollectInForeach
  PROVE  CallbacksSpec => []TypeOK
<1>1. ASSUME Inv PROVE TypeOK
  <2>1. Typed /\ Headers /\ Volume /\ scenes \in Scenes
    BY <1>1, InvIs, TopIs
  <2>2. /\ Places \subseteq Address /\ \A p \in Places : Obj(p).cap \in 0 .. BlockSize
        /\ used \in [{0, 1} -> 0 .. BlockSize]
    BY <2>1, PlacesBounded
  <2>3. ASSUME NEW v \in Datum, v \in Pointer => v \in Places PROVE v \in Value
    BY <2>2, <2>3 DEF Datum, Value
  <2>4. ASSUME NEW o \in Object PROVE Len(o.id) <= 1
    <3>1. o.id \in Ids \cup {NoId}
      BY ObjectIs
    <3>2. CASE o.id = NoId
      BY <3>2 DEF NoId, Undefined
    <3>3. CASE o.id \in Ids
      <4>1. PICK x \in Programs : o.id \in {<<i>> : i \in 1 .. x.blockSize}
        BY <3>3 DEF Ids
      <4>2. PICK i \in 1 .. x.blockSize : o.id = <<i>>
        BY <4>1
      <4> QED BY <4>2
    <3> QED BY <3>1, <3>2, <3>3
  <2>5. ASSUME NEW b \in {0, 1}, NEW i \in 1 .. Len(heap[b]) PROVE IsObject(heap[b][i])
    <3>1. PICK p : p = <<b, i>>
      OBVIOUS
    <3>2. PICK o : o = heap[b][i]
      OBVIOUS
    <3>3. p \in Places /\ Obj(p) = o
      BY <2>1, <3>1, <3>2, PlaceIs DEF Obj
    <3>4. o \in Object
      BY <2>1, <3>3, ObjTyped
    <3>5. /\ o.type \in {"object", "closure", "redirect", "left"} /\ DOMAIN o.fields \subseteq Nat
          /\ \A k \in DOMAIN o.fields : o.fields[k] \in Datum \ {Undefined}
      BY <3>4, ObjectIs
    <3>6. o.cap \in 0 .. BlockSize
      BY <2>2, <3>3
    <3>7. \A k \in DOMAIN o.fields : o.fields[k] \in Value \ {Undefined}
      BY <1>1, <2>3, <3>3, <3>5, SlotsPlaced
    <3>8. o.fwd \in Address \cup {Undefined}
      BY <1>1, <2>2, <3>3, SlotsPlaced
    <3>9. Len(o.id) <= 1
      BY <2>4, <3>4
    <3> QED BY <3>2, <3>5, <3>6, <3>7, <3>8, <3>9 DEF IsObject
  <2>6. global \in Address
    BY <1>1, <2>2, SlotsPlaced
  <2>7. ASSUME NEW s \in 1 .. Len(scenes)
        PROVE  /\ scenes[s].external \in Address
               /\ scenes[s].frames # <<>>
               /\ \A f \in 1 .. Len(scenes[s].frames) :
                    scenes[s].frames[f] \in [regs : [Reg -> Value], rd : Reg]
    <3>1. scenes[s].external \in Address /\ scenes[s].frames # <<>>
      BY <1>1, <2>1, <2>2, SlotsPlaced, SceneIs
    <3>2. ASSUME NEW f \in 1 .. Len(scenes[s].frames)
          PROVE  scenes[s].frames[f] \in [regs : [Reg -> Value], rd : Reg]
      <4>1. PICK fr : fr = scenes[s].frames[f]
        OBVIOUS
      <4>2. fr \in FrameType
        BY <2>1, <4>1, SceneIs
      <4>3. \A r \in Reg : fr.regs[r] \in Datum /\ (fr.regs[r] \in Pointer => fr.regs[r] \in Places)
        <5>1. \A r \in Reg : fr.regs[r] \in Datum
          BY <4>2 DEF FrameType
        <5>2. \A r \in Reg : fr.regs[r] \in Pointer => fr.regs[r] \in Places
          BY <1>1, <4>1, SlotsPlaced
        <5> QED BY <5>1, <5>2
      <4>4. \A r \in Reg : fr.regs[r] \in Value
        BY <2>3, <4>3
      <4>5. fr.regs \in [Reg -> Value] /\ fr.rd \in Reg /\ fr = [regs |-> fr.regs, rd |-> fr.rd]
        BY <4>2, <4>4 DEF FrameType
      <4> QED BY <4>1, <4>5
    <3> QED BY <3>1, <3>2
  <2>8. /\ DOMAIN heap = {0, 1} /\ current \in {0, 1} /\ pc \in {"run", "native", "alloc", "gc", "oom"}
        /\ pending.op \in {"none", "new", "grow", "import", "cb_arg", "external", "scene"}
    BY <2>1 DEF Typed, RequestType
  <2> QED BY <2>2, <2>5, <2>6, <2>7, <2>8 DEF TypeOK
<1>2. Inv => TypeOK
  BY <1>1
<1> QED BY <1>2, Invariance, PTL

(* The raw pointers in the local variables of C functions are live too, without a collection
   in a foreach (the run foreach_collected shows that with one they are not). *)
THEOREM LocalsKept ==
  ASSUME ~StaleFields, ~CollectPastEnd, ~CollectInForeach
  PROVE  CallbacksSpec => []LocalsLive
<1>1. ASSUME Inv, pc # "gc", NEW v \in (UNION {{c.array, c.callback} : c \in Waiting}) \cup {pending.args}, IsPtr(v)
      PROVE  v[1] = current /\ IsAddress(v) /\ Obj(v).type # "left"
  <2>1. Typed /\ Calm
    BY <1>1 DEF Inv
  <2>2. CallsIn(heap, native, scenes) /\ PendingIn(heap, global, scenes, native, pending)
    BY <2>1 DEF Calm
  <2>3. ~IsPtr(Undefined)
    BY DEF IsPtr, Undefined
  <2>4. v \in Places
    <3>1. CASE v = pending.args
      BY <3>1, <1>1, <2>2, <2>3 DEF PendingIn, Places
    <3>2. CASE v # pending.args
      <4>1. PICK c \in Waiting : v \in {c.array, c.callback}
        BY <1>1, <3>2
      <4> QED BY <4>1, <1>1, <2>2, <2>3 DEF Waiting, CallsIn, Own, Places
    <3> QED BY <3>1, <3>2
  <2> QED BY <2>1, <2>4, CalmIs, ObjTyped DEF IsAddress
<1>2. Inv => LocalsLive
  BY <1>1 DEF LocalsLive
<1> QED BY <1>2, Invariance, PTL

(* typeof and sizeof meet no GC_LEFT header, without pointers to REDIRECT headers in fields
   (the run heap_stale_redirect shows that with them they do). *)
THEOREM TypeofSafe ==
  ASSUME ~StaleFields, ~CollectPastEnd, ~CollectInForeach
  PROVE  CallbacksSpec => []TypeofFindsNoForwarding
<1>1. ASSUME Inv, pc = "run", NEW r \in Reg, IsPtr(Regs[r]) PROVE Obj(Resolve(Regs[r])).type # "left"
  <2>1. Typed /\ Calm
    BY <1>1 DEF Inv
  <2>2. Regs[r] \in Pointer
    BY <1>1, <2>1, TopIs, PointerIs
  <2>3. Regs[r] \in Places
    BY <2>1, <2>2, RootsOwned DEF Own, Places
  <2>4. Resolve(Regs[r]) \in Places
    BY <2>1, <2>3, CalmIs, ResolveIs
  <2> QED BY <2>1, <2>4, CalmIs
<1>2. Inv => TypeofFindsNoForwarding
  BY <1>1 DEF TypeofFindsNoForwarding
<1> QED BY <1>2, Invariance, PTL
==============================================================================
