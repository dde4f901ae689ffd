---------------------------- MODULE MachineProofs ----------------------------
(***************************************************************************)
(* The virtual machine implements Machine: what is proved of it in         *)
(* CallbacksProofs keeps pointers apart from freed cells, and here what    *)
(* they lead to is shown to be what a script has put there.                *)
(*                                                                         *)
(* Ends leads every pointer through its headers to one table, and Visible  *)
(* is the least set of tables that has what the roots lead to and what     *)
(* the fields of its members lead to, which is what Machine calls          *)
(* Reachable.  View (in CallbacksProofs) says that of a heap; it determines*)
(* the state of the machine, so a step is matched by giving a set that is  *)
(* closed after it (Closing) and the objects that it shows (Pictures).     *)
(* MI, which every step keeps, adds five facts to Inv: Faithful (two       *)
(* tables that can be reached have two names, and the machine's objects    *)
(* are the heap's), Solid (a table has slots), Serving (foreach's element  *)
(* is still in the heap's array), Ready (what a request will grow is a     *)
(* table) and Closures (a callback is a closure).  One lemma for each      *)
(* action, ...Matched, and KeepsPromises at the end.                       *)
(***************************************************************************)
EXTENDS CallbacksProofs

------------------------------------------------------------------------------
(* What the heap of a program shows. *)

(* Every way through headers ends. *)
LEMMA ChainsEnd == ASSUME Typed, Headers, Volume PROVE Chains(heap)
<1> SUFFICES ASSUME NEW S,
                    \A p \in In(heap) : ~IsHeader(At(heap, p)) => p \in S,
                    \A p \in In(heap) : IsHeader(At(heap, p)) /\ At(heap, p).fwd \in S => p \in S
             PROVE  In(heap) \subseteq S
  BY Zenon DEF Chains
<1> DEFINE D(m) == {q \in Places : q[1] # current \/ q[2] + m > BlockSize}
           T == {m \in Nat : D(m) \subseteq S}
<1>0. BlockSize \in Nat /\ current \in {0, 1} /\ Places = In(heap) /\ \A p : At(heap, p) = Obj(p)
  BY BlockSizeIs DEF Typed, Places, At, Obj
<1>1. ASSUME NEW q \in Places
      PROVE  /\ q[1] \in {0, 1} /\ q[2] \in 1 .. BlockSize
             /\ IsHeader(Obj(q)) => /\ q[1] = current /\ Obj(q).fwd \in Places
                                    /\ Obj(q).fwd[1] # current \/ Obj(q).fwd[2] > q[2]
  <2>1. q[1] \in {0, 1} /\ q[2] \in 1 .. Len(heap[q[1]])
    BY ObjTyped
  <2>2. heap[q[1]] \in Seq(Object)
    BY <2>1 DEF Typed
  <2>3. q[2] \in 1 .. BlockSize
    BY <2>1, <2>2, <1>0, LenProperties DEF Volume
  <2>4. Other # current
    BY <1>0 DEF Other
  <2> QED BY <2>1, <2>3, <2>4 DEF Headers, IsHeader
<1>2. ASSUME NEW q \in D(0) PROVE ~IsHeader(Obj(q))
  BY <1>0, <1>1
<1>3. 0 \in T
  BY <1>0, <1>2
<1>4. ASSUME NEW m \in Nat, m \in T PROVE m + 1 \in T
  <2> SUFFICES ASSUME NEW q \in D(m + 1) PROVE q \in S
    OBVIOUS
  <2>1. CASE IsHeader(Obj(q))
    <3>1. Obj(q).fwd \in D(m)
      BY <1>0, <1>1, <2>1
    <3>2. Obj(q).fwd \in S
      BY <3>1, <1>4
    <3> QED BY <3>2, <2>1, <1>0
  <2>2. CASE ~IsHeader(Obj(q))
    BY <2>2, <1>0
  <2> QED BY <2>1, <2>2
<1>5. BlockSize \in T
  <2> HIDE DEF T
  <2> QED BY <1>0, <1>3, <1>4, NatInd
<1>6. In(heap) \subseteq D(BlockSize)
  BY <1>0, <1>1
<1> QED BY <1>5, <1>6

(* The loop of Denote ends at a table that has the identity of the header. *)
LEMMA DenotesIs ==
  ASSUME Typed, Headers, Volume, NEW D, D = [p \in Places |-> Denote(p)]
  PROVE  Denotes(heap, D)
<1> DEFINE X == {q \in Places : Obj(q).type \in {"redirect", "left"}}
           Is(f) == f = [q \in Places |-> IF Obj(q).type \in {"redirect", "left"} THEN f[Obj(q).fwd] ELSE q]
           Same(f) == f = [q \in Places |-> IF q \in X THEN f[Obj(q).fwd] ELSE q]
<1>1. \A f : Is(f) <=> Same(f)
  <2> TAKE f
  <2>1. \A q \in Places : (IF Obj(q).type \in {"redirect", "left"} THEN f[Obj(q).fwd] ELSE q)
                            = (IF q \in X THEN f[Obj(q).fwd] ELSE q)
    OBVIOUS
  <2> QED BY <2>1
<1>2. X \in SUBSET Places /\ \A q \in X : Obj(q).type \in {"redirect", "left"}
  OBVIOUS
<1>3. /\ \E f : Same(f)
      /\ \A f : Same(f) => \A q \in Places : /\ f[q] \in Places \ X /\ Obj(f[q]).id = Obj(q).id
                                             /\ q \notin X => f[q] = q
  <2> HIDE DEF X
  <2> QED BY <1>2, Following
<1>4. \A p \in Places : Denote(p) = (CHOOSE f : Is(f))[p]
  BY PlacesAre DEF Denote
<1>5. Same(CHOOSE f : Is(f))
  <2> HIDE DEF Is, Same
  <2> QED BY <1>1, <1>3
<1>6. PICK g : g = CHOOSE f : Is(f)
  OBVIOUS
<1>7. Same(g) /\ \A p \in Places : D[p] = g[p]
  <2> HIDE DEF Is, Same
  <2> QED BY <1>4, <1>5, <1>6
<1>8. Same(g) /\ \A q \in Places : g[q] \in Places \ X /\ Obj(g[q]).id = Obj(q).id /\ (q \notin X => g[q] = q)
  <2> HIDE DEF Same
  <2> QED BY <1>3, <1>7
<1>9. \A q \in Places : q \in X => g[q] = g[Obj(q).fwd]
  BY <1>8
<1>10. \A q \in Places : q \in X => Obj(q).fwd \in Places /\ Obj(Obj(q).fwd).id = Obj(q).id
  BY DEF Headers
<1>11. Places = In(heap) /\ \A p : At(heap, p) = Obj(p)
  BY DEF Places, At, Obj
<1>12. \A q \in Places : q \in X <=> IsHeader(Obj(q))
  BY DEF IsHeader
<1> HIDE DEF X, Same
<1> QED BY <1>7, <1>8, <1>9, <1>10, <1>11, <1>12 DEF Denotes

(* What roots hold scripts may see. *)
LEMMA RootOwned ==
  ASSUME Inv, NEW v, Root(global, scenes, native, v)
  PROVE  Own(heap, v)
<1>1. Typed /\ Values(heap, global, scenes) /\ scenes \in Scenes /\ global \in Pointer /\ v \in Pointer
  BY InvIs, TopIs DEF Typed, Root
<1>2. ASSUME NEW c, IsCell(heap, scenes, c), v = Val(heap, global, scenes, c), c[1] \in {"global", "reg"}
      PROVE  Own(heap, v)
  BY <1>1, <1>2 DEF Values, Fit, Own
<1>3. CASE v = global
  <2>1. PICK c : c = <<"global">>
    OBVIOUS
  <2>2. IsCell(heap, scenes, c) /\ c[1] = "global"
    BY <2>1 DEF IsCell
  <2> QED BY <2>2, <1>3, <1>2, ValOf
<1>4. ASSUME NEW s \in 1 .. Len(scenes), v \in HeldBy(scenes[s]) PROVE Own(heap, v)
  <2>1. PICK f \in 1 .. Len(scenes[s].frames), r \in Reg : v = scenes[s].frames[f].regs[r]
    BY <1>4 DEF HeldBy
  <2>2. PICK c : c = <<"reg", s, f, r>>
    OBVIOUS
  <2>3. IsCell(heap, scenes, c)
    BY <2>2, Zenon DEF IsCell
  <2>4. c[1] = "reg" /\ c[2] = s /\ c[3] = f /\ c[4] = r
    BY <2>2
  <2>5. Val(heap, global, scenes, c) = v
    BY <2>1, <2>4, ValOf
  <2> QED BY <2>3, <2>4, <2>5, <1>2
<1>5. ASSUME NEW c \in CallsOf(native, scenes), v \in {c.array, c.callback} PROVE Own(heap, v)
  <2>0. v # Undefined
    BY <1>1, PointerIs
  <2>1. CASE pc # "gc"
    <3>1. CallsIn(heap, native, scenes)
      BY <2>1 DEF Inv, Calm
    <3> QED BY <3>1, <2>0, <1>5 DEF CallsIn, CallsOf
  <2>2. CASE pc = "gc"
    <3>1. NoForeach(native, scenes)
      BY <2>2 DEF Inv, Busy
    <3> QED BY <3>1, <2>0, <1>5 DEF NoForeach, CallsOf
  <2> QED BY <2>1, <2>2
<1> QED BY <1>3, <1>4, <1>5 DEF Root

(* What tables hold is in the heap, and a script may see it if it may see the table. *)
LEMMA AllLinked == ASSUME Inv PROVE Linked(heap)
<1> SUFFICES ASSUME NEW p \in In(heap), NEW v \in PtrsOf(At(heap, p))
             PROVE  v \in In(heap) /\ (At(heap, p).id # NoId => At(heap, v).id # NoId)
  BY DEF Linked
<1>1. Values(heap, global, scenes)
  BY InvIs
<1>2. PICK k \in DOMAIN At(heap, p).fields : v = At(heap, p).fields[k] /\ v \in Pointer
  BY DEF PtrsOf
<1>3. PICK c : c = <<"field", p, k>>
  OBVIOUS
<1>4. IsCell(heap, scenes, c)
  BY <1>3, Zenon DEF IsCell
<1>5. c[1] = "field" /\ c[2] = p /\ c[3] = k
  BY <1>3
<1>6. Val(heap, global, scenes, c) = v
  BY <1>2, <1>5, ValOf
<1>7. Fit(heap, c, v)
  BY <1>1, <1>2, <1>4, <1>6 DEF Values
<1> QED BY <1>5, <1>7 DEF Fit

------------------------------------------------------------------------------
(* A table has a slot.                                                         *)
Solid ==
  /\ \A p \in Places : Obj(p).type \in {"object", "closure"} => Obj(p).cap >= 1
  /\ pending.op # "none" => pending.cap >= 1

(* A table takes two words at least. *)
LEMMA TwoUnits ==
  ASSUME NEW t \in Seq(Object), IsFiniteSet(Units(t)),
         NEW T, T \subseteq 1 .. Len(t), \A i \in T : t[i].type # "left" /\ t[i].cap >= 1
  PROVE  /\ IsFiniteSet(T) /\ Cardinality(T) \in Nat /\ Cardinality(Units(t)) \in Nat
         /\ 2 * Cardinality(T) <= Cardinality(Units(t))
<1>0. Len(t) \in Nat
  BY LenProperties
<1>1. IsFiniteSet(T)
  BY <1>0, UpTo, FS_Subset
<1>2. IsFiniteSet({0, 1}) /\ Cardinality({0, 1}) = 2
  <2>1. IsFiniteSet({0}) /\ Cardinality({0}) = 1
    BY FS_Singleton
  <2>a. PICK S : S = {0}
    OBVIOUS
  <2>b. IsFiniteSet(S \cup {1}) /\ Cardinality(S \cup {1}) = IF 1 \in S THEN Cardinality(S) ELSE Cardinality(S) + 1
    BY <2>1, <2>a, FS_AddElement
  <2>2. IsFiniteSet({0} \cup {1}) /\ Cardinality({0} \cup {1}) = 2
    BY <2>1, <2>a, <2>b
  <2>3. {0} \cup {1} = {0, 1}
    OBVIOUS
  <2> QED BY <2>2, <2>3
<1>3. T \X {0, 1} \in SUBSET Units(t)
  <2>1. ASSUME NEW i \in T, NEW j \in {0, 1} PROVE <<i, j>> \in Units(t)
    <3>1. t[i] \in Object
      BY ElementOfSeq
    <3>2. t[i].cap \in Nat
      BY <3>1 DEF Object
    <3> QED BY <3>2, <1>0 DEF Units
  <2>2. \A u \in T \X {0, 1} : u[1] \in T /\ u[2] \in {0, 1} /\ u = <<u[1], u[2]>>
    OBVIOUS
  <2> QED BY <2>1, <2>2
<1>4. Cardinality(T \X {0, 1}) = Cardinality(T) * 2
  <2>1. Cardinality(T \X {0, 1}) = Cardinality(T) * Cardinality({0, 1})
    BY <1>1, <1>2, FS_Product
  <2> QED BY <2>1, <1>2
<1>5. Cardinality(T \X {0, 1}) <= Cardinality(Units(t))
  BY <1>3, FS_Subset
<1>6. Cardinality(T) \in Nat /\ Cardinality(Units(t)) \in Nat
  BY <1>1, FS_CardinalityType
<1> QED BY <1>1, <1>4, <1>5, <1>6

(* The places of one block correspond to their indices. *)
LEMMA Tagged ==
  ASSUME NEW T, IsFiniteSet(T), NEW b
  PROVE  IsFiniteSet({b} \X T) /\ Cardinality({b} \X T) = Cardinality(T)
<1>1. IsFiniteSet({b}) /\ Cardinality({b}) = 1
  BY FS_Singleton
<1>2. IsFiniteSet({b} \X T) /\ Cardinality({b} \X T) = Cardinality({b}) * Cardinality(T)
  BY <1>1, FS_Product
<1>3. Cardinality(T) \in Nat
  BY FS_CardinalityType
<1> QED BY <1>1, <1>2, <1>3

(* Half of the words of a block bounds the tables, also while they are copied. *)
LEMMA TableNr ==
  ASSUME Typed, Volume, Solid, NEW U, U = {p \in Places : ~IsHeader(Obj(p))}
  PROVE  IsFiniteSet(U) /\ BlockSize \div 2 \in Nat /\ Cardinality(U) <= BlockSize \div 2
<1> DEFINE T(b) == {i \in 1 .. Len(heap[b]) : ~IsHeader(heap[b][i])}
<1>1. /\ current \in {0, 1} /\ Other \in {0, 1} /\ Other # current /\ {0, 1} = {current, Other}
      /\ BlockSize \in Nat /\ used[current] \in Nat /\ used[Other] \in Nat
  BY BlockSizeIs DEF Typed, Other
<1>2. ASSUME NEW b \in {0, 1}
      PROVE  /\ IsFiniteSet(T(b)) /\ Cardinality(T(b)) \in Nat /\ Cardinality(Units(heap[b])) \in Nat
             /\ 2 * Cardinality(T(b)) <= Cardinality(Units(heap[b]))
  <2>1. heap[b] \in Seq(Object) /\ IsFiniteSet(Units(heap[b]))
    BY DEF Typed, Volume
  <2>2. \A i \in T(b) : heap[b][i].type # "left" /\ heap[b][i].cap >= 1
    <3> TAKE i \in T(b)
    <3>1. <<b, i>> \in Places
      BY PlaceIs
    <3>2. Obj(<<b, i>>) = heap[b][i] /\ heap[b][i].type \in {"object", "closure", "redirect", "left"}
      BY <3>1, ObjTyped, ObjectIs DEF Obj
    <3> QED BY <3>1, <3>2 DEF Solid, IsHeader
  <2> QED BY <2>1, <2>2, TwoUnits
<1>3. U = ({0} \X T(0)) \cup ({1} \X T(1))
  <2>1. ASSUME NEW p \in U PROVE p \in ({0} \X T(0)) \cup ({1} \X T(1))
    <3>1. p[1] \in {0, 1} /\ p[2] \in 1 .. Len(heap[p[1]]) /\ p = <<p[1], p[2]>> /\ ~IsHeader(heap[p[1]][p[2]])
      BY ObjTyped DEF Obj
    <3> QED BY <3>1
  <2>2. ASSUME NEW b \in {0, 1}, NEW i \in T(b) PROVE <<b, i>> \in U
    BY PlaceIs DEF Obj
  <2> QED BY <2>1, <2>2
<1>4. ({0} \X T(0)) \cap ({1} \X T(1)) = {}
  OBVIOUS
<1>5. PICK A, B : A = {0} \X T(0) /\ B = {1} \X T(1)
  OBVIOUS
<1>6. IsFiniteSet(A) /\ Cardinality(A) = Cardinality(T(0)) /\ IsFiniteSet(B) /\ Cardinality(B) = Cardinality(T(1))
  <2>1. IsFiniteSet(T(0)) /\ IsFiniteSet(T(1))
    BY <1>2
  <2> HIDE DEF T
  <2> QED BY <2>1, <1>5, Tagged
<1>7. IsFiniteSet(A \cup B) /\ Cardinality(A \cup B) = Cardinality(A) + Cardinality(B) - Cardinality(A \cap B)
  BY <1>6, FS_Union
<1>8. Cardinality(A \cap B) = 0
  BY <1>4, <1>5, FS_EmptySet
<1>9. IsFiniteSet(U) /\ Cardinality(U) = Cardinality(T(0)) + Cardinality(T(1))
  <2>1. Cardinality(T(0)) \in Nat /\ Cardinality(T(1)) \in Nat
    BY <1>2
  <2>2. U = A \cup B
    BY <1>3, <1>5
  <2> HIDE DEF T
  <2>3. PICK x, y \in Nat : x = Cardinality(T(0)) /\ y = Cardinality(T(1))
    BY <2>1
  <2>4. Cardinality(A) = x /\ Cardinality(B) = y
    BY <1>6, <2>3
  <2>5. IsFiniteSet(U) /\ Cardinality(U) = x + y - 0
    BY <2>2, <2>4, <1>7, <1>8
  <2> QED BY <2>3, <2>5
<1>10. Cardinality(Units(heap[0])) + Cardinality(Units(heap[1])) <= BlockSize
  <2>1. /\ Cardinality(Units(heap[Other])) <= used[Other]
        /\ Cardinality(Units(heap[current])) + used[Other] <= used[current] /\ used[current] <= BlockSize
    BY DEF Volume
  <2>2. \A b \in {0, 1} : Cardinality(Units(heap[b])) \in Nat
    BY <1>2
  <2>3. Cardinality(Units(heap[Other])) + Cardinality(Units(heap[current])) <= BlockSize
    <3>1. Cardinality(Units(heap[Other])) \in Nat /\ Cardinality(Units(heap[current])) \in Nat
      BY <1>1, <2>2
    <3> QED BY <1>1, <2>1, <3>1
  <2>4. CASE current = 0
    BY <2>2, <2>3, <2>4 DEF Other
  <2>5. CASE current = 1
    BY <2>2, <2>3, <2>5 DEF Other
  <2> QED BY <1>1, <2>4, <2>5
<1>11. 2 * Cardinality(U) <= BlockSize /\ Cardinality(U) \in Nat
  <2>1. /\ 2 * Cardinality(T(0)) <= Cardinality(Units(heap[0])) /\ Cardinality(T(0)) \in Nat
        /\ 2 * Cardinality(T(1)) <= Cardinality(Units(heap[1])) /\ Cardinality(T(1)) \in Nat
        /\ Cardinality(Units(heap[0])) \in Nat /\ Cardinality(Units(heap[1])) \in Nat
    BY <1>2
  <2> HIDE DEF T
  <2> QED BY <2>1, <1>1, <1>9, <1>10
<1> QED BY <1>1, <1>9, <1>11

------------------------------------------------------------------------------
(* What is visible is what the roots lead to. *)
LEMMA VisibleLeast ==
  ASSUME Inv, Solid, NEW D, D = [p \in Places |-> Denote(p)]
  PROVE  /\ IsFiniteSet(Visible) /\ Visible \subseteq Tables(heap)
         /\ Closing(heap, global, scenes, native, D, Visible)
         /\ \A W : Closing(heap, global, scenes, native, D, W) => Visible \subseteq W
<1> DEFINE N == BlockSize \div 2
           called == UNION {{c.array, c.callback} : c \in Waiting}
           held == {scenes[x[1]].frames[x[2]].regs[x[3]] : x \in Registers}
           roots == {global} \cup called \cup held
           Tab(values) == {Denote(v) : v \in {w \in values : IsPtr(w)}}
           Step(x) == UNION {near \cup UNION {Tab(Range(Obj(p).fields)) : p \in near} : near \in {x}}
           A == Tab(roots)
           Is(f, m) == f = [n \in 0 .. m |-> IF n = 0 THEN A ELSE Step(f[n - 1])]
           U == {p \in Places : ~IsHeader(Obj(p))}
           E == [p \in U |-> {D[v] : v \in PtrsOf(Obj(p))}]
<1>1. Visible = (CHOOSE f : Is(f, N))[N]
  BY DEF Visible
<1>2. /\ Typed /\ Headers /\ Volume /\ scenes \in Scenes /\ global \in Pointer /\ native \in CallType
      /\ Places = In(heap) /\ \A p : At(heap, p) = Obj(p)
  BY InvIs, TopIs DEF Typed, Places, At, Obj
<1>3. IsFiniteSet(U) /\ N \in Nat /\ Cardinality(U) <= N
  <2> HIDE DEF N
  <2> QED BY <1>2, TableNr DEF N
<1>4. Denotes(heap, D) /\ Linked(heap)
  BY <1>2, DenotesIs, AllLinked
<1>5. \A p \in Places : D[p] = Denote(p) /\ D[p] \in U /\ Obj(D[p]).id = Obj(p).id
  BY <1>2, <1>4 DEF Denotes
<1>6. ASSUME NEW v PROVE v \in roots /\ IsPtr(v) <=> Root(global, scenes, native, v)
  <2>1. ASSUME NEW x \in Registers
        PROVE  x[1] \in 1 .. Len(scenes) /\ x[2] \in 1 .. Len(scenes[x[1]].frames) /\ x[3] \in Reg
    <3>1. PICK y \in AllFrames, r \in Reg : x = <<y[1], y[2], r>>
      BY DEF Registers
    <3>2. y[1] \in DOMAIN scenes /\ y[2] \in DOMAIN scenes[y[1]].frames
      <4>1. PICK t \in DOMAIN scenes : y \in {t} \X DOMAIN scenes[t].frames
        BY Zenon DEF AllFrames
      <4> QED BY <4>1
    <3>4. scenes \in Seq(SceneType) /\ y[1] \in 1 .. Len(scenes)
      BY <1>2, <3>2, SceneIs
    <3>5. scenes[y[1]].frames \in Seq(FrameType)
      BY <1>2, <3>4, SceneIs
    <3> QED BY <3>1, <3>2, <3>4, <3>5
  <2>2. ASSUME NEW s \in 1 .. Len(scenes), NEW f \in 1 .. Len(scenes[s].frames), NEW r \in Reg
        PROVE  scenes[s].frames[f].regs[r] \in held
    <3>1. s \in DOMAIN scenes /\ f \in DOMAIN scenes[s].frames
      <4>1. scenes \in Seq(SceneType) /\ scenes[s].frames \in Seq(FrameType)
        BY <1>2, SceneIs
      <4> QED BY <4>1
    <3>2. <<s, f>> \in AllFrames
      <4>1. <<s, f>> \in {s} \X DOMAIN scenes[s].frames
        BY <3>1
      <4> QED BY <3>1, <4>1, Zenon DEF AllFrames
    <3>3. <<s, f, r>> \in Registers
      <4>1. PICK y \in AllFrames : y = <<s, f>>
        BY <3>2
      <4>2. <<s, f, r>> = <<y[1], y[2], r>>
        BY <4>1
      <4>3. PICK z : z = <<s, f, r>>
        OBVIOUS
      <4>4. \E a \in AllFrames, b \in Reg : z = <<a[1], a[2], b>>
        BY <4>2, <4>3
      <4>5. z \in Registers
        BY <4>4 DEF Registers
      <4> QED BY <4>3, <4>5
    <3>4. PICK x \in Registers : x = <<s, f, r>>
      BY <3>3
    <3>5. scenes[x[1]].frames[x[2]].regs[x[3]] \in held
      OBVIOUS
    <3> QED BY <3>4, <3>5
  <2>3. ASSUME NEW w \in held
        PROVE  \E s \in 1 .. Len(scenes) : \E f \in 1 .. Len(scenes[s].frames) : \E r \in Reg :
                 w = scenes[s].frames[f].regs[r] /\ w \in Datum
    <3>1. PICK x \in Registers : w = scenes[x[1]].frames[x[2]].regs[x[3]]
      OBVIOUS
    <3>2. PICK s \in 1 .. Len(scenes) : s = x[1]
      BY <2>1
    <3>3. PICK f \in 1 .. Len(scenes[s].frames), r \in Reg : f = x[2] /\ r = x[3]
      BY <2>1, <3>2
    <3>4. scenes[s].frames[f].regs \in [Reg -> Datum]
      BY <1>2, SceneIs
    <3> QED BY <3>1, <3>2, <3>3, <3>4
  <2>4. Waiting = CallsOf(native, scenes)
    BY DEF Waiting, CallsOf
  <2>5. \A c \in CallsOf(native, scenes) : c.array \in Datum /\ c.callback \in Datum
    <3>1. \A s \in 1 .. Len(scenes) : scenes[s].caller \in CallType
      BY <1>2, SceneIs
    <3> QED BY <1>2, <3>1 DEF CallsOf, CallType
  <2>6. \A w \in Datum : IsPtr(w) <=> w \in Pointer
    BY PointerIs
  <2>7. v \in held <=> \E s \in 1 .. Len(scenes) : \E f \in 1 .. Len(scenes[s].frames) : \E r \in Reg :
                          v = scenes[s].frames[f].regs[r] /\ v \in Datum
    <3>1. \A s \in 1 .. Len(scenes) : \A f \in 1 .. Len(scenes[s].frames) : \A r \in Reg :
             scenes[s].frames[f].regs[r] \in held
      BY <2>2
    <3> HIDE DEF held
    <3> QED BY <2>3, <3>1
  <2>8. v \in called <=> \E c \in CallsOf(native, scenes) : v \in {c.array, c.callback}
    BY <2>4
  <2> HIDE DEF called, held
  <2>9. v \in roots <=> v = global \/ v \in called \/ v \in held
    OBVIOUS
  <2> HIDE DEF roots
  <2>10. CASE v \in Pointer
    <3>0. v \in Datum /\ IsPtr(v)
      BY <2>6, <2>10 DEF Datum
    <3>1. (\E s \in 1 .. Len(scenes) : v \in HeldBy(scenes[s])) <=> v \in held
      BY <2>7, <2>10, <3>0 DEF HeldBy
    <3> QED BY <3>0, <3>1, <2>8, <2>9, <2>10 DEF Root
  <2>11. CASE v \notin Pointer
    <3>1. v \in roots => v \in Datum
      BY <2>5, <2>7, <2>8, <2>9, <1>2 DEF Datum
    <3> QED BY <3>1, <2>6, <2>11 DEF Root
  <2> QED BY <2>10, <2>11
<1>7. ASSUME NEW v, Root(global, scenes, native, v) PROVE v \in Places /\ Obj(v).id # NoId
  BY <1>2, <1>7, RootOwned DEF Own
<1>8. (\A v : Root(global, scenes, native, v) => D[v] \in A)
      /\ \A x \in A : \E v : Root(global, scenes, native, v) /\ x = D[v]
  <2> HIDE DEF roots
  <2> QED BY <1>5, <1>6, <1>7
<1>9. A \in SUBSET U /\ \A x \in A : Obj(x).id # NoId
  <2> HIDE DEF A, U
  <2>1. ASSUME NEW x \in A PROVE x \in U /\ Obj(x).id # NoId
    <3>1. PICK v : Root(global, scenes, native, v) /\ x = D[v]
      BY <1>8
    <3> QED BY <3>1, <1>5, <1>7
  <2> QED BY <2>1
<1>10. ASSUME NEW p \in U
       PROVE  /\ Tab(Range(Obj(p).fields)) = E[p] /\ E[p] \in SUBSET U
              /\ \A x \in E[p] : \E v \in PtrsOf(Obj(p)) : x = D[v]
              /\ \A v \in PtrsOf(Obj(p)) : D[v] \in E[p] /\ v \in Places /\ (Obj(p).id # NoId => Obj(v).id # NoId)
  <2>1. Obj(p) \in Object
    BY <1>2, ObjTyped
  <2>2. {w \in Range(Obj(p).fields) : IsPtr(w)} = PtrsOf(Obj(p))
    <3>1. \A k \in DOMAIN Obj(p).fields : Obj(p).fields[k] \in Datum
      BY <2>1, ObjectIs
    <3>2. Range(Obj(p).fields) = {Obj(p).fields[k] : k \in DOMAIN Obj(p).fields}
      BY DEF Range
    <3> QED BY <3>1, <3>2, PointerIs DEF PtrsOf
  <2>3. \A v \in PtrsOf(Obj(p)) : v \in Places /\ (Obj(p).id # NoId => Obj(v).id # NoId)
    BY <1>2, <1>4 DEF Linked
  <2>4. E[p] = {D[v] : v \in PtrsOf(Obj(p))}
    OBVIOUS
  <2>5. Tab(Range(Obj(p).fields)) = {Denote(v) : v \in PtrsOf(Obj(p))}
    BY <2>2
  <2>6. {Denote(v) : v \in PtrsOf(Obj(p))} = {D[v] : v \in PtrsOf(Obj(p))}
    BY <2>3, <1>5
  <2> HIDE DEF Tab, E
  <2>7. \A v \in PtrsOf(Obj(p)) : D[v] \in U
    <3> HIDE DEF U
    <3> QED BY <2>3, <1>5
  <2> QED BY <2>3, <2>4, <2>5, <2>6, <2>7
<1>11. E \in [U -> SUBSET U]
  <2>1. E = [p \in U |-> E[p]] /\ \A p \in U : E[p] \in SUBSET U
    BY <1>10
  <2> HIDE DEF E, U
  <2> QED BY <2>1
<1>12. ASSUME NEW x \in SUBSET U PROVE Step(x) = Next1(E, x)
  <2>1. Step(x) = x \cup UNION {Tab(Range(Obj(p).fields)) : p \in x}
    OBVIOUS
  <2>2. {Tab(Range(Obj(p).fields)) : p \in x} = {E[p] : p \in x}
    <3> HIDE DEF Tab, E, U
    <3> QED BY <1>10
  <2> HIDE DEF Step, Tab, E, U
  <2> QED BY <2>1, <2>2 DEF Next1
<1>13. \A x \in SUBSET U : Next1(E, x) \in SUBSET U
  <2>1. \A p \in U : E[p] \in SUBSET U
    BY <1>10
  <2> HIDE DEF E, U
  <2> QED BY <2>1 DEF Next1
<1> HIDE DEF N, A, Step, E
<1>14. \E f : Is(f, N)
  <2> DEFINE G == [x \in SUBSET U |-> Next1(E, x)]
  <2>1. G \in [SUBSET U -> SUBSET U]
    BY <1>13
  <2>2. \A x \in SUBSET U : G[x] = Next1(E, x)
    OBVIOUS
  <2> HIDE DEF G, U
  <2>3. PICK f \in [0 .. N -> SUBSET U] : f[0] = A /\ \A n \in 1 .. N : f[n] = G[f[n - 1]]
    <3>1. PICK X : X = SUBSET U
      OBVIOUS
    <3>2. G \in [X -> X] /\ A \in X /\ N \in Nat
      BY <2>1, <3>1, <1>3, <1>9
    <3>3. PICK f : Iterates(f, N, X, G, A)
      BY <3>2, Iterated
    <3> QED BY <3>1, <3>3 DEF Iterates
  <2>4. \A n \in 0 .. N : f[n] = IF n = 0 THEN A ELSE Step(f[n - 1])
    <3> TAKE n \in 0 .. N
    <3>1. CASE n = 0
      BY <3>1, <2>3
    <3>2. CASE n # 0
      <4>1. n \in 1 .. N /\ n - 1 \in 0 .. N
        BY <3>2, <1>3
      <4>2. f[n - 1] \in SUBSET U /\ f[n] = G[f[n - 1]]
        BY <2>3, <4>1
      <4>3. f[n] = Step(f[n - 1])
        BY <4>2, <2>2, <1>12
      <4> QED BY <3>2, <4>3
    <3> QED BY <3>1, <3>2
  <2>5. f = [n \in 0 .. N |-> f[n]]
    BY <2>3
  <2>6. Is(f, N)
    BY <2>4, <2>5
  <2> QED BY <2>6
<1>15. PICK f : Is(f, N) /\ Visible = f[N]
  <2> HIDE DEF Is
  <2> QED BY <1>1, <1>14
<1>16. f[0] = A /\ \A n \in 0 .. N - 1 : f[n + 1] = Step(f[n])
  <2>1. \A n \in 0 .. N : f[n] = IF n = 0 THEN A ELSE Step(f[n - 1])
    BY <1>15
  <2> HIDE DEF Is
  <2>2. 0 \in 0 .. N
    BY <1>3
  <2>3. ASSUME NEW n \in 0 .. N - 1 PROVE f[n + 1] = Step(f[n])
    <3>1. PICK m : m = n + 1
      OBVIOUS
    <3>2. m \in 0 .. N /\ m # 0 /\ m - 1 = n
      BY <3>1, <1>3
    <3>3. f[m] = Step(f[m - 1])
      BY <2>1, <3>2
    <3> QED BY <3>1, <3>2, <3>3
  <2> QED BY <2>1, <2>2, <2>3
<1> HIDE DEF Is
<1>17. \A n \in 0 .. N - 1 : f[n] \subseteq U => f[n + 1] = Next1(E, f[n])
  BY <1>12, <1>16
<1>18. Visible \subseteq U /\ Least(E, A, Visible)
  <2> HIDE DEF U
  <2> QED BY <1>3, <1>9, <1>11, <1>15, <1>16, <1>17, Closed
<1>19. \A T : A \subseteq T /\ (\A y \in T \cap Visible : E[y] \subseteq T) => Visible \subseteq T
  BY <1>18 DEF Least
<1>20. Visible \subseteq Tables(heap)
  <2> DEFINE T == {p \in U : Obj(p).id # NoId}
  <2>1. A \subseteq T
    BY <1>9
  <2>2. ASSUME NEW y \in T \cap Visible, NEW x \in E[y] PROVE x \in T
    <3>1. y \in U /\ Obj(y).id # NoId
      OBVIOUS
    <3>2. PICK v \in PtrsOf(Obj(y)) : x = D[v] /\ v \in Places /\ Obj(v).id # NoId
      BY <3>1, <1>10
    <3> QED BY <3>2, <1>5
  <2>3. Visible \subseteq T
    <3> HIDE DEF T
    <3> QED BY <2>1, <2>2, <1>19
  <2> QED BY <2>3, <1>2 DEF Tables
<1>21. IsFiniteSet(Visible)
  BY <1>3, <1>18, FS_Subset
<1>22. Closing(heap, global, scenes, native, D, Visible)
  <2>1. ASSUME NEW v, Root(global, scenes, native, v) PROVE D[v] \in Visible
    BY <2>1, <1>8, <1>18 DEF Least
  <2>2. ASSUME NEW p \in Visible, NEW v \in PtrsOf(At(heap, p)) PROVE D[v] \in Visible
    <3>1. p \in U /\ v \in PtrsOf(Obj(p))
      BY <1>2, <1>18
    <3>2. D[v] \in E[p]
      BY <3>1, <1>10
    <3> QED BY <3>2, <1>18 DEF Least
  <2> QED BY <2>1, <2>2 DEF Closing
<1>23. ASSUME NEW W, Closing(heap, global, scenes, native, D, W) PROVE Visible \subseteq W
  <2>1. A \subseteq W
    BY <1>23, <1>8 DEF Closing
  <2>2. ASSUME NEW y \in W \cap Visible, NEW x \in E[y] PROVE x \in W
    <3>1. y \in U /\ y \in W \cap In(heap)
      BY <1>2, <1>18
    <3>2. PICK v \in PtrsOf(At(heap, y)) : x = D[v]
      BY <3>1, <1>2, <1>10
    <3> QED BY <3>1, <3>2, <1>23 DEF Closing
  <2> QED BY <2>1, <2>2, <1>19
<1> QED BY <1>20, <1>21, <1>22, <1>23

------------------------------------------------------------------------------
(* MachineState, in terms of the heap and the roots. *)
LEMMA MachineIs ==
  ASSUME Inv
  PROVE  /\ MachineState = Record(MachineState.objects, IdIn(heap, global), ScenesOf(heap, scenes),
                                  CallOf(heap, native))
         /\ Shows(heap, Visible, MachineState.objects)
<1>1. MachineState = MachineWith(Visible)
  BY DEF MachineState
<1>2. Typed /\ scenes \in Scenes
  BY TopIs DEF Inv
<1>3. \A v : Identified(v) = IdIn(heap, v)
  BY DEF Identified, IdIn, Obj, At
<1>4. \A c \in CallType : IdentifiedIn(c) = CallOf(heap, c)
  <2> TAKE c \in CallType
  <2>1. c = [fn |-> c.fn, rd |-> c.rd, array |-> c.array, callback |-> c.callback, done |-> c.done]
    BY DEF CallType
  <2>2. PICK a, b : a = IdIn(heap, c.array) /\ b = IdIn(heap, c.callback)
    OBVIOUS
  <2>3. Identified(c.array) = a /\ Identified(c.callback) = b
    BY <1>3, <2>2
  <2>4. IdentifiedIn(c) = [c EXCEPT !.array = a, !.callback = b]
    BY <2>3 DEF IdentifiedIn
  <2>5. [c EXCEPT !.array = a, !.callback = b]
          = [fn |-> c.fn, rd |-> c.rd, array |-> a, callback |-> b, done |-> c.done]
    <3>1. PICK x, y, z, w, d : x = c.fn /\ y = c.rd /\ z = c.array /\ w = c.callback /\ d = c.done
      OBVIOUS
    <3>2. c = [fn |-> x, rd |-> y, array |-> z, callback |-> w, done |-> d]
      BY <2>1, <3>1
    <3>3. PICK q : q = [c EXCEPT !.array = a, !.callback = b]
      OBVIOUS
    <3>4. q.fn = x /\ q.rd = y /\ q.array = a /\ q.callback = b /\ q.done = d
          /\ q = [i \in {"fn", "rd", "array", "callback", "done"} |-> q[i]]
      BY <3>2, <3>3
    <3>5. q = [fn |-> x, rd |-> y, array |-> a, callback |-> b, done |-> d]
      BY <3>4
    <3> QED BY <3>1, <3>3, <3>5
  <2> QED BY <2>2, <2>4, <2>5 DEF CallOf
<1>5. \A f \in FrameType : MachineFrame(f) = FrameOf(heap, f)
  <2> TAKE f \in FrameType
  <2>1. f = [regs |-> f.regs, rd |-> f.rd]
    BY DEF FrameType
  <2>2. [r \in Reg |-> Identified(f.regs[r])] = [r \in Reg |-> IdIn(heap, f.regs[r])]
    BY <1>3
  <2>3. MachineFrame(f) = [regs |-> [r \in Reg |-> Identified(f.regs[r])], rd |-> f.rd]
    BY <2>1 DEF MachineFrame
  <2> QED BY <2>2, <2>3 DEF FrameOf, RegsOf
<1>6. \A s \in 1 .. Len(scenes) : MachineScene(scenes[s]) = SceneOf(heap, scenes[s])
  <2> TAKE s \in 1 .. Len(scenes)
  <2>1. /\ scenes[s].caller \in CallType
        /\ \A f \in 1 .. Len(scenes[s].frames) : scenes[s].frames[f] \in FrameType
    BY <1>2, SceneIs
  <2>2. \A f \in 1 .. Len(scenes[s].frames) : MachineFrame(scenes[s].frames[f]) = FrameOf(heap, scenes[s].frames[f])
    BY <2>1, <1>5
  <2>3. IdentifiedIn(scenes[s].caller) = CallOf(heap, scenes[s].caller)
    BY <2>1, <1>4
  <2>4. [f \in 1 .. Len(scenes[s].frames) |-> MachineFrame(scenes[s].frames[f])]
          = [f \in 1 .. Len(scenes[s].frames) |-> FrameOf(heap, scenes[s].frames[f])]
    BY <2>2
  <2> QED BY <2>3, <2>4 DEF MachineScene, SceneOf
<1>7. [s \in 1 .. Len(scenes) |-> MachineScene(scenes[s])] = ScenesOf(heap, scenes)
  BY <1>6 DEF ScenesOf
<1>8. IdentifiedIn(native) = CallOf(heap, native)
  BY <1>2, <1>4 DEF Typed
<1>9. PICK V : V = Visible
  OBVIOUS
<1>10. MachineState = Record(MachineObjects(V), IdIn(heap, global), ScenesOf(heap, scenes), CallOf(heap, native))
  BY <1>1, <1>3, <1>7, <1>8, <1>9 DEF MachineWith, Record
<1>11. MachineState.objects = MachineObjects(V)
  BY <1>10 DEF Record
<1>12. Shows(heap, V, MachineObjects(V))
  <2> DEFINE O == MachineObjects(V)
             o(i) == Obj(CHOOSE p \in V : Obj(p).id = i)
  <2>1. O = [i \in {Obj(p).id : p \in V} |->
               [type |-> o(i).type, fields |-> [k \in DOMAIN o(i).fields |-> Identified(o(i).fields[k])]]]
    BY DEF MachineObjects
  <2>2. DOMAIN O = {Obj(p).id : p \in V} /\ O = [i \in DOMAIN O |-> O[i]]
    BY <2>1
  <2>3. ASSUME NEW i \in DOMAIN O PROVE \E p \in V : At(heap, p).id = i /\ O[i] = AbsOf(heap, At(heap, p))
    <3>1. \E p \in V : Obj(p).id = i
      BY <2>2, <2>3
    <3>2. PICK p \in V : Obj(p).id = i /\ Obj(p) = o(i)
      BY <3>1
    <3>3. O[i] = [type |-> o(i).type, fields |-> [k \in DOMAIN o(i).fields |-> Identified(o(i).fields[k])]]
      BY <2>1, <2>2, <2>3
    <3> HIDE DEF o, O
    <3>4. [k \in DOMAIN Obj(p).fields |-> Identified(Obj(p).fields[k])]
            = [k \in DOMAIN Obj(p).fields |-> IdIn(heap, Obj(p).fields[k])]
      BY <1>3
    <3>5. Obj(p) = At(heap, p)
      BY DEF Obj, At
    <3> QED BY <3>2, <3>3, <3>4, <3>5 DEF AbsOf, FieldsOf
  <2>4. \A p \in V : At(heap, p).id \in DOMAIN O
    BY <2>2 DEF Obj, At
  <2> HIDE DEF O
  <2> QED BY <2>2, <2>3, <2>4 DEF Shows, O
<1> QED BY <1>9, <1>10, <1>11, <1>12

Ends == [p \in Places |-> Denote(p)]
Seen == View(heap, global, scenes, native, MachineState, Ends, Visible)

(* The view of a state, and of the next one. *)
LEMMA SeenNow == ASSUME Inv, Solid PROVE Seen
<1>1. /\ Typed /\ Headers /\ Volume /\ scenes \in Scenes /\ global \in Pointer /\ native \in CallType
      /\ heap \in Heaps
  BY InvIs, TopIs DEF Typed, Heaps
<1>2. PICK D : D = Ends /\ D = [p \in Places |-> Denote(p)]
  BY DEF Ends
<1>3. \A v : Root(global, scenes, native, v) => Own(heap, v)
  BY RootOwned
<1>4. Linked(heap) /\ Chains(heap)
  BY <1>1, AllLinked, ChainsEnd
<1>5. Denotes(heap, D)
  BY <1>1, <1>2, DenotesIs
<1>6. /\ IsFiniteSet(Visible) /\ Visible \subseteq Tables(heap)
      /\ Closing(heap, global, scenes, native, D, Visible)
      /\ \A W : Closing(heap, global, scenes, native, D, W) => Visible \subseteq W
  BY <1>2, VisibleLeast
<1>7. /\ MachineState = Record(MachineState.objects, IdIn(heap, global), ScenesOf(heap, scenes),
                               CallOf(heap, native))
      /\ Shows(heap, Visible, MachineState.objects)
  BY MachineIs
<1>8. View(heap, global, scenes, native, MachineState, D, Visible)
  BY <1>1, <1>3, <1>4, <1>5, <1>6, <1>7 DEF View
<1> QED BY <1>2, <1>8 DEF Seen

(* Seen, of the heap that a step leaves. *)
LEMMA SeenNext == ASSUME Inv', Solid' PROVE Seen'
BY SeenNow, PTL

------------------------------------------------------------------------------
(* What the machine knows of the tables is what the heap holds. *)
Faithful == Pictures(heap, Visible, MachineState.objects) /\ DistinctIn(heap, Visible)

(* A step that leaves the heap as it is. *)
LEMMA Scripted ==
  ASSUME NEW h, NEW g, NEW scs, NEW nat, NEW m, NEW D, NEW V, View(h, g, scs, nat, m, D, V),
         NEW t, NEW c, NEW n, NEW E, NEW U, View(h, g, t, c, n, E, U),
         Pictures(h, V, m.objects), \A v : Root(g, t, c, v) => D[v] \in V
  PROVE  /\ M!Changed(m, n, ScenesOf(h, t), CallOf(h, c), m.objects) /\ Pictures(h, U, n.objects)
         /\ U \subseteq V
         /\ t = scs /\ c = nat => n = m
<1>1. \A y \in In(h) : E[y] = D[y]
  BY Unmoved DEF View
<1>2. \A v : Root(g, t, c, v) => v \in In(h)
  BY DEF View, Own
<1>3. Closing(h, g, t, c, E, V)
  <2>1. \A v : Root(g, t, c, v) => E[v] \in V
    BY <1>1, <1>2
  <2>2. ASSUME NEW p \in V \cap In(h), NEW v \in PtrsOf(At(h, p)) PROVE E[v] \in V
    <3>1. v \in In(h)
      BY DEF View, Linked
    <3>2. D[v] \in V
      BY DEF View, Closing
    <3> QED BY <1>1, <3>1, <3>2
  <2> QED BY <2>1, <2>2 DEF Closing
<1>4. PICK O : O = m.objects
  OBVIOUS
<1>5. IsFiniteSet(DOMAIN O) /\ DOMAIN O \subseteq Ids
  BY <1>4, ViewIds
<1>6. M!Changed(m, n, ScenesOf(h, t), CallOf(h, c), O) /\ Pictures(h, U, n.objects)
  BY <1>3, <1>4, <1>5, Stepped
<1>7. ASSUME t = scs, c = nat PROVE n = m
  BY <1>3, <1>7, Standing
<1>8. U \subseteq V
  BY <1>3 DEF View
<1> QED BY <1>4, <1>6, <1>7, <1>8

(* The state, and where its pointers lead to. *)
LEMMA Now ==
  ASSUME Inv, Solid
  PROVE  /\ View(heap, global, scenes, native, MachineState, Ends, Visible)
         /\ Typed /\ Headers /\ Volume /\ scenes \in Scenes /\ native \in CallType /\ global \in Pointer
         /\ heap \in Heaps /\ Places = In(heap) /\ \A p : Obj(p) = At(heap, p)
<1>1. Seen
  BY SeenNow
<1>2. Typed /\ Headers /\ Volume
  BY InvIs
<1> QED BY <1>1, <1>2 DEF Seen, View, Places, Obj, At

(* After a step: the heap shows what its machine says. *)
LEMMA Afterwards ==
  ASSUME Inv', Solid'
  PROVE  View(heap', global', scenes', native', MachineState', Ends', Visible')
<1>1. Seen'
  BY SeenNext
<1> QED BY <1>1 DEF Seen

(* Every pointer that a script can get at leads to a visible table. *)
Leads(v) == v \in Pointer => v \in Places /\ Ends[v] \in Visible

(* Every root, register and field that is reached leads to a visible table. *)
LEMMA RootsLead ==
  ASSUME Inv, Solid
  PROVE  /\ \A v : Root(global, scenes, native, v) => Leads(v)
         /\ Leads(global) /\ \A s \in 1 .. Len(scenes) : \A v \in HeldBy(scenes[s]) : Leads(v)
         /\ \A r \in Reg : Leads(Regs[r])
         /\ \A p \in Visible : p \in Places /\ ~IsHeader(Obj(p)) /\ Obj(p) \in Object
                               /\ Leads(p) /\ \A v \in PtrsOf(Obj(p)) : Leads(v)
<1>1. /\ View(heap, global, scenes, native, MachineState, Ends, Visible)
      /\ Typed /\ scenes \in Scenes /\ heap \in Heaps /\ Places = In(heap) /\ \A p : Obj(p) = At(heap, p)
  BY Now
<1>2. \A v : Root(global, scenes, native, v) => Leads(v)
  BY <1>1 DEF View, Closing, Own, Leads
<1>3. \A s \in 1 .. Len(scenes) : \A v \in HeldBy(scenes[s]) : Leads(v)
  <2> TAKE s \in 1 .. Len(scenes)
  <2> TAKE v \in HeldBy(scenes[s])
  <2>1. v \in Pointer
    BY DEF HeldBy
  <2> QED BY <1>2, <2>1 DEF Root
<1>4. 1 \in 1 .. Len(scenes) /\ \A r \in Reg : Regs[r] \in Pointer => Regs[r] \in HeldBy(scenes[1])
  BY <1>1, TopIs, SceneIs
<1>5. \A r \in Reg : Leads(Regs[r])
  <2> TAKE r \in Reg
  <2>1. CASE Regs[r] \in Pointer
    BY <2>1, <1>3, <1>4
  <2>2. CASE Regs[r] \notin Pointer
    BY <2>2 DEF Leads
  <2> QED BY <2>1, <2>2
<1>6. Leads(global)
  BY <1>2 DEF Root, Leads
<1>7. ASSUME NEW p \in Visible
      PROVE  p \in Places /\ ~IsHeader(Obj(p)) /\ Obj(p) \in Object /\ Leads(p) /\ \A v \in PtrsOf(Obj(p)) : Leads(v)
  <2>1. p \in Places /\ ~IsHeader(Obj(p))
    BY <1>1 DEF View, Tables
  <2>2. Obj(p) \in Object
    BY <1>1, <2>1, InIs
  <2>3. Ends[p] = p
    BY <1>1, <2>1 DEF View, Denotes
  <2>4. \A v \in PtrsOf(Obj(p)) : v \in Places /\ Ends[v] \in Visible
    BY <1>1, <2>1 DEF View, Linked, Closing
  <2> QED BY <2>1, <2>2, <2>3, <2>4 DEF Leads
<1> QED BY <1>2, <1>3, <1>5, <1>6, <1>7

(* The table behind a pointer, in the machine. *)
LEMMA TableSeen ==
  ASSUME Inv, Solid, Faithful, NEW v \in Pointer, Leads(v)
  PROVE  /\ IdIn(heap, v) \in DOMAIN MachineState.objects
         /\ MachineState.objects[IdIn(heap, v)] = AbsOf(heap, Obj(Ends[v]))
         /\ Obj(Ends[v]) \in Object /\ Ends[v] \in Visible /\ IdIn(heap, v) = Obj(v).id
         /\ ~IsHeader(Obj(v)) => Ends[v] = v
<1>1. /\ View(heap, global, scenes, native, MachineState, Ends, Visible)
      /\ Places = In(heap) /\ \A p : Obj(p) = At(heap, p)
  BY Now
<1>2. v \in Places /\ Ends[v] \in Visible
  BY DEF Leads
<1>3. At(heap, Ends[v]).id = At(heap, v).id /\ (~IsHeader(Obj(v)) => Ends[v] = v)
  BY <1>1, <1>2 DEF View, Denotes
<1>4. IdIn(heap, v) = At(heap, v).id
  BY IdInIs DEF Datum
<1>5. Obj(Ends[v]) \in Object
  BY <1>2, RootsLead
<1> QED BY <1>1, <1>2, <1>3, <1>4, <1>5 DEF Faithful, Pictures

(* The loop of Resolve goes on where a header points to. *)
LEMMA ResolveStep ==
  ASSUME Typed, Headers, Volume, NEW p \in Places, Obj(p).type = "redirect"
  PROVE  Resolve(p) = Resolve(Obj(p).fwd)
<1> DEFINE X == {q \in Places : Obj(q).type = "redirect"}
           Is(f) == f = [q \in Places |-> IF Obj(q).type = "redirect" THEN f[Obj(q).fwd] ELSE q]
           Same(f) == f = [q \in Places |-> IF q \in X THEN f[Obj(q).fwd] ELSE q]
<1>1. \A f : Is(f) <=> Same(f)
  <2> TAKE f
  <2>1. \A q \in Places : (IF Obj(q).type = "redirect" THEN f[Obj(q).fwd] ELSE q)
                            = (IF q \in X THEN f[Obj(q).fwd] ELSE q)
    OBVIOUS
  <2> QED BY <2>1
<1>2. X \in SUBSET Places /\ \A q \in X : Obj(q).type \in {"redirect", "left"}
  OBVIOUS
<1>3. \E f : Same(f)
  <2> HIDE DEF X
  <2> QED BY <1>2, Following
<1>4. \A q \in Places : Resolve(q) = (CHOOSE f : Is(f))[q]
  BY PlacesAre DEF Resolve
<1>5. Same(CHOOSE f : Is(f))
  <2> HIDE DEF Is, Same
  <2> QED BY <1>1, <1>3
<1>6. PICK g : g = CHOOSE f : Is(f)
  OBVIOUS
<1>7. Same(g) /\ \A q \in Places : Resolve(q) = g[q]
  <2> HIDE DEF Is, Same
  <2> QED BY <1>4, <1>5, <1>6
<1>8. p \in X => g[p] = g[Obj(p).fwd]
  BY <1>7
<1>9. Obj(p).fwd \in Places
  BY DEF Headers
<1> QED BY <1>7, <1>8, <1>9

(* Outside of a collection the headers that instructions follow are all there are. *)
LEMMA ResolveEnds ==
  ASSUME Inv, Solid, pc # "gc", NEW v \in Pointer, Leads(v)
  PROVE  /\ Resolve(v) = Ends[v] /\ Resolve(v) \in Pointer /\ Leads(Resolve(v)) /\ Resolve(v) \in Visible
         /\ IdIn(heap, Resolve(v)) = IdIn(heap, v)
         /\ Ends[Resolve(v)] = Resolve(v)
<1>1. /\ View(heap, global, scenes, native, MachineState, Ends, Visible)
      /\ Typed /\ Headers /\ Volume /\ Places = In(heap) /\ \A p : Obj(p) = At(heap, p)
  BY Now
<1>2. v \in Places /\ Ends[v] \in Visible
  BY DEF Leads
<1>3. PICK S : S = {p \in Places : Resolve(p) = Ends[p]}
  OBVIOUS
<1>4. Calm
  BY DEF Inv
<1>5. \A p \in Places : Obj(p).type # "left"
  BY <1>1, <1>4, CalmIs
<1>6. ASSUME NEW p \in Places, ~IsHeader(Obj(p)) PROVE p \in S
  <2>1. Ends[p] = p
    BY <1>1, <1>6 DEF View, Denotes
  <2>2. Resolve(p) = p
    BY <1>1, <1>6, ResolveIs DEF IsHeader
  <2> QED BY <2>1, <2>2, <1>3
<1>7. ASSUME NEW p \in Places, IsHeader(Obj(p)), Obj(p).fwd \in S PROVE p \in S
  <2>1. Ends[p] = Ends[Obj(p).fwd]
    BY <1>1, <1>7 DEF View, Denotes
  <2>2. Resolve(p) = Resolve(Obj(p).fwd)
    <3>1. Obj(p).type = "redirect"
      BY <1>5, <1>7 DEF IsHeader
    <3> QED BY <3>1, <1>1, <1>5, ResolveStep
  <2> QED BY <2>1, <2>2, <1>3, <1>7
<1>8. Places \subseteq S
  BY <1>1, <1>6, <1>7, Zenon DEF View, Chains
<1>9. Resolve(v) = Ends[v]
  BY <1>2, <1>3, <1>8
<1>10. Ends[v] \in Places /\ Ends[Ends[v]] = Ends[v] /\ Obj(Ends[v]).id = Obj(v).id
  BY <1>1, <1>2 DEF View, Denotes
<1>11. Ends[v] \in Pointer
  BY <1>10 DEF Places, In
<1>12. IdIn(heap, Ends[v]) = IdIn(heap, v)
  BY <1>1, <1>10, <1>11, IdInIs DEF Datum
<1> QED BY <1>2, <1>9, <1>10, <1>11, <1>12 DEF Leads

------------------------------------------------------------------------------
(* A step that leaves the heap as it is, in the machine. *)
LEMMA ScenesStep ==
  ASSUME Inv, Solid, Faithful, Inv', Solid', heap' = heap, global' = global,
         \A v : Root(global, scenes', native', v) => Leads(v)
  PROVE  /\ M!Changed(MachineState, MachineState', ScenesOf(heap, scenes'), CallOf(heap, native'), MachineState.objects)
         /\ Faithful'
         /\ scenes' = scenes /\ native' = native => MachineState' = MachineState
<1>1. View(heap, global, scenes, native, MachineState, Ends, Visible)
  BY Now
<1>2. PICK t, c, n, E, U : t = scenes' /\ c = native' /\ n = MachineState' /\ E = Ends' /\ U = Visible'
  OBVIOUS
<1>3. View(heap, global, t, c, n, E, U)
  BY <1>2, Afterwards
<1>4. \A v : Root(global, t, c, v) => Ends[v] \in Visible
  BY <1>2 DEF Leads, Root
<1>5. Pictures(heap, Visible, MachineState.objects)
  BY DEF Faithful
<1>6. /\ M!Changed(MachineState, n, ScenesOf(heap, t), CallOf(heap, c), MachineState.objects)
      /\ Pictures(heap, U, n.objects)
      /\ U \subseteq Visible
      /\ t = scenes /\ c = native => n = MachineState
  BY <1>1, <1>3, <1>4, <1>5, Scripted
<1>7. Faithful'
  BY <1>2, <1>6 DEF Faithful, DistinctIn
<1> QED BY <1>2, <1>6, <1>7

(* A step that leaves everything as it is that the machine shows. *)
LEMMA IdleStep ==
  ASSUME Inv, Solid, Faithful, Inv', Solid', UNCHANGED <<heap, global, scenes, native>>
  PROVE  MachineState' = MachineState /\ Faithful'
<1>1. \A v : Root(global, scenes', native', v) => Leads(v)
  BY RootsLead
<1> QED BY <1>1, ScenesStep

(* Other registers. *)
LEMMA RewrittenLeads ==
  ASSUME Inv, Solid, NEW t, NEW X, Rewritten(scenes, t, X), \A v \in X : Leads(v),
         NEW v, Root(global, t, native, v)
  PROVE  Leads(v)
<1>1. CASE v = global
  BY <1>1, RootsLead
<1>2. ASSUME NEW s \in 1 .. Len(t), v \in HeldBy(t[s]) PROVE Leads(v)
  BY <1>2, RootsLead DEF Rewritten
<1>3. ASSUME NEW c \in CallsOf(native, t), v \in {c.array, c.callback} PROVE Leads(v)
  <2>1. c \in CallsOf(native, scenes)
    BY <1>3 DEF CallsOf, Rewritten
  <2>2. Root(global, scenes, native, v)
    BY <1>3, <2>1 DEF Root
  <2> QED BY <2>2, RootsLead
<1> QED BY <1>1, <1>2, <1>3 DEF Root

(* The registers of the frame that runs, in the machine. *)
LEMMA MachineParts ==
  ASSUME Inv, Solid
  PROVE  /\ M!Regs(MachineState) = RegsOf(heap, Regs) /\ Regs \in [Reg -> Datum]
         /\ MachineState.scenes = ScenesOf(heap, scenes) /\ MachineState.native = CallOf(heap, native)
         /\ MachineState.global = IdIn(heap, global)
         /\ \A R : M!WithRegs(MachineState, R) = TopRegs(MachineState.scenes, R)
         /\ \A R : WithRegs(R) = TopRegs(scenes, R)
         /\ scenes \in Scenes /\ scenes \in Seq(SceneType) /\ Len(scenes) \in Nat \ {0}
<1>1. View(heap, global, scenes, native, MachineState, Ends, Visible) /\ scenes \in Scenes
      /\ Typed
  BY Now
<1>2. /\ MachineState.scenes = ScenesOf(heap, scenes) /\ MachineState.native = CallOf(heap, native)
      /\ MachineState.global = IdIn(heap, global)
  BY <1>1, ViewIds
<1>3. scenes \in Seq(SceneType) /\ 1 \in 1 .. Len(scenes) /\ Len(scenes) \in Nat \ {0}
      /\ scenes[1].frames \in Seq(FrameType) /\ 1 \in 1 .. Len(scenes[1].frames)
  BY <1>1, SceneIs
<1>4. Regs = scenes[1].frames[1].regs /\ Regs \in [Reg -> Datum]
  BY <1>1, TopIs
<1>5. ScenesOf(heap, scenes)[1].frames = FramesOf(heap, scenes[1].frames)
  BY <1>3, ScenesOfIs, SceneOfIs
<1>6. FramesOf(heap, scenes[1].frames)[1] = FrameOf(heap, scenes[1].frames[1])
  BY <1>3, FramesOfIs
<1>7. M!Regs(MachineState) = RegsOf(heap, Regs)
  BY <1>2, <1>4, <1>5, <1>6 DEF M!Regs, FrameOf
<1>8. \A R : M!WithRegs(MachineState, R) = TopRegs(MachineState.scenes, R)
  BY DEF M!WithRegs, TopRegs, TopFrames, FirstRegs
<1>9. \A R : WithRegs(R) = TopRegs(scenes, R)
  BY DEF WithRegs, TopRegs, TopFrames, FirstRegs
<1> QED BY <1>1, <1>2, <1>3, <1>4, <1>7, <1>8, <1>9

(* No call is no call. *)
LEMMA CallOfNone == ASSUME NEW h PROVE CallOf(h, NoCall) = NoCall /\ NoCall \in CallType
BY NothingCaptured, IdInIs, PointerIs, IdsAre DEF CallOf, NoCall, Datum, IdIn, IsPtr, Undefined

(* A step that gives the frame other registers. *)
LEMMA RegsStep ==
  ASSUME Inv, Solid, Faithful, Inv', Solid', heap' = heap, global' = global, native' = native,
         native = NoCall, NEW regs \in [Reg -> Datum], \A r \in Reg : Leads(regs[r]), scenes' = WithRegs(regs)
  PROVE  /\ M!Step(MachineState, MachineState', M!WithRegs(MachineState, RegsOf(heap, regs)), MachineState.objects)
         /\ Faithful'
<1>1. scenes \in Scenes /\ scenes' = TopRegs(scenes, regs)
  BY MachineParts
<1>2. scenes' = [scenes EXCEPT ![1].frames[1].regs = regs]
  BY DEF WithRegs
<1>3. PICK X : X = {regs[r] : r \in Reg}
  OBVIOUS
<1>4. \A r \in Reg : regs[r] \in Pointer => regs[r] \in X \cup HeldBy(scenes[1])
  BY <1>3
<1>5. Rewritten(scenes, scenes', X)
  <2>1. scenes \in Scenes /\ regs \in [Reg -> Datum]
    BY <1>1
  <2>2. Rewritten(scenes, [scenes EXCEPT ![1].frames[1].regs = regs], X)
    BY <2>1, <1>4, RegsRewritten
  <2> QED BY <1>2, <2>2
<1>6. \A v \in X : Leads(v)
  BY <1>3
<1>7. \A v : Root(global, scenes', native', v) => Leads(v)
  BY <1>5, <1>6, RewrittenLeads
<1>8. M!Changed(MachineState, MachineState', ScenesOf(heap, scenes'), CallOf(heap, native'), MachineState.objects)
      /\ Faithful'
  BY <1>7, ScenesStep
<1>9. ScenesOf(heap, scenes') = M!WithRegs(MachineState, RegsOf(heap, regs))
  <2>1. PICK R : R = RegsOf(heap, regs)
    OBVIOUS
  <2>2. ScenesOf(heap, TopRegs(scenes, regs)) = TopRegs(ScenesOf(heap, scenes), R)
    BY <1>1, <2>1, TopRegsOf
  <2>3. M!WithRegs(MachineState, R) = TopRegs(ScenesOf(heap, scenes), R)
    BY MachineParts
  <2> QED BY <1>1, <2>1, <2>2, <2>3
<1>10. CallOf(heap, native') = M!NoCall /\ MachineState.native = M!NoCall
  BY MachineParts, CallOfNone, SameNotions
<1> QED BY <1>8, <1>9, <1>10 DEF M!Step

(* One register that is set. *)
SetOne(regs, d, v) == [regs EXCEPT ![d] = v]
HasOne(regs, d, v, t) == t \in [Reg -> Datum] /\ \A r \in Reg : t[r] = IF r = d THEN v ELSE regs[r]

(* A register that is set is set in the machine. *)
LEMMA SetOneIs ==
  ASSUME NEW h, NEW regs \in [Reg -> Datum], NEW d \in Reg, NEW v \in Datum
  PROVE  /\ RegsOf(h, SetOne(regs, d, v)) = SetOne(RegsOf(h, regs), d, IdIn(h, v))
         /\ HasOne(regs, d, v, SetOne(regs, d, v))
<1>1. PICK x, y : x = SetOne(regs, d, v) /\ y = IdIn(h, v)
  OBVIOUS
<1>2. x \in [Reg -> Datum] /\ \A r \in Reg : x[r] = IF r = d THEN v ELSE regs[r]
  BY <1>1 DEF SetOne
<1>3. RegsOf(h, x) = [r \in Reg |-> IF r = d THEN y ELSE IdIn(h, regs[r])]
  <2>1. \A r \in Reg : IdIn(h, x[r]) = IF r = d THEN y ELSE IdIn(h, regs[r])
    BY <1>1, <1>2
  <2> QED BY <2>1 DEF RegsOf
<1>4. SetOne(RegsOf(h, regs), d, y) = [r \in Reg |-> IF r = d THEN y ELSE IdIn(h, regs[r])]
  BY DEF SetOne, RegsOf
<1> QED BY <1>1, <1>2, <1>3, <1>4 DEF HasOne

------------------------------------------------------------------------------
(* A register that is set. *)
LEMMA SetStep ==
  ASSUME Inv, Solid, Faithful, Inv', Solid', heap' = heap, global' = global, native' = native,
         native = NoCall, NEW d \in Reg, NEW v \in Datum, Leads(v), scenes' = WithRegs(SetOne(Regs, d, v))
  PROVE  /\ M!Step(MachineState, MachineState', M!SetReg(MachineState, d, IdIn(heap, v)), MachineState.objects)
         /\ Faithful'
<1>1. Regs \in [Reg -> Datum] /\ M!Regs(MachineState) = RegsOf(heap, Regs)
  BY MachineParts
<1>2. PICK regs, i : regs = SetOne(Regs, d, v) /\ i = IdIn(heap, v)
  OBVIOUS
<1>3. /\ RegsOf(heap, regs) = SetOne(RegsOf(heap, Regs), d, i) /\ regs \in [Reg -> Datum]
      /\ \A r \in Reg : regs[r] = IF r = d THEN v ELSE Regs[r]
  <2>1. RegsOf(heap, regs) = SetOne(RegsOf(heap, Regs), d, i) /\ HasOne(Regs, d, v, regs)
    BY <1>1, <1>2, SetOneIs
  <2> QED BY <2>1 DEF HasOne
<1>4. \A r \in Reg : Leads(regs[r])
  BY <1>3, RootsLead
<1>5. scenes' = WithRegs(regs)
  BY <1>2
<1>6. /\ M!Step(MachineState, MachineState', M!WithRegs(MachineState, RegsOf(heap, regs)), MachineState.objects)
      /\ Faithful'
  BY <1>3, <1>4, <1>5, RegsStep
<1>7. M!SetReg(MachineState, d, i) = M!WithRegs(MachineState, RegsOf(heap, regs))
  BY <1>1, <1>3 DEF M!SetReg, SetOne
<1> QED BY <1>2, <1>6, <1>7

(* What is no pointer stands for itself, in every heap. *)
LEMMA NoPointer ==
  ASSUME NEW h
  PROVE  /\ IdIn(h, Undefined) = Undefined /\ IdIn(h, Zero) = Zero
         /\ Undefined \in Datum /\ Zero \in Datum /\ Leads(Undefined) /\ Leads(Zero)
BY IdInIs, PointerIs DEF Datum, Leads

(* LI and its like: the machine's Load. *)
LEMMA LoadSeen ==
  ASSUME Inv, Solid, Faithful, Inv', Solid', native = NoCall, NEW d \in Reg, Load(d)
  PROVE  M!Load(MachineState, MachineState', d) /\ Faithful'
<1>1. heap' = heap /\ global' = global /\ native' = native /\ scenes' = WithRegs(SetOne(Regs, d, Undefined))
  BY DEF Load, Quiet, heapVars, SetReg, SetOne
<1>2. PICK v : v = Undefined
  OBVIOUS
<1>3. v \in Datum /\ Leads(v) /\ IdIn(heap, v) = M!Undefined
  BY <1>2, NoPointer, SameNotions
<1>4. /\ M!Step(MachineState, MachineState', M!SetReg(MachineState, d, IdIn(heap, v)), MachineState.objects)
      /\ Faithful'
  BY <1>1, <1>2, <1>3, SetStep
<1> QED BY <1>3, <1>4 DEF M!Load

(* MOV: the machine's Move, from a register or from the arguments. *)
LEMMA MoveSeen ==
  ASSUME Inv, Solid, Faithful, Inv', Solid', native = NoCall, NEW d \in Reg, NEW s \in Reg \cup {0}, Move(d, s)
  PROVE  M!Move(MachineState, MachineState', d, s) /\ Faithful'
<1>1. heap' = heap /\ global' = global /\ native' = native /\ scenes' = WithRegs(SetOne(Regs, d, Operand(Regs, s)))
  BY DEF Move, Quiet, heapVars, SetReg, SetOne
<1>2. PICK v : v = Operand(Regs, s)
  OBVIOUS
<1>3. v \in Datum /\ Leads(v) /\ IdIn(heap, v) = M!Operand(M!Regs(MachineState), s)
  <2>1. M!Regs(MachineState) = RegsOf(heap, Regs) /\ Regs \in [Reg -> Datum]
    BY MachineParts
  <2>2. CASE s = 0
    BY <1>2, <2>2, NoPointer, SameNotions DEF Operand, M!Operand
  <2>3. CASE s \in Reg /\ s # 0
    BY <1>2, <2>1, <2>3, RootsLead DEF Operand, M!Operand, RegsOf
  <2> QED BY <2>2, <2>3
<1>4. /\ M!Step(MachineState, MachineState', M!SetReg(MachineState, d, IdIn(heap, v)), MachineState.objects)
      /\ Faithful'
  BY <1>1, <1>2, <1>3, SetStep
<1> QED BY <1>3, <1>4 DEF M!Move

(* A table that a register holds. *)
LEMMA HoldsSeen ==
  ASSUME Inv, Solid, Faithful, pc # "gc", NEW r \in Reg, NEW type, Holds(r, {type}),
         NEW p, p = Resolve(Regs[r])
  PROVE  /\ M!Is(MachineState, M!Regs(MachineState)[r], type)
         /\ MachineState.objects[M!Regs(MachineState)[r]] = AbsOf(heap, Obj(p))
         /\ IdIn(heap, p) = M!Regs(MachineState)[r] /\ Obj(p).type = type
         /\ p \in Pointer /\ p \in Datum /\ Leads(p) /\ p \in Visible /\ Obj(p) \in Object
<1>1. Regs[r] \in Datum /\ M!Regs(MachineState)[r] = IdIn(heap, Regs[r])
  BY MachineParts DEF RegsOf
<1>2. PICK v : v = Regs[r]
  OBVIOUS
<1>3. v \in Pointer /\ Leads(v) /\ Obj(p).type = type
  BY <1>1, <1>2, PointerIs, RootsLead DEF Holds
<1>4. /\ p = Ends[v] /\ p \in Pointer /\ Leads(p) /\ p \in Visible
      /\ IdIn(heap, p) = IdIn(heap, v)
  BY <1>2, <1>3, ResolveEnds
<1>5. /\ IdIn(heap, v) \in DOMAIN MachineState.objects
      /\ MachineState.objects[IdIn(heap, v)] = AbsOf(heap, Obj(p)) /\ Obj(p) \in Object
  BY <1>3, <1>4, TableSeen
<1>6. M!Is(MachineState, IdIn(heap, v), type)
  BY <1>3, <1>5, AbsIs DEF M!Is
<1> QED BY <1>1, <1>2, <1>3, <1>4, <1>5, <1>6 DEF Datum

(* A field that is read reads the same in the machine. *)
LEMMA GetSeen ==
  ASSUME NEW h, NEW o \in Object, NEW k
  PROVE  M!Get(AbsOf(h, o), k) = IdIn(h, Get(o, k))
<1>1. DOMAIN AbsOf(h, o).fields = DOMAIN o.fields /\ \A i \in DOMAIN o.fields : AbsOf(h, o).fields[i] = IdIn(h, o.fields[i])
  BY AbsIs
<1>2. M!Get(AbsOf(h, o), k) = Get(AbsOf(h, o), k) /\ IdIn(h, Undefined) = Undefined
  BY SameNotions, NoPointer
<1>3. PICK a : a = AbsOf(h, o)
  OBVIOUS
<1>4. CASE k \in DOMAIN o.fields
  BY <1>1, <1>2, <1>4 DEF Get
<1>5. CASE k \notin DOMAIN o.fields
  BY <1>1, <1>2, <1>5 DEF Get
<1> QED BY <1>4, <1>5

(* Two registers that are set, the first to what it already shows. *)
LEMMA SameRegs ==
  ASSUME NEW h, NEW regs \in [Reg -> Datum], NEW d \in Reg, NEW v \in Datum, IdIn(h, v) = IdIn(h, regs[d])
  PROVE  /\ RegsOf(h, SetOne(regs, d, v)) = RegsOf(h, regs)
         /\ HasOne(regs, d, v, SetOne(regs, d, v))
<1>1. PICK x : x = SetOne(regs, d, v)
  OBVIOUS
<1>2. HasOne(regs, d, v, x)
  BY <1>1, SetOneIs
<1>3. \A r \in Reg : IdIn(h, x[r]) = IdIn(h, regs[r])
  BY <1>2 DEF HasOne
<1>4. RegsOf(h, x) = RegsOf(h, regs)
  BY <1>3 DEF RegsOf
<1> QED BY <1>1, <1>2, <1>4

(* GETOBJ through whatever headers the register's table has left: the machine's
   GetObj. *)
LEMMA GetObjSeen ==
  ASSUME Inv, Solid, Faithful, Inv', Solid', native = NoCall, NEW d \in Reg, NEW r \in Reg, NEW k \in Key, GetObj(d, r, k)
  PROVE  M!GetObj(MachineState, MachineState', d, r, k) /\ Faithful'
<1>1. /\ heap' = heap /\ global' = global /\ native' = native /\ pc = "run" /\ Holds(r, {"object"})
      /\ scenes' = WithRegs([Regs EXCEPT ![r] = Resolve(Regs[r]), ![d] = Get(Obj(Resolve(Regs[r])), k)])
  BY DEF GetObj, Quiet, heapVars, Running
<1>2. PICK p, v : p = Resolve(Regs[r]) /\ v = Get(Obj(p), k)
  OBVIOUS
<1>3. /\ M!Is(MachineState, M!Regs(MachineState)[r], "object")
      /\ MachineState.objects[M!Regs(MachineState)[r]] = AbsOf(heap, Obj(p))
      /\ IdIn(heap, p) = M!Regs(MachineState)[r]
      /\ p \in Datum /\ Leads(p) /\ p \in Visible /\ Obj(p) \in Object
  BY <1>1, <1>2, HoldsSeen
<1>4. v \in Datum /\ (v \in Pointer => v \in PtrsOf(Obj(p)))
  BY <1>2, <1>3, GetIs
<1>5. Leads(v)
  <2>1. CASE v \in Pointer
    BY <2>1, <1>3, <1>4, RootsLead
  <2>2. CASE v \notin Pointer
    BY <2>2 DEF Leads
  <2> QED BY <2>1, <2>2
<1>6. PICK x : x = SetOne(Regs, r, p)
  OBVIOUS
<1>7. Regs \in [Reg -> Datum] /\ M!Regs(MachineState) = RegsOf(heap, Regs)
  BY MachineParts
<1>8. IdIn(heap, p) = IdIn(heap, Regs[r])
  BY <1>3, <1>7 DEF RegsOf
<1>9. RegsOf(heap, x) = RegsOf(heap, Regs) /\ x \in [Reg -> Datum] /\ \A i \in Reg : x[i] = IF i = r THEN p ELSE Regs[i]
  <2>1. RegsOf(heap, x) = RegsOf(heap, Regs) /\ HasOne(Regs, r, p, x)
    BY <1>3, <1>6, <1>7, <1>8, SameRegs
  <2> QED BY <2>1 DEF HasOne
<1>10. PICK regs, j : regs = SetOne(x, d, v) /\ j = IdIn(heap, v)
  OBVIOUS
<1>11. /\ RegsOf(heap, regs) = SetOne(RegsOf(heap, x), d, j) /\ regs \in [Reg -> Datum]
       /\ \A i \in Reg : regs[i] = IF i = d THEN v ELSE x[i]
  <2>1. x \in [Reg -> Datum] /\ v \in Datum
    BY <1>4, <1>9
  <2>2. RegsOf(heap, regs) = SetOne(RegsOf(heap, x), d, j) /\ HasOne(x, d, v, regs)
    BY <2>1, <1>10, SetOneIs
  <2> QED BY <2>2 DEF HasOne
<1>12. \A i \in Reg : Leads(regs[i])
  BY <1>3, <1>5, <1>9, <1>11, RootsLead
<1>13. scenes' = WithRegs(regs)
  BY <1>1, <1>2, <1>6, <1>10 DEF SetOne
<1>14. /\ M!Step(MachineState, MachineState', M!WithRegs(MachineState, RegsOf(heap, regs)), MachineState.objects)
       /\ Faithful'
  BY <1>1, <1>11, <1>12, <1>13, RegsStep
<1>15. M!SetReg(MachineState, d, j) = M!WithRegs(MachineState, RegsOf(heap, regs))
  BY <1>7, <1>9, <1>11 DEF M!SetReg, SetOne
<1>16. j = M!Get(MachineState.objects[M!Regs(MachineState)[r]], k)
  BY <1>2, <1>3, <1>10, GetSeen
<1> QED BY <1>3, <1>14, <1>15, <1>16 DEF M!GetObj

------------------------------------------------------------------------------
(* Other frames. *)
LEMMA FramesLead ==
  ASSUME Inv, Solid, NEW fs \in Seq(FrameType), fs # <<>>,
         \A f \in 1 .. Len(fs) : \A r \in Reg : Leads(fs[f].regs[r]),
         NEW t, t = TopFrames(scenes, fs)
  PROVE  \A v : Root(global, t, native, v) => Leads(v)
<1>1. scenes \in Scenes
  BY MachineParts
<1>2. t = [scenes EXCEPT ![1] = [scenes[1] EXCEPT !.frames = fs]]
  BY DEF TopFrames
<1>3. PICK X : X = {v \in Datum : Leads(v)}
  OBVIOUS
<1>4. ASSUME NEW f \in 1 .. Len(fs), NEW r \in Reg PROVE fs[f].regs[r] \in X
  <2>1. fs[f] \in FrameType
    BY ElementOfSeq
  <2> QED BY <2>1, <1>3 DEF FrameType
<1>5. \A f \in 1 .. Len(fs) : \A r \in Reg : fs[f].regs[r] \in Pointer => fs[f].regs[r] \in X \cup HeldBy(scenes[1])
  BY <1>4
<1>6. Rewritten(scenes, [scenes EXCEPT ![1] = [scenes[1] EXCEPT !.frames = fs]], X)
  BY <1>1, <1>5, FramesRewritten
<1>7. \A v \in X : Leads(v)
  BY <1>3
<1>8. Rewritten(scenes, t, X)
  BY <1>2, <1>6
<1> QED BY <1>7, <1>8, RewrittenLeads

(* A step that changes the registers and frames of the running scene only, to
   values that can be reached, is a step of the machine that does the same. *)
LEMMA FramesStep ==
  ASSUME Inv, Solid, Faithful, Inv', Solid', heap' = heap, global' = global, native' = native,
         native = NoCall, NEW fs \in Seq(FrameType), fs # <<>>,
         \A f \in 1 .. Len(fs) : \A r \in Reg : Leads(fs[f].regs[r]), scenes' = TopFrames(scenes, fs)
  PROVE  /\ M!Step(MachineState, MachineState', TopFrames(MachineState.scenes, FramesOf(heap, fs)), MachineState.objects)
         /\ Faithful'
<1>1. \A v : Root(global, scenes', native, v) => Leads(v)
  BY FramesLead
<1>2. M!Changed(MachineState, MachineState', ScenesOf(heap, scenes'), CallOf(heap, native'), MachineState.objects)
      /\ Faithful'
  BY <1>1, ScenesStep
<1>3. ScenesOf(heap, scenes') = TopFrames(MachineState.scenes, FramesOf(heap, fs))
  <2>1. scenes \in Scenes /\ MachineState.scenes = ScenesOf(heap, scenes)
    BY MachineParts
  <2>2. ScenesOf(heap, TopFrames(scenes, fs)) = TopFrames(ScenesOf(heap, scenes), FramesOf(heap, fs))
    BY <2>1, TopFramesOf
  <2> QED BY <2>1, <2>2
<1>4. CallOf(heap, native') = M!NoCall /\ MachineState.native = M!NoCall
  BY MachineParts, CallOfNone, SameNotions
<1> QED BY <1>2, <1>3, <1>4 DEF M!Step

(* The frames of the scene that runs. *)
LEMMA FramesAre ==
  ASSUME Inv, Solid
  PROVE  /\ scenes[1].frames \in Seq(FrameType) \ {<<>>} /\ Len(scenes[1].frames) \in Nat \ {0}
         /\ scenes[1].frames[1].regs = Regs /\ Frame = scenes[1].frames[1] /\ Frame.rd \in Reg /\ Scene = scenes[1]
         /\ MachineState.scenes[1].frames = FramesOf(heap, scenes[1].frames)
         /\ MachineState.scenes[1].caller = CallOf(heap, scenes[1].caller)
         /\ \A f \in 1 .. Len(scenes[1].frames) : \A r \in Reg : Leads(scenes[1].frames[f].regs[r])
<1>1. Typed /\ scenes \in Scenes
  BY Now
<1>2. /\ scenes \in Seq(SceneType) /\ 1 \in 1 .. Len(scenes)
      /\ scenes[1].frames \in Seq(FrameType) /\ scenes[1].frames # <<>> /\ Len(scenes[1].frames) \in Nat \ {0}
      /\ scenes[1].frames[1].rd \in Reg
  BY <1>1, SceneIs
<1>3. Regs = scenes[1].frames[1].regs /\ Frame = scenes[1].frames[1] /\ Scene = scenes[1]
  BY <1>1, TopIs
<1>4. ScenesOf(heap, scenes)[1] = SceneOf(heap, scenes[1])
  BY <1>2, ScenesOfIs
<1>5. MachineState.scenes = ScenesOf(heap, scenes)
  BY MachineParts
<1>6. ASSUME NEW f \in 1 .. Len(scenes[1].frames), NEW r \in Reg PROVE Leads(scenes[1].frames[f].regs[r])
  <2>1. PICK v : v = scenes[1].frames[f].regs[r]
    OBVIOUS
  <2>2. CASE v \in Pointer
    <3>1. v \in HeldBy(scenes[1])
      BY <2>1, <2>2, HeldIs
    <3> QED BY <2>1, <3>1, <1>2, RootsLead
  <2>3. CASE v \notin Pointer
    BY <2>1, <2>3 DEF Leads
  <2> QED BY <2>2, <2>3
<1> QED BY <1>2, <1>3, <1>4, <1>5, <1>6, SceneOfIs

(* A frame of a call. *)
LEMMA FrameSeen ==
  ASSUME NEW h, NEW f \in Object, NEW a \in Object, NEW rd \in Reg
  PROVE  M!NewFrame(AbsOf(h, f), AbsOf(h, a), rd) = FrameOf(h, NewFrame(f, a, rd))
<1>1. PICK F, A : F = AbsOf(h, f) /\ A = AbsOf(h, a)
  OBVIOUS
<1>2. DOMAIN F.fields = DOMAIN f.fields /\ \A k \in DOMAIN f.fields : F.fields[k] = IdIn(h, f.fields[k])
  BY <1>1, AbsIs
<1>3. \A r \in Reg : Get(A, r - 1) = IdIn(h, Get(a, r - 1))
  <2> TAKE r \in Reg
  <2>1. PICK k : k = r - 1
    OBVIOUS
  <2>2. M!Get(A, k) = IdIn(h, Get(a, k)) /\ M!Get(A, k) = Get(A, k)
    BY <1>1, GetSeen, SameNotions
  <2> QED BY <2>1, <2>2
<1>4. IdIn(h, Undefined) = Undefined
  BY NoPointer
<1>5. PICK x : x = NewFrame(f, a, rd)
  OBVIOUS
<1>6. /\ x.rd = rd
      /\ \A r \in Reg : x.regs[r] = (IF r \in DOMAIN f.fields THEN f.fields[r]
                                     ELSE IF r <= Arguments + 1 THEN Get(a, r - 1) ELSE Undefined)
  BY <1>5 DEF NewFrame
<1>7. \A r \in Reg : IdIn(h, x.regs[r]) = IF r \in DOMAIN F.fields THEN F.fields[r]
                                          ELSE IF r <= Arguments + 1 THEN Get(A, r - 1) ELSE Undefined
  <2> TAKE r \in Reg
  <2>1. CASE r \in DOMAIN f.fields
    BY <2>1, <1>2, <1>6
  <2>2. CASE r \notin DOMAIN f.fields /\ r <= Arguments + 1
    BY <2>2, <1>2, <1>3, <1>6
  <2>3. CASE r \notin DOMAIN f.fields /\ ~(r <= Arguments + 1)
    BY <2>3, <1>2, <1>4, <1>6
  <2> QED BY <2>1, <2>2, <2>3
<1>8. RegsOf(h, x.regs) = [r \in Reg |-> IF r \in DOMAIN F.fields THEN F.fields[r]
                                         ELSE IF r <= Arguments + 1 THEN Get(A, r - 1) ELSE Undefined]
  BY <1>7 DEF RegsOf
<1>9. FrameOf(h, x) = NewFrame(F, A, rd)
  BY <1>6, <1>8 DEF FrameOf, NewFrame
<1> QED BY <1>1, <1>5, <1>9, SameNotions

(* Registers that are set to what they are. *)
LEMMA SameFirst ==
  ASSUME NEW h, NEW fs \in Seq(FrameType) \ {<<>>}
  PROVE  FirstRegs(FramesOf(h, fs), RegsOf(h, fs[1].regs)) = FramesOf(h, fs)
<1>1. Len(fs) \in Nat \ {0} /\ 1 \in 1 .. Len(fs)
  BY EmptySeq, LenProperties
<1>2. PICK F, R, d : F = FramesOf(h, fs) /\ R = RegsOf(h, fs[1].regs) /\ d = fs[1].rd
  OBVIOUS
<1>3. F = [f \in 1 .. Len(fs) |-> FrameOf(h, fs[f])]
  BY <1>2 DEF FramesOf
<1>4. F[1] = [regs |-> R, rd |-> d]
  BY <1>1, <1>2, <1>3 DEF FrameOf
<1>5. [F[1] EXCEPT !.regs = R] = F[1]
  BY <1>4
<1>6. FirstRegs(F, R) = [F EXCEPT ![1] = F[1]]
  BY <1>5 DEF FirstRegs
<1>7. [F EXCEPT ![1] = F[1]] = F
  BY <1>3
<1> QED BY <1>2, <1>6, <1>7

(* Frames that are replaced twice. *)
LEMMA TopTwice ==
  ASSUME NEW scs \in Scenes, NEW a \in Seq(FrameType) \ {<<>>}, NEW b \in Seq(FrameType) \ {<<>>}
  PROVE  TopFrames(TopFrames(scs, a), b) = TopFrames(scs, b)
<1>1. scs \in Seq(SceneType) /\ 1 \in 1 .. Len(scs)
  BY SceneIs
<1>2. scs = [s \in 1 .. Len(scs) |-> scs[s]]
  BY <1>1
<1>3. scs[1] = [external |-> scs[1].external, frames |-> scs[1].frames, caller |-> scs[1].caller]
  BY <1>1, SceneIs DEF SceneType
<1>4. PICK sc, x, y : sc = scs[1] /\ x = [sc EXCEPT !.frames = a] /\ y = [sc EXCEPT !.frames = b]
  OBVIOUS
<1>5. [x EXCEPT !.frames = b] = y
  BY <1>3, <1>4
<1>6. TopFrames(scs, a) = [scs EXCEPT ![1] = x] /\ TopFrames(scs, b) = [scs EXCEPT ![1] = y]
  BY <1>4 DEF TopFrames
<1>7. PICK t : t = [scs EXCEPT ![1] = x]
  OBVIOUS
<1>8. t[1] = x
  BY <1>1, <1>2, <1>7
<1>9. TopFrames(t, b) = [t EXCEPT ![1] = y]
  BY <1>5, <1>8 DEF TopFrames
<1>10. [t EXCEPT ![1] = y] = [scs EXCEPT ![1] = y]
  BY <1>2, <1>7
<1> QED BY <1>6, <1>7, <1>9, <1>10

(* I_CALL of a closure. *)
LEMMA CallSeen ==
  ASSUME Inv, Solid, Faithful, Inv', Solid', native = NoCall, NEW d \in Reg, NEW f \in Reg, NEW a \in Reg, Call(d, f, a)
  PROVE  M!Call(MachineState, MachineState', d, f, a) /\ Faithful'
<1>1. heap' = heap /\ global' = global /\ native' = native /\ pc = "run" /\ Holds(f, {"closure"}) /\ Holds(a, {"object"})
  BY DEF Call, Quiet, heapVars, Running
<1>2. PICK p, q : p = Resolve(Regs[f]) /\ q = Resolve(Regs[a])
  OBVIOUS
<1>3. PICK i, j : i = M!Regs(MachineState)[f] /\ j = M!Regs(MachineState)[a]
  OBVIOUS
<1>4. /\ M!Is(MachineState, i, "closure") /\ MachineState.objects[i] = AbsOf(heap, Obj(p)) /\ IdIn(heap, p) = i
      /\ p \in Datum /\ Leads(p) /\ p \in Visible /\ Obj(p) \in Object
  BY <1>1, <1>2, <1>3, HoldsSeen
<1>5. /\ M!Is(MachineState, j, "object") /\ MachineState.objects[j] = AbsOf(heap, Obj(q)) /\ IdIn(heap, q) = j
      /\ q \in Datum /\ Leads(q) /\ q \in Visible /\ Obj(q) \in Object
  BY <1>1, <1>2, <1>3, HoldsSeen
<1>6. PICK frame : frame = NewFrame(Obj(p), Obj(q), d)
  OBVIOUS
<1>7. /\ frame \in FrameType
      /\ \A r \in Reg : frame.regs[r] \in Pointer => frame.regs[r] \in PtrsOf(Obj(p)) \cup PtrsOf(Obj(q))
  BY <1>4, <1>5, <1>6, NewFrameIs
<1>8. ASSUME NEW r \in Reg PROVE Leads(frame.regs[r])
  <2>1. PICK v : v = frame.regs[r]
    OBVIOUS
  <2>2. CASE v \in Pointer
    <3>1. v \in PtrsOf(Obj(p)) \/ v \in PtrsOf(Obj(q))
      BY <2>1, <2>2, <1>7
    <3>2. (\A w \in PtrsOf(Obj(p)) : Leads(w)) /\ (\A w \in PtrsOf(Obj(q)) : Leads(w))
      BY <1>4, <1>5, RootsLead
    <3>3. Leads(v)
      BY <3>1, <3>2
    <3> QED BY <2>1, <3>3
  <2>3. CASE v \notin Pointer
    BY <2>1, <2>3 DEF Leads
  <2> QED BY <2>2, <2>3
<1>9. PICK fs : fs = scenes[1].frames
  OBVIOUS
<1>10. /\ fs \in Seq(FrameType) \ {<<>>} /\ Len(fs) \in Nat \ {0} /\ fs[1].regs = Regs
       /\ MachineState.scenes[1].frames = FramesOf(heap, fs)
       /\ \A k \in 1 .. Len(fs) : \A r \in Reg : Leads(fs[k].regs[r])
  BY <1>9, FramesAre
<1>11. PICK x : x = SetOne(Regs, f, p)
  OBVIOUS
<1>12. Regs \in [Reg -> Datum] /\ M!Regs(MachineState) = RegsOf(heap, Regs)
  BY MachineParts
<1>13. IdIn(heap, p) = IdIn(heap, Regs[f]) /\ IdIn(heap, q) = IdIn(heap, Regs[a])
  BY <1>3, <1>4, <1>5, <1>12 DEF RegsOf
<1>14. RegsOf(heap, x) = RegsOf(heap, Regs) /\ x \in [Reg -> Datum] /\ \A k \in Reg : x[k] = IF k = f THEN p ELSE Regs[k]
  <2>1. RegsOf(heap, x) = RegsOf(heap, Regs) /\ HasOne(Regs, f, p, x)
    BY <1>4, <1>11, <1>12, <1>13, SameRegs
  <2> QED BY <2>1 DEF HasOne
<1>15. IdIn(heap, q) = IdIn(heap, x[a])
  BY <1>4, <1>13, <1>14
<1>16. PICK regs : regs = SetOne(x, a, q)
  OBVIOUS
<1>17. RegsOf(heap, regs) = RegsOf(heap, x) /\ regs \in [Reg -> Datum] /\ \A k \in Reg : regs[k] = IF k = a THEN q ELSE x[k]
  <2>1. x \in [Reg -> Datum] /\ q \in Datum
    BY <1>5, <1>14
  <2>2. RegsOf(heap, regs) = RegsOf(heap, x) /\ HasOne(x, a, q, regs)
    BY <2>1, <1>15, <1>16, SameRegs
  <2> QED BY <2>2 DEF HasOne
<1>18. PICK gs, ts : gs = FirstRegs(fs, regs) /\ ts = OnTop(frame, gs)
  OBVIOUS
<1>19. FirstHas(fs, regs, gs) /\ FramesOf(heap, gs) = FirstRegs(FramesOf(heap, fs), RegsOf(heap, regs))
  BY <1>10, <1>17, <1>18, FirstRegsOf
<1>20. gs \in Seq(FrameType) /\ gs # <<>> /\ Len(gs) = Len(fs) /\ \A k \in 1 .. Len(gs) : \A r \in Reg : Leads(gs[k].regs[r])
  <2>1. /\ gs \in Seq(FrameType) /\ gs # <<>> /\ Len(gs) = Len(fs)
        /\ \A k \in 1 .. Len(fs) : gs[k].regs = IF k = 1 THEN regs ELSE fs[k].regs
    BY <1>19 DEF FirstHas
  <2>2. \A r \in Reg : Leads(regs[r])
    BY <1>4, <1>5, <1>14, <1>17, RootsLead
  <2> QED BY <2>1, <2>2, <1>10
<1>21. AddedTo(FrameType, frame, gs, ts)
  BY <1>7, <1>18, <1>20, OnTopIs
<1>22. ts \in Seq(FrameType) /\ ts # <<>> /\ \A k \in 1 .. Len(ts) : \A r \in Reg : Leads(ts[k].regs[r])
  <2>1. /\ ts \in Seq(FrameType) /\ ts # <<>> /\ Len(ts) = Len(gs) + 1 /\ Len(gs) \in Nat /\ ts[1] = frame
        /\ \A k \in 2 .. Len(gs) + 1 : ts[k] = gs[k - 1]
    BY <1>21 DEF AddedTo
  <2>2. ASSUME NEW k \in 1 .. Len(ts), NEW r \in Reg PROVE Leads(ts[k].regs[r])
    <3>1. CASE k = 1
      BY <3>1, <2>1, <1>8
    <3>2. CASE k # 1
      <4>1. k - 1 \in 1 .. Len(gs) /\ ts[k] = gs[k - 1]
        BY <2>1, <3>2
      <4> QED BY <4>1, <1>20
    <3> QED BY <3>1, <3>2
  <2> QED BY <2>1, <2>2
<1>23. scenes' = TopFrames(scenes, ts)
  <2>1. PICK caller : caller = TopRegs(scenes, regs)
    OBVIOUS
  <2>2. caller = TopFrames(scenes, gs)
    BY <2>1, <1>9, <1>18 DEF TopRegs
  <2>3. scenes \in Scenes /\ WithRegs(regs) = caller
    BY <2>1, MachineParts
  <2>4. caller[1].frames = gs
    BY <2>2, <2>3, <1>20, TopFramesOf
  <2>5. scenes' = [WithRegs(regs) EXCEPT ![1].frames = <<frame>> \o @]
    BY <1>2, <1>6, <1>11, <1>16 DEF Call, SetOne
  <2>6. scenes' = TopFrames(caller, ts)
    BY <2>3, <2>4, <2>5, <1>18 DEF TopFrames, OnTop
  <2> QED BY <2>2, <2>3, <2>6, <1>20, <1>22, TopTwice
<1>24. /\ M!Step(MachineState, MachineState', TopFrames(MachineState.scenes, FramesOf(heap, ts)), MachineState.objects)
       /\ Faithful'
  BY <1>1, <1>22, <1>23, FramesStep
<1>25. FramesOf(heap, ts) = OnTop(M!NewFrame(MachineState.objects[i], MachineState.objects[j], d), MachineState.scenes[1].frames)
  <2>1. FramesOf(heap, gs) = FramesOf(heap, fs)
    BY <1>10, <1>14, <1>17, <1>19, SameFirst
  <2>2. FramesOf(heap, ts) = OnTop(FrameOf(heap, frame), FramesOf(heap, gs))
    BY <1>7, <1>18, <1>20, FramesOnTop
  <2>3. M!NewFrame(AbsOf(heap, Obj(p)), AbsOf(heap, Obj(q)), d) = FrameOf(heap, frame)
    BY <1>4, <1>5, <1>6, FrameSeen
  <2> QED BY <2>1, <2>2, <2>3, <1>4, <1>5, <1>10
<1>26. TopFrames(MachineState.scenes, FramesOf(heap, ts))
         = [MachineState.scenes EXCEPT ![1].frames = <<M!NewFrame(MachineState.objects[i], MachineState.objects[j], d)>> \o @]
  BY <1>25 DEF TopFrames, OnTop
<1> QED BY <1>3, <1>4, <1>5, <1>24, <1>26 DEF M!Call

------------------------------------------------------------------------------
(* I_RET to a frame of the same scene. *)
LEMMA ReturnSeen ==
  ASSUME Inv, Solid, Faithful, Inv', Solid', native = NoCall, NEW r \in Reg, Return(r)
  PROVE  M!Return(MachineState, MachineState', r) /\ Faithful'
<1>1. heap' = heap /\ global' = global /\ native' = native
  BY DEF Return, Quiet, heapVars
<1>2. PICK fs, fr : fs = scenes[1].frames /\ fr = scenes[1].frames[1]
  OBVIOUS
<1>3. /\ fs \in Seq(FrameType) /\ fs # <<>> /\ Len(fs) \in Nat \ {0} /\ fs[1].regs = Regs /\ fs[1] = fr
      /\ Frame = fr /\ fr.rd \in Reg /\ Scene = scenes[1]
      /\ MachineState.scenes[1].frames = FramesOf(heap, fs)
      /\ \A k \in 1 .. Len(fs) : \A x \in Reg : Leads(fs[k].regs[x])
  BY <1>2, FramesAre
<1>4. Len(fs) > 1
  BY <1>2, <1>3 DEF Return
<1>5. PICK ts : ts = Tail(fs)
  OBVIOUS
<1>6. /\ ts \in Seq(FrameType) /\ ts # <<>> /\ Len(ts) = Len(fs) - 1
      /\ \A i \in 1 .. Len(fs) - 1 : ts[i] = fs[i + 1] /\ i + 1 \in 1 .. Len(fs)
  BY <1>3, <1>4, <1>5, TailIs
<1>7. ts[1] \in FrameType /\ ts[1].regs \in [Reg -> Datum] /\ 1 \in 1 .. Len(ts)
  <2>1. 1 \in 1 .. Len(ts)
    BY <1>3, <1>4, <1>6
  <2>2. ts[1] \in FrameType
    BY <1>6, <2>1, ElementOfSeq
  <2> QED BY <2>1, <2>2 DEF FrameType
<1>8. PICK v, i : v = Regs[r] /\ i = IdIn(heap, Regs[r])
  OBVIOUS
<1>9. v \in Datum /\ Leads(v) /\ i = M!Regs(MachineState)[r] /\ i = IdIn(heap, v)
  BY <1>8, MachineParts, RootsLead DEF RegsOf
<1>10. PICK x, regs : x = ts[1].regs /\ regs = SetOne(x, fr.rd, v)
  OBVIOUS
<1>11. RegsOf(heap, regs) = SetOne(RegsOf(heap, x), fr.rd, i) /\ HasOne(x, fr.rd, v, regs)
  <2>1. PICK d : d = fr.rd
    OBVIOUS
  <2>2. x \in [Reg -> Datum] /\ d \in Reg /\ v \in Datum
    BY <1>3, <1>7, <1>9, <1>10, <2>1
  <2>3. i = IdIn(heap, v) /\ regs = SetOne(x, d, v)
    BY <1>9, <1>10, <2>1
  <2>4. RegsOf(heap, regs) = SetOne(RegsOf(heap, x), d, i) /\ HasOne(x, d, v, regs)
    BY <2>2, <2>3, SetOneIs
  <2> QED BY <2>1, <2>4
<1>12. PICK gs : gs = FirstRegs(ts, regs)
  OBVIOUS
<1>13. FirstHas(ts, regs, gs) /\ FramesOf(heap, gs) = FirstRegs(FramesOf(heap, ts), RegsOf(heap, regs))
  <2>1. regs \in [Reg -> Datum]
    BY <1>11 DEF HasOne
  <2> QED BY <1>6, <1>12, <2>1, FirstRegsOf
<1>14. gs \in Seq(FrameType) /\ gs # <<>> /\ \A k \in 1 .. Len(gs) : \A y \in Reg : Leads(gs[k].regs[y])
  <2>1. /\ gs \in Seq(FrameType) /\ gs # <<>> /\ Len(gs) = Len(ts)
        /\ \A k \in 1 .. Len(ts) : gs[k].regs = IF k = 1 THEN regs ELSE ts[k].regs
    BY <1>13 DEF FirstHas
  <2>2. ASSUME NEW k \in 1 .. Len(ts), NEW y \in Reg PROVE Leads(ts[k].regs[y])
    BY <1>3, <1>6
  <2>3. \A y \in Reg : Leads(regs[y])
    <3> TAKE y \in Reg
    <3>1. regs[y] = IF y = fr.rd THEN v ELSE x[y]
      BY <1>11 DEF HasOne
    <3>2. Leads(x[y])
      BY <1>7, <1>10, <2>2
    <3>3. CASE y = fr.rd
      BY <3>1, <3>3, <1>9
    <3>4. CASE y # fr.rd
      BY <3>1, <3>2, <3>4
    <3> QED BY <3>3, <3>4
  <2> QED BY <2>1, <2>2, <2>3
<1>15. scenes' = TopFrames(scenes, gs)
  <2>1. scenes' = [scenes EXCEPT ![1].frames = [Tail(@) EXCEPT ![1].regs[Frame.rd] = Regs[r]]]
    BY DEF Return
  <2>2. scenes' = [scenes EXCEPT ![1].frames = [ts EXCEPT ![1].regs[fr.rd] = v]]
    BY <2>1, <1>2, <1>3, <1>5, <1>8
  <2>3. gs = [ts EXCEPT ![1].regs[fr.rd] = v]
    BY <1>10, <1>12 DEF FirstRegs, SetOne
  <2> QED BY <2>2, <2>3 DEF TopFrames
<1>16. /\ M!Step(MachineState, MachineState', TopFrames(MachineState.scenes, FramesOf(heap, gs)), MachineState.objects)
       /\ Faithful'
  BY <1>1, <1>14, <1>15, FramesStep
<1>17. PICK F, S : F = FramesOf(heap, fs) /\ S = MachineState.scenes
  OBVIOUS
<1>18. FramesOf(heap, gs) = [Tail(F) EXCEPT ![1].regs[Head(F).rd] = M!Regs(MachineState)[r]]
  <2>1. FramesOf(heap, ts) = Tail(F)
    BY <1>3, <1>4, <1>5, <1>17, FramesTail
  <2>2. FramesOf(heap, ts)[1] = FrameOf(heap, ts[1])
    BY <1>6, <1>7, FramesOfIs
  <2>3. FramesOf(heap, ts)[1].regs = RegsOf(heap, x)
    BY <2>2, <1>10 DEF FrameOf
  <2>4. F \in Seq(AbsFrames(heap)) /\ Len(F) = Len(fs) /\ F[1] = FrameOf(heap, fs[1])
    BY <1>3, <1>17, FramesOfIs
  <2>5. Head(F) = F[1]
    BY <2>4, <1>3
  <2>6. Head(F).rd = fr.rd
    BY <2>4, <2>5, <1>3 DEF FrameOf
  <2>7. PICK G : G = Tail(F)
    OBVIOUS
  <2>8. FramesOf(heap, gs) = FirstRegs(G, SetOne(G[1].regs, Head(F).rd, i))
    BY <2>1, <2>3, <2>6, <2>7, <1>11, <1>13
  <2> QED BY <2>7, <2>8, <1>9 DEF FirstRegs, SetOne
<1>19. Len(F) > 1 /\ S[1].frames = F
  BY <1>3, <1>4, <1>17, FramesOfIs
<1>20. TopFrames(S, FramesOf(heap, gs)) = [S EXCEPT ![1].frames = [Tail(F) EXCEPT ![1].regs[Head(F).rd] = M!Regs(MachineState)[r]]]
  BY <1>18 DEF TopFrames
<1> QED BY <1>16, <1>17, <1>19, <1>20 DEF M!Return

------------------------------------------------------------------------------
(* What the machine holds is visible. *)
AllLead(g, scs, nat) == \A v : Root(g, scs, nat, v) => Leads(v)

(* Roots that are rewritten, or given up, still lead to visible tables. *)
LEMMA RewriteLead ==
  ASSUME NEW g, NEW scs, NEW nat, AllLead(g, scs, nat), NEW t, NEW X, Rewritten(scs, t, X), \A v \in X : Leads(v)
  PROVE  AllLead(g, t, nat)
<1> SUFFICES ASSUME NEW v, Root(g, t, nat, v) PROVE Leads(v)
  BY DEF AllLead
<1>0. v \in Pointer
  BY DEF Root
<1>1. CASE v = g
  BY <1>0, <1>1 DEF AllLead, Root
<1>2. ASSUME NEW s \in 1 .. Len(t), v \in HeldBy(t[s]) PROVE Leads(v)
  <2>1. s \in 1 .. Len(scs) /\ (v \in HeldBy(scs[s]) \/ v \in X)
    BY <1>2 DEF Rewritten
  <2> QED BY <2>1, <1>0 DEF AllLead, Root
<1>3. ASSUME NEW c \in CallsOf(nat, t), v \in {c.array, c.callback} PROVE Leads(v)
  <2>1. c \in CallsOf(nat, scs)
    BY <1>3 DEF CallsOf, Rewritten
  <2>2. Root(g, scs, nat, v)
    BY <1>0, <1>3, <2>1 DEF Root
  <2> QED BY <2>2 DEF AllLead
<1> QED BY <1>1, <1>2, <1>3 DEF Root

(* The same, when a scene is left: the call that it was for comes back. *)
LEMMA TailLead ==
  ASSUME NEW g, NEW scs \in Scenes, NEW nat, AllLead(g, scs, nat), Len(scs) > 1
  PROVE  AllLead(g, Tail(scs), nat) /\ AllLead(g, Tail(scs), scs[1].caller)
<1>1. scs \in Seq(SceneType) /\ 1 \in 1 .. Len(scs) /\ Len(scs) \in Nat
  BY SceneIs
<1>2. PICK t : t = Tail(scs)
  OBVIOUS
<1>3. Len(t) = Len(scs) - 1 /\ \A i \in 1 .. Len(scs) - 1 : t[i] = scs[i + 1] /\ i + 1 \in 1 .. Len(scs)
  BY <1>1, <1>2, TailIs
<1>4. ASSUME NEW c, c \in CallsOf(nat, scs), NEW v, Root(g, t, c, v) PROVE Root(g, scs, nat, v)
  <2>1. \A s \in 1 .. Len(t) : v \in HeldBy(t[s]) => \E i \in 1 .. Len(scs) : v \in HeldBy(scs[i])
    BY <1>1, <1>3
  <2>2. \A y \in CallsOf(c, t) : y \in CallsOf(nat, scs)
    <3>1. \A s \in 1 .. Len(t) : \E i \in 1 .. Len(scs) : t[s].caller = scs[i].caller
      BY <1>1, <1>3
    <3> QED BY <3>1, <1>4 DEF CallsOf
  <2> QED BY <1>4, <2>1, <2>2 DEF Root
<1>5. nat \in CallsOf(nat, scs) /\ scs[1].caller \in CallsOf(nat, scs)
  BY <1>1 DEF CallsOf
<1>6. AllLead(g, t, nat) /\ AllLead(g, t, scs[1].caller)
  BY <1>4, <1>5 DEF AllLead
<1> QED BY <1>2, <1>6

(* The same, when a call ends. *)
LEMMA NoneLead ==
  ASSUME NEW g, NEW scs, NEW nat, AllLead(g, scs, nat)
  PROVE  AllLead(g, scs, NoCall)
<1>1. NoCall.array \notin Pointer /\ NoCall.callback \notin Pointer
  BY PointerIs DEF NoCall
<1> QED BY <1>1 DEF AllLead, Root, CallsOf

(* All roots lead to visible tables. *)
LEMMA AllLeadNow == ASSUME Inv, Solid PROVE AllLead(global, scenes, native)
BY RootsLead DEF AllLead

(* The scene that runs is left. *)
LEMMA ScenesAre ==
  ASSUME Inv, Solid, Len(scenes) > 1
  PROVE  /\ Tail(scenes) \in Scenes /\ Tail(scenes)[1].frames[1].regs \in [Reg -> Datum]
         /\ Tail(scenes)[1].frames \in Seq(FrameType) \ {<<>>} /\ 1 \in 1 .. Len(Tail(scenes))
         /\ ScenesOf(heap, Tail(scenes)) = Tail(MachineState.scenes)
         /\ Len(MachineState.scenes) = Len(scenes)
         /\ scenes[1].caller \in CallType
         /\ MachineState.scenes[1].caller = CallOf(heap, scenes[1].caller) /\ Scene = scenes[1]
         /\ Len(MachineState.scenes[1].frames) = Len(scenes[1].frames)
<1>1. Typed /\ scenes \in Scenes
  BY Now
<1>2. scenes \in Seq(SceneType) /\ 1 \in 1 .. Len(scenes) /\ scenes[1].caller \in CallType
  BY <1>1, SceneIs
<1>3. MachineState.scenes = ScenesOf(heap, scenes)
  BY MachineParts
<1>4. Tail(scenes) \in Scenes
  BY <1>2, TailIs DEF Scenes
<1>5. PICK t : t = Tail(scenes)
  OBVIOUS
<1>6. t[1].frames[1].regs \in [Reg -> Datum] /\ t[1].frames \in Seq(FrameType) \ {<<>>} /\ 1 \in 1 .. Len(t)
  <2>1. t \in Scenes
    BY <1>4, <1>5
  <2>2. 1 \in 1 .. Len(t) /\ t[1].frames \in Seq(FrameType) /\ t[1].frames # <<>> /\ Len(t[1].frames) \in Nat \ {0}
        /\ \A f \in 1 .. Len(t[1].frames) : t[1].frames[f].regs \in [Reg -> Datum]
    BY <2>1, SceneIs
  <2> QED BY <2>2
<1>7. ScenesOf(heap, Tail(scenes)) = Tail(MachineState.scenes)
  BY <1>2, <1>3, ScenesTail
<1>8. Len(MachineState.scenes) = Len(scenes)
  BY <1>2, <1>3, ScenesOfIs
<1>9. Scene = scenes[1] /\ MachineState.scenes[1].caller = CallOf(heap, scenes[1].caller)
      /\ MachineState.scenes[1].frames = FramesOf(heap, scenes[1].frames)
      /\ scenes[1].frames \in Seq(FrameType)
  BY FramesAre
<1>10. Len(MachineState.scenes[1].frames) = Len(scenes[1].frames)
  BY <1>9, FramesOfIs
<1> QED BY <1>2, <1>4, <1>5, <1>6, <1>7, <1>8, <1>9, <1>10

(* The HALT of an imported module: the machine's Leave. *)
LEMMA LeaveImportSeen ==
  ASSUME Inv, Solid, Faithful, Inv', Solid', native = NoCall,
         NEW v \in {Undefined} \cup Range(Regs), Leave(v), LeaveImport(v)
  PROVE  /\ \E w \in {M!Undefined} \cup M!Range(M!Regs(MachineState)) : M!Leave(MachineState, MachineState', w)
         /\ Faithful'
<1>1. /\ heap' = heap /\ global' = global /\ native' = native /\ Len(scenes) > 1
      /\ v = Undefined \/ Len(Scene.frames) = 1
      /\ Scene.caller.fn = "import"
      /\ scenes' = [Tail(scenes) EXCEPT ![1].frames[1].regs[Scene.caller.rd] = v]
  BY DEF Leave, LeaveImport, heapVars
<1>2. PICK t : t = Tail(scenes)
  OBVIOUS
<1>3. /\ t \in Scenes /\ t[1].frames[1].regs \in [Reg -> Datum]
      /\ t[1].frames \in Seq(FrameType) \ {<<>>} /\ 1 \in 1 .. Len(t)
      /\ ScenesOf(heap, t) = Tail(MachineState.scenes)
      /\ Len(MachineState.scenes) = Len(scenes)
      /\ MachineState.scenes[1].caller = CallOf(heap, scenes[1].caller) /\ Scene = scenes[1]
      /\ scenes[1].caller \in CallType
      /\ Len(MachineState.scenes[1].frames) = Len(scenes[1].frames)
  BY <1>1, <1>2, ScenesAre
<1>4. PICK d, w : d = Scene.caller.rd /\ w = IdIn(heap, v)
  OBVIOUS
<1>5. d \in Reg /\ MachineState.scenes[1].caller.rd = d /\ MachineState.scenes[1].caller.fn = "import"
  BY <1>1, <1>3, <1>4 DEF CallType, CallOf
<1>6. Regs \in [Reg -> Datum] /\ M!Regs(MachineState) = RegsOf(heap, Regs)
  BY MachineParts
<1>7. v = Undefined \/ \E r \in Reg : v = Regs[r]
  BY <1>6 DEF Range
<1>8. v \in Datum /\ Leads(v) /\ w \in {M!Undefined} \cup M!Range(M!Regs(MachineState))
      /\ (v = Undefined => w = M!Undefined)
  <2>1. CASE v = Undefined
    BY <2>1, <1>4, NoPointer, SameNotions
  <2>2. ASSUME NEW r \in Reg, v = Regs[r] PROVE v \in Datum /\ Leads(v) /\ w \in Range(RegsOf(heap, Regs))
    <3>1. w = RegsOf(heap, Regs)[r] /\ DOMAIN RegsOf(heap, Regs) = Reg
      BY <2>2, <1>4 DEF RegsOf
    <3> QED BY <2>2, <3>1, <1>6, RootsLead DEF Range
  <2>3. CASE v # Undefined
    <3>1. v \in Datum /\ Leads(v) /\ w \in Range(RegsOf(heap, Regs))
      BY <2>2, <2>3, <1>7
    <3> QED BY <3>1, <2>3, <1>6, SameNotions
  <2> QED BY <2>1, <2>3
<1>9. PICK x, regs : x = t[1].frames[1].regs /\ regs = SetOne(x, d, v)
  OBVIOUS
<1>10. RegsOf(heap, regs) = SetOne(RegsOf(heap, x), d, w) /\ HasOne(x, d, v, regs)
  BY <1>3, <1>4, <1>5, <1>8, <1>9, SetOneIs
<1>11. regs \in [Reg -> Datum] /\ \A r \in Reg : regs[r] \in Pointer => regs[r] \in {v} \cup HeldBy(t[1])
  <2>1. regs \in [Reg -> Datum] /\ \A r \in Reg : regs[r] = IF r = d THEN v ELSE x[r]
    BY <1>10 DEF HasOne
  <2>2. 1 \in 1 .. Len(t[1].frames)
    BY <1>3, SceneIs
  <2>3. \A r \in Reg : x[r] \in Pointer => x[r] \in HeldBy(t[1])
    BY <1>9, <2>2, HeldIs
  <2> QED BY <2>1, <2>3
<1>12. scenes' = [t EXCEPT ![1].frames[1].regs = regs] /\ scenes' = TopRegs(t, regs)
  BY <1>1, <1>2, <1>4, <1>9 DEF SetOne, TopRegs, TopFrames, FirstRegs
<1>13. Rewritten(t, scenes', {v})
  <2>1. t \in Scenes
    BY <1>3
  <2>2. Rewritten(t, [t EXCEPT ![1].frames[1].regs = regs], {v})
    BY <1>11, <2>1, RegsRewritten
  <2> QED BY <1>12, <2>2
<1>14. AllLead(global, scenes', native)
  <2>1. scenes \in Scenes
    BY MachineParts
  <2>2. AllLead(global, t, native)
    BY <1>1, <1>2, <2>1, AllLeadNow, TailLead
  <2> QED BY <1>8, <1>13, <2>2, RewriteLead
<1>15. M!Changed(MachineState, MachineState', ScenesOf(heap, scenes'), CallOf(heap, native'), MachineState.objects)
       /\ Faithful'
  BY <1>1, <1>14, ScenesStep DEF AllLead
<1>16. PICK S : S = Tail(MachineState.scenes)
  OBVIOUS
<1>17. ScenesOf(heap, scenes') = [S EXCEPT ![1].frames[1].regs[d] = w]
  <2>1. ScenesOf(heap, scenes') = TopRegs(S, SetOne(RegsOf(heap, x), d, w))
    <3>1. t \in Scenes /\ regs \in [Reg -> Datum]
      BY <1>3, <1>11
    <3>2. ScenesOf(heap, TopRegs(t, regs)) = TopRegs(ScenesOf(heap, t), RegsOf(heap, regs))
      BY <3>1, TopRegsOf
    <3>3. S = ScenesOf(heap, t)
      BY <1>3, <1>16
    <3> QED BY <3>2, <3>3, <1>10, <1>12
  <2>2. S[1].frames[1].regs = RegsOf(heap, x)
    <3>1. t \in Seq(SceneType) /\ t[1].frames \in Seq(FrameType) /\ 1 \in 1 .. Len(t[1].frames)
      BY <1>3, SceneIs
    <3>5. t \in Seq(SceneType) /\ 1 \in 1 .. Len(t)
      BY <1>3, <3>1
    <3>6. ScenesOf(heap, t)[1] = SceneOf(heap, t[1])
      BY <3>5, ScenesOfIs
    <3>2. S[1] = SceneOf(heap, t[1])
      BY <3>6, <1>3, <1>16
    <3>3. S[1].frames = FramesOf(heap, t[1].frames)
      BY <3>2, SceneOfIs
    <3>4. FramesOf(heap, t[1].frames)[1] = FrameOf(heap, t[1].frames[1])
      BY <3>1, FramesOfIs
    <3> QED BY <3>3, <3>4, <1>9 DEF FrameOf
  <2> QED BY <2>1, <2>2 DEF TopRegs, TopFrames, FirstRegs, SetOne
<1>18. CallOf(heap, native') = M!NoCall /\ MachineState.native = M!NoCall
  BY <1>1, MachineParts, CallOfNone, SameNotions
<1>19. M!Leave(MachineState, MachineState', w)
  <2>1. M!Changed(MachineState, MachineState', [Tail(MachineState.scenes) EXCEPT ![1].frames[1].regs[MachineState.scenes[1].caller.rd] = w],
                  M!NoCall, MachineState.objects)
    BY <1>5, <1>15, <1>16, <1>17, <1>18
  <2>2. w = M!Undefined \/ Len(MachineState.scenes[1].frames) = 1
    BY <1>1, <1>3, <1>8
  <2>3. Len(MachineState.scenes) > 1
    BY <1>1, <1>3
  <2> QED BY <2>1, <2>2, <2>3, <1>5, <1>18 DEF M!Leave
<1> QED BY <1>8, <1>15, <1>19

------------------------------------------------------------------------------
(* The end of a callback: foreach goes on. *)
LEMMA LeaveCallbackSeen ==
  ASSUME Inv, Solid, Faithful, Inv', Solid', native = NoCall, NEW v \in {Undefined} \cup Range(Regs),
         Leave(v), LeaveCallback
  PROVE  /\ \E w \in {M!Undefined} \cup M!Range(M!Regs(MachineState)) : M!Leave(MachineState, MachineState', w)
         /\ Faithful'
<1>1. /\ heap' = heap /\ global' = global /\ Len(scenes) > 1
      /\ v = Undefined \/ Len(Scene.frames) = 1
      /\ Scene.caller.fn = "foreach" /\ native' = Scene.caller /\ scenes' = Tail(scenes)
  BY DEF Leave, LeaveCallback, heapVars
<1>2. /\ ScenesOf(heap, Tail(scenes)) = Tail(MachineState.scenes)
      /\ Len(MachineState.scenes) = Len(scenes)
      /\ MachineState.scenes[1].caller = CallOf(heap, scenes[1].caller) /\ Scene = scenes[1]
      /\ Len(MachineState.scenes[1].frames) = Len(scenes[1].frames)
  BY <1>1, ScenesAre
<1>3. AllLead(global, Tail(scenes), scenes[1].caller)
  <2>1. scenes \in Scenes
    BY MachineParts
  <2> QED BY <1>1, <2>1, AllLeadNow, TailLead
<1>4. AllLead(global, scenes', native')
  BY <1>1, <1>2, <1>3
<1>5. M!Changed(MachineState, MachineState', ScenesOf(heap, scenes'), CallOf(heap, native'), MachineState.objects)
      /\ Faithful'
  BY <1>1, <1>4, ScenesStep DEF AllLead
<1>6. /\ M!Changed(MachineState, MachineState', Tail(MachineState.scenes), MachineState.scenes[1].caller, MachineState.objects)
      /\ MachineState.scenes[1].caller.fn = "foreach"
  <2>1. PICK c : c = scenes[1].caller
    OBVIOUS
  <2>2. native' = c /\ MachineState.scenes[1].caller = CallOf(heap, c) /\ c.fn = "foreach"
    BY <1>1, <1>2, <2>1
  <2>3. CallOf(heap, c).fn = "foreach"
    BY <2>2 DEF CallOf
  <2> QED BY <2>2, <2>3, <1>1, <1>2, <1>5
<1>7. MachineState.native = M!NoCall
  BY MachineParts, CallOfNone, SameNotions
<1>8. PICK w : w = IdIn(heap, v)
  OBVIOUS
<1>9. w \in {M!Undefined} \cup M!Range(M!Regs(MachineState)) /\ (v = Undefined => w = M!Undefined)
  <2>0. M!Regs(MachineState) = RegsOf(heap, Regs) /\ Regs \in [Reg -> Datum]
    BY MachineParts
  <2>1. CASE v = Undefined
    BY <2>1, <1>8, NoPointer, SameNotions
  <2>2. CASE v # Undefined
    <3>1. PICK r \in Reg : v = Regs[r]
      BY <2>0, <2>2 DEF Range
    <3>2. w = RegsOf(heap, Regs)[r] /\ DOMAIN RegsOf(heap, Regs) = Reg
      BY <3>1, <1>8 DEF RegsOf
    <3>3. w \in Range(RegsOf(heap, Regs))
      BY <3>2 DEF Range
    <3> QED BY <3>3, <2>0, <2>2, SameNotions
  <2> QED BY <2>1, <2>2
<1>10. M!Leave(MachineState, MachineState', w)
  <2>1. w = M!Undefined \/ Len(MachineState.scenes[1].frames) = 1
    BY <1>1, <1>2, <1>9
  <2>2. Len(MachineState.scenes) > 1
    BY <1>1, <1>2
  <2> QED BY <2>1, <2>2, <1>6, <1>7 DEF M!Leave
<1> QED BY <1>5, <1>9, <1>10

(* A table that C code reads without following headers, in the machine. *)
LEMMA IsTableSeen ==
  ASSUME Inv, Solid, Faithful, NEW v \in Datum, Leads(v), NEW type \in {"object", "closure"}, IsTable(v, type)
  PROVE  /\ M!Is(MachineState, IdIn(heap, v), type) /\ MachineState.objects[IdIn(heap, v)] = AbsOf(heap, Obj(v))
         /\ v \in Pointer /\ Obj(v) \in Object /\ v \in Visible
         /\ \A k : Get(Obj(v), k) \in Datum /\ Leads(Get(Obj(v), k))
<1>1. v \in Pointer /\ Obj(v).type = type
  BY PointerIs DEF IsTable
<1>2. Ends[v] = v /\ IdIn(heap, v) \in DOMAIN MachineState.objects
      /\ MachineState.objects[IdIn(heap, v)] = AbsOf(heap, Obj(v)) /\ Obj(v) \in Object /\ v \in Visible
  <2>1. ~IsHeader(Obj(v))
    BY <1>1 DEF IsHeader
  <2>2. Ends[v] = v
    BY <1>1, <2>1, TableSeen
  <2> QED BY <1>1, <2>2, TableSeen
<1>3. M!Is(MachineState, IdIn(heap, v), type)
  BY <1>1, <1>2, AbsIs DEF M!Is
<1>4. ASSUME NEW k PROVE Get(Obj(v), k) \in Datum /\ Leads(Get(Obj(v), k))
  <2>1. Get(Obj(v), k) \in Datum /\ (Get(Obj(v), k) \in Pointer => Get(Obj(v), k) \in PtrsOf(Obj(v)))
    BY <1>2, GetIs
  <2>2. \A w \in PtrsOf(Obj(v)) : Leads(w)
    BY <1>2, RootsLead
  <2> QED BY <2>1, <2>2 DEF Leads
<1> QED BY <1>1, <1>2, <1>3, <1>4

(* A call of foreach. *)
LEMMA ForeachCallSeen ==
  ASSUME Inv, Solid, Faithful, Inv', Solid', native = NoCall, NEW d \in Reg, NEW a \in Reg, ForeachCall(d, a)
  PROVE  M!ForeachCall(MachineState, MachineState', d, a) /\ Faithful'
<1>1. PICK t, x, y : t = Regs[a] /\ x = Get(Obj(t), ArrayArgument) /\ y = Get(Obj(t), CallbackArgument)
  OBVIOUS
<1>2. /\ heap' = heap /\ global' = global /\ scenes' = scenes
      /\ IsTable(t, "object") /\ IsTable(x, "object") /\ IsTable(y, "closure")
      /\ native' = [fn |-> "foreach", rd |-> d, array |-> x, callback |-> y, done |-> 0]
  BY <1>1 DEF ForeachCall, heapVars
<1>3. t \in Datum /\ Leads(t) /\ IdIn(heap, t) = M!Regs(MachineState)[a]
  BY <1>1, MachineParts, RootsLead DEF RegsOf
<1>4. M!Is(MachineState, IdIn(heap, t), "object") /\ MachineState.objects[IdIn(heap, t)] = AbsOf(heap, Obj(t))
      /\ Obj(t) \in Object /\ \A k : Get(Obj(t), k) \in Datum /\ Leads(Get(Obj(t), k))
  BY <1>2, <1>3, IsTableSeen
<1>5. x \in Datum /\ Leads(x) /\ y \in Datum /\ Leads(y)
  BY <1>1, <1>4
<1>6. M!Is(MachineState, IdIn(heap, x), "object")
  BY <1>2, <1>5, IsTableSeen
<1>7. M!Is(MachineState, IdIn(heap, y), "closure")
  BY <1>2, <1>5, IsTableSeen
<1>8. PICK A : A = AbsOf(heap, Obj(t))
  OBVIOUS
<1>9. M!Get(A, ArrayArgument) = IdIn(heap, x) /\ M!Get(A, CallbackArgument) = IdIn(heap, y)
  BY <1>1, <1>4, <1>8, GetSeen
<1>10. AllLead(global, scenes', native')
  <2>1. native'.array = x /\ native'.callback = y
    BY <1>2
  <2> QED BY <2>1, <1>2, <1>5, AllLeadNow DEF AllLead, Root, CallsOf
<1>11. M!Changed(MachineState, MachineState', ScenesOf(heap, scenes'), CallOf(heap, native'), MachineState.objects)
       /\ Faithful'
  BY <1>2, <1>10, ScenesStep DEF AllLead
<1>12. CallOf(heap, native') = [fn |-> "foreach", rd |-> d, array |-> IdIn(heap, x), callback |-> IdIn(heap, y), done |-> 0]
  BY <1>2 DEF CallOf
<1>13. MachineState.native = M!NoCall /\ ScenesOf(heap, scenes') = MachineState.scenes
  BY <1>2, MachineParts, CallOfNone, SameNotions
<1>14. M!ForeachCall(MachineState, MachineState', d, a)
  <2>1. PICK i, j : i = IdIn(heap, x) /\ j = IdIn(heap, y)
    OBVIOUS
  <2>2. MachineState.objects[M!Regs(MachineState)[a]] = A /\ M!Is(MachineState, M!Regs(MachineState)[a], "object")
    BY <1>3, <1>4, <1>8
  <2>3. M!Changed(MachineState, MachineState', MachineState.scenes,
                  [fn |-> "foreach", rd |-> d, array |-> i, callback |-> j, done |-> 0], MachineState.objects)
    BY <2>1, <1>11, <1>12, <1>13
  <2>4. M!Is(MachineState, i, "object") /\ M!Is(MachineState, j, "closure")
    BY <2>1, <1>6, <1>7
  <2>5. M!Get(A, ArrayArgument) = i /\ M!Get(A, CallbackArgument) = j
    BY <2>1, <1>9
  <2> QED BY <2>2, <2>3, <2>4, <2>5, <1>13 DEF M!ForeachCall
<1> QED BY <1>11, <1>14

(* What foreach walks through and calls. *)
LEMMA ElementsSeen ==
  ASSUME Inv, Solid, Faithful, native.fn = "foreach", Obj(native.array).type \in {"object", "closure"}
  PROVE  /\ native.array \in Datum /\ Leads(native.array) /\ native.array \in Pointer /\ native.array \in Visible
         /\ Obj(native.array) \in Object
         /\ M!Elements(MachineState) = AbsOf(heap, Obj(native.array))
         /\ M!Cardinality(DOMAIN M!Elements(MachineState).fields) = Count(Obj(native.array))
         /\ native.callback \in Pointer /\ Leads(native.callback)
         /\ MachineState.native.fn = "foreach" /\ MachineState.native.done = native.done
         /\ MachineState.native.rd = native.rd
         /\ MachineState.native.callback = IdIn(heap, native.callback)
<1>1. native \in CallType /\ Typed
  BY Now
<1>2. native \in CallsOf(native, scenes)
  BY DEF CallsOf
<1>3. native.array \in Pointer /\ native.callback \in Pointer
  <2>1. CASE pc # "gc"
    <3>1. CallsIn(heap, native, scenes)
      BY <2>1 DEF Inv, Calm
    <3> QED BY <3>1 DEF CallsIn, Own, In
  <2>2. CASE pc = "gc"
    <3>1. NoForeach(native, scenes)
      BY <2>2 DEF Inv, Busy
    <3> QED BY <3>1 DEF NoForeach
  <2> QED BY <2>1, <2>2
<1>4. Root(global, scenes, native, native.array) /\ Root(global, scenes, native, native.callback)
  BY <1>2, <1>3 DEF Root
<1>5. Leads(native.array) /\ Leads(native.callback) /\ native.array \in Datum
  BY <1>1, <1>4, RootsLead DEF CallType
<1>6. IsTable(native.array, Obj(native.array).type)
  <2>1. IsPtr(native.array)
    BY <1>3, <1>5, PointerIs
  <2> QED BY <2>1 DEF IsTable
<1>7. /\ MachineState.objects[IdIn(heap, native.array)] = AbsOf(heap, Obj(native.array))
      /\ Obj(native.array) \in Object /\ native.array \in Visible
  BY <1>5, <1>6, IsTableSeen
<1>8. MachineState.native = CallOf(heap, native)
  BY MachineParts
<1>9. /\ MachineState.native.array = IdIn(heap, native.array) /\ MachineState.native.fn = native.fn
      /\ MachineState.native.done = native.done /\ MachineState.native.rd = native.rd
      /\ MachineState.native.callback = IdIn(heap, native.callback)
  BY <1>8 DEF CallOf
<1>10. M!Elements(MachineState) = AbsOf(heap, Obj(native.array))
  BY <1>7, <1>9 DEF M!Elements
<1>11. DOMAIN AbsOf(heap, Obj(native.array)).fields = DOMAIN Obj(native.array).fields
  BY <1>7, AbsIs
<1>12. M!Cardinality(DOMAIN M!Elements(MachineState).fields) = Count(Obj(native.array))
  BY <1>10, <1>11, SameNotions DEF Count
<1> QED BY <1>3, <1>5, <1>7, <1>9, <1>10, <1>12

(* The end of foreach. *)
LEMMA ForeachDoneSeen ==
  ASSUME Inv, Solid, Faithful, Inv', Solid', ForeachDone
  PROVE  M!ForeachDone(MachineState, MachineState') /\ Faithful'
<1>1. /\ heap' = heap /\ global' = global /\ native' = NoCall /\ pc = "native"
      /\ native.done >= Count(Obj(native.array)) /\ IsTable(native.array, "object")
      /\ scenes' = WithRegs([Regs EXCEPT ![native.rd] = Undefined])
  BY DEF ForeachDone, InForeach, heapVars, SetReg
<1>2. native \in CallType /\ scenes \in Scenes
  BY Now
<1>3. native.fn = "foreach"
  <2>1. CallsIn(heap, native, scenes)
    BY <1>1 DEF Inv, Calm
  <2>2. native.array \in Pointer
    BY <1>1, <1>2, PointerIs DEF IsTable, CallType
  <2> QED BY <2>1, <2>2, PointerIs DEF CallsIn
<1>4. PICK d : d = native.rd
  OBVIOUS
<1>5. d \in Reg
  BY <1>2, <1>4 DEF CallType
<1>6. /\ M!Cardinality(DOMAIN M!Elements(MachineState).fields) = Count(Obj(native.array))
      /\ MachineState.native.fn = "foreach" /\ MachineState.native.done = native.done
      /\ MachineState.native.rd = d
  BY <1>1, <1>3, <1>4, ElementsSeen DEF IsTable
<1>7. PICK v, regs : v = Undefined /\ regs = SetOne(Regs, d, v)
  OBVIOUS
<1>8. v \in Datum /\ Leads(v) /\ IdIn(heap, v) = M!Undefined
  BY <1>7, NoPointer, SameNotions
<1>9. M!Regs(MachineState) = RegsOf(heap, Regs) /\ Regs \in [Reg -> Datum]
  BY MachineParts
<1>10. RegsOf(heap, regs) = SetOne(RegsOf(heap, Regs), d, IdIn(heap, v)) /\ HasOne(Regs, d, v, regs)
  BY <1>5, <1>7, <1>8, <1>9, SetOneIs
<1>11. regs \in [Reg -> Datum] /\ \A r \in Reg : regs[r] = IF r = d THEN v ELSE Regs[r]
  BY <1>10 DEF HasOne
<1>12. scenes' = WithRegs(regs)
  BY <1>1, <1>4, <1>7 DEF SetOne
<1>13. Rewritten(scenes, scenes', {v})
  <2>1. \A r \in Reg : regs[r] \in Pointer => regs[r] \in {v} \cup HeldBy(scenes[1])
    <3>1. Regs = scenes[1].frames[1].regs /\ 1 \in 1 .. Len(scenes[1].frames)
      BY Now, TopIs, SceneIs
    <3>2. \A r \in Reg : Regs[r] \in Pointer => Regs[r] \in HeldBy(scenes[1])
      BY <3>1, HeldIs
    <3> QED BY <3>2, <1>11
  <2>2. Rewritten(scenes, [scenes EXCEPT ![1].frames[1].regs = regs], {v})
    BY <2>1, <1>2, <1>11, RegsRewritten
  <2> QED BY <2>2, <1>12 DEF WithRegs
<1>14. AllLead(global, scenes', NoCall)
  <2>1. AllLead(global, scenes, NoCall)
    BY AllLeadNow, NoneLead
  <2> QED BY <2>1, <1>8, <1>13, RewriteLead
<1>15. M!Changed(MachineState, MachineState', ScenesOf(heap, scenes'), CallOf(heap, native'), MachineState.objects)
       /\ Faithful'
  BY <1>1, <1>14, ScenesStep DEF AllLead
<1>16. CallOf(heap, native') = M!NoCall
  BY <1>1, CallOfNone, SameNotions
<1>17. ScenesOf(heap, scenes') = M!SetReg(MachineState, d, M!Undefined)
  <2>1. scenes' = TopRegs(scenes, regs)
    BY <1>12, MachineParts
  <2>2. PICK R : R = RegsOf(heap, regs)
    OBVIOUS
  <2>3. ScenesOf(heap, TopRegs(scenes, regs)) = TopRegs(ScenesOf(heap, scenes), R)
    BY <1>2, <1>11, <2>2, TopRegsOf
  <2>4. M!WithRegs(MachineState, R) = TopRegs(ScenesOf(heap, scenes), R)
    BY MachineParts
  <2>5. M!SetReg(MachineState, d, M!Undefined) = M!WithRegs(MachineState, R)
    BY <2>2, <1>8, <1>9, <1>10 DEF M!SetReg, SetOne
  <2> QED BY <2>1, <2>3, <2>4, <2>5
<1> QED BY <1>1, <1>6, <1>15, <1>16, <1>17 DEF M!ForeachDone

------------------------------------------------------------------------------
(* The heap has what it had, perhaps with other fields; what has no identity may change. *)
KeptHeap(h, k) ==
  \A p \in In(h) : At(h, p).id # NoId =>
    /\ p \in In(k) /\ At(k, p).id = At(h, p).id
    /\ At(k, p).type = At(h, p).type /\ At(k, p).fwd = At(h, p).fwd

(* Pointers lead where they led. *)
LEMMA KeptEnds ==
  ASSUME Inv, Solid, Inv', Solid', KeptHeap(heap, heap'), NEW v \in Pointer, Leads(v)
  PROVE  v \in In(heap') /\ Ends'[v] = Ends[v] /\ At(heap', v).id = At(heap, v).id /\ Own(heap, v)
<1>1. View(heap, global, scenes, native, MachineState, Ends, Visible) /\ Places = In(heap)
  BY Now
<1>2. PICK k, E : k = heap' /\ E = Ends'
  OBVIOUS
<1>3. Denotes(k, E)
  BY <1>2, Afterwards DEF View
<1>4. \A y \in In(heap) : At(heap, y).id # NoId => E[y] = E[Ends[y]]
  <2>1. Chains(heap) /\ Denotes(heap, Ends)
    BY <1>1 DEF View
  <2>2. \A p \in In(heap) : At(heap, p).id # NoId =>
          p \in In(k) /\ (IsHeader(At(heap, p)) => IsHeader(At(k, p)) /\ At(k, p).fwd = At(heap, p).fwd)
    BY <1>2 DEF KeptHeap, IsHeader
  <2> QED BY <1>3, <2>1, <2>2, Onward
<1>5. v \in In(heap) /\ Ends[v] \in Tables(heap)
  BY <1>1 DEF Leads, View
<1>6. At(heap, v).id # NoId
  BY <1>1, <1>5 DEF View, Denotes, Tables
<1>7. E[Ends[v]] = Ends[v]
  <2>1. Ends[v] \in In(k) /\ ~IsHeader(At(k, Ends[v]))
    BY <1>2, <1>5 DEF Tables, KeptHeap, IsHeader
  <2> QED BY <1>3, <2>1 DEF Denotes
<1> QED BY <1>2, <1>4, <1>5, <1>6, <1>7 DEF KeptHeap, Own

(* The same roots have the same identities. *)
LEMMA ScenesKept ==
  ASSUME NEW h, NEW k, NEW scs \in Scenes, NEW nat \in CallType, NEW g,
         \A v : Root(g, scs, nat, v) => At(k, v).id = At(h, v).id
  PROVE  ScenesOf(k, scs) = ScenesOf(h, scs) /\ CallOf(k, nat) = CallOf(h, nat)
<1>1. PICK D : D = [x \in Pointer |-> x]
  OBVIOUS
<1>2. ASSUME NEW x, x \in Pointer => At(k, x).id = At(h, x).id PROVE Follows(h, k, D, D, x, x)
  BY <1>1, <1>2 DEF Follows
<1>3. ASSUME NEW c \in CallsOf(nat, scs) PROVE FollowsCall(h, k, D, D, c, c)
  <2>1. (c.array \in Pointer => At(k, c.array).id = At(h, c.array).id)
        /\ (c.callback \in Pointer => At(k, c.callback).id = At(h, c.callback).id)
    BY DEF Root
  <2> QED BY <2>1, <1>2 DEF FollowsCall
<1>4. ASSUME NEW s \in 1 .. Len(scs) PROVE FollowsScene(h, k, D, D, scs[s], scs[s])
  <2>1. FollowsCall(h, k, D, D, scs[s].caller, scs[s].caller)
    BY <1>3 DEF CallsOf
  <2>2. ASSUME NEW f \in 1 .. Len(scs[s].frames), NEW r \in Reg
        PROVE  Follows(h, k, D, D, scs[s].frames[f].regs[r], scs[s].frames[f].regs[r])
    <3>1. PICK x : x = scs[s].frames[f].regs[r]
      OBVIOUS
    <3>2. x \in Pointer => Root(g, scs, nat, x)
      BY <3>1, HeldIs DEF Root
    <3> QED BY <3>1, <3>2, <1>2
  <2> QED BY <2>1, <2>2 DEF FollowsScene
<1>5. FollowsScenes(h, k, D, D, scs, scs)
  BY <1>4 DEF FollowsScenes
<1>6. FollowsCall(h, k, D, D, nat, nat)
  BY <1>3 DEF CallsOf
<1> QED BY <1>5, <1>6, ScenesFollow, CallFollows

(* The roots after a register was set. *)
LEMMA RewrittenRoot ==
  ASSUME NEW g, NEW scs, NEW nat, NEW t, NEW X, Rewritten(scs, t, X), NEW v, Root(g, t, nat, v)
  PROVE  Root(g, scs, nat, v) \/ v \in X
<1>0. v \in Pointer
  BY DEF Root
<1>1. CASE v = g
  BY <1>0, <1>1 DEF Root
<1>2. ASSUME NEW s \in 1 .. Len(t), v \in HeldBy(t[s]) PROVE Root(g, scs, nat, v) \/ v \in X
  BY <1>0, <1>2 DEF Rewritten, Root
<1>3. ASSUME NEW c \in CallsOf(nat, t), v \in {c.array, c.callback} PROVE Root(g, scs, nat, v)
  <2>1. c \in CallsOf(nat, scs)
    BY <1>3 DEF CallsOf, Rewritten
  <2> QED BY <1>0, <1>3, <2>1 DEF Root
<1> QED BY <1>1, <1>2, <1>3 DEF Root

(* Registers that show the same. *)
LEMMA SameTop ==
  ASSUME NEW h, NEW scs \in Scenes, NEW regs \in [Reg -> Datum],
         RegsOf(h, regs) = RegsOf(h, scs[1].frames[1].regs)
  PROVE  ScenesOf(h, TopRegs(scs, regs)) = ScenesOf(h, scs)
<1>1. /\ scs \in Seq(SceneType) /\ 1 \in 1 .. Len(scs)
      /\ scs[1].frames \in Seq(FrameType) \ {<<>>} /\ 1 \in 1 .. Len(scs[1].frames)
  <2>1. /\ scs \in Seq(SceneType) /\ 1 \in 1 .. Len(scs)
        /\ scs[1].frames \in Seq(FrameType) /\ scs[1].frames # <<>> /\ Len(scs[1].frames) \in Nat \ {0}
    BY SceneIs
  <2> QED BY <2>1
<1>2. PICK S, R, fs : S = ScenesOf(h, scs) /\ R = RegsOf(h, regs) /\ fs = scs[1].frames
  OBVIOUS
<1>3. ScenesOf(h, TopRegs(scs, regs)) = TopRegs(S, R)
  BY <1>2, TopRegsOf
<1>4. S = [s \in 1 .. Len(scs) |-> S[s]] /\ S[1] = SceneOf(h, scs[1])
  BY <1>1, <1>2 DEF ScenesOf
<1>5. PICK F, c : F = FramesOf(h, fs) /\ c = CallOf(h, scs[1].caller)
  OBVIOUS
<1>6. S[1] = [frames |-> F, caller |-> c]
  BY <1>2, <1>4, <1>5, SceneOfIs
<1>7. FirstRegs(F, R) = F
  <2>1. FirstRegs(FramesOf(h, fs), RegsOf(h, fs[1].regs)) = FramesOf(h, fs)
    BY <1>1, <1>2, SameFirst
  <2> QED BY <2>1, <1>2, <1>5
<1>8. TopRegs(S, R) = [S EXCEPT ![1].frames = F]
  BY <1>6, <1>7 DEF TopRegs, TopFrames
<1>9. [S EXCEPT ![1].frames = F] = S
  <2>1. PICK x : x = [S[1] EXCEPT !.frames = F]
    OBVIOUS
  <2>2. x = S[1]
    BY <1>6, <2>1
  <2>3. [S EXCEPT ![1].frames = F] = [S EXCEPT ![1] = x]
    BY <2>1
  <2> QED BY <2>2, <2>3, <1>4
<1> QED BY <1>2, <1>3, <1>8, <1>9

(* A table whose pointers have the identities they had. *)
LEMMA SameAbs ==
  ASSUME NEW h, NEW k, NEW o \in Object, \A v \in PtrsOf(o) : At(k, v).id = At(h, v).id
  PROVE  AbsOf(k, o) = AbsOf(h, o) /\ FieldsOf(k, o) = FieldsOf(h, o)
<1>1. ASSUME NEW i \in DOMAIN o.fields PROVE IdIn(k, o.fields[i]) = IdIn(h, o.fields[i])
  <2>1. PICK v : v = o.fields[i]
    OBVIOUS
  <2>2. v \in Datum /\ (v \in Pointer => v \in PtrsOf(o))
    BY <2>1, ObjectIs DEF PtrsOf
  <2> QED BY <2>1, <2>2, IdInIs
<1>2. FieldsOf(k, o) = FieldsOf(h, o)
  BY <1>1 DEF FieldsOf
<1> QED BY <1>2 DEF AbsOf

(* A step of the machine that leaves tables where they are, and may make some. *)
LEMMA Growing ==
  ASSUME Inv, Solid, Inv', Solid', KeptHeap(heap, heap'), NEW X,
         \A q \in X : q \in In(heap') /\ ~IsHeader(At(heap', q)),
         \A v : Root(global', scenes', native', v) => Leads(v) \/ v \in X,
         \A p \in Visible \cup X : \A v \in PtrsOf(At(heap', p)) : Leads(v) \/ v \in X
  PROVE  Closing(heap', global', scenes', native', Ends', Visible \cup X)
<1>1. PICK k, g, t, c, E, V : /\ k = heap' /\ E = Ends' /\ V = Visible \cup X
                              /\ g = global' /\ t = scenes' /\ c = native'
  OBVIOUS
<1>2. ASSUME NEW v \in Pointer, Leads(v) \/ v \in X PROVE E[v] \in V
  <2>1. CASE Leads(v)
    BY <2>1, <1>1, KeptEnds DEF Leads
  <2>2. CASE v \in X
    <3>1. Denotes(k, E)
      BY <1>1, Afterwards DEF View
    <3>2. v \in In(k) /\ ~IsHeader(At(k, v))
      BY <1>1, <2>2
    <3>3. E[v] = v
      BY <3>1, <3>2 DEF Denotes
    <3> QED BY <3>3, <2>2, <1>1
  <2> QED BY <1>2, <2>1, <2>2
<1>3. \A v : Root(g, t, c, v) => v \in Pointer /\ (Leads(v) \/ v \in X)
  BY <1>1 DEF Root
<1>4. \A p \in V : \A v \in PtrsOf(At(k, p)) : v \in Pointer /\ (Leads(v) \/ v \in X)
  BY <1>1 DEF PtrsOf
<1>5. Closing(k, g, t, c, E, V)
  BY <1>2, <1>3, <1>4 DEF Closing
<1> QED BY <1>1, <1>5

(* A step that makes tables: what is new is visible, and the machine has it too. *)
LEMMA GrowingStep ==
  ASSUME Inv, Solid, Inv', Solid', NEW X,
         Closing(heap', global', scenes', native', Ends', Visible \cup X),
         IdIn(heap', global') = IdIn(heap, global),
         NEW O, IsFiniteSet(DOMAIN O), DOMAIN O \subseteq Ids, Pictures(heap', Visible \cup X, O),
         DistinctIn(heap', Visible \cup X)
  PROVE  M!Changed(MachineState, MachineState', ScenesOf(heap', scenes'), CallOf(heap', native'), O) /\ Faithful'
<1>1. PICK k, g, t, c, n, E, U, W : /\ k = heap' /\ E = Ends' /\ W = Visible \cup X /\ U = Visible'
                                    /\ g = global' /\ t = scenes' /\ c = native' /\ n = MachineState'
  OBVIOUS
<1>2. View(heap, global, scenes, native, MachineState, Ends, Visible)
  BY Now
<1>3. View(k, g, t, c, n, E, U)
  BY <1>1, Afterwards
<1>4. Closing(k, g, t, c, E, W) /\ Pictures(k, W, O) /\ IdIn(k, g) = IdIn(heap, global)
  BY <1>1
<1>5. M!Changed(MachineState, n, ScenesOf(k, t), CallOf(k, c), O) /\ Pictures(k, U, n.objects)
  BY <1>2, <1>3, <1>4, Stepped
<1>6. U \subseteq W
  BY <1>3, <1>4 DEF View
<1>7. Faithful'
  BY <1>1, <1>5, <1>6 DEF Faithful, DistinctIn
<1> QED BY <1>1, <1>5, <1>7

(* A step that the machine does not take. *)
LEMMA GrowingIdly ==
  ASSUME Inv, Solid, Inv', Solid', Faithful,
         Closing(heap', global', scenes', native', Ends', Visible),
         IdIn(heap', global') = IdIn(heap, global), ScenesOf(heap', scenes') = ScenesOf(heap, scenes),
         CallOf(heap', native') = CallOf(heap, native),
         Pictures(heap', Visible, MachineState.objects), DistinctIn(heap', Visible)
  PROVE  MachineState' = MachineState /\ Faithful'
<1>1. PICK k, g, t, c, n, E, U : /\ k = heap' /\ E = Ends' /\ U = Visible'
                                 /\ g = global' /\ t = scenes' /\ c = native' /\ n = MachineState'
  OBVIOUS
<1>2. View(heap, global, scenes, native, MachineState, Ends, Visible)
  BY Now
<1>3. View(k, g, t, c, n, E, U)
  BY <1>1, Afterwards
<1>4. Closing(k, g, t, c, E, Visible) /\ Pictures(k, Visible, MachineState.objects) /\ IdIn(k, g) = IdIn(heap, global)
      /\ ScenesOf(k, t) = ScenesOf(heap, scenes) /\ CallOf(k, c) = CallOf(heap, native)
  BY <1>1
<1>5. Pictures(heap, Visible, MachineState.objects)
  BY DEF Faithful
<1>6. n = MachineState /\ Pictures(k, U, n.objects)
  BY <1>2, <1>3, <1>4, <1>5, Standing
<1>7. U \subseteq Visible
  BY <1>3, <1>4 DEF View
<1>8. Faithful'
  BY <1>1, <1>6, <1>7 DEF Faithful, DistinctIn
<1> QED BY <1>1, <1>6, <1>8

------------------------------------------------------------------------------
(* Fields that are set, in the machine. *)
Shown(h, f) == [x \in DOMAIN f |-> IdIn(h, f[x])]

(* A field that is set is set in the machine. *)
LEMMA PutSeen ==
  ASSUME NEW h, NEW f, NEW k, NEW w \in Datum, w \in Pointer => At(h, w).id # NoId
  PROVE  Shown(h, Put(f, k, w)) = Put(Shown(h, f), k, IdIn(h, w))
<1>1. PICK j, g, F : j = IdIn(h, w) /\ g = Put(f, k, w) /\ F = Shown(h, f)
  OBVIOUS
<1>2. w = Undefined <=> j = Undefined
  <2>1. CASE w \in Pointer
    <3>1. j = At(h, w).id /\ w # Undefined
      BY <1>1, <2>1, IdInIs, PointerIs
    <3> QED BY <3>1, <2>1 DEF NoId
  <2>2. CASE w \notin Pointer
    BY <1>1, <2>2, IdInIs
  <2> QED BY <2>1, <2>2
<1>3. DOMAIN F = DOMAIN f /\ \A x \in DOMAIN f : F[x] = IdIn(h, f[x])
  BY <1>1 DEF Shown
<1> DEFINE D == IF w = Undefined THEN DOMAIN f \ {k} ELSE DOMAIN f \cup {k}
<1>4. DOMAIN g = D /\ \A x \in D : g[x] = IF x = k THEN w ELSE f[x]
  BY <1>1 DEF Put
<1>5. Put(F, k, j) = [x \in D |-> IF x = k THEN j ELSE F[x]]
  <2>1. (IF j = Undefined THEN DOMAIN F \ {k} ELSE DOMAIN F \cup {k}) = D
    BY <1>2, <1>3
  <2> HIDE DEF D
  <2> QED BY <2>1 DEF Put
<1>6. \A x \in D : IdIn(h, g[x]) = IF x = k THEN j ELSE F[x]
  BY <1>1, <1>3, <1>4
<1>7. Shown(h, g) = [x \in D |-> IdIn(h, g[x])]
  BY <1>4 DEF Shown
<1>8. Shown(h, g) = [x \in D |-> IF x = k THEN j ELSE F[x]]
  <2> HIDE DEF D
  <2> QED BY <1>6, <1>7
<1> QED BY <1>1, <1>5, <1>8

(* The operand of an instruction, in the machine. *)
LEMMA OperandSeen ==
  ASSUME Inv, Solid, NEW s \in Reg \cup {0}, NEW v, v = Operand(Regs, s)
  PROVE  v \in Datum /\ Leads(v) /\ IdIn(heap, v) = M!Operand(M!Regs(MachineState), s)
<1>1. M!Regs(MachineState) = RegsOf(heap, Regs) /\ Regs \in [Reg -> Datum]
  BY MachineParts
<1>2. CASE s = 0
  BY <1>2, NoPointer, SameNotions DEF Operand, M!Operand
<1>3. CASE s \in Reg /\ s # 0
  BY <1>1, <1>3, RootsLead DEF Operand, M!Operand, RegsOf
<1> QED BY <1>2, <1>3

(* What is visible is told apart by its identity. *)
LEMMA VisibleIds ==
  ASSUME Inv, Solid, NEW p \in Visible
  PROVE  p \in In(heap) /\ At(heap, p).id # NoId /\ ~IsHeader(At(heap, p)) /\ Obj(p) = At(heap, p) /\ p \in Pointer
BY Now DEF View, Tables, In

(* Visible tables keep their names apart in a heap that keeps its tables. *)
LEMMA KeptDistinct ==
  ASSUME Inv, Solid, Faithful, KeptHeap(heap, heap')
  PROVE  DistinctIn(heap', Visible)
BY VisibleIds DEF Faithful, DistinctIn, KeptHeap

(* A table whose fields were not set. *)
LEMMA KeptTable ==
  ASSUME Inv, Solid, Inv', Solid', KeptHeap(heap, heap'), NEW p \in Visible,
         At(heap', p).fields = At(heap, p).fields
  PROVE  AbsOf(heap', At(heap', p)) = AbsOf(heap, At(heap, p)) /\ \A v \in PtrsOf(At(heap', p)) : Leads(v)
<1>1. p \in In(heap) /\ At(heap, p).id # NoId /\ Obj(p) = At(heap, p)
  BY VisibleIds
<1>2. PICK o, u, k : o = At(heap, p) /\ u = At(heap', p) /\ k = heap'
  OBVIOUS
<1>3. o \in Object /\ \A v \in PtrsOf(o) : Leads(v)
  BY <1>1, <1>2, RootsLead
<1>4. \A v \in PtrsOf(o) : At(k, v).id = At(heap, v).id
  <2> TAKE v \in PtrsOf(o)
  <2>1. v \in Pointer /\ Leads(v)
    BY <1>3 DEF PtrsOf
  <2> QED BY <2>1, <1>2, KeptEnds
<1>5. FieldsOf(k, o) = FieldsOf(heap, o)
  BY <1>3, <1>4, SameAbs
<1>6. u.fields = o.fields /\ u.type = o.type
  BY <1>1, <1>2 DEF KeptHeap
<1>7. FieldsOf(k, u) = FieldsOf(k, o) /\ PtrsOf(u) = PtrsOf(o)
  BY <1>6 DEF FieldsOf, PtrsOf
<1> QED BY <1>2, <1>3, <1>5, <1>6, <1>7 DEF AbsOf

(* The same scenes, after a step that keeps the heap. *)
LEMMA KeptScenes ==
  ASSUME Inv, Solid, Inv', Solid', KeptHeap(heap, heap'), NEW t \in Scenes, NEW c \in CallType,
         AllLead(global, t, c)
  PROVE  ScenesOf(heap', t) = ScenesOf(heap, t) /\ CallOf(heap', c) = CallOf(heap, c)
         /\ IdIn(heap', global) = IdIn(heap, global)
<1>1. PICK k, g : k = heap' /\ g = global
  OBVIOUS
<1>2. ASSUME NEW v, Root(g, t, c, v) PROVE At(k, v).id = At(heap, v).id
  <2>1. v \in Pointer /\ Leads(v)
    BY <1>1, <1>2 DEF AllLead, Root
  <2> QED BY <2>1, <1>1, KeptEnds
<1>3. ScenesOf(k, t) = ScenesOf(heap, t) /\ CallOf(k, c) = CallOf(heap, c)
  BY <1>2, ScenesKept
<1>4. g \in Pointer /\ g \in Datum /\ Root(g, t, c, g)
  BY <1>1, Now DEF Root, Datum
<1>5. IdIn(k, g) = IdIn(heap, g)
  BY <1>2, <1>4, IdInIs
<1> QED BY <1>1, <1>3, <1>5

(* I_SET_OBJ. *)
LEMMA SetObjSeen ==
  ASSUME Inv, Solid, Faithful, Inv', Solid', native = NoCall,
         NEW r \in Reg, NEW k \in Key, NEW s \in Reg \cup {0}, SetObj(r, k, s)
  PROVE  M!SetObj(MachineState, MachineState', r, k, s) /\ Faithful'
<1>1. PICK p, w : p = Resolve(Regs[r]) /\ w = Operand(Regs, s)
  OBVIOUS
<1>2. /\ pc = "run" /\ Holds(r, {"object"}) /\ global' = global /\ native' = native
      /\ scenes' = WithRegs(SetOne(Regs, r, p))
      /\ heap' = [heap EXCEPT ![p[1]][p[2]] = [Obj(p) EXCEPT !.fields = Put(@, k, w)]]
  BY <1>1 DEF SetObj, Running, SetReg, SetOne
<1>3. /\ M!Is(MachineState, M!Regs(MachineState)[r], "object")
      /\ MachineState.objects[M!Regs(MachineState)[r]] = AbsOf(heap, Obj(p))
      /\ IdIn(heap, p) = M!Regs(MachineState)[r]
      /\ p \in Pointer /\ p \in Datum /\ Leads(p) /\ p \in Visible /\ Obj(p) \in Object
  BY <1>1, <1>2, HoldsSeen
<1>4. w \in Datum /\ Leads(w) /\ IdIn(heap, w) = M!Operand(M!Regs(MachineState), s)
  BY <1>1, OperandSeen
<1>5. p \in In(heap) /\ At(heap, p).id # NoId /\ ~IsHeader(At(heap, p)) /\ Obj(p) = At(heap, p)
  BY <1>3, VisibleIds
<1>6. PICK f, F : f = Obj(p).fields /\ F = Put(Obj(p).fields, k, w)
  OBVIOUS
<1>7. F \in Fields /\ {F[i] : i \in DOMAIN F} \subseteq {w} \cup {f[i] : i \in DOMAIN f}
  <2>1. f \in Fields /\ k \in Nat /\ F = Put(f, k, w)
    BY <1>3, <1>6, FramesAssumption DEF Object
  <2>2. f \in Fields /\ k \in Nat /\ w \in Datum
    BY <2>1, <1>4
  <2>3. Put(f, k, w) \in Fields /\ {Put(f, k, w)[i] : i \in DOMAIN Put(f, k, w)} \subseteq {w} \cup {f[i] : i \in DOMAIN f}
    BY <2>2, PutIs, Zenon
  <2> QED BY <2>1, <2>3
<1>8. PICK o : o = [Obj(p) EXCEPT !.fields = F]
  OBVIOUS
<1>9. o \in Object /\ o.type = Obj(p).type /\ o.fwd = Obj(p).fwd /\ o.fields = F /\ o.id = Obj(p).id
  BY <1>3, <1>7, <1>8 DEF Object
<1>10. heap' = Store(heap, p, o)
  BY <1>2, <1>6, <1>8 DEF Store
<1>11. PICK h : h = heap'
  OBVIOUS
<1>12. In(h) = In(heap) /\ \A x \in In(heap) : At(h, x) = IF x = p THEN o ELSE At(heap, x)
  BY <1>5, <1>9, <1>10, <1>11, Now, StoreIs
<1>13. KeptHeap(heap, h)
  BY <1>5, <1>9, <1>12 DEF KeptHeap
<1>14. \A v \in PtrsOf(o) : Leads(v)
  <2>1. \A v \in PtrsOf(o) : v = w \/ v \in PtrsOf(Obj(p))
    BY <1>6, <1>7, <1>9 DEF PtrsOf
  <2>2. \A v \in PtrsOf(Obj(p)) : Leads(v)
    BY <1>3, RootsLead
  <2> QED BY <2>1, <2>2, <1>4
<1>15. FieldsOf(h, o) = FieldsOf(heap, o)
  <2>1. \A v \in PtrsOf(o) : At(h, v).id = At(heap, v).id
    <3> TAKE v \in PtrsOf(o)
    <3>1. v \in Pointer /\ Leads(v)
      BY <1>14 DEF PtrsOf
    <3> QED BY <3>1, <1>11, <1>13, KeptEnds
  <2> QED BY <2>1, <1>9, SameAbs
<1>16. PICK i, j : i = M!Regs(MachineState)[r] /\ j = IdIn(heap, w)
  OBVIOUS
<1>17. FieldsOf(heap, o) = M!Put(FieldsOf(heap, Obj(p)), k, j)
  <2>1. w \in Pointer => At(heap, w).id # NoId
    BY <1>4, <1>11, <1>13, KeptEnds DEF Own
  <2>2. Shown(heap, Put(f, k, w)) = Put(Shown(heap, f), k, j)
    BY <2>1, <1>4, <1>16, PutSeen
  <2>3. FieldsOf(heap, o) = Shown(heap, F) /\ FieldsOf(heap, Obj(p)) = Shown(heap, f)
    BY <1>6, <1>9 DEF FieldsOf, Shown
  <2> QED BY <2>2, <2>3, <1>6, SameNotions
<1>18. PICK O : O = [MachineState.objects EXCEPT ![i].fields = M!Put(@, k, j)]
  OBVIOUS
<1>19. View(heap, global, scenes, native, MachineState, Ends, Visible)
  BY Now
<1>20. IsFiniteSet(DOMAIN O) /\ DOMAIN O \subseteq Ids /\ DOMAIN O = DOMAIN MachineState.objects
  <2>1. IsFiniteSet(DOMAIN MachineState.objects) /\ DOMAIN MachineState.objects \subseteq Ids
    BY <1>19, ViewIds
  <2> QED BY <2>1, <1>18
<1>21. ASSUME NEW q \in Visible
       PROVE  At(h, q).id \in DOMAIN O /\ O[At(h, q).id] = AbsOf(h, At(h, q)) /\ \A v \in PtrsOf(At(h, q)) : Leads(v)
  <2>1. q \in In(heap) /\ At(heap, q).id \in DOMAIN MachineState.objects /\ At(h, q).id = At(heap, q).id
        /\ MachineState.objects[At(heap, q).id] = AbsOf(heap, At(heap, q))
    BY <1>13, VisibleIds DEF Faithful, Pictures, KeptHeap
  <2>2. CASE q = p
    <3>1. At(h, q) = o /\ At(heap, q).id = i
      BY <2>1, <2>2, <1>3, <1>5, <1>12, <1>16, IdInIs
    <3>2. PICK a : a = FieldsOf(heap, Obj(p))
      OBVIOUS
    <3>3. MachineState.objects[i] = [type |-> Obj(p).type, fields |-> a]
      BY <3>2, <1>3, <1>16 DEF AbsOf
    <3>4. i \in DOMAIN MachineState.objects
      BY <2>1, <3>1
    <3>5. O[i] = [type |-> Obj(p).type, fields |-> M!Put(a, k, j)]
      <4>1. PICK b : b = M!Put(a, k, j)
        OBVIOUS
      <4>2. O[i] = [MachineState.objects[i] EXCEPT !.fields = b]
        BY <3>3, <3>4, <1>18, <4>1
      <4> QED BY <4>1, <4>2, <3>3
    <3>6. AbsOf(h, o) = [type |-> Obj(p).type, fields |-> M!Put(a, k, j)]
      BY <3>2, <1>9, <1>15, <1>17 DEF AbsOf
    <3> QED BY <3>1, <3>4, <3>5, <3>6, <1>14, <1>20, <2>1
  <2>3. CASE q # p
    <3>1. At(heap, q).id # i
      <4>1. At(heap, p).id = i
        BY <1>3, <1>16, IdInIs
      <4> QED BY <4>1, <2>3, <1>3 DEF Faithful, DistinctIn
    <3>2. O[At(heap, q).id] = MachineState.objects[At(heap, q).id]
      BY <3>1, <2>1, <1>18
    <3>3. At(h, q).fields = At(heap, q).fields
      BY <2>1, <2>3, <1>12
    <3>4. AbsOf(h, At(h, q)) = AbsOf(heap, At(heap, q)) /\ \A v \in PtrsOf(At(h, q)) : Leads(v)
      BY <3>3, <1>11, <1>13, KeptTable
    <3> QED BY <3>2, <3>4, <2>1, <1>20
  <2> QED BY <2>2, <2>3
<1>22. PICK regs : regs = SetOne(Regs, r, p)
  OBVIOUS
<1>23. Regs \in [Reg -> Datum] /\ M!Regs(MachineState) = RegsOf(heap, Regs) /\ scenes \in Scenes /\ scenes' = TopRegs(scenes, regs)
       /\ Regs = scenes[1].frames[1].regs
  BY <1>2, <1>22, MachineParts, FramesAre
<1>24. RegsOf(heap, regs) = RegsOf(heap, Regs) /\ HasOne(Regs, r, p, regs)
  <2>1. IdIn(heap, p) = IdIn(heap, Regs[r])
    BY <1>3, <1>23 DEF RegsOf
  <2> QED BY <2>1, <1>3, <1>22, <1>23, SameRegs
<1>25. regs \in [Reg -> Datum] /\ \A x \in Reg : regs[x] = IF x = r THEN p ELSE Regs[x]
  BY <1>24 DEF HasOne
<1>26. Rewritten(scenes, scenes', {p})
  <2>1. 1 \in 1 .. Len(scenes[1].frames)
    BY FramesAre
  <2>2. \A x \in Reg : Regs[x] \in Pointer => Regs[x] \in HeldBy(scenes[1])
    BY <2>1, <1>23, HeldIs
  <2>3. \A x \in Reg : regs[x] \in Pointer => regs[x] \in {p} \cup HeldBy(scenes[1])
    BY <2>2, <1>25
  <2>4. Rewritten(scenes, [scenes EXCEPT ![1].frames[1].regs = regs], {p})
    BY <2>3, <1>23, <1>25, RegsRewritten
  <2> QED BY <2>4, <1>2, <1>22 DEF WithRegs
<1>27. AllLead(global, scenes', native)
  <2>1. \A v \in {p} : Leads(v)
    BY <1>3
  <2> QED BY <2>1, <1>26, AllLeadNow, RewriteLead
<1>28. ScenesOf(heap, scenes') = ScenesOf(heap, scenes) /\ scenes' \in Scenes
  <2>1. ScenesOf(heap, TopRegs(scenes, regs)) = ScenesOf(heap, scenes)
    BY <1>23, <1>24, <1>25, SameTop
  <2> QED BY <2>1, <1>23, <1>26 DEF Rewritten
<1>29. ScenesOf(heap', scenes') = ScenesOf(heap, scenes') /\ CallOf(heap', native) = CallOf(heap, native)
       /\ IdIn(heap', global) = IdIn(heap, global)
  <2>1. native \in CallType
    BY Now
  <2> QED BY <2>1, <1>11, <1>13, <1>27, <1>28, KeptScenes
<1>30. PICK X : X = {}
  OBVIOUS
<1>31. Visible \cup X = Visible
  BY <1>30
<1>32. Closing(heap', global', scenes', native', Ends', Visible \cup X)
  <2>1. KeptHeap(heap, heap')
    BY <1>11, <1>13
  <2>2. \A q \in X : q \in In(heap') /\ ~IsHeader(At(heap', q))
    BY <1>30
  <2>3. \A v : Root(global', scenes', native', v) => Leads(v) \/ v \in X
    BY <1>2, <1>27 DEF AllLead
  <2>4. \A q \in Visible \cup X : \A v \in PtrsOf(At(heap', q)) : Leads(v) \/ v \in X
    BY <1>11, <1>21, <1>31
  <2> QED BY <2>1, <2>2, <2>3, <2>4, Growing
<1>33. Pictures(heap', Visible \cup X, O) /\ DistinctIn(heap', Visible \cup X)
  <2>1. DistinctIn(heap', Visible)
    BY <1>11, <1>13, KeptDistinct
  <2> QED BY <2>1, <1>11, <1>21, <1>31 DEF Pictures
<1>34. M!Changed(MachineState, MachineState', ScenesOf(heap', scenes'), CallOf(heap', native'), O) /\ Faithful'
  <2>1. IdIn(heap', global') = IdIn(heap, global)
    BY <1>2, <1>29
  <2> QED BY <2>1, <1>20, <1>32, <1>33, GrowingStep
<1>35. MachineState.native = M!NoCall /\ CallOf(heap', native') = M!NoCall /\ ScenesOf(heap', scenes') = MachineState.scenes
  BY <1>2, <1>28, <1>29, MachineParts, CallOfNone, SameNotions
<1>36. M!Changed(MachineState, MachineState', MachineState.scenes, M!NoCall, O)
  BY <1>34, <1>35
<1>37. O = [MachineState.objects EXCEPT ![M!Regs(MachineState)[r]].fields = M!Put(@, k, M!Operand(M!Regs(MachineState), s))]
  BY <1>4, <1>16, <1>18
<1> QED BY <1>3, <1>34, <1>35, <1>36, <1>37 DEF M!SetObj, M!Step

------------------------------------------------------------------------------
(* A step that leaves what is visible as it is. *)
LEMMA KeptTables ==
  ASSUME Inv, Solid, Inv', Solid', Faithful, KeptHeap(heap, heap'),
         \A p \in Visible : At(heap', p).fields = At(heap, p).fields
  PROVE  /\ Pictures(heap', Visible, MachineState.objects) /\ DistinctIn(heap', Visible)
         /\ \A p \in Visible : \A v \in PtrsOf(At(heap', p)) : Leads(v)
<1>1. DistinctIn(heap', Visible)
  BY KeptDistinct
<1>2. PICK h : h = heap'
  OBVIOUS
<1>3. ASSUME NEW p \in Visible
      PROVE  /\ At(h, p).id \in DOMAIN MachineState.objects /\ MachineState.objects[At(h, p).id] = AbsOf(h, At(h, p))
             /\ \A v \in PtrsOf(At(h, p)) : Leads(v)
  <2>1. AbsOf(h, At(h, p)) = AbsOf(heap, At(heap, p)) /\ \A v \in PtrsOf(At(h, p)) : Leads(v)
    BY <1>2, KeptTable
  <2>2. At(h, p).id = At(heap, p).id
    BY <1>2, VisibleIds DEF KeptHeap
  <2> QED BY <2>1, <2>2 DEF Faithful, Pictures
<1> QED BY <1>1, <1>2, <1>3 DEF Pictures

(* A step that keeps every table that can be reached, with its fields, changes
   scenes and calls only. *)
LEMMA KeptStep ==
  ASSUME Inv, Solid, Inv', Solid', Faithful, KeptHeap(heap, heap'),
         \A p \in Visible : At(heap', p).fields = At(heap, p).fields,
         global' = global, scenes' \in Scenes, native' \in CallType, AllLead(global, scenes', native')
  PROVE  /\ M!Changed(MachineState, MachineState', ScenesOf(heap, scenes'), CallOf(heap, native'), MachineState.objects)
         /\ Faithful'
         /\ (ScenesOf(heap, scenes') = ScenesOf(heap, scenes) /\ native' = native) => MachineState' = MachineState
<1>1. /\ Pictures(heap', Visible, MachineState.objects) /\ DistinctIn(heap', Visible)
      /\ \A p \in Visible : \A v \in PtrsOf(At(heap', p)) : Leads(v)
  BY KeptTables
<1>2. ScenesOf(heap', scenes') = ScenesOf(heap, scenes') /\ CallOf(heap', native') = CallOf(heap, native')
      /\ IdIn(heap', global') = IdIn(heap, global)
  <2>1. PICK t, c : t = scenes' /\ c = native'
    OBVIOUS
  <2>2. t \in Scenes /\ c \in CallType /\ AllLead(global, t, c)
    BY <2>1
  <2>3. ScenesOf(heap', t) = ScenesOf(heap, t) /\ CallOf(heap', c) = CallOf(heap, c)
        /\ IdIn(heap', global) = IdIn(heap, global)
    BY <2>2, KeptScenes
  <2> QED BY <2>1, <2>3
<1>3. PICK X : X = {}
  OBVIOUS
<1>4. Visible \cup X = Visible
  BY <1>3
<1>5. Closing(heap', global', scenes', native', Ends', Visible \cup X)
  <2>1. \A q \in X : q \in In(heap') /\ ~IsHeader(At(heap', q))
    BY <1>3
  <2>2. \A v : Root(global', scenes', native', v) => Leads(v) \/ v \in X
    BY DEF AllLead
  <2>3. \A q \in Visible \cup X : \A v \in PtrsOf(At(heap', q)) : Leads(v) \/ v \in X
    BY <1>1, <1>4
  <2> QED BY <2>1, <2>2, <2>3, Growing
<1>6. Pictures(heap', Visible \cup X, MachineState.objects) /\ DistinctIn(heap', Visible \cup X)
  BY <1>1, <1>4
<1>7. IsFiniteSet(DOMAIN MachineState.objects) /\ DOMAIN MachineState.objects \subseteq Ids
  BY Now, ViewIds
<1>8. PICK O : O = MachineState.objects
  OBVIOUS
<1>9. M!Changed(MachineState, MachineState', ScenesOf(heap', scenes'), CallOf(heap', native'), O) /\ Faithful'
  BY <1>2, <1>5, <1>6, <1>7, <1>8, GrowingStep
<1>10. ASSUME ScenesOf(heap, scenes') = ScenesOf(heap, scenes), native' = native PROVE MachineState' = MachineState
  <2>1. Closing(heap', global', scenes', native', Ends', Visible)
    BY <1>4, <1>5
  <2>2. ScenesOf(heap', scenes') = ScenesOf(heap, scenes) /\ CallOf(heap', native') = CallOf(heap, native)
    BY <1>2, <1>10
  <2> QED BY <2>1, <2>2, <1>1, <1>2, GrowingIdly
<1> QED BY <1>2, <1>8, <1>9, <1>10

(* A new object changes nothing else. *)
LEMMA GrownKept ==
  ASSUME Typed, NEW o \in Object, NEW k, k = Grown(heap, current, o)
  PROVE  /\ KeptHeap(heap, k) /\ \A p \in In(heap) : p \in In(k) /\ At(k, p) = At(heap, p)
         /\ Fresh \in In(k) /\ Fresh \notin In(heap) /\ At(k, Fresh) = o /\ k \in Heaps /\ Fresh \in Pointer
<1>1. GrowsTo(heap, current, o, k, Fresh)
  BY AllocatedIs
<1> QED BY <1>1 DEF GrowsTo, KeptHeap

(* One more scene. *)
LEMMA PushLead ==
  ASSUME NEW g, NEW scs \in Scenes, NEW nat, AllLead(g, scs, nat),
         NEW sc \in SceneType, \A v \in HeldBy(sc) : Leads(v), Leads(sc.caller.array), Leads(sc.caller.callback)
  PROVE  AllLead(g, OnTop(sc, scs), NoCall) /\ OnTop(sc, scs) \in Scenes
<1>1. scs \in Seq(SceneType)
  BY SceneIs
<1>2. PICK t : t = OnTop(sc, scs)
  OBVIOUS
<1>3. AddedTo(SceneType, sc, scs, t)
  BY <1>1, <1>2, OnTopIs
<1>4. t \in Seq(SceneType) /\ t # <<>> /\ Len(t) = Len(scs) + 1 /\ Len(scs) \in Nat /\ t[1] = sc
      /\ \A i \in 2 .. Len(scs) + 1 : t[i] = scs[i - 1]
  BY <1>3 DEF AddedTo
<1>5. \A i \in 1 .. Len(t) : t[i] = sc \/ \E s \in 1 .. Len(scs) : t[i] = scs[s]
  <2> TAKE i \in 1 .. Len(t)
  <2>1. CASE i = 1
    BY <2>1, <1>4
  <2>2. CASE i # 1
    <3>1. i \in 2 .. Len(scs) + 1 /\ i - 1 \in 1 .. Len(scs)
      BY <2>2, <1>4
    <3> QED BY <3>1, <1>4
  <2> QED BY <2>1, <2>2
<1>6. NoCall.array \notin Pointer /\ NoCall.callback \notin Pointer
  BY PointerIs DEF NoCall
<1>7. ASSUME NEW v, Root(g, t, NoCall, v) PROVE Leads(v)
  <2>0. v \in Pointer
    BY <1>7 DEF Root
  <2>1. CASE v = g
    BY <2>0, <2>1 DEF AllLead, Root
  <2>2. ASSUME NEW i \in 1 .. Len(t), v \in HeldBy(t[i]) PROVE Leads(v)
    BY <2>0, <2>2, <1>5 DEF AllLead, Root
  <2>3. ASSUME NEW c \in CallsOf(NoCall, t), v \in {c.array, c.callback} PROVE Leads(v)
    <3>1. c # NoCall
      BY <2>0, <2>3, <1>6
    <3>2. PICK i \in 1 .. Len(t) : c = t[i].caller
      BY <3>1 DEF CallsOf
    <3>3. c = sc.caller \/ c \in CallsOf(nat, scs)
      BY <3>2, <1>5 DEF CallsOf
    <3> QED BY <3>3, <2>0, <2>3 DEF AllLead, Root
  <2> QED BY <1>7, <2>1, <2>2, <2>3 DEF Root
<1> QED BY <1>2, <1>4, <1>7 DEF AllLead, Scenes

(* cvm_push_scene: the machine's Entered. *)
LEMMA PushSeen ==
  ASSUME Inv, Solid, Faithful, Inv', Solid', NEW frame \in FrameType, NEW caller \in CallType,
         PushScene(frame, caller), \A r \in Reg : Leads(frame.regs[r]), Leads(caller.array), Leads(caller.callback)
  PROVE  /\ M!Changed(MachineState, MachineState', M!Entered(MachineState, FrameOf(heap, frame), CallOf(heap, caller)),
                      M!NoCall, MachineState.objects)
         /\ Faithful'
<1>1. PICK o, sc : o = NewTable(1, NoFields) /\ sc = [external |-> Fresh, frames |-> <<frame>>, caller |-> caller]
  OBVIOUS
<1>2. /\ heap' = Allocated(o, Fresh, o) /\ scenes' = OnTop(sc, scenes) /\ native' = NoCall /\ global' = global
  BY <1>1 DEF PushScene, Allocate, AllocateAndSet, OnTop
<1>3. o \in Object /\ Typed /\ scenes \in Scenes /\ native \in CallType
  <2>1. NoFields \in Fields /\ NoId \in Ids \cup {NoId} /\ NewObject("object", 1, NoFields, NoId) \in Object
    BY NoFieldsIs, NewObjectIs
  <2> QED BY <2>1, <1>1, Now DEF NewTable
<1>4. heap' = Grown(heap, current, o)
  BY <1>2, <1>3, AllocatedIs
<1>5. /\ KeptHeap(heap, heap') /\ \A p \in In(heap) : At(heap', p) = At(heap, p)
      /\ Fresh \in Pointer
  BY <1>3, <1>4, GrownKept
<1>6. sc \in SceneType /\ sc.frames = <<frame>> /\ sc.caller = caller
  <2>1. <<frame>> \in Seq(FrameType) /\ <<frame>> # <<>>
    OBVIOUS
  <2> QED BY <2>1, <1>1, <1>5 DEF SceneType
<1>7. \A v \in HeldBy(sc) : Leads(v)
  <2> TAKE v \in HeldBy(sc)
  <2>1. PICK f \in 1 .. Len(sc.frames) : \E r \in Reg : v = sc.frames[f].regs[r]
    BY HeldIs
  <2>2. Len(sc.frames) = 1 /\ sc.frames[1] = frame
    BY <1>6
  <2>3. f = 1
    BY <2>1, <2>2
  <2> QED BY <2>1, <2>2, <2>3
<1>8. AllLead(global, scenes', native') /\ scenes' \in Scenes /\ native' \in CallType
  <2>1. AllLead(global, scenes, native)
    BY AllLeadNow
  <2>2. AllLead(global, OnTop(sc, scenes), NoCall) /\ OnTop(sc, scenes) \in Scenes
    BY <2>1, <1>3, <1>6, <1>7, PushLead
  <2> QED BY <2>2, <1>2, CallOfNone
<1>9. \A p \in Visible : At(heap', p).fields = At(heap, p).fields
  BY <1>5, VisibleIds
<1>10. M!Changed(MachineState, MachineState', ScenesOf(heap, scenes'), CallOf(heap, native'), MachineState.objects)
       /\ Faithful'
  BY <1>2, <1>5, <1>8, <1>9, KeptStep
<1>11. ScenesOf(heap, scenes') = OnTop(SceneOf(heap, sc), MachineState.scenes)
  <2>1. scenes \in Seq(SceneType) /\ MachineState.scenes = ScenesOf(heap, scenes)
    BY MachineParts
  <2>2. ScenesOf(heap, OnTop(sc, scenes)) = OnTop(SceneOf(heap, sc), ScenesOf(heap, scenes))
    BY <2>1, <1>6, ScenesOnTop
  <2> QED BY <2>1, <2>2, <1>2
<1>12. SceneOf(heap, sc) = [frames |-> <<FrameOf(heap, frame)>>, caller |-> CallOf(heap, caller)]
  <2>1. FramesOf(heap, <<frame>>) = <<FrameOf(heap, frame)>>
    <3>1. PICK x : x = FrameOf(heap, frame)
      OBVIOUS
    <3>2. FramesOf(heap, <<frame>>) = [f \in 1 .. 1 |-> x]
      <4>1. Len(<<frame>>) = 1 /\ \A f \in 1 .. 1 : <<frame>>[f] = frame
        OBVIOUS
      <4>2. FramesOf(heap, <<frame>>) = [f \in 1 .. 1 |-> FrameOf(heap, <<frame>>[f])]
        BY <4>1 DEF FramesOf
      <4> QED BY <4>1, <4>2, <3>1
    <3>3. [f \in 1 .. 1 |-> x] = <<x>>
      OBVIOUS
    <3> QED BY <3>1, <3>2, <3>3
  <2> QED BY <2>1, <1>6, SceneOfIs
<1>13. M!Entered(MachineState, FrameOf(heap, frame), CallOf(heap, caller)) = ScenesOf(heap, scenes')
  BY <1>11, <1>12 DEF M!Entered, OnTop
<1>14. CallOf(heap, native') = M!NoCall
  BY <1>2, CallOfNone, SameNotions
<1> QED BY <1>10, <1>13, <1>14

(* The scene of an imported script. *)
LEMMA ImportServedSeen ==
  ASSUME Inv, Solid, Faithful, Inv', Solid', native = NoCall, ImportServed
  PROVE  M!Import(MachineState, MachineState', pending.reg) /\ Faithful'
<1>1. PICK d, frame, caller : /\ d = pending.reg /\ frame = MainFrame(global)
                              /\ caller = [NoCall EXCEPT !.fn = "import", !.rd = pending.reg]
  OBVIOUS
<1>2. PushScene(frame, caller)
  BY <1>1 DEF ImportServed
<1>3. Typed /\ global \in Pointer /\ global \in Datum /\ d \in Reg /\ 1 \in Reg
  BY <1>1, Now, FramesAssumption DEF Typed, RequestType, Datum, Reg
<1>4. frame \in FrameType /\ \A r \in Reg : frame.regs[r] = IF r = 1 THEN global ELSE Undefined
  BY <1>1, <1>3, NoPointer DEF MainFrame, FrameType
<1>5. \A r \in Reg : Leads(frame.regs[r])
  BY <1>4, NoPointer, RootsLead
<1>6. caller = [fn |-> "import", rd |-> d, array |-> Undefined, callback |-> Undefined, done |-> 0]
  BY <1>1 DEF NoCall
<1>7. caller \in CallType /\ Leads(caller.array) /\ Leads(caller.callback)
  BY <1>3, <1>6, NoPointer DEF CallType
<1>8. M!Changed(MachineState, MachineState', M!Entered(MachineState, FrameOf(heap, frame), CallOf(heap, caller)),
                M!NoCall, MachineState.objects) /\ Faithful'
  BY <1>2, <1>4, <1>5, <1>7, PushSeen
<1>9. FrameOf(heap, frame) = M!MainFrame(MachineState.global)
  <2>1. PICK i : i = IdIn(heap, global)
    OBVIOUS
  <2>2. \A r \in Reg : IdIn(heap, frame.regs[r]) = IF r = 1 THEN i ELSE Undefined
    BY <2>1, <1>4, NoPointer
  <2>3. RegsOf(heap, frame.regs) = [r \in Reg |-> IF r = 1 THEN i ELSE Undefined]
    BY <2>2 DEF RegsOf
  <2>4. frame.rd = 1
    BY <1>1 DEF MainFrame
  <2>5. FrameOf(heap, frame) = MainFrame(i)
    BY <2>3, <2>4 DEF FrameOf, MainFrame
  <2> QED BY <2>1, <2>5, MachineParts, SameNotions
<1>10. CallOf(heap, caller) = [M!NoCall EXCEPT !.fn = "import", !.rd = d]
  <2>1. CallOf(heap, caller) = [fn |-> "import", rd |-> d, array |-> Undefined, callback |-> Undefined, done |-> 0]
    BY <1>6, NoPointer DEF CallOf
  <2> QED BY <2>1, <1>1, <1>6, SameNotions
<1>11. MachineState.native = M!NoCall
  BY MachineParts, CallOfNone, SameNotions
<1> QED BY <1>1, <1>8, <1>9, <1>10, <1>11 DEF M!Import, M!Step

------------------------------------------------------------------------------
(* The arguments of a callback, in the machine. *)
LEMMA ArgumentsSeen ==
  ASSUME NEW h, NEW g \in Datum, NEW v \in Datum,
         g \in Pointer => At(h, g).id # NoId, v \in Pointer => At(h, v).id # NoId
  PROVE  Shown(h, CallbackArguments(g, v)) = CallbackArguments(IdIn(h, g), IdIn(h, v))
<1>1. PICK a : a = Put(NoFields, 0, g)
  OBVIOUS
<1>2. Shown(h, a) = Put(Shown(h, NoFields), 0, IdIn(h, g))
  BY <1>1, PutSeen
<1>3. Shown(h, NoFields) = NoFields
  BY DEF Shown, NoFields
<1>4. Shown(h, Put(a, 1, v)) = Put(Shown(h, a), 1, IdIn(h, v))
  BY PutSeen
<1> QED BY <1>1, <1>2, <1>3, <1>4 DEF CallbackArguments

(* A frame depends on the fields of its arguments only. *)
LEMMA FrameFields ==
  ASSUME NEW F, NEW A, NEW B, A.fields = B.fields, NEW rd
  PROVE  M!NewFrame(F, A, rd) = M!NewFrame(F, B, rd)
BY DEF M!NewFrame, M!Get

(* The scene of a callback. *)
LEMMA SceneServedSeen ==
  ASSUME Inv, Solid, Faithful, Inv', Solid', SceneServed, native.fn = "foreach", pc # "gc",
         Obj(native.array).type = "object", native.done < Count(Obj(native.array)),
         Obj(native.callback).type = "closure", pending.args \in Places,
         Obj(pending.args).fields = CallbackArguments(global, Element)
  PROVE  M!ForeachNext(MachineState, MachineState') /\ Faithful'
<1>1. /\ native.array \in Pointer /\ native.array \in Visible /\ Obj(native.array) \in Object
      /\ Leads(native.array) /\ native.array \in Datum
      /\ M!Elements(MachineState) = AbsOf(heap, Obj(native.array))
      /\ M!Cardinality(DOMAIN M!Elements(MachineState).fields) = Count(Obj(native.array))
      /\ native.callback \in Pointer /\ Leads(native.callback)
      /\ MachineState.native.fn = "foreach" /\ MachineState.native.done = native.done
      /\ MachineState.native.callback = IdIn(heap, native.callback)
  BY ElementsSeen
<1>2. Typed /\ native \in CallType /\ Calm
  BY Now DEF Inv
<1>3. PICK c, x, y : c = native.callback /\ x = Obj(native.callback) /\ y = Obj(pending.args)
  OBVIOUS
<1>4. /\ M!Is(MachineState, IdIn(heap, c), "closure") /\ MachineState.objects[IdIn(heap, c)] = AbsOf(heap, x)
      /\ x \in Object /\ \A k : Get(x, k) \in Datum /\ Leads(Get(x, k))
  <2>1. c \in Datum /\ Leads(c) /\ IsTable(c, "closure")
    BY <1>1, <1>3, PointerIs DEF IsTable, Datum
  <2> QED BY <2>1, <1>3, IsTableSeen
<1>5. y \in Object
  BY <1>2, <1>3, ObjTyped
<1>6. Element \in Datum /\ Leads(Element) /\ M!Get(M!Elements(MachineState), native.done) = IdIn(heap, Element)
  <2>1. IsTable(native.array, "object")
    BY <1>1, PointerIs DEF IsTable
  <2>2. \A k : Get(Obj(native.array), k) \in Datum /\ Leads(Get(Obj(native.array), k))
    BY <2>1, <1>1, IsTableSeen
  <2>3. M!Get(AbsOf(heap, Obj(native.array)), native.done) = IdIn(heap, Get(Obj(native.array), native.done))
    BY <1>1, GetSeen
  <2> QED BY <2>2, <2>3, <1>1 DEF Element
<1>7. global \in Datum /\ Leads(global) /\ MachineState.global = IdIn(heap, global) /\ global \in Pointer
  BY Now, RootsLead, MachineParts DEF Datum
<1>8. (global \in Pointer => At(heap, global).id # NoId) /\ (Element \in Pointer => At(heap, Element).id # NoId)
  <2>1. Element \in Pointer => Own(heap, Element)
    BY <1>2, ElementIs
  <2>2. Own(heap, global)
    BY <1>2 DEF Calm, RootsIn
  <2> QED BY <2>1, <2>2 DEF Own
<1>9. PICK i, j : i = IdIn(heap, global) /\ j = IdIn(heap, Element)
  OBVIOUS
<1>10. AbsOf(heap, y).fields = M!CallbackArguments(i, j)
  <2>1. Shown(heap, CallbackArguments(global, Element)) = CallbackArguments(i, j)
    BY <1>6, <1>7, <1>8, <1>9, ArgumentsSeen
  <2>2. AbsOf(heap, y).fields = Shown(heap, y.fields)
    BY DEF AbsOf, FieldsOf, Shown
  <2>3. y.fields = CallbackArguments(global, Element)
    BY <1>3
  <2> QED BY <2>1, <2>2, <2>3, SameNotions
<1>11. PICK frame : frame = NewFrame(x, y, 1)
  OBVIOUS
<1>12. 1 \in Reg
  BY FramesAssumption DEF Reg
<1>13. FrameOf(heap, frame) = M!NewFrame(AbsOf(heap, x), [fields |-> M!CallbackArguments(i, j)], 1)
  <2>1. M!NewFrame(AbsOf(heap, x), AbsOf(heap, y), 1) = FrameOf(heap, NewFrame(x, y, 1))
    BY <1>4, <1>5, <1>12, FrameSeen
  <2>2. PICK A, B, F : A = AbsOf(heap, y) /\ B = [fields |-> M!CallbackArguments(i, j)] /\ F = AbsOf(heap, x)
    OBVIOUS
  <2>3. A.fields = B.fields
    BY <2>2, <1>10
  <2>4. M!NewFrame(F, A, 1) = M!NewFrame(F, B, 1)
    BY <2>3, FrameFields
  <2> QED BY <2>1, <2>2, <2>4, <1>11
<1>14. \A k : Get(y, k) \in Datum /\ Leads(Get(y, k))
  <2> TAKE k
  <2>1. Get(y, k) \in Datum /\ (Get(y, k) \in Pointer => Get(y, k) \in PtrsOf(y))
    BY <1>5, GetIs
  <2>2. \A v \in PtrsOf(y) : v \in {global, Element}
    <3>1. LET f == CallbackArguments(global, Element) IN f \in Fields /\ {f[n] : n \in DOMAIN f} \subseteq {global, Element}
      BY <1>6, <1>7, CallbackArgumentsAre, Zenon
    <3>2. PICK f : f = CallbackArguments(global, Element)
      OBVIOUS
    <3>3. {f[n] : n \in DOMAIN f} \subseteq {global, Element} /\ y.fields = f
      BY <3>1, <3>2, <1>3
    <3> QED BY <3>3 DEF PtrsOf
  <2>3. CASE Get(y, k) \in Pointer
    BY <2>1, <2>2, <2>3, <1>6, <1>7
  <2>4. CASE Get(y, k) \notin Pointer
    BY <2>1, <2>4 DEF Leads
  <2> QED BY <2>3, <2>4
<1>15. frame \in FrameType /\ \A r \in Reg : frame.regs[r] \in Datum /\ Leads(frame.regs[r])
  <2>1. frame.rd = 1
        /\ \A r \in Reg : frame.regs[r] = (IF r \in DOMAIN x.fields THEN x.fields[r]
                                           ELSE IF r <= Arguments + 1 THEN Get(y, r - 1) ELSE Undefined)
    BY <1>11 DEF NewFrame
  <2>2. \A r \in DOMAIN x.fields : x.fields[r] = Get(x, r)
    BY DEF Get
  <2>3. ASSUME NEW r \in Reg PROVE frame.regs[r] \in Datum /\ Leads(frame.regs[r])
    <3>1. CASE r \in DOMAIN x.fields
      BY <2>1, <2>2, <3>1, <1>4
    <3>2. CASE r \notin DOMAIN x.fields /\ r <= Arguments + 1
      <4>1. PICK k : k = r - 1
        OBVIOUS
      <4>2. frame.regs[r] = Get(y, k)
        BY <2>1, <3>2, <4>1
      <4> QED BY <4>2, <1>14
    <3>3. CASE r \notin DOMAIN x.fields /\ ~(r <= Arguments + 1)
      BY <2>1, <3>3, NoPointer
    <3> QED BY <3>1, <3>2, <3>3
  <2>4. frame.regs = [r \in Reg |-> frame.regs[r]] /\ frame = [regs |-> frame.regs, rd |-> frame.rd]
    BY <1>11 DEF NewFrame
  <2> QED BY <2>1, <2>3, <2>4, <1>12 DEF FrameType
<1>16. PICK caller : caller = [native EXCEPT !.done = @ + 1]
  OBVIOUS
<1>17. /\ caller \in CallType /\ caller.fn = native.fn /\ caller.rd = native.rd
       /\ caller.array = native.array /\ caller.callback = native.callback /\ caller.done = native.done + 1
  BY <1>2, <1>16 DEF CallType
<1>18. PushScene(frame, caller)
  BY <1>3, <1>11, <1>16 DEF SceneServed
<1>19. M!Changed(MachineState, MachineState', M!Entered(MachineState, FrameOf(heap, frame), CallOf(heap, caller)),
                 M!NoCall, MachineState.objects) /\ Faithful'
  <2>1. \A r \in Reg : Leads(frame.regs[r])
    BY <1>15
  <2>2. Leads(caller.array) /\ Leads(caller.callback)
    BY <1>1, <1>17
  <2> QED BY <2>1, <2>2, <1>15, <1>17, <1>18, PushSeen
<1>20. CallOf(heap, caller) = [MachineState.native EXCEPT !.done = @ + 1]
  <2>1. MachineState.native = CallOf(heap, native)
    BY MachineParts
  <2>2. PICK a, b : a = IdIn(heap, native.array) /\ b = IdIn(heap, native.callback)
    OBVIOUS
  <2>3. MachineState.native = [fn |-> native.fn, rd |-> native.rd, array |-> a, callback |-> b, done |-> native.done]
    BY <2>1, <2>2 DEF CallOf
  <2>4. CallOf(heap, caller) = [fn |-> native.fn, rd |-> native.rd, array |-> a, callback |-> b, done |-> native.done + 1]
    BY <2>2, <1>17 DEF CallOf
  <2> QED BY <2>3, <2>4
<1>21. MachineState.objects[MachineState.native.callback] = AbsOf(heap, x)
  BY <1>1, <1>3, <1>4
<1>22. M!CallbackArguments(MachineState.global, M!Get(M!Elements(MachineState), MachineState.native.done)) = M!CallbackArguments(i, j)
  BY <1>1, <1>6, <1>7, <1>9
<1>23. PICK w : w = M!CallbackArguments(i, j)
  OBVIOUS
<1>24. M!Changed(MachineState, MachineState',
                 M!Entered(MachineState, M!NewFrame(AbsOf(heap, x), [fields |-> w], 1), [MachineState.native EXCEPT !.done = @ + 1]),
                 M!NoCall, MachineState.objects)
  BY <1>13, <1>19, <1>20, <1>23
<1>25. MachineState.native.done < M!Cardinality(DOMAIN M!Elements(MachineState).fields)
  BY <1>1
<1>26. M!ForeachNext(MachineState, MachineState')
  <2>1. PICK F : F = AbsOf(heap, x)
    OBVIOUS
  <2> QED BY <2>1, <1>1, <1>21, <1>22, <1>23, <1>24, <1>25 DEF M!ForeachNext
<1> QED BY <1>19, <1>26

------------------------------------------------------------------------------
(* Only the undefined value is shown as undefined. *)
LEMMA UndefinedSeen ==
  ASSUME NEW h, NEW w \in Datum, w \in Pointer => At(h, w).id # NoId
  PROVE  w = Undefined <=> IdIn(h, w) = Undefined
<1>1. PICK j : j = IdIn(h, w)
  OBVIOUS
<1>2. CASE w \in Pointer
  <2>1. j = At(h, w).id /\ w # Undefined
    BY <1>1, <1>2, IdInIs, PointerIs
  <2> QED BY <1>1, <2>1, <1>2 DEF NoId
<1>3. CASE w \notin Pointer
  BY <1>1, <1>3, IdInIs
<1> QED BY <1>2, <1>3

(* What a closure captures. *)
Captures(regs, source) ==
  [r \in {x \in DOMAIN source : regs[source[x]] # Undefined} |-> regs[source[r]]]
CapturesIn(regs, S, source, f) ==
  /\ f \in Fields /\ \A r \in DOMAIN f : \E x \in Reg : f[r] = regs[x]
  /\ DOMAIN f = {x \in S : regs[source[x]] # Undefined}
  /\ \A r \in DOMAIN f : f[r] = regs[source[r]] /\ source[r] \in Reg

(* What a closure captures: the registers that are defined. *)
LEMMA CapturesAre ==
  ASSUME NEW regs \in [Reg -> Datum], NEW S \in SUBSET Reg, NEW source \in [S -> Reg],
         NEW f, f = Captures(regs, source)
  PROVE  CapturesIn(regs, S, source, f)
<1> DEFINE H == {x \in S : regs[source[x]] # Undefined}
<1>1. f = [r \in H |-> regs[source[r]]]
  BY DEF Captures
<1>2. H \subseteq S /\ \A r \in H : regs[source[r]] \in Datum \ {Undefined}
  OBVIOUS
<1> HIDE DEF H
<1>3. f \in Fields
  <2>1. H \in SUBSET Nat /\ IsFiniteSet(H)
    <3>1. IsFiniteSet(Reg) /\ Reg \subseteq Nat
      <4>1. 1 \in Int /\ RegisterNr \in Int /\ 1 .. RegisterNr \subseteq Nat
        BY FramesAssumption
      <4> QED BY <4>1, FS_Interval DEF Reg
    <3> QED BY <3>1, <1>2, FS_Subset
  <2>2. f \in [H -> Datum \ {Undefined}]
    BY <1>1, <1>2
  <2> QED BY <2>1, <2>2, FieldsTyped
<1>4. DOMAIN f = H /\ \A r \in H : f[r] = regs[source[r]] /\ source[r] \in Reg
  BY <1>1, <1>2
<1> QED BY <1>3, <1>4 DEF H, CapturesIn

(* What a closure captures, in the machine. *)
LEMMA ClosureSeen ==
  ASSUME NEW h, NEW regs \in [Reg -> Datum], \A r \in Reg : regs[r] \in Pointer => At(h, regs[r]).id # NoId,
         NEW S \in SUBSET Reg, NEW source \in [S -> Reg], NEW f, f = Captures(regs, source)
  PROVE  Shown(h, f) = M!NewClosureOf(RegsOf(h, regs), source)
<1>1. PICK R, g : R = RegsOf(h, regs) /\ g = M!NewClosureOf(R, source)
  OBVIOUS
<1>2. \A x \in Reg : R[x] = IdIn(h, regs[x]) /\ (regs[x] = Undefined <=> R[x] = Undefined)
  <2> TAKE x \in Reg
  <2>1. PICK w : w = regs[x]
    OBVIOUS
  <2>2. w \in Datum /\ (w \in Pointer => At(h, w).id # NoId)
    BY <2>1
  <2>3. w = Undefined <=> IdIn(h, w) = Undefined
    BY <2>2, UndefinedSeen
  <2> QED BY <2>1, <2>3, <1>1 DEF RegsOf
<1> DEFINE H == {x \in S : regs[source[x]] # Undefined}
<1>3. DOMAIN f = H /\ \A r \in H : f[r] = regs[source[r]] /\ source[r] \in Reg
  <2>1. CapturesIn(regs, S, source, f)
    BY CapturesAre
  <2> QED BY <2>1 DEF CapturesIn
<1>4. g = [r \in H |-> R[source[r]]]
  <2>1. g = [r \in {x \in S : R[source[x]] # Undefined} |-> R[source[r]]]
    BY <1>1, SameNotions DEF M!NewClosureOf
  <2>2. {x \in S : R[source[x]] # Undefined} = H
    BY <1>2
  <2> QED BY <2>1, <2>2
<1> HIDE DEF H
<1>5. \A r \in H : IdIn(h, f[r]) = R[source[r]]
  BY <1>2, <1>3
<1>6. Shown(h, f) = g
  BY <1>3, <1>4, <1>5 DEF Shown
<1> QED BY <1>1, <1>6

(* The registers of the frame that runs. *)
RegsShown == M!Regs(MachineState) = RegsOf(heap, Regs) /\ Regs = scenes[1].frames[1].regs

(* The machine's registers are those of the code, now and after a step. *)
LEMMA RegsShownNow == ASSUME Inv, Solid PROVE RegsShown
BY MachineParts, FramesAre DEF RegsShown

(* The same, after a step. *)
LEMMA RegsShownNext == ASSUME Inv', Solid' PROVE RegsShown'
BY RegsShownNow, PTL

------------------------------------------------------------------------------
(* The object that was asked for. *)
LEMMA NewServedSeen ==
  ASSUME Inv, Solid, Faithful, Inv', Solid', native = NoCall, NewServed, pc # "gc"
  PROVE  M!New(MachineState, MachineState', pending.reg, pending.type, pending.captured) /\ Faithful'
<1>1. PICK d, type, source, id, q : /\ d = pending.reg /\ type = pending.type /\ source = pending.captured
                                    /\ id = NewId /\ q = Fresh
  OBVIOUS
<1>2. PICK regs : regs = SetOne(Regs, d, q)
  OBVIOUS
<1>3. PICK f : f = Captures(regs, source)
  OBVIOUS
<1>4. PICK o : o = NewObject(type, 1, f, id)
  OBVIOUS
<1>5. /\ pc = "alloc" /\ pending.op = "new" /\ Fits(pending.cap)
      /\ Allocate(o) /\ scenes' = WithRegs(regs) /\ Served
  BY <1>1, <1>2, <1>3, <1>4 DEF NewServed, SetOne, Captures
<1>6. Typed /\ Calm /\ global \in Pointer /\ native \in CallType /\ heap \in Heaps
  BY Now DEF Inv
<1>7. /\ d \in Reg /\ type \in {"object", "closure"} /\ pending.cap = 1 /\ pending \in RequestType
  <2>1. PendingIn(heap, global, scenes, native, pending) /\ pending \in RequestType
    BY <1>6 DEF Calm, Typed
  <2>2. pending.reg \in Reg /\ pending.type \in {"none", "object", "closure"}
    BY <2>1 DEF RequestType
  <2> QED BY <1>1, <1>5, <2>1, <2>2 DEF PendingIn
<1>8. PICK S \in SUBSET Reg : source \in [S -> Reg]
  BY <1>1, <1>7 DEF RequestType
<1>9. id \in Ids /\ id # NoId /\ \A p \in Visible : At(heap, p).id # id
  <2>1. used[current] < BlockSize
    BY <1>5, <1>6, <1>7, BlockSizeIs DEF Fits, Typed
  <2>2. NewId \in Ids /\ NewId # NoId /\ \A p \in Visible : Obj(p).id # NewId
    BY <2>1, <1>6, NewIdIs
  <2> QED BY <2>2, <1>1, Now
<1>10. q \in Pointer /\ q \in Datum /\ q # Undefined
  <2>1. NoFields \in Fields /\ NoId \in Ids \cup {NoId} /\ NewObject("object", 1, NoFields, NoId) \in Object
    BY NoFieldsIs, NewObjectIs
  <2>2. PICK x : x = NewObject("object", 1, NoFields, NoId)
    OBVIOUS
  <2>3. PICK k : k = Grown(heap, current, x)
    OBVIOUS
  <2>4. Fresh \in Pointer
    BY <1>6, <2>1, <2>2, <2>3, GrownKept
  <2> QED BY <1>1, <2>4, PointerIs DEF Datum
<1>11. Regs \in [Reg -> Datum] /\ \A r \in Reg : Leads(Regs[r])
  BY MachineParts, RootsLead
<1>12. HasOne(Regs, d, q, regs)
  <2>1. HasOne(Regs, d, q, SetOne(Regs, d, q))
    BY <1>7, <1>10, <1>11, SetOneIs
  <2> QED BY <2>1, <1>2
<1>13. regs \in [Reg -> Datum] /\ \A r \in Reg : regs[r] = IF r = d THEN q ELSE Regs[r]
  BY <1>12 DEF HasOne
<1>14. PICK k : k = heap'
  OBVIOUS
<1>15. f \in Fields /\ \A r \in DOMAIN f : \E x \in Reg : f[r] = regs[x]
  <2>1. CapturesIn(regs, S, source, f)
    BY <1>3, <1>8, <1>13, CapturesAre
  <2> QED BY <2>1 DEF CapturesIn
<1>16. o \in Object /\ o.type = type /\ o.cap = 1 /\ o.fields = f /\ o.fwd = Undefined /\ o.id = id
  BY <1>4, <1>7, <1>9, <1>15, NewObjectIs
<1>17. k = Grown(heap, current, o)
  <2>1. heap' = Allocated(o, q, o)
    BY <1>1, <1>5 DEF Allocate, AllocateAndSet
  <2>2. \A p, x : Allocated(o, Fresh, o) = Grown(heap, current, o)
    BY <1>6, <1>16, AllocatedIs
  <2> QED BY <2>1, <2>2, <1>1, <1>14
<1>18. /\ KeptHeap(heap, k) /\ \A p \in In(heap) : p \in In(k) /\ At(k, p) = At(heap, p)
       /\ q \in In(k) /\ q \notin In(heap) /\ At(k, q) = o
  BY <1>1, <1>6, <1>16, <1>17, GrownKept
<1>19. ~IsHeader(o)
  BY <1>7, <1>16 DEF IsHeader
<1>20. \A v \in Pointer : Leads(v) => At(k, v).id # NoId /\ At(k, v).id = At(heap, v).id
  <2> TAKE v \in Pointer
  <2> HAVE Leads(v)
  <2>1. At(heap', v).id = At(heap, v).id /\ Own(heap, v)
    <3>1. KeptHeap(heap, heap')
      BY <1>14, <1>18
    <3> QED BY <3>1, KeptEnds
  <2> QED BY <2>1, <1>14 DEF Own
<1>21. \A v \in PtrsOf(o) : v \in Pointer /\ (Leads(v) \/ v \in {q})
  BY <1>11, <1>13, <1>15, <1>16 DEF PtrsOf
<1>22. \A r \in Reg : regs[r] \in Pointer => At(k, regs[r]).id # NoId
  <2> TAKE r \in Reg
  <2>1. CASE r = d
    BY <2>1, <1>9, <1>13, <1>16, <1>18
  <2>2. CASE r # d
    BY <2>2, <1>11, <1>13, <1>20
  <2> QED BY <2>1, <2>2
<1>23. Shown(k, f) = M!NewClosureOf(RegsOf(k, regs), source)
  BY <1>3, <1>8, <1>13, <1>22, ClosureSeen
<1>24. Rewritten(scenes, scenes', {q}) /\ scenes'[1].frames[1].regs = regs
  <2>1. /\ Rewritten(scenes, WithRegs([Regs EXCEPT ![d] = q]), {q})
        /\ WithRegs([Regs EXCEPT ![d] = q])[1].frames[1].regs = [Regs EXCEPT ![d] = q]
    BY <1>6, <1>7, <1>10, RegsSet
  <2> QED BY <2>1, <1>2, <1>5 DEF SetOne
<1>25. PICK t : t = scenes'
  OBVIOUS
<1>26. t \in Scenes /\ global' = global /\ native' = native
  BY <1>5, <1>24, <1>25 DEF Served, Rewritten
<1>27. PICK X, O, m, n, R, a : /\ X = {q} /\ m = MachineState /\ n = MachineState' /\ R = RegsOf(k, regs)
                              /\ a = M!NewClosureOf(RegsOf(k, regs), source)
                              /\ O = [j \in DOMAIN MachineState.objects \cup {id} |->
                                       IF j = id THEN [type |-> type, fields |-> M!NewClosureOf(RegsOf(k, regs), source)]
                                       ELSE MachineState.objects[j]]
  OBVIOUS
<1>28. \A v : Root(global', scenes', native', v) => Leads(v) \/ v \in X
  <2>1. ASSUME NEW v, Root(global, t, native, v) PROVE Leads(v) \/ v \in X
    <3>1. Rewritten(scenes, t, X)
      BY <1>24, <1>25, <1>27
    <3>2. Root(global, scenes, native, v) \/ v \in X
      BY <2>1, <3>1, RewrittenRoot
    <3> QED BY <3>2, RootsLead
  <2> QED BY <2>1, <1>25, <1>26
<1>29. ASSUME NEW p \in Visible
       PROVE  /\ p \in In(heap) /\ p # q /\ At(k, p).id = At(heap, p).id /\ At(k, p).id # id
              /\ AbsOf(k, At(k, p)) = AbsOf(heap, At(heap, p)) /\ \A v \in PtrsOf(At(k, p)) : Leads(v)
  <2>1. p \in In(heap) /\ At(k, p) = At(heap, p)
    BY <1>18, VisibleIds
  <2>2. AbsOf(k, At(k, p)) = AbsOf(heap, At(heap, p)) /\ \A v \in PtrsOf(At(k, p)) : Leads(v)
    BY <2>1, <1>14, <1>18, KeptTable
  <2> QED BY <2>1, <2>2, <1>9, <1>18
<1>30. Closing(heap', global', scenes', native', Ends', Visible \cup X)
  <2>1. KeptHeap(heap, heap')
    BY <1>14, <1>18
  <2>2. \A p \in X : p \in In(heap') /\ ~IsHeader(At(heap', p))
    BY <1>14, <1>18, <1>19, <1>27
  <2>3. \A p \in Visible \cup X : \A v \in PtrsOf(At(heap', p)) : Leads(v) \/ v \in X
    BY <1>14, <1>18, <1>21, <1>27, <1>29
  <2> QED BY <2>1, <2>2, <2>3, <1>28, Growing
<1>31. m.objects = [j \in DOMAIN m.objects |-> m.objects[j]] /\ IsFiniteSet(DOMAIN m.objects) /\ DOMAIN m.objects \subseteq Ids
       /\ \A j \in DOMAIN m.objects : \E p \in Visible : At(heap, p).id = j
  <2>1. View(heap, global, scenes, native, m, Ends, Visible)
    BY <1>27, Now
  <2>2. Shows(heap, Visible, m.objects)
    BY <2>1 DEF View
  <2>3. IsFiniteSet(DOMAIN m.objects) /\ DOMAIN m.objects \subseteq Ids
    BY <2>1, ViewIds
  <2> QED BY <2>2, <2>3 DEF Shows
<1>32. id \notin DOMAIN m.objects
  BY <1>9, <1>31
<1>33. DOMAIN O = DOMAIN m.objects \cup {id} /\ O[id] = [type |-> type, fields |-> a]
       /\ \A j \in DOMAIN m.objects : O[j] = m.objects[j]
  BY <1>27, <1>32
<1>34. IsFiniteSet(DOMAIN O) /\ DOMAIN O \subseteq Ids
  <2>1. PICK T : T = DOMAIN m.objects
    OBVIOUS
  <2>2. IsFiniteSet(T \cup {id})
    BY <2>1, <1>31, FS_AddElement
  <2> QED BY <2>1, <2>2, <1>9, <1>31, <1>33
<1>35. Pictures(k, Visible \cup X, O) /\ DistinctIn(k, Visible \cup X)
  <2>1. AbsOf(k, o) = [type |-> type, fields |-> a]
    BY <1>16, <1>23, <1>27 DEF AbsOf, FieldsOf, Shown
  <2>2. \A p \in Visible : At(heap, p).id \in DOMAIN m.objects /\ m.objects[At(heap, p).id] = AbsOf(heap, At(heap, p))
    BY <1>27 DEF Faithful, Pictures
  <2>3. ASSUME NEW p \in Visible \cup X
        PROVE  At(k, p).id \in DOMAIN O /\ O[At(k, p).id] = AbsOf(k, At(k, p))
    <3>1. CASE p = q
      <4>1. At(k, p) = o /\ o.id = id
        BY <3>1, <1>16, <1>18
      <4> QED BY <4>1, <2>1, <1>33
    <3>2. CASE p \in Visible
      BY <3>2, <2>2, <1>29, <1>33
    <3> QED BY <2>3, <3>1, <3>2, <1>27
  <2>4. DistinctIn(k, Visible \cup X)
    <3>1. At(k, q).id = id
      BY <1>16, <1>18
    <3>2. DistinctIn(k, Visible)
      BY <1>29 DEF Faithful, DistinctIn
    <3> QED BY <3>1, <3>2, <1>27, <1>29 DEF DistinctIn
  <2> QED BY <2>3, <2>4 DEF Pictures
<1>36. ScenesOf(k, scenes) = ScenesOf(heap, scenes) /\ IdIn(k, global) = IdIn(heap, global)
       /\ CallOf(k, native) = CallOf(heap, native)
  <2>1. AllLead(global, scenes, native) /\ scenes \in Scenes
    BY AllLeadNow, MachineParts
  <2>2. KeptHeap(heap, heap')
    BY <1>14, <1>18
  <2> QED BY <2>1, <2>2, <1>6, <1>14, KeptScenes
<1>37. M!Changed(m, n, ScenesOf(k, t), CallOf(k, native), O) /\ Faithful'
  <2>1. IdIn(heap', global') = IdIn(heap, global)
    BY <1>14, <1>26, <1>36
  <2>2. Pictures(heap', Visible \cup X, O) /\ DistinctIn(heap', Visible \cup X)
    BY <1>14, <1>35
  <2>3. M!Changed(MachineState, MachineState', ScenesOf(heap', scenes'), CallOf(heap', native'), O) /\ Faithful'
    BY <2>1, <2>2, <1>30, <1>34, GrowingStep
  <2> QED BY <2>3, <1>14, <1>25, <1>26, <1>27
<1>38. R = SetOne(M!Regs(m), d, id) /\ R[d] = id
  <2>1. RegsOf(k, Regs) = RegsOf(heap, Regs)
    <3>1. ASSUME NEW r \in Reg PROVE IdIn(k, Regs[r]) = IdIn(heap, Regs[r])
      <4>1. PICK v : v = Regs[r]
        OBVIOUS
      <4>2. v \in Datum /\ Leads(v)
        BY <4>1, <1>11
      <4> QED BY <4>1, <4>2, <1>20, IdInIs
    <3> QED BY <3>1 DEF RegsOf
  <2>2. IdIn(k, q) = id
    BY <1>10, <1>16, <1>18, IdInIs
  <2>3. RegsOf(k, SetOne(Regs, d, q)) = SetOne(RegsOf(k, Regs), d, IdIn(k, q))
    BY <1>7, <1>10, <1>11, SetOneIs
  <2>4. R = SetOne(RegsOf(heap, Regs), d, id)
    BY <2>1, <2>2, <2>3, <1>2, <1>27
  <2>5. R[d] = id
    BY <2>4, <1>7 DEF SetOne, RegsOf
  <2>6. M!Regs(m) = RegsOf(heap, Regs)
    BY <1>27, MachineParts
  <2> QED BY <2>4, <2>5, <2>6
<1>39. ScenesOf(k, t) = M!WithRegs(m, R)
  <2>1. t = TopRegs(scenes, regs) /\ scenes \in Scenes
    BY <1>5, <1>25, MachineParts
  <2>2. ScenesOf(k, TopRegs(scenes, regs)) = TopRegs(ScenesOf(k, scenes), RegsOf(k, regs))
    BY <2>1, <1>13, TopRegsOf
  <2>3. M!WithRegs(m, R) = TopRegs(ScenesOf(heap, scenes), R)
    BY <1>27, MachineParts
  <2> QED BY <2>1, <2>2, <2>3, <1>27, <1>36
<1>40. M!Regs(n) = R
  <2>1. M!Regs(MachineState') = RegsOf(heap', Regs') /\ Regs' = scenes'[1].frames[1].regs
    BY RegsShownNext DEF RegsShown
  <2> QED BY <2>1, <1>14, <1>24, <1>27
<1>41. CallOf(k, native) = M!NoCall /\ m.native = M!NoCall
  BY <1>27, <1>36, MachineParts, CallOfNone, SameNotions
<1>42. M!Step(m, n, M!WithRegs(m, R), O)
  BY <1>37, <1>39, <1>41 DEF M!Step
<1>43. M!New(m, n, d, type, source)
  <2>1. M!Regs(n)[d] = id /\ [M!Regs(m) EXCEPT ![d] = id] = R
    BY <1>38, <1>40 DEF SetOne
  <2>2. id \in Ids \ DOMAIN m.objects
    BY <1>9, <1>32
  <2>3. O = [j \in DOMAIN m.objects \cup {id} |->
              IF j = id THEN [type |-> type, fields |-> M!NewClosureOf(R, source)] ELSE m.objects[j]]
    BY <1>27
  <2> QED BY <2>1, <2>2, <2>3, <1>42 DEF M!New
<1> QED BY <1>1, <1>27, <1>37, <1>43

------------------------------------------------------------------------------
(* What has an identity is what it was; the scenes have the frames they had. *)
SameTables(h, k) == \A p \in In(h) : At(h, p).id # NoId => p \in In(k) /\ At(k, p) = At(h, p)
SameFrames(scs, t) ==
  /\ t \in Scenes /\ Len(t) = Len(scs)
  /\ \A s \in 1 .. Len(scs) : t[s].frames = scs[s].frames /\ t[s].caller = scs[s].caller

(* A step that allocates for C code only. *)
LEMMA SameStep ==
  ASSUME Inv, Solid, Faithful, Inv', Solid', SameTables(heap, heap'), SameFrames(scenes, scenes'),
         global' = global, native' = native
  PROVE  MachineState' = MachineState /\ Faithful'
<1>1. KeptHeap(heap, heap')
  BY DEF SameTables, KeptHeap
<1>2. \A p \in Visible : At(heap', p).fields = At(heap, p).fields
  BY VisibleIds DEF SameTables
<1>3. PICK t : t = scenes'
  OBVIOUS
<1>4. t \in Scenes /\ Len(t) = Len(scenes)
      /\ \A s \in 1 .. Len(scenes) : t[s].frames = scenes[s].frames /\ t[s].caller = scenes[s].caller
  BY <1>3 DEF SameFrames
<1>5. \A v : Root(global, t, native, v) => Root(global, scenes, native, v)
  <2>1. CallsOf(native, t) = CallsOf(native, scenes)
    BY <1>4 DEF CallsOf
  <2>2. \A s \in 1 .. Len(t) : HeldBy(t[s]) = HeldBy(scenes[s])
    BY <1>4 DEF HeldBy
  <2> QED BY <2>1, <2>2, <1>4 DEF Root
<1>6. AllLead(global, t, native)
  BY <1>5, AllLeadNow DEF AllLead
<1>7. ScenesOf(heap, t) = ScenesOf(heap, scenes)
  BY <1>4 DEF ScenesOf, SceneOf
<1>8. native' \in CallType /\ scenes' \in Scenes /\ AllLead(global, scenes', native')
  BY <1>3, <1>4, <1>6, Now
<1>9. Faithful' /\ ((ScenesOf(heap, scenes') = ScenesOf(heap, scenes) /\ native' = native) => MachineState' = MachineState)
  BY <1>1, <1>2, <1>8, KeptStep
<1> QED BY <1>3, <1>7, <1>9

(* Every table has a capacity. *)
SolidHeap(h) == \A p \in In(h) : At(h, p).type \in {"object", "closure"} => At(h, p).cap >= 1

(* Solid, as a fact of the heap and of what is pending. *)
LEMMA SolidIs ==
  /\ Solid <=> SolidHeap(heap) /\ (pending.op # "none" => pending.cap >= 1)
  /\ Solid' <=> SolidHeap(heap') /\ (pending'.op # "none" => pending'.cap >= 1)
<1>1. \A p : At(heap, p) = Obj(p) /\ At(heap', p) = Obj(p)'
  BY DEF At, Obj
<1>2. Places = In(heap) /\ Places' = In(heap')
  BY DEF Places
<1>3. Solid <=> SolidHeap(heap) /\ (pending.op # "none" => pending.cap >= 1)
  BY <1>1, <1>2 DEF Solid, SolidHeap
<1>4. Solid' <=> SolidHeap(heap') /\ (pending'.op # "none" => pending'.cap >= 1)
  BY <1>1, <1>2 DEF Solid, SolidHeap
<1> QED BY <1>3, <1>4

(* What foreach walks through while it allocates: an array with elements left; *)
(* the arguments are those of the next call.                                  *)
Serving ==
  pc # "gc" /\ pending.op \in {"cb_arg", "external", "scene"} =>
    /\ Obj(native.array).type = "object" /\ native.done < Count(Obj(native.array))
    /\ pending.op = "external" => Obj(pending.args).id = NoId
    /\ pending.op = "scene" => Obj(pending.args).fields = CallbackArguments(global, Element)

(* A foreach that goes on while the tables keep their places and fields. *)
LEMMA ServingKept ==
  ASSUME Typed, Calm, native.fn = "foreach", SameTables(heap, heap'), native' = native, global' = global,
         Obj(native.array).type = "object", native.done < Count(Obj(native.array)),
         pending'.op = "external" => At(heap', pending'.args).id = NoId,
         pending'.op = "scene" => At(heap', pending'.args).fields = CallbackArguments(global, Element)
  PROVE  Serving'
<1>1. PICK x, o, n : x = native.array /\ o = Obj(native.array) /\ n = native.done
  OBVIOUS
<1>2. Own(heap, x)
  BY <1>1, NativeIs DEF CallsIn
<1>3. At(heap', x) = o
  BY <1>1, <1>2 DEF SameTables, Own, At, Obj
<1>4. Obj(native.array)' = o /\ (native.done)' = n
  BY <1>1, <1>3 DEF Obj, At
<1>5. Element' = Element
  BY <1>1, <1>4 DEF Element
<1>6. Obj(pending.args)' = At(heap', pending'.args)
  BY DEF Obj, At
<1>7. Count(Obj(native.array))' = Count(o)
  BY <1>4 DEF Count
<1> QED BY <1>1, <1>4, <1>5, <1>6, <1>7 DEF Serving

(* The arguments are filled in. *)
LEMMA PassedHeap ==
  ASSUME NEW h \in Heaps, NEW p \in In(h), PassArguments(h, p), Typed, Calm, native.fn = "foreach"
  PROVE  /\ In(heap') = In(h) /\ \A x \in In(h) : x # p => At(heap', x) = At(h, x)
         /\ At(heap', p).fields = CallbackArguments(global, Element) /\ At(heap', p).id = At(h, p).id
         /\ At(heap', p).type = At(h, p).type /\ At(heap', p).cap = At(h, p).cap
         /\ pc' = "alloc" /\ pending'.op = "scene" /\ pending'.args = p /\ pending'.cap = 1
<1>1. PICK f : f = CallbackArguments(global, Element)
  OBVIOUS
<1>2. f \in Fields
  <2>1. Element \in Datum /\ global \in Datum
    BY ElementIs DEF Typed, Datum
  <2>2. LET g == CallbackArguments(global, Element) IN g \in Fields /\ {g[i] : i \in DOMAIN g} \subseteq {global, Element}
    BY <2>1, CallbackArgumentsAre, Zenon
  <2> QED BY <1>1, <2>2
<1>3. PICK o : o = [At(h, p) EXCEPT !.fields = f]
  OBVIOUS
<1>4. At(h, p) \in Object
  <2>1. p[1] \in {0, 1} /\ p[2] \in Nat \ {0} /\ p[2] <= Len(h[p[1]])
    BY PointerIs DEF In
  <2>2. h[p[1]] \in Seq(Object) /\ Len(h[p[1]]) \in Nat
    BY <2>1, LenProperties DEF Heaps
  <2>3. p[2] \in 1 .. Len(h[p[1]])
    BY <2>1, <2>2
  <2> QED BY <2>2, <2>3, ElementOfSeq DEF At
<1>5. o \in Object /\ o.fields = f /\ o.id = At(h, p).id /\ o.type = At(h, p).type /\ o.cap = At(h, p).cap
  BY <1>2, <1>3, <1>4 DEF Object
<1>6. heap' = Store(h, p, o) /\ Issue(RequestScene("scene", native.rd, p))
  BY <1>1, <1>3 DEF PassArguments, Store, At, Element
<1>7. pc' = "alloc" /\ pending'.op = "scene" /\ pending'.args = p /\ pending'.cap = 1
  BY <1>6 DEF Issue, RequestScene, Request
<1>8. In(Store(h, p, o)) = In(h) /\ \A x \in In(h) : At(Store(h, p, o), x) = IF x = p THEN o ELSE At(h, x)
  BY <1>5, StoreIs
<1> QED BY <1>1, <1>5, <1>6, <1>7, <1>8

------------------------------------------------------------------------------
(* cvm_create_array in the loop of foreach: a table without an identity, and an *)
(* element more in the external array.                                          *)
LEMMA CbArgHeap ==
  ASSUME Inv, Solid, Serving, CbArgServed
  PROVE  SameTables(heap, heap') /\ SameFrames(scenes, scenes') /\ Serving' /\ Solid'
         /\ global' = global /\ native' = native
<1>1. pc = "alloc" /\ pending.op = "cb_arg" /\ Typed /\ Calm /\ heap \in Heaps
  BY Now DEF CbArgServed, Inv
<1>2. native.fn = "foreach" /\ Obj(native.array).type = "object" /\ native.done < Count(Obj(native.array))
  <2>1. PendingIn(heap, global, scenes, native, pending)
    BY <1>1 DEF Calm
  <2> QED BY <1>1, <2>1 DEF PendingIn, Serving
<1>3. PICK t, k, e, f, external, created, q :
        /\ t = NewTable(1, NoFields) /\ k = Grown(heap, current, t) /\ e = Scene.external /\ q = Fresh
        /\ f = Put(Obj(Scene.external).fields, Count(Obj(Scene.external)), Fresh)
        /\ external = [Obj(Scene.external) EXCEPT !.fields = Put(@, Count(Obj(Scene.external)), Fresh)]
        /\ created = Allocated(NewTable(1, NoFields), Scene.external,
                               [Obj(Scene.external) EXCEPT !.fields = Put(@, Count(Obj(Scene.external)), Fresh)])
  OBVIOUS
<1>4. /\ IF NeedExpand(external)
         THEN /\ heap' = created
              /\ Issue([Request("external", "object", 2 * external.cap, native.rd, NoFields) EXCEPT !.args = q])
         ELSE PassArguments(created, q)
      /\ global' = global /\ scenes' = scenes /\ native' = native
  BY <1>3 DEF CbArgServed
<1>5. /\ t \in Object /\ t.id = NoId /\ created = Store(k, e, external)
      /\ In(k) = In(heap) \cup {q} /\ q \notin In(heap) /\ q \in Pointer /\ At(k, q) = t
      /\ \A x \in In(heap) : At(k, x) = At(heap, x)
  BY <1>1, <1>3, TableIs
<1>6. k \in Heaps
  BY <1>1, <1>3, <1>5, AllocatedIs DEF GrowsTo
<1>7. /\ e \in Pointer /\ e \in In(heap) /\ At(heap, e).id = NoId /\ Obj(e) = At(heap, e) /\ Obj(e) \in Object
      /\ Obj(e).cap >= 1
  <2>1. 1 \in 1 .. Len(scenes) /\ e = scenes[1].external
    BY <1>1, <1>3, TopIs, SceneIs
  <2>2. e \in Pointer /\ e \in Places /\ Obj(e).id = NoId /\ Obj(e).type # "redirect"
    BY <1>1, <2>1, ExternalsAre
  <2>3. Obj(e) \in Object
    BY <2>2, <1>1, ObjTyped
  <2>4. Obj(e).type \in {"object", "closure"}
    BY <2>2, <2>3, <1>1, CalmIs, ObjectIs
  <2>5. Obj(e).cap >= 1
    BY <2>2, <2>4 DEF Solid
  <2> QED BY <2>2, <2>3, <2>5 DEF Places, At, Obj
<1>8. f \in Fields
  <2>1. PICK of, n : of = Obj(e).fields /\ n = Count(Obj(e))
    OBVIOUS
  <2>2. of \in Fields /\ n \in Nat /\ q \in Datum
    <3>1. IsFiniteSet(DOMAIN Obj(e).fields)
      BY <1>7, ObjectIs
    <3>2. Cardinality(DOMAIN Obj(e).fields) \in Nat
      BY <3>1, FS_CardinalityType
    <3> QED BY <1>5, <1>7, <2>1, <3>2 DEF Object, Datum, Count
  <2>3. Put(of, n, q) \in Fields /\ {Put(of, n, q)[i] : i \in DOMAIN Put(of, n, q)} \subseteq {q} \cup {of[i] : i \in DOMAIN of}
    BY <2>2, PutIs, Zenon
  <2> QED BY <1>3, <2>1, <2>3
<1>9. external \in Object /\ external.id = NoId /\ external.cap = Obj(e).cap
  <2>1. external = [Obj(e) EXCEPT !.fields = f]
    BY <1>3
  <2> QED BY <1>7, <1>8, <2>1 DEF Object
<1>10. /\ created \in Heaps /\ In(created) = In(k)
       /\ \A x \in In(k) : At(created, x) = IF x = e THEN external ELSE At(k, x)
  <2>1. e \in In(k)
    BY <1>5, <1>7
  <2>2. /\ Store(k, e, external) \in Heaps /\ In(Store(k, e, external)) = In(k)
        /\ \A x \in In(k) : At(Store(k, e, external), x) = IF x = e THEN external ELSE At(k, x)
    BY <2>1, <1>6, <1>9, StoreIs
  <2> QED BY <2>2, <1>5
<1>11. SameTables(heap, created) /\ q \in In(created) /\ At(created, q).id = NoId
  BY <1>5, <1>7, <1>10 DEF SameTables
<1>12. SameFrames(scenes, scenes')
  BY <1>4, Now DEF SameFrames
<1>17. SolidHeap(created)
  <2>1. t.cap = 1
    BY <1>3 DEF NewTable, NewObject
  <2>2. ASSUME NEW x \in In(created), At(created, x).type \in {"object", "closure"} PROVE At(created, x).cap >= 1
    <3>1. CASE x = e
      BY <3>1, <1>5, <1>7, <1>9, <1>10
    <3>2. CASE x = q /\ x # e
      BY <3>2, <2>1, <1>5, <1>10
    <3>3. CASE x # q /\ x # e
      <4>1. x \in In(heap) /\ At(created, x) = At(heap, x)
        BY <3>3, <1>5, <1>10
      <4> QED BY <4>1, <2>2, SolidIs DEF SolidHeap
    <3> QED BY <3>1, <3>2, <3>3
  <2> QED BY <2>2 DEF SolidHeap
<1>13. CASE NeedExpand(external)
  <2>1. heap' = created /\ pending'.op = "external" /\ pending'.args = q /\ pending'.cap = 2 * external.cap
    BY <1>4, <1>13 DEF Issue, Request
  <2>2. pending'.cap >= 1
    <3>1. external.cap \in Nat /\ external.cap >= 1
      BY <1>7, <1>9 DEF Object
    <3> QED BY <2>1, <3>1
  <2>3. Serving'
    BY <2>1, <1>1, <1>2, <1>4, <1>11, ServingKept
  <2>4. Solid'
    BY <2>1, <2>2, <1>17, SolidIs
  <2> QED BY <2>1, <2>3, <2>4, <1>4, <1>11, <1>12
<1>14. CASE ~NeedExpand(external)
  <2>1. /\ In(heap') = In(created) /\ \A x \in In(created) : x # q => At(heap', x) = At(created, x)
        /\ At(heap', q).fields = CallbackArguments(global, Element)
        /\ At(heap', q).type = At(created, q).type /\ At(heap', q).cap = At(created, q).cap
        /\ pending'.op = "scene" /\ pending'.args = q /\ pending'.cap = 1
    BY <1>1, <1>2, <1>4, <1>10, <1>11, <1>14, PassedHeap
  <2>2. SameTables(heap, heap')
    BY <2>1, <1>5, <1>11 DEF SameTables
  <2>3. SolidHeap(heap')
    BY <2>1, <1>17 DEF SolidHeap
  <2>4. Serving'
    BY <2>1, <2>2, <1>1, <1>2, <1>4, ServingKept
  <2>5. Solid'
    BY <2>1, <2>3, SolidIs
  <2> QED BY <2>2, <2>4, <2>5, <1>4, <1>12
<1> QED BY <1>13, <1>14

(* The machine does not see it. *)
LEMMA CbArgServedSeen ==
  ASSUME Inv, Solid, Faithful, Inv', Serving, CbArgServed
  PROVE  MachineState' = MachineState /\ Faithful'
BY CbArgHeap, SameStep

(* The external array grows. *)
LEMMA ExternalHeap ==
  ASSUME Inv, Solid, Serving, ExternalServed
  PROVE  SameTables(heap, heap') /\ SameFrames(scenes, scenes') /\ Serving' /\ Solid'
         /\ global' = global /\ native' = native
<1>1. pc = "alloc" /\ pending.op = "external" /\ Typed /\ Calm /\ heap \in Heaps
  BY Now DEF ExternalServed, Inv
<1>2. /\ native.fn = "foreach" /\ Obj(native.array).type = "object" /\ native.done < Count(Obj(native.array))
      /\ pending.cap \in Nat /\ pending.cap >= 1 /\ pending.args \in In(heap) /\ At(heap, pending.args).id = NoId
  <2>1. PendingIn(heap, global, scenes, native, pending) /\ pending \in RequestType
    BY <1>1 DEF Calm, Typed
  <2>2. pending.cap >= 1
    BY <1>1 DEF Solid
  <2> QED BY <1>1, <2>1, <2>2 DEF PendingIn, Serving, RequestType, Obj, At
<1>3. PICK o, header, e, k, h, q, p :
        /\ e = Scene.external /\ q = Fresh /\ p = pending.args
        /\ o = NewTable(pending.cap, Obj(Scene.external).fields)
        /\ header = [NewTable(0, NoFields) EXCEPT !.type = "redirect", !.fwd = Fresh]
        /\ k = Grown(heap, current, NewTable(pending.cap, Obj(Scene.external).fields))
        /\ h = Allocated(NewTable(pending.cap, Obj(Scene.external).fields), Scene.external,
                         [NewTable(0, NoFields) EXCEPT !.type = "redirect", !.fwd = Fresh])
  OBVIOUS
<1>4. /\ PassArguments(h, p) /\ scenes' = [scenes EXCEPT ![1].external = q]
      /\ global' = global /\ native' = native
  BY <1>3 DEF ExternalServed
<1>5. /\ e \in Pointer /\ e \in In(heap) /\ At(heap, e).id = NoId /\ Obj(e) = At(heap, e) /\ Obj(e) \in Object
      /\ 1 \in 1 .. Len(scenes) /\ scenes \in Scenes /\ scenes[1] \in SceneType
  <2>1. 1 \in 1 .. Len(scenes) /\ e = scenes[1].external /\ scenes \in Scenes /\ scenes[1] \in SceneType
    BY <1>1, <1>3, TopIs, SceneIs
  <2>2. e \in Pointer /\ e \in Places /\ Obj(e).id = NoId
    BY <1>1, <2>1, ExternalsAre
  <2> QED BY <2>1, <2>2, <1>1, ObjTyped DEF Places, At, Obj
<1>6. o \in Object /\ o.cap = pending.cap
  <2>1. Obj(e).fields \in Fields /\ NoId \in Ids \cup {NoId}
    BY <1>5 DEF Object
  <2>2. NewObject("object", pending.cap, Obj(e).fields, NoId) \in Object
    BY <1>2, <2>1, NewObjectIs
  <2>3. o.cap = pending.cap
    BY <1>3 DEF NewTable, NewObject
  <2> QED BY <2>2, <2>3, <1>3 DEF NewTable
<1>7. /\ \A x \in In(heap) : x \in In(k) /\ At(k, x) = At(heap, x)
      /\ q \in In(k) /\ k \in Heaps /\ q \in Pointer /\ In(k) = In(heap) \cup {q} /\ At(k, q) = o
  <2>1. k = Grown(heap, current, o)
    BY <1>3
  <2>2. In(k) = In(heap) \cup {q}
    BY <2>1, <1>1, <1>3, <1>6, AllocatedIs DEF GrowsTo
  <2> QED BY <2>1, <2>2, <1>1, <1>3, <1>6, GrownKept
<1>8. header \in Object /\ header.type = "redirect"
  BY <1>3, <1>7, NoFieldsIs DEF NewTable, NewObject, Object
<1>9. h = Store(k, e, header)
  <2>1. \A x, y : Allocated(o, x, y) = Store(Grown(heap, current, o), x, y)
    BY <1>1, <1>6, AllocatedIs
  <2> QED BY <2>1, <1>3
<1>10. h \in Heaps /\ In(h) = In(k) /\ \A x \in In(k) : At(h, x) = IF x = e THEN header ELSE At(k, x)
  <2>1. e \in In(k)
    BY <1>5, <1>7
  <2>2. /\ Store(k, e, header) \in Heaps /\ In(Store(k, e, header)) = In(k)
        /\ \A x \in In(k) : At(Store(k, e, header), x) = IF x = e THEN header ELSE At(k, x)
    BY <2>1, <1>7, <1>8, StoreIs
  <2> QED BY <2>2, <1>9
<1>11. /\ In(heap') = In(h) /\ \A x \in In(h) : x # p => At(heap', x) = At(h, x)
       /\ At(heap', p).fields = CallbackArguments(global, Element)
       /\ At(heap', p).type = At(h, p).type /\ At(heap', p).cap = At(h, p).cap
       /\ pending'.op = "scene" /\ pending'.args = p /\ pending'.cap = 1
  <2>1. p \in In(h)
    BY <1>2, <1>3, <1>7, <1>10
  <2> QED BY <2>1, <1>1, <1>2, <1>4, <1>10, PassedHeap
<1>12. SameTables(heap, heap')
  BY <1>2, <1>3, <1>5, <1>7, <1>10, <1>11 DEF SameTables
<1>13. SameFrames(scenes, scenes')
  <2>1. PICK top : top = [scenes[1] EXCEPT !.external = q]
    OBVIOUS
  <2>2. top \in SceneType /\ top.frames = scenes[1].frames /\ top.caller = scenes[1].caller
    BY <2>1, <1>5, <1>7 DEF SceneType
  <2>3. PICK r : r = [scenes EXCEPT ![1] = top]
    OBVIOUS
  <2>4. r \in Scenes /\ Len(r) = Len(scenes) /\ r[1] = top /\ \A s \in 1 .. Len(scenes) : s # 1 => r[s] = scenes[s]
    <3>1. /\ [scenes EXCEPT ![1] = top] \in Scenes /\ Len([scenes EXCEPT ![1] = top]) = Len(scenes)
          /\ [scenes EXCEPT ![1] = top][1] = top
          /\ \A s \in 1 .. Len(scenes) : s # 1 => [scenes EXCEPT ![1] = top][s] = scenes[s]
      BY <2>2, <1>5, FirstReplaced DEF Topped
    <3> QED BY <3>1, <2>3
  <2>5. scenes' = r
    BY <2>1, <2>3, <1>4
  <2> QED BY <2>2, <2>4, <2>5 DEF SameFrames
<1>14. SolidHeap(h)
  <2>1. ASSUME NEW x \in In(h), At(h, x).type \in {"object", "closure"} PROVE At(h, x).cap >= 1
    <3>1. x # e
      BY <2>1, <1>8, <1>10
    <3>2. CASE x = q
      BY <3>1, <3>2, <1>2, <1>6, <1>7, <1>10
    <3>3. CASE x # q
      <4>1. x \in In(heap) /\ At(h, x) = At(heap, x)
        BY <3>1, <3>3, <1>7, <1>10
      <4> QED BY <4>1, <2>1, SolidIs DEF SolidHeap
    <3> QED BY <3>2, <3>3
  <2> QED BY <2>1 DEF SolidHeap
<1>15. Solid'
  <2>1. SolidHeap(heap')
    BY <1>11, <1>14 DEF SolidHeap
  <2> QED BY <2>1, <1>11, SolidIs
<1>16. Serving'
  BY <1>1, <1>2, <1>4, <1>11, <1>12, ServingKept
<1> QED BY <1>4, <1>12, <1>13, <1>15, <1>16

(* The machine does not see it. *)
LEMMA ExternalServedSeen ==
  ASSUME Inv, Solid, Faithful, Inv', Serving, ExternalServed
  PROVE  MachineState' = MachineState /\ Faithful'
BY ExternalHeap, SameStep

------------------------------------------------------------------------------
(* A step after which every cell that scripts get at holds what it held: the  *)
(* machine does not see it.                                                   *)
LEMMA MovingStep ==
  ASSUME Inv, Solid, Faithful, Inv', Solid',
         Follows(heap, heap', Ends, Ends', global, global'),
         FollowsScenes(heap, heap', Ends, Ends', scenes, scenes'),
         FollowsCall(heap, heap', Ends, Ends', native, native'),
         \A p \in Visible : FollowsFields(heap, heap', Ends, Ends', At(heap, p), At(heap', Ends'[p]))
  PROVE  MachineState' = MachineState /\ Faithful'
<1>1. PICK h, g, scs, nat, m, D, V : /\ h = heap /\ g = global /\ scs = scenes /\ nat = native
                                     /\ m = MachineState /\ D = Ends /\ V = Visible
  OBVIOUS
<1>2. PICK k, f, t, c, n, E, U : /\ k = heap' /\ f = global' /\ t = scenes' /\ c = native'
                                 /\ n = MachineState' /\ E = Ends' /\ U = Visible'
  OBVIOUS
<1>3. View(h, g, scs, nat, m, D, V)
  BY <1>1, Now
<1>4. View(k, f, t, c, n, E, U)
  BY <1>2, Afterwards
<1>5. /\ Pictures(h, V, m.objects) /\ DistinctIn(h, V)
      /\ Follows(h, k, D, E, g, f) /\ FollowsScenes(h, k, D, E, scs, t) /\ FollowsCall(h, k, D, E, nat, c)
      /\ \A p \in V : FollowsFields(h, k, D, E, At(h, p), At(k, E[p]))
  BY <1>1, <1>2 DEF Faithful
<1>6. n = m /\ Pictures(k, U, n.objects) /\ (DistinctIn(h, V) => DistinctIn(k, U))
  BY <1>3, <1>4, <1>5, Moving
<1> QED BY <1>1, <1>2, <1>5, <1>6 DEF Faithful

(* Registers, calls and the global object that are left as they are hold what *)
(* they held when every pointer in them leads where it led.                   *)
LEMMA RootsFollow ==
  ASSUME NEW h, NEW k, NEW D, NEW E, NEW g \in Pointer, NEW scs \in Scenes, NEW nat \in CallType,
         \A v : Root(g, scs, nat, v) => Follows(h, k, D, E, v, v)
  PROVE  /\ Follows(h, k, D, E, g, g) /\ FollowsScenes(h, k, D, E, scs, scs)
         /\ FollowsCall(h, k, D, E, nat, nat)
<1>1. \A x : x \notin Pointer => Follows(h, k, D, E, x, x)
  BY DEF Follows
<1>2. Follows(h, k, D, E, g, g)
  BY DEF Root
<1>3. ASSUME NEW c \in CallsOf(nat, scs) PROVE FollowsCall(h, k, D, E, c, c)
  <2>1. \A v \in {c.array, c.callback} : v \in Pointer => Root(g, scs, nat, v)
    BY DEF Root
  <2> QED BY <2>1, <1>1 DEF FollowsCall
<1>4. ASSUME NEW s \in 1 .. Len(scs) PROVE FollowsScene(h, k, D, E, scs[s], scs[s])
  <2>1. FollowsCall(h, k, D, E, scs[s].caller, scs[s].caller)
    BY <1>3 DEF CallsOf
  <2>2. ASSUME NEW f \in 1 .. Len(scs[s].frames), NEW r \in Reg
        PROVE  Follows(h, k, D, E, scs[s].frames[f].regs[r], scs[s].frames[f].regs[r])
    <3>1. PICK x : x = scs[s].frames[f].regs[r]
      OBVIOUS
    <3>2. x \in Pointer => x \in HeldBy(scs[s])
      BY <3>1 DEF HeldBy
    <3>3. x \in Pointer => Root(g, scs, nat, x)
      BY <3>2 DEF Root
    <3> QED BY <3>1, <3>3, <1>1
  <2> QED BY <2>1, <2>2 DEF FollowsScene
<1>5. FollowsCall(h, k, D, E, nat, nat)
  BY <1>3 DEF CallsOf
<1> QED BY <1>2, <1>4, <1>5 DEF FollowsScenes

(* A collection starts: nothing points into the block that is made empty. *)
LEMMA StartGCSeen ==
  ASSUME Inv, Solid, Faithful, Inv', Solid', StartGC
  PROVE  MachineState' = MachineState /\ Faithful'
<1>1. pc = "alloc" /\ heap' = [heap EXCEPT ![1 - current] = <<>>] /\ UNCHANGED <<global, scenes, native>>
  BY DEF StartGC
<1>2. Calm /\ Typed
  BY <1>1, Now DEF Inv
<1>3. heap[1 - current] = <<>> /\ heap \in Heaps /\ current \in {0, 1}
  BY <1>2, Now DEF Calm, World, Other, Typed
<1>4. heap' = heap
  BY <1>1, <1>3 DEF Heaps
<1> QED BY <1>1, <1>4, IdleStep

(* A pointer to a table that is no header, before and after. *)
LEMMA FollowsItself ==
  ASSUME NEW h, NEW k, NEW D, NEW E, NEW v \in Pointer, At(k, v).id = At(h, v).id, D[v] = v
  PROVE  Follows(h, k, D, E, v, v)
BY DEF Follows

(* A collection ends: what scripts get at is in the copies. *)
LEMMA EndGCSeen ==
  ASSUME Inv, Solid, Faithful, Inv', Solid', EndGC
  PROVE  MachineState' = MachineState /\ Faithful'
<1>1. /\ pc = "gc" /\ UNCHANGED <<global, scenes, native>>
      /\ heap' = heap \/ heap' = [heap EXCEPT ![current] = <<>>]
  BY DEF EndGC
<1>2. CASE heap' = heap
  BY <1>1, <1>2, IdleStep
<1>3. CASE heap' = [heap EXCEPT ![current] = <<>>]
  <2>1. PICK h, g, scs, nat, m, D, V : /\ h = heap /\ g = global /\ scs = scenes /\ nat = native
                                       /\ m = MachineState /\ D = Ends /\ V = Visible
    OBVIOUS
  <2>2. PICK k, n, E, U : k = heap' /\ n = MachineState' /\ E = Ends' /\ U = Visible'
    OBVIOUS
  <2>3. View(h, g, scs, nat, m, D, V)
    BY <2>1, Now
  <2>4. View(k, g, scs, nat, n, E, U)
    BY <1>1, <2>1, <2>2, Afterwards
  <2>5. h \in Heaps /\ HeadersIn(current, h) /\ current \in {0, 1}
    BY <1>1, <2>1, Now DEF Inv, Busy, Copying
  <2>6. \A v \in In(k) : v \in In(h) /\ At(k, v) = At(h, v) /\ v[1] # current
    <3>1. k[current] = <<>> /\ Len(k[current]) = 0 /\ \A b \in {0, 1} : b # current => k[b] = h[b]
      BY <1>3, <2>1, <2>2, <2>5 DEF Heaps
    <3> TAKE v \in In(k)
    <3>2. v \in Pointer /\ v[1] \in {0, 1} /\ v[2] \in Nat \ {0} /\ v[2] <= Len(k[v[1]])
      BY PointerIs DEF In
    <3>3. v[1] # current
      BY <3>1, <3>2
    <3>4. k[v[1]] = h[v[1]]
      BY <3>1, <3>2, <3>3
    <3> QED BY <3>2, <3>3, <3>4 DEF In, At
  <2>7. \A v \in In(k) : D[v] = v /\ E[v] = v
    <3> TAKE v \in In(k)
    <3>1. ~IsHeader(At(h, v)) /\ ~IsHeader(At(k, v))
      BY <2>5, <2>6 DEF HeadersIn, IsHeader
    <3> QED BY <3>1, <2>3, <2>4, <2>6 DEF View, Denotes
  <2>8. \A v : Root(g, scs, nat, v) => v \in In(k)
    BY <2>4 DEF View, Own
  <2>9. V \subseteq In(k)
    <3>1. ASSUME NEW p \in In(k) \cap In(h), NEW v \in PtrsOf(At(h, p)) PROVE D[v] \in In(k)
      <4>1. v \in PtrsOf(At(k, p))
        BY <2>6
      <4>2. v \in In(k)
        BY <4>1, <2>4 DEF View, Linked
      <4> QED BY <4>2, <2>7
    <3>2. Closing(h, g, scs, nat, D, In(k))
      BY <3>1, <2>7, <2>8 DEF Closing
    <3> QED BY <3>2, <2>3 DEF View
  <2>10. \A v \in In(k) : Follows(h, k, D, E, v, v)
    <3> TAKE v \in In(k)
    <3>1. v \in Pointer
      BY DEF In
    <3> QED BY <3>1, <2>6, <2>7, FollowsItself
  <2>11. Follows(h, k, D, E, g, g) /\ FollowsScenes(h, k, D, E, scs, scs) /\ FollowsCall(h, k, D, E, nat, nat)
    <3>1. g \in Pointer /\ scs \in Scenes /\ nat \in CallType
      BY <2>3 DEF View
    <3> QED BY <3>1, <2>8, <2>10, RootsFollow
  <2>12. ASSUME NEW p \in V PROVE FollowsFields(h, k, D, E, At(h, p), At(k, E[p]))
    <3>1. p \in In(k) /\ E[p] = p /\ At(k, p) = At(h, p)
      BY <2>6, <2>7, <2>9
    <3>2. ASSUME NEW i \in DOMAIN At(h, p).fields
          PROVE  Follows(h, k, D, E, At(h, p).fields[i], At(h, p).fields[i])
      <4>1. PICK x : x = At(h, p).fields[i]
        OBVIOUS
      <4>2. x \in Pointer => x \in PtrsOf(At(k, p))
        BY <3>1, <4>1 DEF PtrsOf
      <4>3. x \in Pointer => x \in In(k)
        BY <4>2, <3>1, <2>4 DEF View, Linked
      <4>4. x \in Pointer => Follows(h, k, D, E, x, x)
        BY <4>3, <2>10
      <4>5. x \notin Pointer => Follows(h, k, D, E, x, x)
        BY DEF Follows
      <4> QED BY <4>1, <4>4, <4>5
    <3> QED BY <3>1, <3>2 DEF FollowsFields
  <2> QED BY <1>1, <2>1, <2>2, <2>11, <2>12, MovingStep
<1> QED BY <1>1, <1>2, <1>3

------------------------------------------------------------------------------
(* A register that is given what it holds. *)
LEMMA SameAt == ASSUME NEW S, NEW T, NEW f \in [S -> T], NEW a PROVE [f EXCEPT ![a] = f[a]] = f
OBVIOUS

(* The same, of a sequence. *)
LEMMA SameElement == ASSUME NEW T, NEW f \in Seq(T), NEW a PROVE [f EXCEPT ![a] = f[a]] = f
<1>1. f \in [1 .. Len(f) -> T]
  BY LenProperties
<1> QED BY <1>1, SameAt

(* A register that is given what it holds changes nothing. *)
LEMMA RegisterSame ==
  ASSUME Typed, NEW r \in Reg
  PROVE  WithRegs([Regs EXCEPT ![r] = Regs[r]]) = scenes
<1>1. PICK scs : scs = scenes
  OBVIOUS
<1>2. /\ scs \in Scenes /\ scs[1] \in SceneType /\ scs[1].frames[1] \in FrameType
      /\ Regs = scs[1].frames[1].regs /\ Regs \in [Reg -> Datum]
  BY <1>1, TopIs
<1>3. PICK regs : regs = [Regs EXCEPT ![r] = Regs[r]]
  OBVIOUS
<1>4. regs = scs[1].frames[1].regs
  BY <1>2, <1>3, SameAt
<1>5. [scs[1].frames[1] EXCEPT !.regs = regs] = scs[1].frames[1]
  BY <1>2, <1>4 DEF FrameType
<1>6. scs[1].frames \in Seq(FrameType)
  BY <1>2 DEF SceneType
<1>7. [scs[1].frames EXCEPT ![1] = scs[1].frames[1]] = scs[1].frames
  BY <1>6, SameElement
<1>8. [scs[1] EXCEPT !.frames = scs[1].frames] = scs[1]
  BY <1>2 DEF SceneType
<1>9. scs \in Seq(SceneType)
  BY <1>2 DEF Scenes
<1>10. [scs EXCEPT ![1] = scs[1]] = scs
  BY <1>9, SameElement
<1>11. [scs EXCEPT ![1].frames[1].regs = regs]
         = [scs EXCEPT ![1] = [scs[1] EXCEPT !.frames = [scs[1].frames EXCEPT ![1] = [scs[1].frames[1] EXCEPT !.regs = regs]]]]
  OBVIOUS
<1>12. [scs EXCEPT ![1].frames[1].regs = regs] = scs
  BY <1>5, <1>7, <1>8, <1>10, <1>11
<1> QED BY <1>1, <1>3, <1>12 DEF WithRegs

(* A table grows: the header in its place leads to the table that takes it. *)
LEMMA GrowServedSeen ==
  ASSUME Inv, Solid, Faithful, Inv', Solid', GrowServed,
         pending.type = "object", Obj(Regs[pending.reg]).type = "object"
  PROVE  MachineState' = MachineState /\ Faithful'
<1>1. pc = "alloc" /\ pending.op = "grow" /\ Served /\ Typed /\ Calm
  BY Now DEF GrowServed, Inv
<1>2. pending.reg \in Reg /\ pending.cap \in Nat /\ GrowingIn(heap, global, Regs[pending.reg])
  <2>1. PendingIn(heap, global, scenes, native, pending) /\ pending \in RequestType
    BY <1>1 DEF Calm, Typed
  <2> QED BY <1>1, <2>1, TopIs DEF PendingIn, RequestType
<1>3. PICK h, g, scs, nat, m, D, V, p : /\ h = heap /\ g = global /\ scs = scenes /\ nat = native
                                        /\ m = MachineState /\ D = Ends /\ V = Visible /\ p = Regs[pending.reg]
  OBVIOUS
<1>4. PICK k, n, E, U, q : k = heap' /\ n = MachineState' /\ E = Ends' /\ U = Visible' /\ q = Fresh
  OBVIOUS
<1>5. /\ p \in Pointer /\ Own(h, p) /\ p \in In(h) /\ At(h, p).id # NoId /\ At(h, p) \in Object
      /\ At(h, p).type = "object" /\ Resolve(Regs[pending.reg]) = p
  <2>1. p \in Pointer /\ At(h, p).type # "redirect"
    BY <1>2, <1>3 DEF GrowingIn
  <2>2. Own(heap, p)
    BY <1>1, <1>2, <1>3, <2>1, RootsOwned, TopIs
  <2>3. IsPtr(Regs[pending.reg]) /\ Obj(Regs[pending.reg]).type # "redirect"
    <3>1. Obj(Regs[pending.reg]) = At(h, p) /\ p \in Datum
      BY <1>1, <1>2, <1>3, TopIs DEF At, Obj
    <3> QED BY <3>1, <1>3, <2>1, PointerIs
  <2>4. Resolve(Regs[pending.reg]) = p
    BY <1>1, <1>2, <1>3, <2>1, <2>2, <2>3, ResolveOwned
  <2>5. p \in Places /\ At(heap, p) \in Object
    BY <2>2, <1>1, ObjTyped DEF Own, Places, At, Obj
  <2> QED BY <1>3, <2>1, <2>2, <2>4, <2>5 DEF Own, At, Obj
<1>6. PICK o, header, l : /\ o = NewObject(pending.type, pending.cap, At(h, p).fields, At(h, p).id)
                          /\ header = [NewObject("redirect", 0, NoFields, At(h, p).id) EXCEPT !.fwd = q]
                          /\ l = Grown(heap, current, o)
  OBVIOUS
<1>7. k = Allocated(o, p, header) /\ scenes' = WithRegs([Regs EXCEPT ![pending.reg] = p])
      /\ global' = g /\ native' = nat
  <2>1. Obj(p) = At(h, p)
    BY <1>3 DEF At, Obj
  <2> QED BY <2>1, <1>1, <1>3, <1>4, <1>5, <1>6 DEF GrowServed, AllocateAndSet, SetReg, Served
<1>8. scenes' = scs
  BY <1>1, <1>2, <1>3, <1>7, RegisterSame
<1>9. /\ o \in Object /\ o.type = At(h, p).type /\ o.fields = At(h, p).fields /\ o.id = At(h, p).id
  <2>1. At(h, p).fields \in Fields /\ At(h, p).id \in Ids \cup {NoId}
    BY <1>5 DEF Object
  <2> QED BY <1>2, <1>5, <1>6, <2>1, NewObjectIs
<1>10. /\ \A x \in In(h) : x \in In(l) /\ At(l, x) = At(h, x)
       /\ q \in In(l) /\ q \notin In(h) /\ At(l, q) = o /\ l \in Heaps /\ q \in Pointer
  BY <1>1, <1>3, <1>4, <1>6, <1>9, GrownKept
<1>11. /\ header \in Object /\ header.type = "redirect" /\ header.fwd = q /\ header.id = At(h, p).id
  BY <1>5, <1>6, <1>10, NoFieldsIs DEF NewObject, Object
<1>12. k = Store(l, p, header)
  <2>1. \A x, y : Allocated(o, x, y) = Store(Grown(heap, current, o), x, y)
    BY <1>1, <1>9, AllocatedIs
  <2> QED BY <2>1, <1>6, <1>7
<1>13. In(k) = In(l) /\ \A x \in In(l) : At(k, x) = IF x = p THEN header ELSE At(l, x)
  <2>1. p \in In(l)
    BY <1>5, <1>10
  <2>2. /\ In(Store(l, p, header)) = In(l)
        /\ \A x \in In(l) : At(Store(l, p, header), x) = IF x = p THEN header ELSE At(l, x)
    BY <2>1, <1>10, <1>11, StoreIs
  <2> QED BY <2>2, <1>12
<1>14. /\ \A x \in In(h) : x \in In(k) /\ At(k, x).id = At(h, x).id /\ (x # p => At(k, x) = At(h, x))
       /\ At(k, p) = header /\ q \in In(k) /\ At(k, q) = o /\ q # p
  BY <1>5, <1>10, <1>11, <1>13
<1>15. View(h, g, scs, nat, m, D, V)
  BY <1>3, Now
<1>16. View(k, g, scs, nat, n, E, U)
  BY <1>4, <1>7, <1>8, Afterwards
<1>17. D[p] = p /\ E[q] = q /\ E[p] = q
  <2>1. ~IsHeader(At(h, p)) /\ ~IsHeader(At(k, q)) /\ IsHeader(At(k, p)) /\ At(k, p).fwd = q
    BY <1>5, <1>9, <1>11, <1>14 DEF IsHeader
  <2>2. p \in In(k)
    BY <1>5, <1>14
  <2>3. D[p] = p
    BY <2>1, <1>5, <1>15 DEF View, Denotes
  <2>4. E[q] = q
    BY <2>1, <1>14, <1>16 DEF View, Denotes
  <2>5. E[p] = E[q]
    BY <2>1, <2>2, <1>16 DEF View, Denotes
  <2> QED BY <2>3, <2>4, <2>5
<1>18. \A y \in In(h) : At(h, y).id # NoId => E[y] = E[D[y]]
  <2>1. \A x \in In(h) : x \in In(k) /\ (IsHeader(At(h, x)) => IsHeader(At(k, x)) /\ At(k, x).fwd = At(h, x).fwd)
    BY <1>5, <1>14 DEF IsHeader
  <2>2. Chains(h) /\ Denotes(h, D) /\ Denotes(k, E)
    BY <1>15, <1>16 DEF View
  <2> QED BY <2>1, <2>2, Onward
<1>19. \A v : Own(h, v) => Follows(h, k, D, E, v, v)
  BY <1>14, <1>18 DEF Own, Follows
<1>20. Follows(h, k, D, E, g, g) /\ FollowsScenes(h, k, D, E, scs, scs) /\ FollowsCall(h, k, D, E, nat, nat)
  <2>1. g \in Pointer /\ scs \in Scenes /\ nat \in CallType /\ \A v : Root(g, scs, nat, v) => Own(h, v)
    BY <1>15 DEF View
  <2> QED BY <2>1, <1>19, RootsFollow
<1>21. ASSUME NEW x \in V PROVE FollowsFields(h, k, D, E, At(h, x), At(k, E[x]))
  <2>1. x \in In(h) /\ ~IsHeader(At(h, x)) /\ At(h, x).id # NoId
    BY <1>15 DEF View, Tables
  <2>2. /\ At(k, E[x]).type = At(h, x).type /\ At(k, E[x]).id = At(h, x).id
        /\ At(k, E[x]).fields = At(h, x).fields
    <3>1. CASE x = p
      BY <3>1, <1>9, <1>14, <1>17
    <3>2. CASE x # p
      <4>1. x \in In(k) /\ At(k, x) = At(h, x)
        BY <2>1, <3>2, <1>14
      <4>2. E[x] = x
        BY <4>1, <2>1, <1>16 DEF View, Denotes
      <4> QED BY <4>1, <4>2
    <3> QED BY <3>1, <3>2
  <2>3. ASSUME NEW i \in DOMAIN At(h, x).fields
        PROVE  Follows(h, k, D, E, At(h, x).fields[i], At(h, x).fields[i])
    <3>1. PICK v : v = At(h, x).fields[i]
      OBVIOUS
    <3>2. v \in Pointer => v \in PtrsOf(At(h, x))
      BY <3>1 DEF PtrsOf
    <3>3. v \in Pointer => Own(h, v)
      BY <3>2, <2>1, <1>15 DEF View, Linked, Own
    <3>4. v \notin Pointer => Follows(h, k, D, E, v, v)
      BY DEF Follows
    <3> QED BY <3>1, <3>3, <3>4, <1>19
  <2> QED BY <2>2, <2>3 DEF FollowsFields
<1> QED BY <1>3, <1>4, <1>7, <1>8, <1>20, <1>21, MovingStep

------------------------------------------------------------------------------
(* During a collection too a pointer leads where its resolution does. *)
LEMMA ResolveLeads ==
  ASSUME Inv, Solid, NEW v \in Places
  PROVE  Ends[Resolve(v)] = Ends[v]
<1>1. /\ View(heap, global, scenes, native, MachineState, Ends, Visible)
      /\ Typed /\ Headers /\ Volume /\ Places = In(heap) /\ \A p : Obj(p) = At(heap, p)
  BY Now
<1>2. PICK S : S = {p \in Places : Ends[Resolve(p)] = Ends[p]}
  OBVIOUS
<1>3. ASSUME NEW p \in Places, Obj(p).type # "redirect" PROVE p \in S
  <2>1. Resolve(p) = p
    BY <1>1, <1>3, ResolveIs
  <2> QED BY <2>1, <1>2
<1>4. ASSUME NEW p \in Places, ~IsHeader(Obj(p)) PROVE p \in S
  BY <1>3, <1>4 DEF IsHeader
<1>5. ASSUME NEW p \in Places, IsHeader(Obj(p)), Obj(p).fwd \in S PROVE p \in S
  <2>1. CASE Obj(p).type = "redirect"
    <3>1. Ends[p] = Ends[Obj(p).fwd]
      BY <1>1, <1>5 DEF View, Denotes
    <3>2. Resolve(p) = Resolve(Obj(p).fwd)
      BY <2>1, <1>1, ResolveStep
    <3> QED BY <3>1, <3>2, <1>2, <1>5
  <2>2. CASE Obj(p).type # "redirect"
    BY <2>2, <1>3
  <2> QED BY <2>1, <2>2
<1>6. Places \subseteq S
  BY <1>1, <1>4, <1>5, Zenon DEF View, Chains
<1> QED BY <1>2, <1>6

(* The cells that scripts get at hold what they held. *)
LEMMA CellsFollow ==
  ASSUME NEW h, NEW k, NEW D, NEW E, NEW g, NEW scs, NEW nat, NEW f, NEW t,
         SameShape(scs, t), NoForeach(nat, scs),
         \A c : IsCell(h, scs, c) /\ c[1] \in {"global", "reg"} => Follows(h, k, D, E, Val(h, g, scs, c), Val(k, f, t, c))
  PROVE  /\ Follows(h, k, D, E, g, f) /\ FollowsScenes(h, k, D, E, scs, t)
         /\ FollowsCall(h, k, D, E, nat, nat)
<1>1. Follows(h, k, D, E, g, f)
  <2>1. PICK c : c = <<"global">>
    OBVIOUS
  <2>2. IsCell(h, scs, c) /\ c[1] = "global"
    BY <2>1 DEF IsCell
  <2>3. Val(h, g, scs, c) = g /\ Val(k, f, t, c) = f
    BY <2>2, ValOf
  <2> QED BY <2>2, <2>3
<1>2. Follows(h, k, D, E, Undefined, Undefined)
  BY PointerIs DEF Follows
<1>3. FollowsCall(h, k, D, E, nat, nat)
  BY <1>2 DEF NoForeach, FollowsCall
<1>4. ASSUME NEW s \in 1 .. Len(scs) PROVE FollowsScene(h, k, D, E, scs[s], t[s])
  <2>1. FollowsCall(h, k, D, E, scs[s].caller, t[s].caller)
    <3>1. t[s].caller = scs[s].caller
      BY DEF SameShape
    <3>2. scs[s].caller.array = Undefined /\ scs[s].caller.callback = Undefined
      BY DEF NoForeach
    <3> QED BY <3>1, <3>2, <1>2 DEF FollowsCall
  <2>2. ASSUME NEW x \in 1 .. Len(scs[s].frames), NEW r \in Reg
        PROVE  Follows(h, k, D, E, scs[s].frames[x].regs[r], t[s].frames[x].regs[r])
    <3>1. PICK c : c = <<"reg", s, x, r>>
      OBVIOUS
    <3>2. IsCell(h, scs, c) /\ c[1] = "reg" /\ c[2] = s /\ c[3] = x /\ c[4] = r
      BY <3>1 DEF IsCell
    <3>3. Val(h, g, scs, c) = scs[s].frames[x].regs[r] /\ Val(k, f, t, c) = t[s].frames[x].regs[r]
      <4>1. \A a, b, y : c[1] = "reg" => Val(a, b, y, c) = y[c[2]].frames[c[3]].regs[c[4]]
        BY ValOf
      <4> QED BY <3>2, <4>1
    <3> QED BY <3>2, <3>3
  <2> QED BY <2>1, <2>2 DEF FollowsScene, SameShape
<1> QED BY <1>1, <1>3, <1>4 DEF FollowsScenes, SameShape

(* k: the heap in which the table of a cell may have been copied.  The headers *)
(* stay; what D and E lead to are copies of one another.                      *)
Copies(h, k, E, V) ==
  /\ \A x \in In(h) : /\ x \in In(k) /\ At(k, x).id = At(h, x).id
                      /\ IsHeader(At(h, x)) => IsHeader(At(k, x)) /\ At(k, x).fwd = At(h, x).fwd
  /\ \A x \in V : /\ E[x] \in In(k) /\ (E[x] \in In(h) => E[x] = x)
                  /\ At(k, E[x]).type = At(h, x).type /\ At(k, E[x]).id = At(h, x).id
                  /\ At(k, E[x]).fields = At(h, x).fields

(* A cell is marked: it is made to point to the copy of what it pointed to. *)
LEMMA MarkedSeen ==
  ASSUME Inv, Solid, Faithful, Inv', Solid', pc = "gc", native' = native,
         NEW c, IsCell(heap, scenes, c), NEW k, NEW v,
         Written(k, global, scenes, heap', global', scenes', c, v), SameShape(scenes, scenes'),
         \A d : IsCell(heap, scenes, d) =>
           IsCell(k, scenes, d) /\ Val(k, global, scenes, d) = Val(heap, global, scenes, d),
         Copies(heap, k, Ends', Visible),
         LET w == Val(heap, global, scenes, c) IN
           w \in Pointer /\ (At(heap, w).id # NoId => Follows(heap, heap', Ends, Ends', w, v))
  PROVE  MachineState' = MachineState /\ Faithful'
<1>1. PICK h, g, scs, nat, m, D, V : /\ h = heap /\ g = global /\ scs = scenes /\ nat = native
                                     /\ m = MachineState /\ D = Ends /\ V = Visible
  OBVIOUS
<1>2. PICK l, f, t, n, E, U : /\ l = heap' /\ f = global' /\ t = scenes'
                              /\ n = MachineState' /\ E = Ends' /\ U = Visible'
  OBVIOUS
<1>3. View(h, g, scs, nat, m, D, V)
  BY <1>1, Now
<1>4. View(l, f, t, nat, n, E, U)
  BY <1>1, <1>2, Afterwards
<1>5. PICK w : w = Val(h, g, scs, c)
  OBVIOUS
<1>6. /\ IsCell(h, scs, c) /\ Written(k, g, scs, l, f, t, c, v) /\ SameShape(scs, t)
      /\ \A d : IsCell(h, scs, d) => IsCell(k, scs, d) /\ Val(k, g, scs, d) = Val(h, g, scs, d)
      /\ Copies(h, k, E, V)
      /\ w \in Pointer /\ (At(h, w).id # NoId => Follows(h, l, D, E, w, v))
  BY <1>1, <1>2, <1>5
<1>7. NoForeach(nat, scs)
  BY <1>1 DEF Inv, Busy
<1>8. \A d : IsCell(h, scs, d) => Val(l, f, t, d) = IF d = c THEN v ELSE Val(h, g, scs, d)
  BY <1>6 DEF Written
<1>9. SameHeaders(k, l)
  BY <1>6 DEF Written
<1>10. \A x \in In(h) : /\ x \in In(l) /\ At(l, x).id = At(h, x).id
                        /\ IsHeader(At(h, x)) => IsHeader(At(l, x)) /\ At(l, x).fwd = At(h, x).fwd
  BY <1>6, <1>9 DEF Copies, SameHeaders, IsHeader
<1>11. \A y \in In(h) : At(h, y).id # NoId => E[y] = E[D[y]]
  <2>1. Chains(h) /\ Denotes(h, D) /\ Denotes(l, E)
    BY <1>3, <1>4 DEF View
  <2> QED BY <2>1, <1>10, Onward
<1>12. \A x : Own(h, x) => Follows(h, l, D, E, x, x)
  BY <1>10, <1>11 DEF Own, Follows
<1>13. ASSUME NEW d, IsCell(h, scs, d), Val(h, g, scs, d) \in Pointer => Own(h, Val(h, g, scs, d))
       PROVE  Follows(h, l, D, E, Val(h, g, scs, d), Val(l, f, t, d))
  <2>1. PICK x : x = Val(h, g, scs, d)
    OBVIOUS
  <2>2. CASE d = c
    <3>1. x = w /\ Val(l, f, t, d) = v
      BY <2>1, <2>2, <1>5, <1>8, <1>13
    <3> QED BY <3>1, <2>1, <1>6, <1>13 DEF Own
  <2>3. CASE d # c
    <3>1. Val(l, f, t, d) = x
      BY <2>1, <2>3, <1>8, <1>13
    <3>2. x \notin Pointer => Follows(h, l, D, E, x, x)
      BY DEF Follows
    <3> QED BY <3>1, <3>2, <2>1, <1>12, <1>13
  <2> QED BY <2>2, <2>3
<1>14. ASSUME NEW d, IsCell(h, scs, d), d[1] \in {"global", "reg"}
       PROVE  Follows(h, l, D, E, Val(h, g, scs, d), Val(l, f, t, d))
  <2>1. PICK x : x = Val(h, g, scs, d)
    OBVIOUS
  <2>2. x \in Pointer => Root(g, scs, nat, x)
    <3>1. CASE d[1] = "global"
      BY <2>1, <3>1, ValOf DEF Root
    <3>2. CASE d[1] = "reg"
      <4>1. d[2] \in 1 .. Len(scs) /\ d[3] \in 1 .. Len(scs[d[2]].frames) /\ d[4] \in Reg
        BY <1>14, <3>2, CellIs
      <4>2. x = scs[d[2]].frames[d[3]].regs[d[4]]
        BY <2>1, <3>2, ValOf
      <4>3. x \in Pointer => x \in HeldBy(scs[d[2]])
        BY <4>1, <4>2, HeldIs
      <4> QED BY <4>1, <4>3 DEF Root
    <3> QED BY <1>14, <3>1, <3>2
  <2>3. x \in Pointer => Own(h, x)
    BY <2>2, <1>3 DEF View
  <2> QED BY <2>1, <2>3, <1>13, <1>14
<1>15. Follows(h, l, D, E, g, f) /\ FollowsScenes(h, l, D, E, scs, t) /\ FollowsCall(h, l, D, E, nat, nat)
  BY <1>6, <1>7, <1>14, CellsFollow
<1>16. ASSUME NEW x \in V PROVE FollowsFields(h, l, D, E, At(h, x), At(l, E[x]))
  <2>1. PICK y : y = E[x]
    OBVIOUS
  <2>2. x \in In(h) /\ At(h, x).id # NoId
    BY <1>3 DEF View, Tables
  <2>3. /\ y \in In(k) /\ (y \in In(h) => y = x) /\ At(k, y).type = At(h, x).type
        /\ At(k, y).id = At(h, x).id /\ At(k, y).fields = At(h, x).fields
    BY <2>1, <1>6 DEF Copies
  <2>4. y \in In(l) /\ At(l, y).type = At(h, x).type /\ At(l, y).id = At(h, x).id
    BY <2>3, <1>9 DEF SameHeaders
  <2>5. DOMAIN At(l, y).fields = DOMAIN At(h, x).fields
    <3>1. ASSUME NEW i PROVE i \in DOMAIN At(l, y).fields <=> i \in DOMAIN At(k, y).fields
      <4>1. PICK d : d = <<"field", y, i>>
        OBVIOUS
      <4>2. d[1] = "field" /\ d[2] = y /\ d[3] = i
        BY <4>1
      <4>3. IsCell(l, t, d) <=> IsCell(k, scs, d)
        BY <1>6 DEF Written
      <4>4. IsCell(l, t, d) <=> i \in DOMAIN At(l, y).fields
        <5>1. i \in DOMAIN At(l, y).fields => IsCell(l, t, d)
          BY <4>1, <2>4 DEF IsCell
        <5>2. IsCell(l, t, d) => i \in DOMAIN At(l, y).fields
          BY <4>2, CellIs
        <5> QED BY <5>1, <5>2
      <4>5. IsCell(k, scs, d) <=> i \in DOMAIN At(k, y).fields
        <5>1. i \in DOMAIN At(k, y).fields => IsCell(k, scs, d)
          BY <4>1, <2>3 DEF IsCell
        <5>2. IsCell(k, scs, d) => i \in DOMAIN At(k, y).fields
          BY <4>2, CellIs
        <5> QED BY <5>1, <5>2
      <4> QED BY <4>3, <4>4, <4>5
    <3>2. DOMAIN At(l, y).fields = DOMAIN At(k, y).fields
      BY <3>1
    <3> QED BY <3>2, <2>3
  <2>6. ASSUME NEW i \in DOMAIN At(h, x).fields
        PROVE  Follows(h, l, D, E, At(h, x).fields[i], At(l, y).fields[i])
    <3>1. PICK a, d : a = At(h, x).fields[i] /\ d = <<"field", y, i>>
      OBVIOUS
    <3>2. d[1] = "field" /\ d[2] = y /\ d[3] = i
      BY <3>1
    <3>3. a \in Pointer => Own(h, a)
      <4>1. a \in Pointer => a \in PtrsOf(At(h, x))
        BY <3>1 DEF PtrsOf
      <4> QED BY <4>1, <2>2, <1>3 DEF View, Linked, Own
    <3>4. IsCell(k, scs, d) /\ Val(k, g, scs, d) = a
      <4>1. IsCell(k, scs, d)
        BY <2>3, <3>1 DEF IsCell
      <4>2. Val(k, g, scs, d) = At(k, y).fields[i]
        BY <3>2, ValOf
      <4> QED BY <4>1, <4>2, <2>3, <3>1
    <3>5. Val(l, f, t, d) = At(l, y).fields[i]
      BY <3>2, ValOf
    <3>6. CASE d = c
      <4>1. y \in In(h)
        BY <3>2, <3>6, <1>6, CellIs
      <4>2. y = x
        BY <4>1, <2>3
      <4>3. IsCell(h, scs, d) /\ Val(h, g, scs, d) = a
        <5>1. Val(h, g, scs, d) = At(h, y).fields[i]
          BY <3>2, ValOf
        <5> QED BY <5>1, <4>2, <3>1, <3>6, <1>6
      <4> QED BY <4>3, <3>1, <3>3, <3>5, <1>13
    <3>7. CASE d # c
      <4>1. Val(l, f, t, d) = a
        BY <3>4, <3>7, <1>6 DEF Written
      <4>2. a \notin Pointer => Follows(h, l, D, E, a, a)
        BY DEF Follows
      <4> QED BY <4>1, <4>2, <3>1, <3>3, <3>5, <1>12
    <3> QED BY <3>6, <3>7
  <2> QED BY <2>1, <2>4, <2>5, <2>6 DEF FollowsFields
<1> QED BY <1>1, <1>2, <1>15, <1>16, MovingStep

------------------------------------------------------------------------------
(* The cell gets the address of the copy, or keeps its own. *)
LEMMA ForwardedSeen ==
  ASSUME Inv, Solid, Faithful, Inv', Solid', pc = "gc", native' = native,
         todo # <<>>, NEW c, c = Head(todo), IsPtr(Read(c)),
         Obj(Subject(c)).type = "left" \/ Subject(c)[1] # current, Forwarded(c)
  PROVE  MachineState' = MachineState /\ Faithful'
<1>1. Typed /\ Busy
  BY Now DEF Inv
<1>2. c \in Range(todo)
  BY <1>1, TodoIs DEF Typed
<1>3. IsCell(heap, scenes, c) /\ heap \in Heaps /\ scenes \in Scenes
  BY <1>1, <1>2 DEF Busy, Copying, ToMark
<1>4. PICK w, p, v : w = Val(heap, global, scenes, c) /\ p = Subject(c) /\ v = Fwd(heap, p)
  OBVIOUS
<1>5. /\ w \in Pointer /\ w \in In(heap)
      /\ p \in In(heap) /\ At(heap, p).id = At(heap, w).id
      /\ v \in In(heap) /\ At(heap, v).id = At(heap, p).id /\ v \in Pointer
      /\ WriteCell(c, v, heap)
      /\ Written(heap, global, scenes, heap', global', scenes', c, v)
  BY <1>1, <1>4, ForwardedIs
<1>6. SameShape(scenes, scenes')
  BY <1>3, <1>5, ShapeKept
<1>7. PICK h, D, E, V, l : h = heap /\ D = Ends /\ E = Ends' /\ V = Visible /\ l = heap'
  OBVIOUS
<1>8. View(h, global, scenes, native, MachineState, D, V) /\ Places = In(h) /\ \A x : Obj(x) = At(h, x)
  BY <1>7, Now
<1>9. View(l, global', scenes', native', MachineState', E, Visible')
  BY <1>7, Afterwards
<1>10. SameHeaders(h, l)
  BY <1>5, <1>7 DEF Written
<1>11. Copies(h, h, E, V)
  <2>1. ASSUME NEW x \in V PROVE x \in In(h) /\ E[x] = x
    <3>1. x \in In(h) /\ ~IsHeader(At(h, x))
      BY <1>8 DEF View, Tables
    <3>2. x \in In(l) /\ ~IsHeader(At(l, x))
      BY <3>1, <1>10 DEF SameHeaders, IsHeader
    <3> QED BY <3>1, <3>2, <1>9 DEF View, Denotes
  <2> QED BY <2>1 DEF Copies
<1>12. \A y \in In(h) : At(h, y).id # NoId => E[y] = E[D[y]]
  <2>1. Chains(h) /\ Denotes(h, D) /\ Denotes(l, E)
    BY <1>8, <1>9 DEF View
  <2>2. \A x \in In(h) : x \in In(l) /\ (IsHeader(At(h, x)) => IsHeader(At(l, x)) /\ At(l, x).fwd = At(h, x).fwd)
    BY <1>10 DEF SameHeaders, IsHeader
  <2> QED BY <2>1, <2>2, Onward
<1>13. D[v] = D[w]
  <2>1. D[p] = D[w]
    <3>1. p = Resolve(w) \/ p = w
      <4>1. Read(c) = w
        BY <1>4 DEF Read, Val, Obj, At
      <4> QED BY <4>1, <1>4 DEF Subject
    <3>2. D[Resolve(w)] = D[w]
      BY <1>5, <1>7, <1>8, ResolveLeads
    <3> QED BY <3>1, <3>2
  <2>2. D[v] = D[p]
    <3>1. CASE At(h, p).type = "left"
      <4>1. v = At(h, p).fwd /\ IsHeader(At(h, p))
        BY <3>1, <1>4, <1>7 DEF Fwd, IsHeader
      <4> QED BY <4>1, <1>5, <1>7, <1>8 DEF View, Denotes
    <3>2. CASE At(h, p).type # "left"
      BY <3>2, <1>4, <1>7 DEF Fwd
    <3> QED BY <3>1, <3>2
  <2> QED BY <2>1, <2>2
<1>14. At(h, w).id # NoId => Follows(h, l, D, E, w, v)
  <2>1. At(h, v).id = At(h, w).id /\ At(l, v).id = At(h, v).id
    BY <1>5, <1>7, <1>10 DEF SameHeaders
  <2>2. At(h, w).id # NoId => E[v] = E[D[w]]
    BY <2>1, <1>5, <1>7, <1>12, <1>13
  <2> QED BY <2>1, <2>2, <1>5 DEF Follows
<1> QED BY <1>3, <1>4, <1>5, <1>6, <1>7, <1>11, <1>14, MarkedSeen

(* The table is copied: the header that is left behind leads to the copy. *)
LEMMA MovedSeen ==
  ASSUME Inv, Solid, Faithful, Inv', Solid', pc = "gc", native' = native,
         todo # <<>>, NEW c, c = Head(todo), IsPtr(Read(c)),
         Obj(Subject(c)).type # "left", Subject(c)[1] = current, Moved(c)
  PROVE  MachineState' = MachineState /\ Faithful'
<1>1. Typed /\ Busy
  BY Now DEF Inv
<1>2. c \in Range(todo)
  BY <1>1, TodoIs DEF Typed
<1>3. IsCell(heap, scenes, c) /\ heap \in Heaps /\ scenes \in Scenes
  BY <1>1, <1>2 DEF Busy, Copying, ToMark
<1>4. PICK w, p, copy, to, q, k, cap : MovesTo(c, w, p, copy, to, q, k, cap)
  BY DEF MovesTo
<1>5. /\ w \in Pointer /\ w \in In(heap)
      /\ p \in In(heap) /\ At(heap, p).id = At(heap, w).id
      /\ At(heap, p).type \in {"object", "closure"}
      /\ q \in Pointer /\ WriteCell(c, q, k) /\ Copied(current, heap, k, p, q, cap)
      /\ IsCell(k, scenes, c) /\ q \in In(k) /\ q \notin In(heap)
      /\ Written(k, global, scenes, heap', global', scenes', c, q)
  <2>1. /\ w \in Pointer /\ p \in In(heap) /\ p[1] = w[1] /\ w \in In(heap) /\ At(heap, p).type # "redirect"
        /\ At(heap, p).id = At(heap, w).id /\ (At(heap, w).type # "redirect" => p = w)
        /\ p[1] = current /\ At(heap, p).type \in {"object", "closure"} /\ At(heap, p) \in Object
        /\ copy \in Object /\ copy.fields = At(heap, p).fields
        /\ q \in Pointer /\ q[1] = 1 - current /\ q[2] = Len(heap[to]) + 1
        /\ WriteCell(c, q, k) /\ used' = [used EXCEPT ![to] = @ + 1 + cap]
        /\ todo' = FieldCells(q, copy) \o Tail(todo)
        /\ used' \in [{0, 1} -> Nat] /\ used'[current] = used[current]
        /\ Copied(current, heap, k, p, q, cap) /\ Room(current, k, used')
        /\ IsCell(k, scenes, c) /\ w = Val(k, global, scenes, c)
        /\ k \in Heaps /\ q \in In(k) /\ q \notin In(heap) /\ Len(k[current]) = Len(heap[current])
        /\ Written(k, global, scenes, heap', global', scenes', c, q)
        /\ Len(scenes') = Len(scenes) /\ \A s \in 1 .. Len(scenes) : scenes'[s].caller = scenes[s].caller
    BY <1>1, <1>4, MovedIs
  <2> QED BY <2>1
<1>6. SameShape(scenes, scenes')
  BY <1>3, <1>5, ShapeKept
<1>7. PICK h, D, E, V, l : h = heap /\ D = Ends /\ E = Ends' /\ V = Visible /\ l = heap'
  OBVIOUS
<1>8. View(h, global, scenes, native, MachineState, D, V) /\ Places = In(h) /\ \A x : Obj(x) = At(h, x)
  BY <1>7, Now
<1>9. View(l, global', scenes', native', MachineState', E, Visible')
  BY <1>7, Afterwards
<1>10. SameHeaders(k, l)
  BY <1>5, <1>7 DEF Written
<1>11. /\ \A x \in In(h) : /\ x \in In(k) /\ At(k, x).id = At(h, x).id
                           /\ x # p => At(k, x) = At(h, x)
       /\ At(k, p).type = "left" /\ At(k, p).fwd = q
       /\ At(k, q).type = At(h, p).type /\ At(k, q).fields = At(h, p).fields /\ At(k, q).id = At(h, p).id
  BY <1>5, <1>7 DEF Copied, CopyOf, LeftBy
<1>12. E[q] = q /\ E[p] = q
  <2>1. q \in In(l) /\ ~IsHeader(At(l, q)) /\ At(l, p).type = "left" /\ At(l, p).fwd = q /\ p \in In(l)
    BY <1>5, <1>7, <1>10, <1>11 DEF SameHeaders, IsHeader
  <2>2. E[q] = q
    BY <2>1, <1>9 DEF View, Denotes
  <2>3. E[p] = E[q]
    BY <2>1, <1>9 DEF View, Denotes, IsHeader
  <2> QED BY <2>2, <2>3
<1>13. ASSUME NEW x \in V
       PROVE  /\ E[x] \in In(k) /\ (E[x] \in In(h) => E[x] = x)
              /\ At(k, E[x]).type = At(h, x).type /\ At(k, E[x]).id = At(h, x).id
              /\ At(k, E[x]).fields = At(h, x).fields
  <2>1. x \in In(h) /\ ~IsHeader(At(h, x))
    BY <1>8 DEF View, Tables
  <2>2. CASE x = p
    BY <2>2, <1>5, <1>7, <1>11, <1>12
  <2>3. CASE x # p
    <3>1. x \in In(k) /\ At(k, x) = At(h, x)
      BY <2>1, <2>3, <1>11
    <3>2. x \in In(l) /\ ~IsHeader(At(l, x))
      BY <2>1, <3>1, <1>10 DEF SameHeaders, IsHeader
    <3>3. E[x] = x
      BY <3>2, <1>9 DEF View, Denotes
    <3> QED BY <3>1, <3>3
  <2> QED BY <2>2, <2>3
<1>14. Copies(h, k, E, V)
  <2>1. \A x \in In(h) : IsHeader(At(h, x)) => IsHeader(At(k, x)) /\ At(k, x).fwd = At(h, x).fwd
    BY <1>5, <1>7, <1>11 DEF IsHeader
  <2> QED BY <2>1, <1>11, <1>13 DEF Copies
<1>15. D[w] = p
  <2>1. p = Resolve(w) \/ p = w
    <3>1. Read(c) = w
      BY <1>4 DEF Read, Val, Obj, At, MovesTo
    <3> QED BY <3>1, <1>4 DEF Subject, MovesTo
  <2>2. D[Resolve(w)] = D[w]
    BY <1>5, <1>7, <1>8, ResolveLeads
  <2>3. D[p] = p
    BY <1>5, <1>7, <1>8 DEF View, Denotes, IsHeader
  <2> QED BY <2>1, <2>2, <2>3
<1>16. Follows(h, l, D, E, w, q)
  <2>1. At(l, q).id = At(h, w).id
    BY <1>5, <1>7, <1>10, <1>11 DEF SameHeaders
  <2> QED BY <2>1, <1>5, <1>12, <1>15 DEF Follows
<1>17. \A d : IsCell(h, scenes, d) =>
         IsCell(k, scenes, d) /\ Val(k, global, scenes, d) = Val(h, global, scenes, d)
  BY <1>3, <1>5, <1>7, CellsCopied
<1>18. w = Val(heap, global, scenes, c)
  BY <1>4 DEF MovesTo
<1> QED BY <1>3, <1>5, <1>6, <1>7, <1>14, <1>16, <1>17, <1>18, MarkedSeen

(* One call of young_gen_gc_mark: the machine does not see it. *)
LEMMA MarkSeen ==
  ASSUME ~CollectPastEnd, Inv, Solid, Faithful, Inv', Solid', Mark
  PROVE  MachineState' = MachineState /\ Faithful'
<1>1. PICK c : c = Head(todo)
  OBVIOUS
<1>2. /\ pc = "gc" /\ todo # <<>> /\ native' = native
      /\ IF ~IsPtr(Read(c)) THEN todo' = Tail(todo) /\ UNCHANGED <<heap, used, global, scenes>>
         ELSE IF Obj(Subject(c)).type = "left" \/ Subject(c)[1] # current THEN Forwarded(c)
         ELSE Moved(c)
  BY <1>1, Zenon DEF Mark
<1>3. CASE ~IsPtr(Read(c))
  BY <1>2, <1>3, IdleStep
<1>4. CASE IsPtr(Read(c)) /\ (Obj(Subject(c)).type = "left" \/ Subject(c)[1] # current)
  BY <1>1, <1>2, <1>4, ForwardedSeen
<1>5. CASE IsPtr(Read(c)) /\ Obj(Subject(c)).type # "left" /\ Subject(c)[1] = current
  BY <1>1, <1>2, <1>5, MovedSeen
<1> QED BY <1>3, <1>4, <1>5

------------------------------------------------------------------------------
(* What a step leaves as it is: every table has a slot, a closure is one.       *)
Steady(h, k) ==
  \A p \in In(h) : At(h, p).id # NoId /\ At(h, p).type = "closure" => p \in In(k) /\ At(k, p).type = "closure"

(* What keeps tables, and what changes their fields only, is steady. *)
LEMMA SteadyIs ==
  ASSUME NEW h, NEW k, k = h \/ KeptHeap(h, k) \/ SameTables(h, k)
  PROVE  Steady(h, k)
BY DEF Steady, KeptHeap, SameTables

(* The heap has one object more. *)
LEMMA GrownSolid ==
  ASSUME Inv, Solid, pc # "gc", NEW o \in Object, o.cap >= 1, heap' = Grown(heap, current, o), pending'.op = "none"
  PROVE  Solid' /\ Steady(heap, heap')
<1>1. PICK k : k = heap'
  OBVIOUS
<1>2. /\ KeptHeap(heap, k) /\ \A p \in In(heap) : At(k, p) = At(heap, p)
      /\ At(k, Fresh) = o
  BY <1>1, Now, GrownKept
<1>3. In(k) = In(heap) \cup {Fresh}
  BY <1>1, Now, AllocatedIs DEF GrowsTo
<1>4. SolidHeap(k)
  BY <1>2, <1>3, SolidIs DEF SolidHeap
<1>5. Steady(heap, k)
  BY <1>2, SteadyIs
<1> QED BY <1>1, <1>4, <1>5, SolidIs

(* I_NEW_OBJ, I_NEW_ARR and I_NEW_CLS served: the heap has one object more. *)
LEMMA NewServedHeap ==
  ASSUME Inv, NewServed
  PROVE  \E o \in Object : o.cap = 1 /\ heap' = Grown(heap, current, o)
<1>1. PICK d, type, source, id, q : /\ d = pending.reg /\ type = pending.type /\ source = pending.captured
                                    /\ id = NewId /\ q = Fresh
  OBVIOUS
<1>2. PICK regs : regs = SetOne(Regs, d, q)
  OBVIOUS
<1>3. PICK f : f = Captures(regs, source)
  OBVIOUS
<1>4. PICK o : o = NewObject(type, 1, f, id)
  OBVIOUS
<1>5. /\ pc = "alloc" /\ pending.op = "new" /\ Fits(pending.cap)
      /\ Allocate(o) /\ scenes' = WithRegs(regs) /\ Served
  BY <1>1, <1>2, <1>3, <1>4 DEF NewServed, SetOne, Captures
<1>6. Typed /\ Calm /\ global \in Pointer /\ native \in CallType /\ heap \in Heaps
  BY <1>5 DEF Inv, Typed, Heaps
<1>7. /\ d \in Reg /\ type \in {"object", "closure"} /\ pending.cap = 1 /\ pending \in RequestType
  <2>1. PendingIn(heap, global, scenes, native, pending) /\ pending \in RequestType
    BY <1>6 DEF Calm, Typed
  <2>2. pending.reg \in Reg /\ pending.type \in {"none", "object", "closure"}
    BY <2>1 DEF RequestType
  <2> QED BY <1>1, <1>5, <2>1, <2>2 DEF PendingIn
<1>8. PICK S \in SUBSET Reg : source \in [S -> Reg]
  BY <1>1, <1>7 DEF RequestType
<1>9. id \in Ids /\ id # NoId
  <2>1. used[current] < BlockSize
    BY <1>5, <1>6, <1>7, BlockSizeIs DEF Fits, Typed
  <2> QED BY <2>1, <1>1, <1>6, NewIdIs
<1>10. q \in Pointer /\ q \in Datum /\ q # Undefined
  <2>1. NoFields \in Fields /\ NoId \in Ids \cup {NoId} /\ NewObject("object", 1, NoFields, NoId) \in Object
    BY NoFieldsIs, NewObjectIs
  <2>2. PICK x : x = NewObject("object", 1, NoFields, NoId)
    OBVIOUS
  <2>3. PICK k : k = Grown(heap, current, x)
    OBVIOUS
  <2>4. Fresh \in Pointer
    BY <1>6, <2>1, <2>2, <2>3, GrownKept
  <2> QED BY <1>1, <2>4, PointerIs DEF Datum
<1>11. Regs \in [Reg -> Datum]
  BY <1>6, TopIs
<1>12. HasOne(Regs, d, q, regs)
  <2>1. HasOne(Regs, d, q, SetOne(Regs, d, q))
    BY <1>7, <1>10, <1>11, SetOneIs
  <2> QED BY <2>1, <1>2
<1>13. regs \in [Reg -> Datum] /\ \A r \in Reg : regs[r] = IF r = d THEN q ELSE Regs[r]
  BY <1>12 DEF HasOne
<1>14. PICK k : k = heap'
  OBVIOUS
<1>15. f \in Fields /\ \A r \in DOMAIN f : \E x \in Reg : f[r] = regs[x]
  <2>1. CapturesIn(regs, S, source, f)
    BY <1>3, <1>8, <1>13, CapturesAre
  <2> QED BY <2>1 DEF CapturesIn
<1>16. o \in Object /\ o.type = type /\ o.cap = 1 /\ o.fields = f /\ o.fwd = Undefined /\ o.id = id
  BY <1>4, <1>7, <1>9, <1>15, NewObjectIs
<1>17. k = Grown(heap, current, o)
  <2>1. heap' = Allocated(o, q, o)
    BY <1>1, <1>5 DEF Allocate, AllocateAndSet
  <2>2. \A p, x : Allocated(o, Fresh, o) = Grown(heap, current, o)
    BY <1>6, <1>16, AllocatedIs
  <2> QED BY <2>1, <2>2, <1>1, <1>14
<1> QED BY <1>14, <1>16, <1>17

(* A request for a table: no table without a capacity is made. *)
LEMMA NewServedSolid ==
  ASSUME Inv, Solid, pc # "gc", NewServed
  PROVE  Solid' /\ Steady(heap, heap')
<1>1. PICK o \in Object : o.cap = 1 /\ heap' = Grown(heap, current, o)
  BY NewServedHeap
<1>2. pending'.op = "none"
  BY ServedIs DEF NewServed
<1> QED BY <1>1, <1>2, GrownSolid

(* _cvm_push_scene: the external array of a scene. *)
LEMMA PushSolid ==
  ASSUME Inv, Solid, pc # "gc", NEW frame, NEW caller, PushScene(frame, caller)
  PROVE  Solid' /\ Steady(heap, heap')
<1>1. PICK o : o = NewTable(1, NoFields)
  OBVIOUS
<1>2. o \in Object /\ o.cap = 1
  BY <1>1, NoFieldsIs, NewObjectIs DEF NewTable
<1>3. heap' = Allocated(o, Fresh, o) /\ pending' = NoRequest
  BY <1>1 DEF PushScene, Allocate, AllocateAndSet
<1>4. heap' = Grown(heap, current, o)
  BY <1>2, <1>3, Now, AllocatedIs
<1>5. pending'.op = "none"
  BY <1>3 DEF NoRequest, Request
<1> QED BY <1>2, <1>4, <1>5, GrownSolid

(* A table grows. *)
LEMMA GrowServedSolid ==
  ASSUME Inv, Solid, GrowServed, pending.type = "object", Obj(Regs[pending.reg]).type = "object"
  PROVE  Solid' /\ Steady(heap, heap')
<1>1. pc = "alloc" /\ pending.op = "grow" /\ Served /\ Typed /\ Calm
  BY Now DEF GrowServed, Inv
<1>2. pending.reg \in Reg /\ pending.cap \in Nat /\ GrowingIn(heap, global, Regs[pending.reg])
  <2>1. PendingIn(heap, global, scenes, native, pending) /\ pending \in RequestType
    BY <1>1 DEF Calm, Typed
  <2> QED BY <1>1, <2>1, TopIs DEF PendingIn, RequestType
<1>3. PICK h, p, k, q : h = heap /\ p = Regs[pending.reg] /\ k = heap' /\ q = Fresh
  OBVIOUS
<1>5. /\ p \in Pointer /\ Own(h, p) /\ p \in In(h) /\ At(h, p).id # NoId /\ At(h, p) \in Object
      /\ At(h, p).type = "object" /\ Resolve(Regs[pending.reg]) = p
  <2>1. p \in Pointer /\ At(h, p).type # "redirect"
    BY <1>2, <1>3 DEF GrowingIn
  <2>2. Own(heap, p)
    BY <1>1, <1>2, <1>3, <2>1, RootsOwned, TopIs
  <2>3. IsPtr(Regs[pending.reg]) /\ Obj(Regs[pending.reg]).type # "redirect"
    <3>1. Obj(Regs[pending.reg]) = At(h, p) /\ p \in Datum
      BY <1>1, <1>2, <1>3, TopIs DEF At, Obj
    <3> QED BY <3>1, <1>3, <2>1, PointerIs
  <2>4. Resolve(Regs[pending.reg]) = p
    BY <1>1, <1>2, <1>3, <2>1, <2>2, <2>3, ResolveOwned
  <2>5. p \in Places /\ At(heap, p) \in Object
    BY <2>2, <1>1, ObjTyped DEF Own, Places, At, Obj
  <2> QED BY <1>3, <2>1, <2>2, <2>4, <2>5 DEF Own, At, Obj
<1>6. PICK o, header, l : /\ o = NewObject(pending.type, pending.cap, At(h, p).fields, At(h, p).id)
                          /\ header = [NewObject("redirect", 0, NoFields, At(h, p).id) EXCEPT !.fwd = q]
                          /\ l = Grown(heap, current, o)
  OBVIOUS
<1>7. k = Allocated(o, p, header)
  <2>1. Obj(p) = At(h, p)
    BY <1>3 DEF At, Obj
  <2> QED BY <2>1, <1>1, <1>3, <1>5, <1>6 DEF GrowServed, AllocateAndSet
<1>9. /\ o \in Object /\ o.cap = pending.cap /\ o.type = At(h, p).type /\ o.fields = At(h, p).fields /\ o.id = At(h, p).id
  <2>1. At(h, p).fields \in Fields /\ At(h, p).id \in Ids \cup {NoId}
    BY <1>5 DEF Object
  <2> QED BY <1>2, <1>5, <1>6, <2>1, NewObjectIs
<1>10. /\ \A x \in In(h) : x \in In(l) /\ At(l, x) = At(h, x)
       /\ q \in In(l) /\ q \notin In(h) /\ At(l, q) = o /\ l \in Heaps /\ q \in Pointer
      /\ In(l) = In(h) \cup {q}
  <2>1. In(l) = In(h) \cup {q}
    BY <1>1, <1>3, <1>6, <1>9, AllocatedIs DEF GrowsTo
  <2> QED BY <2>1, <1>1, <1>3, <1>6, <1>9, GrownKept
<1>11. /\ header \in Object /\ header.type = "redirect" /\ header.fwd = q /\ header.id = At(h, p).id
  BY <1>5, <1>6, <1>10, NoFieldsIs DEF NewObject, Object
<1>12. k = Store(l, p, header)
  <2>1. \A x, y : Allocated(o, x, y) = Store(Grown(heap, current, o), x, y)
    BY <1>1, <1>9, AllocatedIs
  <2> QED BY <2>1, <1>6, <1>7
<1>13. In(k) = In(l) /\ \A x \in In(l) : At(k, x) = IF x = p THEN header ELSE At(l, x)
  <2>1. p \in In(l)
    BY <1>5, <1>10
  <2>2. /\ In(Store(l, p, header)) = In(l)
        /\ \A x \in In(l) : At(Store(l, p, header), x) = IF x = p THEN header ELSE At(l, x)
    BY <2>1, <1>10, <1>11, StoreIs
  <2> QED BY <2>2, <1>12
<1>14. /\ \A x \in In(h) : x \in In(k) /\ At(k, x).id = At(h, x).id /\ (x # p => At(k, x) = At(h, x))
       /\ At(k, p) = header /\ q \in In(k) /\ At(k, q) = o /\ q # p
  BY <1>5, <1>10, <1>11, <1>13
<1>15. SolidHeap(k)
  <2>1. ASSUME NEW x \in In(k), At(k, x).type \in {"object", "closure"} PROVE At(k, x).cap >= 1
    <3>1. x # p
      BY <2>1, <1>11, <1>14
    <3>2. CASE x = q
      <4>1. pending.cap >= 1
        BY <1>1 DEF Solid
      <4> QED BY <4>1, <3>2, <1>9, <1>14
    <3>3. CASE x # q
      <4>1. x \in In(h) /\ At(k, x) = At(h, x)
        <5>1. x \in In(h)
          BY <3>3, <1>10, <1>13
        <5> QED BY <5>1, <3>1, <1>14
      <4> QED BY <4>1, <2>1, <1>3, SolidIs DEF SolidHeap
    <3> QED BY <3>2, <3>3
  <2> QED BY <2>1 DEF SolidHeap
<1>16. pending'.op = "none"
  BY <1>1, ServedIs
<1>17. Steady(h, k)
  BY <1>5, <1>14 DEF Steady
<1> QED BY <1>3, <1>15, <1>16, <1>17, SolidIs

------------------------------------------------------------------------------
(* I_SET_OBJ: the table keeps its type and its slots. *)
LEMMA SetObjSolid ==
  ASSUME Inv, Solid, Faithful, NEW r \in Reg, NEW k \in Key, NEW s \in Reg \cup {0}, SetObj(r, k, s)
  PROVE  Solid' /\ Steady(heap, heap')
<1>1. PICK p, w : p = Resolve(Regs[r]) /\ w = Operand(Regs, s)
  OBVIOUS
<1>2. Holds(r, {"object"}) /\ pc = "run"
  BY DEF SetObj, Running
<1>3. p \in Pointer /\ p \in Visible /\ Obj(p) \in Object
  BY <1>1, <1>2, HoldsSeen
<1>4. w \in Datum
  BY <1>1, OperandSeen
<1>5. p \in In(heap) /\ ~IsHeader(At(heap, p)) /\ Obj(p) = At(heap, p)
  BY <1>3, VisibleIds
<1>6. PICK f, F : f = Obj(p).fields /\ F = Put(Obj(p).fields, k, w)
  OBVIOUS
<1>7. F \in Fields
  <2>1. f \in Fields /\ k \in Nat /\ F = Put(f, k, w)
    BY <1>3, <1>6, FramesAssumption DEF Object
  <2>2. f \in Fields /\ k \in Nat /\ w \in Datum
    BY <2>1, <1>4
  <2>3. Put(f, k, w) \in Fields /\ {Put(f, k, w)[i] : i \in DOMAIN Put(f, k, w)} \subseteq {w} \cup {f[i] : i \in DOMAIN f}
    BY <2>2, PutIs, Zenon
  <2> QED BY <2>1, <2>3
<1>8. PICK o : o = [Obj(p) EXCEPT !.fields = F]
  OBVIOUS
<1>9. o \in Object /\ o.type = Obj(p).type /\ o.cap = Obj(p).cap
  BY <1>3, <1>7, <1>8 DEF Object
<1>10. /\ heap' = [heap EXCEPT ![p[1]][p[2]] = o]
       /\ pending' = pending \/ pending'.cap = 2 * o.cap
  <2>1. o = [Obj(p) EXCEPT !.fields = Put(@, k, w)]
    BY <1>6, <1>8
  <2> QED BY <2>1, <1>1 DEF SetObj, Issue, Request
<1>11. PICK h : h = heap'
  OBVIOUS
<1>12. In(h) = In(heap) /\ \A x \in In(heap) : At(h, x) = IF x = p THEN o ELSE At(heap, x)
  <2>1. h = Store(heap, p, o)
    BY <1>10, <1>11 DEF Store
  <2> QED BY <2>1, <1>5, <1>9, Now, StoreIs
<1>13. Steady(heap, h)
  BY <1>5, <1>9, <1>12 DEF Steady
<1>14. SolidHeap(h)
  BY <1>5, <1>9, <1>12, SolidIs DEF SolidHeap
<1>15. o.cap \in Nat /\ o.cap >= 1
  <2>1. Obj(p).type \in {"object", "closure"}
    BY <1>3, <1>5 DEF Object, IsHeader
  <2>2. Obj(p).cap >= 1
    BY <2>1, <1>5, SolidIs DEF SolidHeap
  <2> QED BY <2>2, <1>3, <1>9 DEF Object
<1>16. pending'.op # "none" => pending'.cap >= 1
  <2>1. CASE pending' = pending
    BY <2>1, SolidIs
  <2>2. CASE pending'.cap = 2 * o.cap
    BY <2>2, <1>15
  <2> QED BY <2>1, <2>2, <1>10
<1> QED BY <1>11, <1>13, <1>14, <1>16, SolidIs

(* Nothing is allocated yet, or nothing at all. *)
LEMMA SameSolid ==
  ASSUME Solid, heap' = heap, pending' = pending \/ pending'.cap = 1
  PROVE  Solid' /\ Steady(heap, heap')
<1>1. SolidHeap(heap')
  BY SolidIs
<1>2. pending'.op # "none" => pending'.cap >= 1
  <2>1. CASE pending' = pending
    BY <2>1, SolidIs
  <2>2. CASE pending'.cap = 1
    BY <2>2
  <2> QED BY <2>1, <2>2
<1>3. Steady(heap, heap')
  BY SteadyIs
<1> QED BY <1>1, <1>2, <1>3, SolidIs

(* A collection starts: there is nothing in the other block. *)
LEMMA StartGCSolid ==
  ASSUME Inv, Solid, StartGC
  PROVE  Solid'
<1>1. /\ pc = "alloc" /\ heap' = [heap EXCEPT ![1 - current] = <<>>] /\ pending' = [pending EXCEPT !.retry = TRUE]
  BY DEF StartGC
<1>2. Calm /\ Typed
  BY <1>1, Now DEF Inv
<1>3. heap[1 - current] = <<>> /\ heap \in Heaps /\ current \in {0, 1} /\ pending \in RequestType
  BY <1>2, Now DEF Calm, World, Other, Typed
<1>4. heap' = heap
  BY <1>1, <1>3 DEF Heaps
<1>5. pending'.op = pending.op /\ pending'.cap = pending.cap
  BY <1>1, <1>3 DEF RequestType
<1>6. SolidHeap(heap')
  BY <1>4, SolidIs
<1> QED BY <1>5, <1>6, SolidIs

(* A collection ends: the other block is forgotten or not. *)
LEMMA EndGCSolid ==
  ASSUME Inv, Solid, EndGC
  PROVE  Solid'
<1>1. pc = "gc" /\ pending' = pending /\ (heap' = heap \/ heap' = [heap EXCEPT ![current] = <<>>])
  BY DEF EndGC
<1>2. heap \in Heaps /\ current \in {0, 1}
  BY Now DEF Typed
<1>3. PICK k, b : k = heap' /\ b = current
  OBVIOUS
<1>4. \A x \in In(k) : x \in In(heap) /\ At(k, x) = At(heap, x)
  <2>1. CASE k = heap
    BY <2>1
  <2>2. CASE k = Emptied(heap, b)
    <3>1. EmptiedTo(heap, b, Emptied(heap, b))
      BY <1>2, <1>3, EmptiedIs
    <3> QED BY <2>2, <3>1 DEF EmptiedTo
  <2> QED BY <2>1, <2>2, <1>1, <1>3 DEF Emptied
<1>5. SolidHeap(k)
  BY <1>4, SolidIs DEF SolidHeap
<1> QED BY <1>1, <1>3, <1>5, SolidIs

(* The copy of a table has a slot: it is halved when it has two at least.  *)
LEMMA HalfSolid ==
  ASSUME NEW o \in Object, o.cap >= 1, NEW copy,
         copy = IF NeedShrink(o) THEN [o EXCEPT !.cap = @ \div 2] ELSE o
  PROVE  copy.cap >= 1
<1>1. o.cap \in Nat
  BY DEF Object
<1>2. CASE NeedShrink(o)
  <2>1. o.cap > 1
    BY <1>2 DEF NeedShrink
  <2>2. PICK half : half = o.cap \div 2
    OBVIOUS
  <2>3. half >= 1
    BY <2>1, <2>2, <1>1
  <2>4. copy = [o EXCEPT !.cap = half]
    BY <1>2, <2>2
  <2>5. copy.cap = half
    BY <2>4 DEF Object
  <2> QED BY <2>3, <2>5
<1>3. CASE ~NeedShrink(o)
  BY <1>3
<1> QED BY <1>2, <1>3

(* What has the same headers is as solid. *)
LEMMA HeadersSolid ==
  ASSUME NEW h, NEW k, SameHeaders(h, k), SolidHeap(h)
  PROVE  SolidHeap(k)
BY DEF SameHeaders, SolidHeap

(* A cell gets the address of a copy. *)
LEMMA ForwardedSolid ==
  ASSUME Inv, Solid, pc = "gc", todo # <<>>, NEW c, c = Head(todo), IsPtr(Read(c)),
         Obj(Subject(c)).type = "left" \/ Subject(c)[1] # current, Forwarded(c)
  PROVE  SolidHeap(heap')
<1>1. Typed /\ Busy
  BY Now DEF Inv
<1>2. PICK w, p, v : w = Val(heap, global, scenes, c) /\ p = Subject(c) /\ v = Fwd(heap, p)
  OBVIOUS
<1>3. Written(heap, global, scenes, heap', global', scenes', c, v)
  BY <1>1, <1>2, ForwardedIs
<1>4. SameHeaders(heap, heap')
  BY <1>3 DEF Written
<1> QED BY <1>4, HeadersSolid, SolidIs

(* An object is copied. *)
LEMMA MovedSolid ==
  ASSUME Inv, Solid, pc = "gc", todo # <<>>, NEW c, c = Head(todo), IsPtr(Read(c)),
         Obj(Subject(c)).type # "left", Subject(c)[1] = current, Moved(c)
  PROVE  SolidHeap(heap')
<1>1. Typed /\ Busy
  BY Now DEF Inv
<1>2. PICK w, p, copy, to, q, k, cap : MovesTo(c, w, p, copy, to, q, k, cap)
  BY DEF MovesTo
<1>3. /\ p \in In(heap) /\ At(heap, p).type \in {"object", "closure"} /\ At(heap, p) \in Object
      /\ Copied(current, heap, k, p, q, cap)
      /\ Written(k, global, scenes, heap', global', scenes', c, q)
  <2>1. /\ w \in Pointer /\ p \in In(heap) /\ p[1] = w[1] /\ w \in In(heap) /\ At(heap, p).type # "redirect"
        /\ At(heap, p).id = At(heap, w).id /\ (At(heap, w).type # "redirect" => p = w)
        /\ p[1] = current /\ At(heap, p).type \in {"object", "closure"} /\ At(heap, p) \in Object
        /\ copy \in Object /\ copy.fields = At(heap, p).fields
        /\ q \in Pointer /\ q[1] = 1 - current /\ q[2] = Len(heap[to]) + 1
        /\ WriteCell(c, q, k) /\ used' = [used EXCEPT ![to] = @ + 1 + cap]
        /\ todo' = FieldCells(q, copy) \o Tail(todo)
        /\ used' \in [{0, 1} -> Nat] /\ used'[current] = used[current]
        /\ Copied(current, heap, k, p, q, cap) /\ Room(current, k, used')
        /\ IsCell(k, scenes, c) /\ w = Val(k, global, scenes, c)
        /\ k \in Heaps /\ q \in In(k) /\ q \notin In(heap) /\ Len(k[current]) = Len(heap[current])
        /\ Written(k, global, scenes, heap', global', scenes', c, q)
        /\ Len(scenes') = Len(scenes) /\ \A s \in 1 .. Len(scenes) : scenes'[s].caller = scenes[s].caller
    BY <1>1, <1>2, MovedIs
  <2> QED BY <2>1
<1>4. SolidHeap(heap)
  BY SolidIs
<1>5. PICK o : o = At(heap, p)
  OBVIOUS
<1>6. o \in Object /\ o.cap >= 1
  BY <1>3, <1>4, <1>5 DEF SolidHeap
<1>7. copy = IF NeedShrink(o) THEN [o EXCEPT !.cap = @ \div 2] ELSE o
  BY <1>2, <1>5 DEF MovesTo
<1>8. copy.cap >= 1
  BY <1>6, <1>7, HalfSolid
<1>9. cap >= 1
  BY <1>2, <1>8 DEF MovesTo
<1>10. /\ In(k) = In(heap) \cup {q} /\ At(k, q).cap = cap /\ At(k, p).type = "left"
       /\ \A x \in In(heap) : x # p => At(k, x) = At(heap, x)
  BY <1>3 DEF Copied, CopyOf, LeftBy
<1>11. SolidHeap(k)
  BY <1>4, <1>9, <1>10 DEF SolidHeap
<1>12. SameHeaders(k, heap')
  BY <1>3 DEF Written
<1> QED BY <1>11, <1>12, HeadersSolid

(* A cell is marked. *)
LEMMA MarkSolid ==
  ASSUME ~CollectPastEnd, Inv, Solid, Mark
  PROVE  Solid'
<1>1. PICK c : c = Head(todo)
  OBVIOUS
<1>2. /\ pc = "gc" /\ todo # <<>> /\ pending' = pending
      /\ IF ~IsPtr(Read(c)) THEN todo' = Tail(todo) /\ UNCHANGED <<heap, used, global, scenes>>
         ELSE IF Obj(Subject(c)).type = "left" \/ Subject(c)[1] # current THEN Forwarded(c)
         ELSE Moved(c)
  BY <1>1, Zenon DEF Mark
<1>3. SolidHeap(heap')
  <2>1. CASE ~IsPtr(Read(c))
    BY <1>2, <2>1, SolidIs
  <2>2. CASE IsPtr(Read(c)) /\ (Obj(Subject(c)).type = "left" \/ Subject(c)[1] # current)
    BY <1>1, <1>2, <2>2, ForwardedSolid
  <2>3. CASE IsPtr(Read(c)) /\ Obj(Subject(c)).type # "left" /\ Subject(c)[1] = current
    BY <1>1, <1>2, <2>3, MovedSolid
  <2> QED BY <2>1, <2>2, <2>3
<1> QED BY <1>2, <1>3, SolidIs

------------------------------------------------------------------------------
(* The callback of foreach is a closure and stays one. *)
Closures ==
  pc # "gc" => \A c \in CallsOf(native, scenes) : c.fn = "foreach" => At(heap, c.callback).type = "closure"
SameCalls(nat, scs, nat2, scs2) ==
  \A c \in CallsOf(nat2, scs2) : c.fn = "foreach" =>
    \E w \in CallsOf(nat, scs) : w.fn = "foreach" /\ w.callback = c.callback

(* A steady step without new foreach calls keeps the callbacks closures. *)
LEMMA ClosuresStep ==
  ASSUME Inv, Closures, pc # "gc", Steady(heap, heap'), SameCalls(native, scenes, native', scenes')
  PROVE  Closures'
<1>1. \A w \in CallsOf(native, scenes) : w.fn = "foreach" => Own(heap, w.callback)
  BY DEF Inv, Calm, CallsIn, CallsOf
<1>2. PICK k, nat, scs : k = heap' /\ nat = native' /\ scs = scenes'
  OBVIOUS
<1>3. ASSUME NEW c \in CallsOf(nat, scs), c.fn = "foreach" PROVE At(k, c.callback).type = "closure"
  <2>1. PICK w \in CallsOf(native, scenes) : w.fn = "foreach" /\ w.callback = c.callback
    BY <1>2, <1>3 DEF SameCalls
  <2>2. Own(heap, c.callback) /\ At(heap, c.callback).type = "closure"
    BY <1>1, <2>1 DEF Closures
  <2> QED BY <1>2, <2>2 DEF Own, Steady
<1> QED BY <1>2, <1>3 DEF Closures

(* The calls below a scene do not depend on its frames. *)
LEMMA TopCallers ==
  ASSUME NEW scs \in Scenes, NEW t \in Scenes, NEW F, t = TopFrames(scs, F), NEW nat
  PROVE  CallsOf(nat, t) = CallsOf(nat, scs)
<1>1. scs \in Seq(SceneType) /\ t \in Seq(SceneType) /\ 1 \in 1 .. Len(scs) /\ Len(scs) \in Nat /\ Len(t) \in Nat
  BY SceneIs
<1>2. DOMAIN t = DOMAIN scs
  BY DEF TopFrames
<1>3. DOMAIN t = 1 .. Len(t) /\ DOMAIN scs = 1 .. Len(scs)
  BY <1>1, LenProperties
<1>4. Len(t) = Len(scs)
  <2>1. PICK m, n : m = Len(t) /\ n = Len(scs)
    OBVIOUS
  <2>2. m \in Nat /\ n \in Nat /\ 1 .. m = 1 .. n
    BY <1>1, <1>2, <1>3, <2>1
  <2>3. n \in 1 .. m /\ (m >= 1 => m \in 1 .. n)
    BY <1>1, <2>1, <2>2
  <2> QED BY <2>1, <2>2, <2>3
<1>5. scs[1] \in SceneType
  BY <1>1, ElementOfSeq
<1>6. PICK top : top = [scs[1] EXCEPT !.frames = F]
  OBVIOUS
<1>7. top.caller = scs[1].caller
  BY <1>5, <1>6 DEF SceneType
<1>8. t = [scs EXCEPT ![1] = top]
  BY <1>6 DEF TopFrames
<1>9. \A s \in 1 .. Len(scs) : t[s].caller = scs[s].caller
  BY <1>3, <1>7, <1>8
<1> QED BY <1>4, <1>9 DEF CallsOf

(* No call but those there were. *)
LEMMA SameCallsIs ==
  ASSUME NEW nat, NEW scs, NEW nat2, NEW scs2, CallsOf(nat2, scs2) \subseteq CallsOf(nat, scs) \cup {NoCall}
  PROVE  SameCalls(nat, scs, nat2, scs2)
BY DEF SameCalls, NoCall

(* A step that changes frames. *)
LEMMA TopClosures ==
  ASSUME Inv, Inv', Closures, pc # "gc", Steady(heap, heap'), NEW F, scenes' = TopFrames(scenes, F),
         native' = native \/ native' = NoCall
  PROVE  Closures'
<1>1. scenes \in Scenes /\ scenes' \in Scenes
  BY DEF Inv, Typed, Scenes
<1>2. PICK scs, t, nat, m : scs = scenes /\ t = scenes' /\ nat = native /\ m = native'
  OBVIOUS
<1>3. CallsOf(m, t) = CallsOf(m, scs)
  BY <1>1, <1>2, TopCallers
<1>4. CallsOf(m, t) \subseteq CallsOf(nat, scs) \cup {NoCall}
  BY <1>2, <1>3 DEF CallsOf
<1>5. SameCalls(nat, scs, m, t)
  BY <1>4, SameCallsIs
<1> QED BY <1>2, <1>5, ClosuresStep

(* A step that leaves frames and callers alone. *)
LEMMA IdleClosures ==
  ASSUME Inv, Closures, pc # "gc", Steady(heap, heap'), scenes' = scenes \/ SameFrames(scenes, scenes'), native' = native
  PROVE  Closures'
<1>1. CallsOf(native', scenes') = CallsOf(native, scenes)
  BY DEF CallsOf, SameFrames
<1>2. SameCalls(native, scenes, native', scenes')
  BY <1>1, SameCallsIs
<1> QED BY <1>2, ClosuresStep

(* A scene more. *)
LEMMA PushClosures ==
  ASSUME Inv, Closures, pc # "gc", Steady(heap, heap'), NEW x, scenes' = OnTop(x, scenes), native' = NoCall,
         x.caller.fn = "foreach" => native.fn = "foreach" /\ x.caller.callback = native.callback
  PROVE  Closures'
<1>1. scenes \in Seq(SceneType)
  BY DEF Inv, Typed
<1>2. PICK scs, t, T : scs = scenes /\ t = scenes' /\ T = SceneType \cup {x}
  OBVIOUS
<1>3. scs \in Seq(T) /\ x \in T
  BY <1>1, <1>2, SeqMonotonic
<1>4. AddedTo(T, x, scs, t)
  BY <1>2, <1>3, OnTopIs
<1>5. \A s \in 1 .. Len(t) : t[s] = x \/ \E i \in 1 .. Len(scs) : t[s] = scs[i]
  <2> TAKE s \in 1 .. Len(t)
  <2>1. Len(t) = Len(scs) + 1 /\ Len(scs) \in Nat /\ t[1] = x /\ \A i \in 2 .. Len(scs) + 1 : t[i] = scs[i - 1]
    BY <1>4 DEF AddedTo
  <2>2. CASE s = 1
    BY <2>1, <2>2
  <2>3. CASE s # 1
    <3>1. s \in 2 .. Len(scs) + 1 /\ s - 1 \in 1 .. Len(scs)
      BY <2>1, <2>3
    <3> QED BY <2>1, <3>1
  <2> QED BY <2>2, <2>3
<1>6. \A c \in CallsOf(NoCall, t) : c = NoCall \/ c = x.caller \/ c \in CallsOf(native, scs)
  BY <1>5 DEF CallsOf
<1>7. native \in CallsOf(native, scs) /\ NoCall.fn # "foreach"
  BY DEF CallsOf, NoCall
<1>8. SameCalls(native, scs, NoCall, t)
  BY <1>6, <1>7 DEF SameCalls
<1> QED BY <1>2, <1>8, ClosuresStep

(* A scene less; the function that called goes on, or none. *)
LEMMA TailClosures ==
  ASSUME Inv, Closures, pc # "gc", heap' = heap, Len(scenes) > 1,
         CallsOf(native', scenes') = CallsOf(native', Tail(scenes)),
         native' = native \/ native' = scenes[1].caller
  PROVE  Closures'
<1>1. scenes \in Seq(SceneType)
  BY DEF Inv, Typed
<1>2. PICK scs, t, m : scs = scenes /\ t = Tail(scenes) /\ m = native'
  OBVIOUS
<1>3. Len(t) = Len(scs) - 1 /\ Len(scs) \in Nat /\ \A i \in 1 .. Len(scs) - 1 : t[i] = scs[i + 1] /\ i + 1 \in 1 .. Len(scs)
  BY <1>1, <1>2, TailIs
<1>4. 1 \in 1 .. Len(scs)
  BY <1>2, <1>3
<1>5. CallsOf(m, t) \subseteq CallsOf(native, scs) \cup {NoCall}
  <2>1. m \in CallsOf(native, scs)
    BY <1>2, <1>4 DEF CallsOf
  <2>2. \A i \in 1 .. Len(t) : t[i].caller \in CallsOf(native, scs)
    BY <1>3 DEF CallsOf
  <2> QED BY <2>1, <2>2 DEF CallsOf
<1>6. SameCalls(native, scenes, native', scenes')
  <2>1. CallsOf(native', scenes') \subseteq CallsOf(native, scenes) \cup {NoCall}
    BY <1>2, <1>5
  <2> QED BY <2>1, SameCallsIs
<1>7. Steady(heap, heap')
  BY SteadyIs
<1> QED BY <1>6, <1>7, ClosuresStep

------------------------------------------------------------------------------
(* What New asks for. *)
AsksNew(type, captured) ==
  \/ type = "object" /\ captured = NoFields
  \/ type = "closure" /\ \E c \in Reg, r \in Reg : captured = [x \in {c} |-> r]

(* The steps of the machine. *)
LEMMA Instructs ==
  ASSUME NEW m, NEW n, NEW d \in Reg
  PROVE  /\ M!Load(m, n, d) => M!Next(m, n)
         /\ \A s \in Reg \cup {0} : M!Move(m, n, d, s) => M!Next(m, n)
         /\ \A s \in Reg \cup {0} : \A k \in Key : M!SetObj(m, n, d, k, s) => M!Next(m, n)
         /\ \A r \in Reg : M!Return(m, n, r) => M!Next(m, n)
         /\ \A r \in Reg : \A k \in Key : M!GetObj(m, n, d, r, k) => M!Next(m, n)
         /\ \A r \in Reg : \A a \in Reg : M!Call(m, n, d, r, a) => M!Next(m, n)
<1>1. d \in M!Reg /\ M!Reg = Reg /\ Reg \cup {0} = 0 .. RegisterNr
  BY SameNotions, FramesAssumption DEF Reg
<1>2. M!Load(m, n, d) => M!Next(m, n)
  BY <1>1 DEF M!Next, M!Instruction
<1>3. \A s \in Reg \cup {0} : M!Move(m, n, d, s) => M!Next(m, n)
  BY <1>1 DEF M!Next, M!Instruction
<1>4. \A s \in Reg \cup {0} : \A k \in Key : M!SetObj(m, n, d, k, s) => M!Next(m, n)
  BY <1>1 DEF M!Next, M!Instruction
<1>5. \A r \in Reg : M!Return(m, n, r) => M!Next(m, n)
  BY <1>1 DEF M!Next, M!Instruction
<1>6. \A r \in Reg : \A k \in Key : M!GetObj(m, n, d, r, k) => M!Next(m, n)
  BY <1>1 DEF M!Next, M!Instruction
<1>7. \A r \in Reg : \A a \in Reg : M!Call(m, n, d, r, a) => M!Next(m, n)
  BY <1>1 DEF M!Next, M!Instruction
<1> QED BY <1>2, <1>3, <1>4, <1>5, <1>6, <1>7

(* NEWCLS, NEWOBJ and NEWARR are instructions of the machine. *)
LEMMA NewInstructs ==
  ASSUME NEW m, NEW n, NEW d \in Reg, NEW type, NEW captured, AsksNew(type, captured), M!New(m, n, d, type, captured)
  PROVE  M!Next(m, n)
<1>1. d \in M!Reg /\ M!Reg = Reg /\ M!NoFields = NoFields
  BY SameNotions
<1>2. CASE type = "object" /\ captured = NoFields
  <2>1. M!New(m, n, d, "object", M!NoFields)
    BY <1>1, <1>2
  <2>2. M!Instruction(m, n)
    BY <1>1, <2>1 DEF M!Instruction
  <2> QED BY <2>2 DEF M!Next
<1>3. CASE type = "closure" /\ \E c \in Reg, r \in Reg : captured = [x \in {c} |-> r]
  <2>1. PICK c \in Reg, r \in Reg : captured = [x \in {c} |-> r]
    BY <1>3
  <2>2. c \in M!Reg /\ r \in M!Reg /\ M!New(m, n, d, "closure", [x \in {c} |-> r])
    BY <1>1, <1>3, <2>1
  <2>3. M!Instruction(m, n)
    BY <1>1, <2>2, Zenon DEF M!Instruction
  <2> QED BY <2>3 DEF M!Next
<1> QED BY <1>2, <1>3 DEF AsksNew

(* What C code does is a step of the machine. *)
LEMMA CallsFromC ==
  ASSUME NEW m, NEW n
  PROVE  /\ \A d \in Reg : M!Import(m, n, d) => M!Next(m, n)
         /\ \A d \in Reg : \A a \in Reg : M!ForeachCall(m, n, d, a) => M!Next(m, n)
         /\ M!ForeachNext(m, n) => M!Next(m, n)
         /\ M!ForeachDone(m, n) => M!Next(m, n)
         /\ \A v \in {M!Undefined} \cup M!Range(M!Regs(m)) : M!Leave(m, n, v) => M!Next(m, n)
<1>1. M!Reg = Reg
  BY SameNotions
<1>2. /\ \A d \in Reg : M!Import(m, n, d) => M!Next(m, n)
      /\ \A d \in Reg : \A a \in Reg : M!ForeachCall(m, n, d, a) => M!Next(m, n)
  BY <1>1 DEF M!Next, M!FromC
<1>3. M!ForeachNext(m, n) => M!Next(m, n)
  BY DEF M!Next, M!FromC
<1>4. M!ForeachDone(m, n) => M!Next(m, n)
  BY DEF M!Next, M!FromC
<1>5. \A v \in {M!Undefined} \cup M!Range(M!Regs(m)) : M!Leave(m, n, v) => M!Next(m, n)
  BY DEF M!Next, M!FromC
<1> QED BY <1>2, <1>3, <1>4, <1>5

------------------------------------------------------------------------------
(* What a request promises: only scripts ask for objects, and the table that is *)
(* to grow is one in the machine.                                               *)
Grows == M!Is(MachineState, M!Regs(MachineState)[pending.reg], "object")
Ready ==
  /\ pc = "run" => native = NoCall
  /\ pending.op \in {"new", "grow", "import"} => native = NoCall
  /\ pending.op = "new" => AsksNew(pending.type, pending.captured)
  /\ pending.op = "grow" => pending.type = "object" /\ Grows

(* The invariant that the refinement rests on. *)
MI == Inv /\ Solid /\ Faithful /\ Serving /\ Ready /\ Closures
Matched == M!Next(MachineState, MachineState') \/ MachineState' = MachineState

(* Nothing is pending after the step. *)
LEMMA Unasked ==
  ASSUME pending'.op = "none", pc' = "run" => native' = NoCall
  PROVE  Serving' /\ Ready'
BY DEF Serving, Ready

(* Scripts and C functions run with nothing pending. *)
LEMMA RunsFree ==
  ASSUME Inv, pc \in {"run", "native"}
  PROVE  pending.op = "none" /\ Calm /\ Typed
BY DEF Inv, Calm

(* The table whose register the request names. *)
Table == pending.reg \in Reg /\ IsTable(Regs[pending.reg], "object")

(* The table that a request will grow has the type that the request needs. *)
LEMMA GrowsNow ==
  ASSUME Inv, Solid, Faithful, Table
  PROVE  Grows
<1>1. pending.reg \in Reg /\ IsTable(Regs[pending.reg], "object")
  BY DEF Table
<1>2. Leads(Regs[pending.reg]) /\ Regs[pending.reg] \in Datum
  BY <1>1, RootsLead, MachineParts
<1>3. M!Is(MachineState, IdIn(heap, Regs[pending.reg]), "object")
  BY <1>1, <1>2, IsTableSeen
<1>4. M!Regs(MachineState)[pending.reg] = IdIn(heap, Regs[pending.reg])
  BY <1>1, MachineParts DEF RegsOf
<1> QED BY <1>3, <1>4 DEF Grows

(* The same, after a step. *)
LEMMA GrowsNext ==
  ASSUME Inv', Solid', Faithful', Table'
  PROVE  Grows'
BY GrowsNow, PTL

(* A table that is one in the machine is one in the heap, unless it left a      *)
(* header behind.                                                              *)
LEMMA GrowsTable ==
  ASSUME Inv, Solid, Faithful, pc = "alloc", pending.op = "grow", Grows
  PROVE  pending.reg \in Reg /\ Obj(Regs[pending.reg]).type = "object"
<1>1. Typed /\ Calm
  BY DEF Inv
<1>2. pending.reg \in Reg /\ GrowingIn(heap, global, Regs[pending.reg])
  <2>1. PendingIn(heap, global, scenes, native, pending) /\ pending \in RequestType
    BY <1>1 DEF Calm, Typed
  <2> QED BY <1>1, <2>1, TopIs DEF PendingIn, RequestType
<1>3. PICK p : p = Regs[pending.reg]
  OBVIOUS
<1>4. p \in Datum /\ p \in Pointer /\ Leads(p) /\ At(heap, p).type # "redirect" /\ Obj(p) = At(heap, p)
  BY <1>2, <1>3, MachineParts, RootsLead, Now DEF GrowingIn
<1>5. p \in Places
  BY <1>4 DEF Leads
<1>6. Obj(p).type \in {"object", "closure"}
  <2>1. Obj(p).type # "left" /\ Obj(p) \in Object
    BY <1>1, <1>5, CalmIs, ObjTyped
  <2> QED BY <2>1, <1>4 DEF Object
<1>7. PICK type \in {"object", "closure"} : type = Obj(p).type
  BY <1>6
<1>8. IsTable(p, type)
  BY <1>4, <1>7, PointerIs DEF IsTable
<1>9. MachineState.objects[IdIn(heap, p)] = AbsOf(heap, Obj(p))
  BY <1>4, <1>8, IsTableSeen
<1>10. M!Regs(MachineState)[pending.reg] = IdIn(heap, p)
  BY <1>2, <1>3, MachineParts DEF RegsOf
<1>11. AbsOf(heap, Obj(p)).type = "object"
  BY <1>9, <1>10 DEF Grows, M!Is
<1> QED BY <1>2, <1>3, <1>11 DEF AbsOf

------------------------------------------------------------------------------
(* What is left to show of a step. *)
Kindly == Solid' /\ Serving' /\ Ready' /\ Closures'

(* A step of a script, or of a C function, that changes frames only. *)
LEMMA FramesKindly ==
  ASSUME MI, Inv', pc \in {"run", "native"}, heap' = heap, pending' = pending,
         NEW F, scenes' = TopFrames(scenes, F), native' = native \/ native' = NoCall,
         pc' = "run" => native' = NoCall
  PROVE  Kindly
<1>1. pending'.op = "none" /\ pc # "gc"
  BY RunsFree DEF MI
<1>2. Solid' /\ Steady(heap, heap')
  BY SameSolid DEF MI
<1>3. Serving' /\ Ready'
  BY <1>1, Unasked
<1>4. Closures'
  BY <1>1, <1>2, TopClosures DEF MI
<1> QED BY <1>2, <1>3, <1>4 DEF Kindly

(* Registers that are set are those of the first frame on top. *)
LEMMA RegsTop ==
  ASSUME Inv, Solid, NEW regs
  PROVE  WithRegs(regs) = TopFrames(scenes, FirstRegs(scenes[1].frames, regs))
BY MachineParts DEF TopRegs

(* The instructions that change registers only. *)
LEMMA QuietKindly ==
  ASSUME MI, Inv', Running, Quiet, NEW F, scenes' = TopFrames(scenes, F)
  PROVE  Kindly /\ native = NoCall
<1>1. native = NoCall /\ pc = "run" /\ pc' = pc /\ heap' = heap /\ native' = native /\ pending' = pending
  BY DEF MI, Ready, Running, Quiet, heapVars
<1> QED BY <1>1, FramesKindly

(* Each action in turn.  It is a step of the machine, or none, and keeps the parts
   of MI.  LI: *)
LEMMA LoadMatched ==
  ASSUME MI, Inv', NEW d \in Reg, Load(d)
  PROVE  Matched /\ Faithful' /\ Kindly
<1>1. PICK regs : regs = [Regs EXCEPT ![d] = Undefined]
  OBVIOUS
<1>2. Running /\ Quiet /\ scenes' = WithRegs(regs)
  BY <1>1 DEF Load, SetReg
<1>3. scenes' = TopFrames(scenes, FirstRegs(scenes[1].frames, regs))
  BY <1>2, RegsTop DEF MI
<1>4. Kindly /\ native = NoCall
  BY <1>2, <1>3, QuietKindly
<1>5. M!Load(MachineState, MachineState', d) /\ Faithful'
  BY <1>4, LoadSeen DEF MI, Kindly
<1> QED BY <1>4, <1>5, Instructs DEF Matched

(* MOV: *)
LEMMA MoveMatched ==
  ASSUME MI, Inv', NEW d \in Reg, NEW s \in Reg \cup {0}, Move(d, s)
  PROVE  Matched /\ Faithful' /\ Kindly
<1>1. PICK regs : regs = [Regs EXCEPT ![d] = Operand(Regs, s)]
  OBVIOUS
<1>2. Running /\ Quiet /\ scenes' = WithRegs(regs)
  BY <1>1 DEF Move, SetReg
<1>3. scenes' = TopFrames(scenes, FirstRegs(scenes[1].frames, regs))
  BY <1>2, RegsTop DEF MI
<1>4. Kindly /\ native = NoCall
  BY <1>2, <1>3, QuietKindly
<1>5. M!Move(MachineState, MachineState', d, s) /\ Faithful'
  BY <1>4, MoveSeen DEF MI, Kindly
<1> QED BY <1>4, <1>5, Instructs DEF Matched

(* GETOBJ: *)
LEMMA GetObjMatched ==
  ASSUME MI, Inv', NEW d \in Reg, NEW r \in Reg, NEW k \in Key, GetObj(d, r, k)
  PROVE  Matched /\ Faithful' /\ Kindly
<1>1. PICK regs : regs = [Regs EXCEPT ![r] = Resolve(Regs[r]), ![d] = Get(Obj(Resolve(Regs[r])), k)]
  OBVIOUS
<1>2. Running /\ Quiet /\ scenes' = WithRegs(regs)
  BY <1>1 DEF GetObj
<1>3. scenes' = TopFrames(scenes, FirstRegs(scenes[1].frames, regs))
  BY <1>2, RegsTop DEF MI
<1>4. Kindly /\ native = NoCall
  BY <1>2, <1>3, QuietKindly
<1>5. M!GetObj(MachineState, MachineState', d, r, k) /\ Faithful'
  BY <1>4, GetObjSeen DEF MI, Kindly
<1> QED BY <1>4, <1>5, Instructs DEF Matched

(* The frames of the scene are set twice. *)
LEMMA TopAgain ==
  ASSUME NEW scs \in Scenes, NEW F, NEW G
  PROVE  TopFrames(TopFrames(scs, F), G) = TopFrames(scs, G)
<1>1. scs \in Seq(SceneType) /\ 1 \in 1 .. Len(scs)
  BY SceneIs
<1>2. 1 \in DOMAIN scs /\ scs[1] \in SceneType
  BY <1>1, ElementOfSeq, LenProperties
<1>3. PICK a, b : a = [scs[1] EXCEPT !.frames = F] /\ b = [scs[1] EXCEPT !.frames = G]
  OBVIOUS
<1>4. [a EXCEPT !.frames = G] = b
  BY <1>2, <1>3 DEF SceneType
<1>5. PICK t : t = [scs EXCEPT ![1] = a]
  OBVIOUS
<1>6. t = TopFrames(scs, F) /\ t[1] = a
  BY <1>2, <1>3, <1>5 DEF TopFrames
<1>7. TopFrames(t, G) = [t EXCEPT ![1] = b]
  BY <1>4, <1>6 DEF TopFrames
<1>8. TopFrames(scs, G) = [scs EXCEPT ![1] = b]
  BY <1>3 DEF TopFrames
<1>9. [t EXCEPT ![1] = b] = [scs EXCEPT ![1] = b]
  BY <1>2, <1>5
<1> QED BY <1>6, <1>7, <1>8, <1>9

(* CALL, of a closure: *)
LEMMA CallMatched ==
  ASSUME MI, Inv', NEW d \in Reg, NEW f \in Reg, NEW a \in Reg, Call(d, f, a)
  PROVE  Matched /\ Faithful' /\ Kindly
<1>1. PICK regs, frame, caller :
        /\ regs = [Regs EXCEPT ![f] = Resolve(Regs[f]), ![a] = Resolve(Regs[a])]
        /\ frame = NewFrame(Obj(Resolve(Regs[f])), Obj(Resolve(Regs[a])), d)
        /\ caller = WithRegs([Regs EXCEPT ![f] = Resolve(Regs[f]), ![a] = Resolve(Regs[a])])
  OBVIOUS
<1>2. Running /\ Quiet /\ scenes' = [caller EXCEPT ![1].frames = <<frame>> \o @]
  BY <1>1 DEF Call
<1>3. PICK G : G = <<frame>> \o caller[1].frames
  OBVIOUS
<1>4. scenes' = TopFrames(caller, G)
  BY <1>2, <1>3 DEF TopFrames
<1>5. caller = TopFrames(scenes, FirstRegs(scenes[1].frames, regs))
  BY <1>1, RegsTop DEF MI
<1>6. scenes' = TopFrames(scenes, G)
  BY <1>4, <1>5, MachineParts, TopAgain DEF MI
<1>7. Kindly /\ native = NoCall
  BY <1>2, <1>6, QuietKindly
<1>8. M!Call(MachineState, MachineState', d, f, a) /\ Faithful'
  BY <1>7, CallSeen DEF MI, Kindly
<1> QED BY <1>7, <1>8, Instructs DEF Matched

(* RET: *)
LEMMA ReturnMatched ==
  ASSUME MI, Inv', NEW r \in Reg, Return(r)
  PROVE  Matched /\ Faithful' /\ Kindly
<1>1. PICK G : G = [Tail(scenes[1].frames) EXCEPT ![1].regs[Frame.rd] = Regs[r]]
  OBVIOUS
<1>2. Running /\ Quiet /\ scenes' = TopFrames(scenes, G)
  BY <1>1 DEF Return, TopFrames
<1>3. Kindly /\ native = NoCall
  BY <1>2, QuietKindly
<1>4. M!Return(MachineState, MachineState', r) /\ Faithful'
  BY <1>3, ReturnSeen DEF MI, Kindly
<1>5. 1 \in Reg
  BY FramesAssumption DEF Reg
<1> QED BY <1>3, <1>4, <1>5, Instructs DEF Matched

(* I_NEW_... and import ask for an object. *)
LEMMA AskMatched ==
  ASSUME MI, Inv', heap' = heap, global' = global, scenes' = scenes, native' = native, pc # "gc",
         pc' = "alloc", pending'.cap = 1, Serving', Ready'
  PROVE  Matched /\ Faithful' /\ Kindly
<1>1. Solid' /\ Steady(heap, heap')
  BY SameSolid DEF MI
<1>2. Closures'
  BY <1>1, IdleClosures DEF MI
<1>3. MachineState' = MachineState /\ Faithful'
  BY <1>1, IdleStep DEF MI
<1> QED BY <1>1, <1>2, <1>3 DEF Kindly, Matched

(* NEWCLS, NEWOBJ, NEWARR, which may ask for memory: *)
LEMMA NewMatched ==
  ASSUME MI, Inv', NEW d \in Reg, NEW type, NEW captured, AsksNew(type, captured), New(d, type, captured)
  PROVE  Matched /\ Faithful' /\ Kindly
<1>1. PICK q : q = pending'
  OBVIOUS
<1>2. /\ pc = "run" /\ native = NoCall /\ pc' = "alloc"
      /\ heap' = heap /\ global' = global /\ scenes' = scenes /\ native' = native
      /\ q = Request("new", type, 1, d, captured)
  BY <1>1 DEF New, Running, Issue, heapVars, MI, Ready
<1>3. q.op = "new" /\ q.type = type /\ q.captured = captured /\ q.cap = 1
  BY <1>2 DEF Request
<1>4. Serving' /\ Ready'
  BY <1>1, <1>2, <1>3 DEF Serving, Ready
<1> QED BY <1>1, <1>2, <1>3, <1>4, AskMatched

(* import, which asks for a scene: *)
LEMMA ImportMatched ==
  ASSUME MI, Inv', NEW d \in Reg, Import(d)
  PROVE  Matched /\ Faithful' /\ Kindly
<1>1. PICK q : q = pending'
  OBVIOUS
<1>2. /\ pc = "run" /\ native = NoCall /\ pc' = "alloc"
      /\ heap' = heap /\ global' = global /\ scenes' = scenes /\ native' = native
      /\ q = RequestScene("import", d, Undefined)
  BY <1>1 DEF Import, Running, Issue, heapVars, MI, Ready
<1>3. q.op = "import" /\ q.cap = 1
  BY <1>2 DEF RequestScene, Request
<1>4. Serving' /\ Ready'
  BY <1>1, <1>2, <1>3 DEF Serving, Ready
<1> QED BY <1>1, <1>2, <1>3, <1>4, AskMatched

(* cvm_create_array in the loop of foreach. *)
LEMMA ForeachNextMatched ==
  ASSUME MI, Inv', ForeachNext
  PROVE  Matched /\ Faithful' /\ Kindly
<1>1. PICK q : q = pending'
  OBVIOUS
<1>2. /\ pc = "native" /\ pc' = "alloc" /\ Obj(native.array).type = "object" /\ native.done < Count(Obj(native.array))
      /\ heap' = heap /\ global' = global /\ scenes' = scenes /\ native' = native
      /\ q = Request("cb_arg", "object", 1, native.rd, NoFields)
  BY <1>1 DEF ForeachNext, InForeach, IsTable, Issue, heapVars
<1>3. q.op = "cb_arg" /\ q.cap = 1
  BY <1>2 DEF Request
<1>4. Serving'
  <2>1. PICK n, o : n = native /\ o = Obj(native.array)
    OBVIOUS
  <2>2. native' = n /\ Obj(native.array)' = o /\ o.type = "object" /\ n.done < Count(o)
    BY <1>2, <2>1 DEF Obj
  <2>3. Obj(native.array)'.type = "object" /\ (native.done < Count(Obj(native.array)))'
    BY <1>2, <2>1, <2>2 DEF Count
  <2> QED BY <1>1, <1>3, <2>3 DEF Serving
<1>5. Ready'
  BY <1>1, <1>2, <1>3 DEF Ready
<1> QED BY <1>1, <1>2, <1>3, <1>4, <1>5, AskMatched

------------------------------------------------------------------------------
(* An object more for a script, which goes on. *)
LEMMA ServedKindly ==
  ASSUME MI, Inv', pc # "gc", native = NoCall, Served, Solid', Steady(heap, heap'),
         NEW F, scenes' = TopFrames(scenes, F)
  PROVE  Kindly
<1>1. pending'.op = "none" /\ native' = NoCall
  BY ServedIs
<1>2. Serving' /\ Ready'
  BY <1>1, Unasked
<1>3. Closures'
  BY <1>1, TopClosures DEF MI
<1> QED BY <1>2, <1>3 DEF Kindly

(* The table that was asked for: *)
LEMMA NewServedMatched ==
  ASSUME MI, Inv', NewServed
  PROVE  Matched /\ Faithful' /\ Kindly
<1>1. PICK regs : regs = [Regs EXCEPT ![pending.reg] = Fresh]
  OBVIOUS
<1>2. /\ pc # "gc" /\ native = NoCall /\ Served /\ scenes' = WithRegs(regs)
      /\ AsksNew(pending.type, pending.captured) /\ pending.reg \in Reg
  BY <1>1 DEF NewServed, MI, Ready, Inv, Typed, RequestType
<1>3. Solid' /\ Steady(heap, heap')
  BY <1>2, NewServedSolid DEF MI
<1>4. scenes' = TopFrames(scenes, FirstRegs(scenes[1].frames, regs))
  BY <1>2, RegsTop DEF MI
<1>5. Kindly
  BY <1>2, <1>3, <1>4, ServedKindly
<1>6. M!New(MachineState, MachineState', pending.reg, pending.type, pending.captured) /\ Faithful'
  BY <1>2, <1>3, NewServedSeen DEF MI
<1>7. M!Next(MachineState, MachineState')
  BY <1>2, <1>6, NewInstructs
<1> QED BY <1>5, <1>6, <1>7 DEF Matched

(* The table that was grown for a SETOBJ: *)
LEMMA GrowServedMatched ==
  ASSUME MI, Inv', GrowServed
  PROVE  Matched /\ Faithful' /\ Kindly
<1>1. PICK regs : regs = [Regs EXCEPT ![pending.reg] = Resolve(Regs[pending.reg])]
  OBVIOUS
<1>2. pc = "alloc" /\ pending.op = "grow" /\ Served /\ scenes' = WithRegs(regs)
  BY <1>1 DEF GrowServed, SetReg
<1>3. native = NoCall /\ pending.type = "object" /\ Grows
  BY <1>2 DEF MI, Ready
<1>4. Obj(Regs[pending.reg]).type = "object"
  BY <1>2, <1>3, GrowsTable DEF MI
<1>5. Solid' /\ Steady(heap, heap')
  BY <1>3, <1>4, GrowServedSolid DEF MI
<1>6. scenes' = TopFrames(scenes, FirstRegs(scenes[1].frames, regs))
  BY <1>2, RegsTop DEF MI
<1>7. Kindly
  BY <1>2, <1>3, <1>5, <1>6, ServedKindly
<1>8. MachineState' = MachineState /\ Faithful'
  BY <1>3, <1>4, <1>5, GrowServedSeen DEF MI
<1> QED BY <1>7, <1>8 DEF Matched

(* A table that is set; it may ask to grow. *)
LEMMA SetObjMatched ==
  ASSUME MI, Inv', NEW r \in Reg, NEW k \in Key, NEW s \in Reg \cup {0}, SetObj(r, k, s)
  PROVE  Matched /\ Faithful' /\ Kindly
<1>1. PICK p, w, o, regs :
        /\ p = Resolve(Regs[r]) /\ w = Operand(Regs, s) /\ regs = [Regs EXCEPT ![r] = Resolve(Regs[r])]
        /\ o = [Obj(Resolve(Regs[r])) EXCEPT !.fields = Put(@, k, Operand(Regs, s))]
  OBVIOUS
<1>2. /\ pc = "run" /\ Holds(r, {"object"}) /\ scenes' = WithRegs(regs) /\ native' = native
      /\ heap' = [heap EXCEPT ![p[1]][p[2]] = o]
      /\ IF NeedExpand(o) THEN Issue(Request("grow", o.type, 2 * o.cap, r, NoFields)) ELSE UNCHANGED <<pc, pending>>
  BY <1>1 DEF SetObj, Running, SetReg
<1>3. native = NoCall /\ pending.op = "none" /\ Inv /\ Solid /\ Faithful /\ Closures /\ pc # "gc"
  BY <1>2, RunsFree DEF MI, Ready
<1>4. Solid' /\ Steady(heap, heap')
  BY <1>3, SetObjSolid
<1>5. M!SetObj(MachineState, MachineState', r, k, s) /\ Faithful'
  BY <1>3, <1>4, SetObjSeen
<1>6. M!Next(MachineState, MachineState')
  BY <1>5, Instructs
<1>7. scenes' = TopFrames(scenes, FirstRegs(scenes[1].frames, regs))
  BY <1>2, <1>3, RegsTop
<1>8. Closures'
  BY <1>3, <1>4, <1>7, <1>2, TopClosures
<1>9. CASE ~NeedExpand(o)
  <2>1. pending'.op = "none" /\ native' = NoCall
    BY <1>2, <1>3, <1>9
  <2>2. Serving' /\ Ready'
    BY <2>1, Unasked
  <2> QED BY <2>2, <1>4, <1>5, <1>6, <1>8 DEF Matched, Kindly
<1>10. CASE NeedExpand(o)
  <2>1. PICK q : q = pending'
    OBVIOUS
  <2>2. q = Request("grow", o.type, 2 * o.cap, r, NoFields) /\ pc' = "alloc"
    BY <1>2, <1>10, <2>1 DEF Issue
  <2>3. q.op = "grow" /\ q.type = o.type /\ q.reg = r
    BY <2>2 DEF Request
  <2>4. p \in Pointer /\ Obj(p).type = "object" /\ p \in Visible /\ Obj(p) \in Object
    BY <1>1, <1>2, <1>3, HoldsSeen
  <2>5. o.type = "object"
    <3>1. PICK F : F = Put(Obj(p).fields, k, w)
      OBVIOUS
    <3>2. o = [Obj(p) EXCEPT !.fields = F]
      BY <1>1, <3>1
    <3> QED BY <2>4, <3>2 DEF Object
  <2>6. Regs' = regs
    <3>1. scenes \in Scenes /\ Regs \in [Reg -> Datum] /\ p \in Datum
      BY <1>3, <2>4, MachineParts DEF Datum
    <3>2. WithRegs(regs)[1].frames[1].regs = regs
      BY <1>1, <1>3, <3>1, RegsSet DEF Inv
    <3>3. Regs' = scenes'[1].frames[1].regs
      BY DEF Regs, Frame, Scene
    <3> QED BY <1>2, <3>2, <3>3
  <2>7. At(heap', p).type = "object"
    <3>1. p \in In(heap)
      BY <1>3, <2>4, VisibleIds
    <3>2. heap \in Heaps /\ p[1] \in {0, 1} /\ p[2] \in 1 .. Len(heap[p[1]]) /\ heap[p[1]] \in Seq(Object)
      BY <1>3, <3>1, Now, AtIs
    <3>3. heap'[p[1]][p[2]] = o
      BY <1>2, <3>2 DEF Heaps
    <3> QED BY <2>5, <3>3 DEF At
  <2>8. Table'
    <3>1. Regs'[r] = p
      <4>1. Regs \in [Reg -> Datum]
        BY <1>3, MachineParts
      <4> QED BY <4>1, <2>6, <1>1
    <3>2. IsPtr(p) /\ Obj(p)' = At(heap', p)
      BY <2>4, PointerIs DEF Obj, At, Datum
    <3>3. IsTable(Regs[pending.reg], "object")'
      BY <2>1, <2>3, <2>7, <3>1, <3>2 DEF IsTable, Obj, At, IsPtr
    <3> QED BY <2>1, <2>3, <3>3 DEF Table
  <2>9. Grows'
    BY <2>8, <1>4, <1>5, GrowsNext
  <2>10. Ready'
    BY <1>2, <1>3, <2>1, <2>2, <2>3, <2>5, <2>9 DEF Ready
  <2>11. Serving'
    BY <2>1, <2>3 DEF Serving
  <2> QED BY <1>4, <1>5, <1>6, <1>8, <2>10, <2>11 DEF Matched, Kindly
<1> QED BY <1>9, <1>10

------------------------------------------------------------------------------
(* A script that a C function calls starts. *)
LEMMA PushKindly ==
  ASSUME MI, Inv', pc # "gc", NEW frame, NEW caller, PushScene(frame, caller),
         caller.fn = "foreach" => native.fn = "foreach" /\ caller.callback = native.callback
  PROVE  Kindly
<1>1. PICK x : x = [external |-> Fresh, frames |-> <<frame>>, caller |-> caller]
  OBVIOUS
<1>2. scenes' = OnTop(x, scenes) /\ native' = NoCall /\ x.caller = caller /\ pending' = NoRequest
  BY <1>1 DEF PushScene, OnTop
<1>3. Solid' /\ Steady(heap, heap')
  BY PushSolid DEF MI
<1>4. pending'.op = "none"
  BY <1>2 DEF NoRequest, Request
<1>5. Serving' /\ Ready'
  BY <1>2, <1>4, Unasked
<1>6. Closures'
  BY <1>2, <1>3, PushClosures DEF MI
<1> QED BY <1>3, <1>5, <1>6 DEF Kindly

(* The scene of the imported module: *)
LEMMA ImportServedMatched ==
  ASSUME MI, Inv', ImportServed
  PROVE  Matched /\ Faithful' /\ Kindly
<1>1. PICK frame, caller : frame = MainFrame(global) /\ caller = [NoCall EXCEPT !.fn = "import", !.rd = pending.reg]
  OBVIOUS
<1>2. pc = "alloc" /\ pending.op = "import" /\ PushScene(frame, caller)
  BY <1>1 DEF ImportServed
<1>3. caller.fn = "import"
  BY <1>1 DEF NoCall
<1>4. native = NoCall /\ pc # "gc" /\ pending.reg \in Reg
  BY <1>2 DEF MI, Ready, Inv, Typed, RequestType
<1>5. Kindly
  BY <1>2, <1>3, <1>4, PushKindly
<1>6. M!Import(MachineState, MachineState', pending.reg) /\ Faithful'
  BY <1>4, <1>5, ImportServedSeen DEF MI, Kindly
<1> QED BY <1>4, <1>5, <1>6, CallsFromC DEF Matched

(* The scene of a callback: *)
LEMMA SceneServedMatched ==
  ASSUME MI, Inv', SceneServed
  PROVE  Matched /\ Faithful' /\ Kindly
<1>1. PICK frame, caller : /\ frame = NewFrame(Obj(native.callback), Obj(pending.args), 1)
                           /\ caller = [native EXCEPT !.done = @ + 1]
  OBVIOUS
<1>2. pc = "alloc" /\ pending.op = "scene" /\ PushScene(frame, caller)
  BY <1>1 DEF SceneServed
<1>3. Inv /\ Solid /\ Faithful /\ Serving /\ Closures /\ Typed /\ Calm /\ pc # "gc"
  BY <1>2 DEF MI, Inv
<1>4. native \in CallType /\ caller.fn = native.fn /\ caller.callback = native.callback
  BY <1>1, <1>3 DEF Typed, CallType
<1>5. native.fn = "foreach" /\ pending.args \in Places
  BY <1>2, <1>3 DEF Calm, PendingIn, Places
<1>6. Kindly
  BY <1>2, <1>3, <1>4, <1>5, PushKindly
<1>7. /\ Obj(native.array).type = "object" /\ native.done < Count(Obj(native.array))
      /\ Obj(pending.args).fields = CallbackArguments(global, Element)
  BY <1>2, <1>3 DEF Serving
<1>8. Obj(native.callback).type = "closure"
  BY <1>3, <1>5 DEF Closures, CallsOf, Obj, At
<1>9. M!ForeachNext(MachineState, MachineState') /\ Faithful'
  BY <1>3, <1>5, <1>6, <1>7, <1>8, SceneServedSeen DEF Kindly
<1> QED BY <1>6, <1>9, CallsFromC DEF Matched

(* C code allocates: the array of arguments and the external array. *)
LEMMA InternalMatched ==
  ASSUME MI, Inv', CbArgServed \/ ExternalServed
  PROVE  Matched /\ Faithful' /\ Kindly
<1>1. Inv /\ Solid /\ Faithful /\ Serving /\ Closures
  BY DEF MI
<1>2. /\ SameTables(heap, heap') /\ SameFrames(scenes, scenes') /\ Serving' /\ Solid'
      /\ global' = global /\ native' = native
  BY <1>1, CbArgHeap, ExternalHeap
<1>3. MachineState' = MachineState /\ Faithful'
  BY <1>1, CbArgServedSeen, ExternalServedSeen
<1>4. pc = "alloc" /\ pc' = "alloc" /\ pending'.op \in {"external", "scene"}
  BY DEF CbArgServed, ExternalServed, PassArguments, Issue, RequestScene, Request
<1>5. Ready'
  BY <1>4 DEF Ready
<1>6. Closures'
  BY <1>1, <1>2, <1>4, SteadyIs, IdleClosures
<1> QED BY <1>2, <1>3, <1>5, <1>6 DEF Matched, Kindly

------------------------------------------------------------------------------
(* The end of a run that C code called. *)
LEMMA LeaveMatched ==
  ASSUME MI, Inv', NEW v \in {Undefined} \cup Range(Regs), Leave(v)
  PROVE  Matched /\ Faithful' /\ Kindly
<1>1. /\ pc = "run" /\ Len(scenes) > 1 /\ heap' = heap /\ pending' = pending
      /\ LeaveImport(v) \/ LeaveCallback
  BY DEF Leave, Running, heapVars
<1>2. Inv /\ Solid /\ Faithful /\ Closures /\ pc # "gc" /\ native = NoCall /\ Scene = scenes[1]
  BY <1>1, FramesAre DEF MI, Ready
<1>3. pending'.op = "none"
  BY <1>1, <1>2, RunsFree
<1>4. Solid' /\ Steady(heap, heap')
  BY <1>1, <1>2, SameSolid
<1>5. CASE LeaveImport(v)
  <2>1. /\ native' = native /\ pc' = pc
        /\ scenes' = [Tail(scenes) EXCEPT ![1].frames[1].regs[Scene.caller.rd] = v]
    BY <1>5 DEF LeaveImport
  <2>2. PICK F : scenes' = TopFrames(Tail(scenes), F)
    BY <2>1 DEF TopFrames
  <2>3. Tail(scenes) \in Scenes /\ scenes' \in Scenes
    BY <1>1, <1>2, TailIs DEF Inv, Typed, Scenes
  <2>4. CallsOf(native', scenes') = CallsOf(native', Tail(scenes))
    BY <2>2, <2>3, TopCallers
  <2>5. Closures'
    BY <1>1, <1>2, <2>1, <2>4, TailClosures
  <2>6. Serving' /\ Ready'
    BY <1>2, <1>3, <2>1, Unasked
  <2>7. Faithful' /\ \E w \in {M!Undefined} \cup M!Range(M!Regs(MachineState)) : M!Leave(MachineState, MachineState', w)
    BY <1>2, <1>4, <1>5, LeaveImportSeen
  <2>8. M!Next(MachineState, MachineState')
    BY <2>7, CallsFromC
  <2> QED BY <1>4, <2>5, <2>6, <2>7, <2>8 DEF Matched, Kindly
<1>6. CASE LeaveCallback
  <2>1. native' = scenes[1].caller /\ pc' = "native" /\ scenes' = Tail(scenes)
    BY <1>2, <1>6 DEF LeaveCallback
  <2>2. Closures'
    BY <1>1, <1>2, <2>1, TailClosures
  <2>3. Serving' /\ Ready'
    BY <1>3, <2>1, Unasked
  <2>4. Faithful' /\ \E w \in {M!Undefined} \cup M!Range(M!Regs(MachineState)) : M!Leave(MachineState, MachineState', w)
    BY <1>2, <1>4, <1>6, LeaveCallbackSeen
  <2>5. M!Next(MachineState, MachineState')
    BY <2>4, CallsFromC
  <2> QED BY <1>4, <2>2, <2>3, <2>4, <2>5 DEF Matched, Kindly
<1> QED BY <1>1, <1>5, <1>6

(* foreach is called, and returns. *)
LEMMA ForeachCallMatched ==
  ASSUME MI, Inv', NEW d \in Reg, NEW a \in Reg, ForeachCall(d, a)
  PROVE  Matched /\ Faithful' /\ Kindly
<1>1. PICK array, callback : /\ array = Get(Obj(Regs[a]), ArrayArgument)
                             /\ callback = Get(Obj(Regs[a]), CallbackArgument)
  OBVIOUS
<1>2. /\ pc = "run" /\ pc' = "native" /\ heap' = heap /\ scenes' = scenes /\ pending' = pending
      /\ IsTable(callback, "closure")
      /\ native' = [fn |-> "foreach", rd |-> d, array |-> array, callback |-> callback, done |-> 0]
  BY <1>1 DEF ForeachCall, Running, heapVars
<1>3. Inv /\ Solid /\ Faithful /\ Closures /\ pc # "gc" /\ native = NoCall
  BY <1>2 DEF MI, Ready
<1>4. pending'.op = "none"
  BY <1>2, <1>3, RunsFree
<1>5. Solid'
  BY <1>2, <1>3, SameSolid
<1>6. Serving' /\ Ready'
  BY <1>2, <1>4, Unasked
<1>7. Closures'
  <2>1. PICK h, scs, m : h = heap /\ scs = scenes /\ m = native'
    OBVIOUS
  <2>2. m.callback = callback /\ At(h, callback).type = "closure"
    BY <1>2, <2>1 DEF IsTable, Obj, At
  <2>3. ASSUME NEW c \in CallsOf(m, scs), c.fn = "foreach" PROVE At(h, c.callback).type = "closure"
    <3>1. CASE c = m
      BY <3>1, <2>2
    <3>2. CASE c # m
      <4>1. c \in CallsOf(native, scenes)
        BY <3>2, <2>1, <2>3 DEF CallsOf
      <4> QED BY <4>1, <1>3, <2>1, <2>3 DEF Closures
    <3> QED BY <3>1, <3>2
  <2> QED BY <1>2, <2>1, <2>3 DEF Closures
<1>8. M!ForeachCall(MachineState, MachineState', d, a) /\ Faithful'
  BY <1>3, <1>5, ForeachCallSeen
<1> QED BY <1>5, <1>6, <1>7, <1>8, CallsFromC DEF Matched, Kindly

(* The end of foreach: *)
LEMMA ForeachDoneMatched ==
  ASSUME MI, Inv', ForeachDone
  PROVE  Matched /\ Faithful' /\ Kindly
<1>1. PICK regs : regs = [Regs EXCEPT ![native.rd] = Undefined]
  OBVIOUS
<1>2. pc = "native" /\ heap' = heap /\ pending' = pending /\ native' = NoCall /\ scenes' = WithRegs(regs)
  BY <1>1 DEF ForeachDone, InForeach, SetReg, heapVars
<1>3. scenes' = TopFrames(scenes, FirstRegs(scenes[1].frames, regs))
  BY <1>2, RegsTop DEF MI
<1>4. Kindly
  BY <1>2, <1>3, FramesKindly
<1>5. M!ForeachDone(MachineState, MachineState') /\ Faithful'
  BY <1>4, ForeachDoneSeen DEF MI, Kindly
<1> QED BY <1>4, <1>5, CallsFromC DEF Matched

------------------------------------------------------------------------------
(* A step the machine does not see keeps what the requests promise. *)
LEMMA ReadyKept ==
  ASSUME Ready, MachineState' = MachineState, native' = native, pc' # "run",
         pending' = pending \/ pending' = [pending EXCEPT !.retry = TRUE], pending \in RequestType
  PROVE  Ready'
<1>1. PICK q, p : q = pending' /\ p = pending
  OBVIOUS
<1>2. q.op = p.op /\ q.type = p.type /\ q.captured = p.captured /\ q.reg = p.reg
  BY <1>1 DEF RequestType
<1>3. Grows' = Grows
  BY <1>1, <1>2 DEF Grows
<1> QED BY <1>1, <1>2, <1>3 DEF Ready

(* The collector. *)
LEMMA StartGCMatched ==
  ASSUME MI, Inv', StartGC
  PROVE  Matched /\ Faithful' /\ Kindly
<1>1. pc' = "gc" /\ native' = native /\ pending' = [pending EXCEPT !.retry = TRUE] /\ pending \in RequestType
  BY DEF StartGC, MI, Inv, Typed
<1>2. Solid'
  BY StartGCSolid DEF MI
<1>3. MachineState' = MachineState /\ Faithful'
  BY <1>2, StartGCSeen DEF MI
<1>4. Ready'
  BY <1>1, <1>3, ReadyKept DEF MI
<1>5. Serving' /\ Closures'
  BY <1>1 DEF Serving, Closures
<1> QED BY <1>2, <1>3, <1>4, <1>5 DEF Matched, Kindly

(* One cell marked by the collector, which the machine does not see: *)
LEMMA MarkMatched ==
  ASSUME ~CollectPastEnd, MI, Inv', Mark
  PROVE  Matched /\ Faithful' /\ Kindly
<1>1. pc' = "gc" /\ native' = native /\ pending' = pending /\ pending \in RequestType
  BY DEF Mark, MI, Inv, Typed
<1>2. Solid'
  BY MarkSolid DEF MI
<1>3. MachineState' = MachineState /\ Faithful'
  BY <1>2, MarkSeen DEF MI
<1>4. Ready'
  BY <1>1, <1>3, ReadyKept DEF MI
<1>5. Serving' /\ Closures'
  BY <1>1 DEF Serving, Closures
<1> QED BY <1>2, <1>3, <1>4, <1>5 DEF Matched, Kindly

(* The end of a collection, which drops the old block: *)
LEMMA EndGCMatched ==
  ASSUME MI, Inv', EndGC
  PROVE  Matched /\ Faithful' /\ Kindly
<1>1. pc = "gc" /\ pc' = "alloc" /\ native' = native /\ scenes' = scenes /\ pending' = pending /\ pending \in RequestType
  BY DEF EndGC, MI, Inv, Typed
<1>2. Solid'
  BY EndGCSolid DEF MI
<1>3. MachineState' = MachineState /\ Faithful'
  BY <1>2, EndGCSeen DEF MI
<1>4. Ready'
  BY <1>1, <1>3, ReadyKept DEF MI
<1>5. pending.op \in {"new", "grow", "import"} /\ NoForeach(native, scenes)
  BY <1>1 DEF MI, Inv, Busy, Copying, Asked
<1>6. Serving'
  BY <1>1, <1>5 DEF Serving
<1>7. Closures'
  BY <1>1, <1>5 DEF Closures, NoForeach, CallsOf
<1> QED BY <1>2, <1>3, <1>4, <1>6, <1>7 DEF Matched, Kindly

(* A collection that was not enough: *)
LEMMA OutOfMemoryMatched ==
  ASSUME MI, Inv', OutOfMemory
  PROVE  Matched /\ Faithful' /\ Kindly
<1>1. /\ pc = "alloc" /\ pc' = "oom" /\ heap' = heap /\ global' = global /\ native' = native /\ scenes' = scenes
      /\ pending' = pending /\ pending \in RequestType
  BY DEF OutOfMemory, heapVars, MI, Inv, Typed
<1>2. Solid' /\ Steady(heap, heap')
  BY <1>1, SameSolid DEF MI
<1>3. MachineState' = MachineState /\ Faithful'
  BY <1>1, <1>2, IdleStep DEF MI
<1>4. Ready'
  BY <1>1, <1>3, ReadyKept DEF MI
<1>5. Serving'
  BY <1>1 DEF MI, Serving, Obj, Count, Element, Get, CallbackArguments
<1>6. Closures'
  BY <1>1, <1>2, IdleClosures DEF MI
<1> QED BY <1>2, <1>3, <1>4, <1>5, <1>6 DEF Matched, Kindly

(* No step: *)
LEMMA StutterMatched ==
  ASSUME MI, UNCHANGED vars
  PROVE  MI' /\ Matched
<1>1. /\ heap' = heap /\ used' = used /\ current' = current /\ global' = global /\ scenes' = scenes
      /\ pc' = pc /\ pending' = pending /\ todo' = todo /\ native' = native /\ program' = program
  BY DEF vars
<1>2. Inv'
  BY StutterStep DEF MI
<1>3. Solid'
  BY <1>1, SameSolid DEF MI
<1>4. MachineState' = MachineState /\ Faithful'
  BY <1>1, <1>2, <1>3, IdleStep DEF MI
<1>5. Serving'
  BY <1>1 DEF MI, Serving, Obj, Count, Element, Get, CallbackArguments
<1>6. Grows' = Grows
  BY <1>1, <1>4 DEF Grows
<1>7. Ready'
  BY <1>1, <1>6 DEF MI, Ready
<1>8. Closures'
  BY <1>1 DEF MI, Closures, CallsOf
<1> QED BY <1>2, <1>3, <1>4, <1>5, <1>7, <1>8 DEF MI, Matched

------------------------------------------------------------------------------
(* The objects at first: the global object and the external array of the scene. *)
InitialHeap(h, a, b) ==
  /\ h \in Heaps /\ <<0, 1>> \in In(h) /\ <<0, 1>> \in Pointer /\ At(h, <<0, 1>>) = a
  /\ \A p \in In(h) : At(h, p) \in {a, b}
  /\ a \in Object /\ a.type = "object" /\ a.cap = 1 /\ a.fields = NoFields /\ a.fwd = Undefined /\ a.id = <<1>>
  /\ b \in Object /\ b.type = "object" /\ b.cap = 1 /\ b.fields = NoFields /\ b.fwd = Undefined /\ b.id = NoId

(* The heap that a program begins with: the global object, and nothing else that
   has a name. *)
LEMMA InitHeap ==
  ASSUME Init
  PROVE  <<1>> \in Ids /\ \E a, b : InitialHeap(heap, a, b)
<1>1. program \in Programs
  BY DEF Init
<1>2. PICK a, b : a = NewObject("object", 1, NoFields, <<1>>) /\ b = NewObject("object", 1, NoFields, NoId)
  OBVIOUS
<1>3. heap = [c \in {0, 1} |-> IF c = 0 THEN <<a, b>> ELSE <<>>]
  BY <1>2 DEF Init
<1>4. <<1>> \in Ids
  <2>1. program.blockSize \in Nat \ (0 .. 3)
    BY <1>1, HeapAssumption
  <2>2. 1 \in 1 .. program.blockSize
    BY <2>1
  <2>3. <<1>> \in {<<i>> : i \in 1 .. program.blockSize}
    BY <2>2
  <2> QED BY <2>3, <1>1 DEF Ids
<1>5. /\ a \in Object /\ a.type = "object" /\ a.cap = 1 /\ a.fields = NoFields /\ a.fwd = Undefined /\ a.id = <<1>>
      /\ b \in Object /\ b.type = "object" /\ b.cap = 1 /\ b.fields = NoFields /\ b.fwd = Undefined /\ b.id = NoId
  BY <1>2, <1>4, NoFieldsIs DEF NewObject, Object
<1>6. /\ <<a, b>> \in Seq(Object) /\ Len(<<a, b>>) = 2 /\ <<a, b>>[1] = a /\ <<a, b>>[2] = b
      /\ <<>> \in Seq(Object) /\ Len(<<>>) = 0
  BY <1>5
<1>7. heap[0] = <<a, b>> /\ heap[1] = <<>> /\ heap \in Heaps
  BY <1>3, <1>6 DEF Heaps
<1>8. <<0, 1>> \in In(heap) /\ <<0, 1>> \in Pointer /\ At(heap, <<0, 1>>) = a
  <2>1. <<0, 1>> \in Pointer
    BY DEF Pointer
  <2>2. PICK p : p = <<0, 1>>
    OBVIOUS
  <2>3. p[1] = 0 /\ p[2] = 1
    BY <2>2
  <2>4. p \in Pointer /\ Len(heap[p[1]]) = 2 /\ heap[p[1]][p[2]] = a
    BY <2>1, <2>2, <2>3, <1>6, <1>7
  <2>5. p \in In(heap) /\ At(heap, p) = a
    BY <2>3, <2>4 DEF In, At
  <2> QED BY <2>1, <2>2, <2>5
<1>9. ASSUME NEW p \in In(heap) PROVE At(heap, p) \in {a, b}
  <2>1. p[1] \in {0, 1} /\ p[2] \in Nat \ {0} /\ p[2] <= Len(heap[p[1]])
    BY PointerIs DEF In
  <2>2. p[1] = 0
    BY <2>1, <1>6, <1>7
  <2>3. p[2] \in {1, 2}
    BY <2>1, <2>2, <1>6, <1>7
  <2> QED BY <2>2, <2>3, <1>6, <1>7 DEF At
<1> QED BY <1>4, <1>5, <1>7, <1>8, <1>9 DEF InitialHeap

(* The new parts of MI hold there. *)
LEMMA InitSolid ==
  ASSUME Init
  PROVE  Solid /\ Serving /\ Ready /\ Closures
<1>1. PICK a, b : InitialHeap(heap, a, b)
  BY InitHeap
<1>2. SolidHeap(heap)
  BY <1>1 DEF InitialHeap, SolidHeap
<1>3. pc = "run" /\ pending.op = "none" /\ native = NoCall /\ scenes[1].caller = NoCall /\ Len(scenes) = 1
  BY DEF Init, NoRequest, Request
<1>4. \A c \in CallsOf(native, scenes) : c.fn # "foreach"
  BY <1>3 DEF CallsOf, NoCall
<1> QED BY <1>2, <1>3, <1>4, SolidIs DEF Serving, Ready, Closures

(* The global object is all that can be reached there. *)
LEMMA InitVisible ==
  ASSUME Init
  PROVE  Visible = {<<0, 1>>} /\ Inv
<1>1. PICK a, b : InitialHeap(heap, a, b)
  BY InitHeap
<1>2. Inv /\ Solid
  BY InitInv, InitSolid
<1>3. PICK h, g, scs, nat, m, D, V : /\ h = heap /\ g = global /\ scs = scenes /\ nat = native
                                     /\ m = MachineState /\ D = Ends /\ V = Visible
  OBVIOUS
<1>4. View(h, g, scs, nat, m, D, V) /\ InitialHeap(h, a, b) /\ scs \in Seq(SceneType)
  BY <1>1, <1>2, <1>3, Now DEF Scenes
<1>5. g = <<0, 1>> /\ nat = NoCall
  BY <1>3 DEF Init
<1>6. PICK fr, sc : /\ fr = MainFrame(<<0, 1>>)
                    /\ sc = [external |-> <<0, 2>>, frames |-> <<MainFrame(<<0, 1>>)>>, caller |-> NoCall]
  OBVIOUS
<1>7. scs = <<sc>> /\ sc.frames = <<fr>> /\ sc.caller = NoCall
  BY <1>3, <1>6 DEF Init
<1>8. D[g] = g /\ PtrsOf(At(h, g)) = {}
  <2>1. ~IsHeader(At(h, g)) /\ At(h, g).fields = NoFields
    BY <1>4, <1>5 DEF InitialHeap, IsHeader
  <2>2. PtrsOf(At(h, g)) = {}
    BY <2>1, NoFieldsIs
  <2> QED BY <2>1, <2>2, <1>4, <1>5 DEF View, Denotes, InitialHeap
<1>9. ASSUME NEW v, Root(g, scs, nat, v) PROVE v = g
  <2>1. Undefined \notin Pointer
    BY NoPointer, PointerIs DEF Datum
  <2>2. \A c \in CallsOf(nat, scs) : c = NoCall
    BY <1>5, <1>7 DEF CallsOf
  <2>3. \A c \in CallsOf(nat, scs) : v \notin {c.array, c.callback}
    BY <2>1, <2>2, <1>9 DEF NoCall, Root
  <2>4. ASSUME NEW s \in 1 .. Len(scs), v \in HeldBy(scs[s]) PROVE v = g
    <3>1. scs[s] = sc
      BY <1>7
    <3>2. PICK f \in 1 .. Len(sc.frames) : \E r \in Reg : v = sc.frames[f].regs[r]
      BY <2>4, <3>1, HeldIs
    <3>3. sc.frames[f] = fr
      BY <1>7, <3>2
    <3>4. PICK r \in Reg : v = fr.regs[r]
      BY <3>2, <3>3
    <3>5. v = IF r = 1 THEN g ELSE Undefined
      BY <3>4, <1>5, <1>6 DEF MainFrame
    <3> QED BY <3>5, <2>1, <1>9 DEF Root
  <2> QED BY <1>9, <2>3, <2>4 DEF Root
<1>10. Closing(h, g, scs, nat, D, {g})
  BY <1>8, <1>9 DEF Closing
<1>11. V \subseteq {g}
  BY <1>4, <1>10 DEF View
<1>12. g \in V
  <2>1. Root(g, scs, nat, g)
    BY <1>4 DEF Root, View
  <2> QED BY <2>1, <1>4, <1>8 DEF View, Closing
<1> QED BY <1>2, <1>3, <1>5, <1>11, <1>12

(* The machine at first. *)
LEMMA InitMachine ==
  ASSUME Init
  PROVE  MI /\ M!Initial(MachineState)
<1>1. PICK a, b : InitialHeap(heap, a, b)
  BY InitHeap
<1>2. Inv /\ Solid /\ Serving /\ Ready /\ Closures /\ Visible = {<<0, 1>>} /\ <<1>> \in Ids
  BY InitHeap, InitSolid, InitVisible
<1>3. PICK g, i, m, O, h : /\ g = <<0, 1>> /\ i = <<1>> /\ m = MachineState /\ O = MachineState.objects /\ h = heap
  OBVIOUS
<1>4. /\ m = Record(O, IdIn(h, global), ScenesOf(h, scenes), CallOf(h, native)) /\ Shows(h, {g}, O)
      /\ InitialHeap(h, a, b) /\ i \in Ids
  BY <1>1, <1>2, <1>3, MachineIs
<1>5. global = g /\ native = NoCall
  BY <1>3 DEF Init
<1>6. At(h, g) = a /\ a.id = i /\ a.type = "object" /\ a.fields = NoFields /\ g \in Pointer
  BY <1>3, <1>4 DEF InitialHeap
<1>7. PICK x : x = [type |-> "object", fields |-> NoFields]
  OBVIOUS
<1>8. AbsOf(h, a) = x
  <2>1. FieldsOf(h, a) = NoFields
    BY <1>6 DEF FieldsOf, NoFields
  <2> QED BY <2>1, <1>6, <1>7 DEF AbsOf
<1>9. DOMAIN O = {i} /\ O[i] = x
  BY <1>4, <1>6, <1>8 DEF Shows
<1>10. O = [j \in {i} |-> x]
  BY <1>4, <1>9 DEF Shows
<1>11. Faithful
  <2>1. Pictures(h, {g}, O) /\ DistinctIn(h, {g})
    BY <1>6, <1>8, <1>9 DEF Pictures, DistinctIn
  <2> QED BY <2>1, <1>2, <1>3 DEF Faithful
<1>12. IdIn(h, g) = i /\ CallOf(h, NoCall) = NoCall
  <2>1. g \in Datum
    BY <1>6 DEF Datum
  <2> QED BY <2>1, <1>6, IdInIs, CallOfNone
<1>13. PICK fr, sc, fr2, sc2 :
         /\ fr = MainFrame(g) /\ sc = [external |-> <<0, 2>>, frames |-> <<MainFrame(g)>>, caller |-> NoCall]
         /\ fr2 = MainFrame(i) /\ sc2 = [frames |-> <<MainFrame(i)>>, caller |-> NoCall]
  OBVIOUS
<1>14. scenes = <<sc>> /\ sc.frames = <<fr>> /\ sc.caller = NoCall
  BY <1>3, <1>13 DEF Init
<1>15. FrameOf(h, fr) = fr2
  <2>1. \A r \in Reg : fr.regs[r] = IF r = 1 THEN g ELSE Undefined
    BY <1>13 DEF MainFrame
  <2>2. \A r \in Reg : IdIn(h, fr.regs[r]) = IF r = 1 THEN i ELSE Undefined
    BY <2>1, <1>12, NoPointer
  <2>3. RegsOf(h, fr.regs) = [r \in Reg |-> IF r = 1 THEN i ELSE Undefined]
    BY <2>2 DEF RegsOf
  <2>4. fr.rd = 1
    BY <1>13 DEF MainFrame
  <2> QED BY <2>3, <2>4, <1>13 DEF FrameOf, MainFrame
<1>16. \A F : [n \in 1 .. 1 |-> F] = <<F>>
  OBVIOUS
<1>17. FramesOf(h, sc.frames) = <<fr2>>
  <2>1. [f \in 1 .. Len(<<fr>>) |-> FrameOf(h, <<fr>>[f])] = [f \in 1 .. 1 |-> fr2]
    BY <1>15
  <2> QED BY <2>1, <1>14, <1>16 DEF FramesOf
<1>18. SceneOf(h, sc) = sc2
  BY <1>12, <1>13, <1>14, <1>17, SceneOfIs
<1>19. ScenesOf(h, scenes) = <<sc2>>
  <2>1. [s \in 1 .. Len(<<sc>>) |-> SceneOf(h, <<sc>>[s])] = [s \in 1 .. 1 |-> sc2]
    BY <1>18
  <2> QED BY <2>1, <1>14, <1>16 DEF ScenesOf
<1>20. m = Record(O, i, <<sc2>>, NoCall) /\ m.global = i
  BY <1>4, <1>5, <1>12, <1>19 DEF Record
<1>21. M!Initial(m)
  <2>1. M!NoFields = NoFields /\ M!NoCall = NoCall /\ M!MainFrame(i) = MainFrame(i)
    BY SameNotions
  <2>2. m = [global |-> i, objects |-> [j \in {i} |-> x], scenes |-> <<sc2>>, native |-> NoCall]
    BY <1>10, <1>20 DEF Record
  <2>3. sc2 = [frames |-> <<M!MainFrame(i)>>, caller |-> M!NoCall] /\ x = [type |-> "object", fields |-> M!NoFields]
    BY <2>1, <1>7, <1>13
  <2> QED BY <2>1, <2>2, <2>3, <1>4, <1>20 DEF M!Initial
<1> QED BY <1>2, <1>3, <1>11, <1>21 DEF MI

------------------------------------------------------------------------------
(* Every step, by the actions of CallbacksNext. *)
LEMMA InstructionMatched ==
  ASSUME MI, Inv', Instruction
  PROVE  Matched /\ Faithful' /\ Kindly
<1>1. Operands \subseteq Reg \cup {0}
  BY DEF Operands
<1>2. PICK d \in Reg :
        \/ Uses("load") /\ Load(d)
        \/ Uses("object") /\ New(d, "object", NoFields)
        \/ \E s \in Operands :
             \/ Uses("move") /\ Move(d, s)
             \/ \E k \in Key : Uses("set") /\ SetObj(d, k, s)
        \/ \E r \in Reg :
             \/ \E c \in Reg : Uses("closure") /\ New(d, "closure", [x \in {c} |-> r])
             \/ \E k \in Key : Uses("get") /\ GetObj(d, r, k)
             \/ \E a \in Reg : Uses("call") /\ Call(d, r, a)
             \/ Uses("call") /\ Return(r)
  BY Zenon DEF Instruction
<1>3. CASE Load(d)
  BY <1>3, LoadMatched
<1>4. CASE New(d, "object", NoFields)
  <2>1. PICK type, captured : type = "object" /\ captured = NoFields
    OBVIOUS
  <2>2. AsksNew(type, captured) /\ New(d, type, captured)
    BY <1>4, <2>1 DEF AsksNew
  <2> QED BY <2>2, NewMatched
<1>5. CASE \E s \in Operands : Move(d, s) \/ \E k \in Key : SetObj(d, k, s)
  <2>1. PICK s \in Operands : Move(d, s) \/ \E k \in Key : SetObj(d, k, s)
    BY <1>5
  <2>2. s \in Reg \cup {0}
    BY <1>1
  <2>3. CASE Move(d, s)
    BY <2>2, <2>3, MoveMatched
  <2>4. CASE \E k \in Key : SetObj(d, k, s)
    BY <2>2, <2>4, SetObjMatched
  <2> QED BY <2>1, <2>3, <2>4
<1>6. CASE \E r \in Reg : \E c \in Reg : New(d, "closure", [x \in {c} |-> r])
  <2>1. PICK r \in Reg, c \in Reg : New(d, "closure", [x \in {c} |-> r])
    BY <1>6
  <2>2. PICK type, captured : type = "closure" /\ captured = [x \in {c} |-> r]
    OBVIOUS
  <2>3. AsksNew(type, captured) /\ New(d, type, captured)
    BY <2>1, <2>2 DEF AsksNew
  <2> QED BY <2>3, NewMatched
<1>7. CASE \E r \in Reg : \E k \in Key : GetObj(d, r, k)
  BY <1>7, GetObjMatched
<1>8. CASE \E r \in Reg : \E a \in Reg : Call(d, r, a)
  BY <1>8, CallMatched
<1>9. CASE \E r \in Reg : Return(r)
  BY <1>9, ReturnMatched
<1> QED BY <1>2, <1>3, <1>4, <1>5, <1>6, <1>7, <1>8, <1>9

(* The instructions that call C functions, and the returns of C functions. *)
LEMMA FromCMatched ==
  ASSUME MI, Inv', FromC
  PROVE  Matched /\ Faithful' /\ Kindly
<1>1. CASE \E d \in Reg : Import(d)
  BY <1>1, ImportMatched
<1>2. CASE ImportServed
  BY <1>2, ImportServedMatched
<1>3. CASE \E v \in {Undefined} \cup Range(Regs) : Leave(v)
  BY <1>3, LeaveMatched
<1> QED BY <1>1, <1>2, <1>3 DEF FromC

(* Every step of foreach. *)
LEMMA ForeachMatched ==
  ASSUME MI, Inv', Foreach
  PROVE  Matched /\ Faithful' /\ Kindly
<1>1. CASE \E d \in Reg, a \in Reg : ForeachCall(d, a)
  BY <1>1, ForeachCallMatched
<1>2. CASE ForeachNext
  BY <1>2, ForeachNextMatched
<1>3. CASE CbArgServed \/ ExternalServed
  BY <1>3, InternalMatched
<1>4. CASE SceneServed
  BY <1>4, SceneServedMatched
<1>5. CASE ForeachDone
  BY <1>5, ForeachDoneMatched
<1> QED BY <1>1, <1>2, <1>3, <1>4, <1>5 DEF Foreach

(* Every step is a step of the machine or none, and keeps MI. *)
LEMMA NextMachine ==
  ASSUME ~StaleFields, ~CollectPastEnd, ~CollectInForeach, MI, [CallbacksNext]_vars
  PROVE  MI' /\ Matched
<1>1. Inv'
  BY NextInv DEF MI
<1>2. CASE UNCHANGED vars
  BY <1>2, StutterMatched
<1>3. CASE StartGC
  BY <1>1, <1>3, StartGCMatched DEF MI, Kindly
<1>4. CASE Mark
  BY <1>1, <1>4, MarkMatched DEF MI, Kindly
<1>5. CASE EndGC
  BY <1>1, <1>5, EndGCMatched DEF MI, Kindly
<1>6. CASE NewServed
  BY <1>1, <1>6, NewServedMatched DEF MI, Kindly
<1>7. CASE GrowServed
  BY <1>1, <1>7, GrowServedMatched DEF MI, Kindly
<1>8. CASE OutOfMemory
  BY <1>1, <1>8, OutOfMemoryMatched DEF MI, Kindly
<1>9. CASE Instruction
  BY <1>1, <1>9, InstructionMatched DEF MI, Kindly
<1>10. CASE FromC
  BY <1>1, <1>10, FromCMatched DEF MI, Kindly
<1>11. CASE Foreach
  BY <1>1, <1>11, ForeachMatched DEF MI, Kindly
<1> QED BY <1>2, <1>3, <1>4, <1>5, <1>6, <1>7, <1>8, <1>9, <1>10, <1>11 DEF CallbacksNext, Allocator

(* The virtual machine implements Machine (the run heap_programs checks it): what a
   script finds in its registers and in the fields it can get at, in every frame and
   scene, is what it would find on a machine whose tables neither grow, nor move, nor
   run out of memory.  So neither the collections that _cvm_try_alloc starts in the
   middle of an instruction, nor the REDIRECT headers of _cvm_set_hash_in_register, nor
   the modules and callbacks that C functions run, can be told apart by a script.  For
   every number of registers and keys, every block size and every program that stores no
   pointer to a REDIRECT header and collects no garbage while a foreach is running: the
   runs that expect violations show that both are needed. *)
THEOREM KeepsPromises == ASSUME ~StaleFields, ~CollectPastEnd, ~CollectInForeach PROVE CallbacksSpec => ImplementsMachine
<1>1. Init => M!Initial(MachineState) /\ MI
  BY InitMachine
<1>2. MI /\ [CallbacksNext]_vars => MI' /\ [\E m \in {MachineState}, n \in {MachineState'} : n = m \/ M!Next(m, n)]_MachineState
  BY NextMachine DEF Matched
<1> QED BY <1>1, <1>2, PTL DEF CallbacksSpec, ImplementsMachine, M!Spec

==============================================================================
