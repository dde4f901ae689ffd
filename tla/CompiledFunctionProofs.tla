------------------------ MODULE CompiledFunctionProofs ------------------------
(***************************************************************************)
(* Proofs about CompiledFunction, for every program.                       *)
(***************************************************************************)
EXTENDS CompiledFunction, SequenceTheorems, FiniteSetTheorems, WellFoundedInduction, TLAPS

------------------------------------------------------------------------------
(* Natural numbers and sequences.                                            *)

(* A set of naturals that is not empty has a least element.                  *)
LEMMA NatMin ==
  ASSUME NEW T \in SUBSET Nat, T # {}
  PROVE  \E m \in T : \A k \in T : m <= k
<1> DEFINE F == {0 .. k : k \in T}
<1>0. \A k \in T : k \in Nat /\ 0 .. k \in SUBSET Nat /\ IsFiniteSet(0 .. k)
  BY FS_Interval
<1>1. F \subseteq FiniteSubsetsOf(Nat) /\ F # {}
  BY <1>0, Zenon DEF FiniteSubsetsOf
<1>2. PICK X \in F : \A Y \in F : <<Y, X>> \notin StrictSubsetOrdering(Nat)
  <2> HIDE DEF F
  <2>1. IsWellFoundedOn(StrictSubsetOrdering(Nat), FiniteSubsetsOf(Nat))
    BY FS_StrictSubsetOrderingWellFounded, Zenon
  <2> QED BY <1>1, <2>1, WFMin, Zenon
<1>3. PICK m \in T : X = 0 .. m
  OBVIOUS
<1>4. ASSUME NEW k \in T PROVE m <= k
  <2>1. <<0 .. k, 0 .. m>> \notin StrictSubsetOrdering(Nat)
    BY <1>2, <1>3
  <2>2. ~(0 .. k \subseteq 0 .. m /\ 0 .. k # 0 .. m)
    BY <2>1, <1>0, Zenon DEF StrictSubsetOrdering
  <2>3. SUFFICES ASSUME k < m PROVE FALSE
    BY <1>0
  <2> QED BY <2>2, <2>3, <1>0
<1> QED BY <1>4

(* Induction, for a set instead of a predicate.                              *)
LEMMA NatInd ==
  ASSUME NEW S, 0 \in S, \A n \in Nat : n \in S => n + 1 \in S
  PROVE  Nat \subseteq S
<1>1. SUFFICES ASSUME Nat \ S # {} PROVE FALSE
  OBVIOUS
<1>2. PICK m \in Nat \ S : \A k \in Nat \ S : m <= k
  BY <1>1, NatMin
<1>3. m # 0 /\ m - 1 \in Nat
  BY <1>2
<1> QED BY <1>2, <1>3

(* Sequences of whatever their elements are.                                 *)
IsSeq(s) == s \in Seq({s[k] : k \in DOMAIN s})

LEMMA SeqIs ==
  ASSUME NEW S, NEW s \in Seq(S)
  PROVE  IsSeq(s)
<1>1. s \in [1 .. Len(s) -> S] /\ Len(s) \in Nat
  BY LenProperties
<1>2. s \in [1 .. Len(s) -> {s[k] : k \in DOMAIN s}]
  BY <1>1
<1> QED BY <1>1, <1>2 DEF IsSeq

LEMMA SeqShape ==
  ASSUME NEW s, IsSeq(s)
  PROVE  Len(s) \in Nat /\ DOMAIN s = 1 .. Len(s) /\ s = [k \in 1 .. Len(s) |-> s[k]]
BY LenProperties DEF IsSeq

Replaces(t, s, k, e) == t = [s EXCEPT ![k] = e]

LEMMA ReplacedIs ==
  ASSUME NEW s, IsSeq(s), NEW k, NEW e, NEW t, Replaces(t, s, k, e)
  PROVE  /\ IsSeq(t) /\ Len(t) = Len(s)
         /\ \A j \in 1 .. Len(s) : t[j] = IF j = k THEN e ELSE s[j]
<1>0. s \in [1 .. Len(s) -> {s[j] : j \in DOMAIN s}] /\ Len(s) \in Nat
  BY LenProperties DEF IsSeq
<1> DEFINE S == {s[j] : j \in DOMAIN s} \cup {e}
<1>1. t \in [1 .. Len(s) -> S] /\ \A j \in 1 .. Len(s) : t[j] = IF j = k THEN e ELSE s[j]
  BY <1>0 DEF Replaces
<1> HIDE DEF S
<1>2. PICK n : n = Len(s)
  OBVIOUS
<1>3. t \in Seq(S) /\ Len(t) = n
  <2>1. n \in Nat /\ t \in [1 .. n -> S]
    BY <1>0, <1>1, <1>2
  <2>2. t \in Seq(S)
    BY <2>1, SeqDef
  <2>3. DOMAIN t = 1 .. n /\ DOMAIN t = 1 .. Len(t) /\ Len(t) \in Nat
    BY <2>1, <2>2, LenProperties
  <2> QED BY <2>1, <2>2, <2>3
<1>4. IsSeq(t)
  BY <1>3, SeqIs
<1> QED BY <1>1, <1>2, <1>3, <1>4

LEMMA AppendedIs ==
  ASSUME NEW s, IsSeq(s), NEW e
  PROVE  /\ IsSeq(Append(s, e)) /\ Len(Append(s, e)) = Len(s) + 1
         /\ \A j \in 1 .. Len(s) : Append(s, e)[j] = s[j]
         /\ Append(s, e)[Len(s) + 1] = e
<1> DEFINE S == {s[j] : j \in DOMAIN s} \cup {e}
<1>1. s \in Seq(S) /\ e \in S
  BY SeqMonotonic DEF IsSeq
<1> HIDE DEF S
<1>2. Append(s, e) \in Seq(S)
  BY <1>1, AppendProperties
<1>3. IsSeq(Append(s, e))
  BY <1>2, SeqIs
<1> QED BY <1>1, <1>3, AppendProperties

LEMMA PushedIs ==
  ASSUME NEW s, IsSeq(s), NEW e
  PROVE  /\ IsSeq(<<e>> \o s) /\ Len(<<e>> \o s) = Len(s) + 1
         /\ (<<e>> \o s)[1] = e
         /\ \A j \in 1 .. Len(s) : (<<e>> \o s)[j + 1] = s[j]
<1> DEFINE S == {s[j] : j \in DOMAIN s} \cup {e}
<1>1. s \in Seq(S) /\ e \in S /\ Len(s) \in Nat
  BY SeqMonotonic, SeqShape DEF IsSeq
<1> HIDE DEF S
<1>2. <<e>> \in Seq(S) /\ Len(<<e>>) = 1 /\ <<e>>[1] = e
  BY <1>1
<1>3. PICK a : a = <<e>>
  OBVIOUS
<1>4. a \o s \in Seq(S) /\ Len(a \o s) = 1 + Len(s)
      /\ \A i \in 1 .. 1 + Len(s) : (a \o s)[i] = IF i <= 1 THEN a[i] ELSE s[i - 1]
  BY <1>1, <1>2, <1>3, ConcatProperties
<1>5. (a \o s)[1] = e
  BY <1>1, <1>2, <1>3, <1>4
<1>6. ASSUME NEW j \in 1 .. Len(s) PROVE (a \o s)[j + 1] = s[j]
  BY <1>1, <1>4
<1>7. IsSeq(a \o s)
  BY <1>4, SeqIs
<1> QED BY <1>1, <1>3, <1>4, <1>5, <1>6, <1>7

LEMMA PoppedIs ==
  ASSUME NEW s, IsSeq(s), s # <<>>
  PROVE  /\ Len(s) \in Nat \ {0} /\ Head(s) = s[1]
         /\ IsSeq(Tail(s)) /\ Len(Tail(s)) = Len(s) - 1
         /\ \A j \in 1 .. Len(s) - 1 : Tail(s)[j] = s[j + 1]
<1> DEFINE S == {s[j] : j \in DOMAIN s}
<1>1. s \in Seq(S)
  BY DEF IsSeq
<1> HIDE DEF S
<1>2. Tail(s) \in Seq(S) /\ Len(s) \in Nat \ {0}
  BY <1>1, HeadTailProperties, EmptySeq
<1>3. IsSeq(Tail(s))
  BY <1>2, SeqIs
<1>4. Head(s) = s[1]
  BY <1>1
<1> QED BY <1>1, <1>2, <1>3, <1>4, HeadTailProperties

------------------------------------------------------------------------------
(* The builder.  Of a block, what matters is whether it has been ended.      *)
IsBuilder(i) ==
  DOMAIN i = {"bbs", "register_nr", "current_bb", "reg", "captured", "capture_list",
              "extended", "doubtful"}
IsBlock(b) ==
  DOMAIN b = {"dominator", "insts", "br_reg", "then_bb", "else_bb", "constant_table",
              "numeric_value"}
Good(i) ==
  /\ IsBuilder(i) /\ IsSeq(i.bbs) /\ ~i.extended
  /\ \A b \in 1 .. Len(i.bbs) : /\ IsBlock(i.bbs[b]) /\ i.bbs[b].dominator \in 0 .. b - 1
                                /\ i.bbs[b].else_bb = None => i.bbs[b].br_reg = 0
Open(i) == {b \in 1 .. Len(i.bbs) : i.bbs[b].else_bb = None}

(* j comes from i by calls that neither make a block nor end one.            *)
Like(i, j) ==
  /\ Good(j) /\ Len(j.bbs) = Len(i.bbs) /\ Open(j) = Open(i) /\ j.current_bb = i.current_bb

LEMMA LikeLike ==
  ASSUME NEW i, NEW j, NEW k, Like(i, j), Like(j, k)
  PROVE  Like(i, k)
BY DEF Like

LEMMA LikeSelf ==
  ASSUME NEW i, Good(i)
  PROVE  Like(i, i)
BY DEF Like

(* A builder whose blocks are as before.                                     *)
LEMMA SameBlocks ==
  ASSUME NEW i, NEW j, Good(i), IsBuilder(j), j.bbs = i.bbs, ~j.extended,
         j.current_bb = i.current_bb
  PROVE  Like(i, j)
BY DEF Like, Good, Open

(* A builder one of whose blocks has got other contents.                     *)
LEMMA OneBlock ==
  ASSUME NEW i, NEW j, Good(i), IsBuilder(j), ~j.extended, j.current_bb = i.current_bb,
         NEW bb, NEW block, Replaces(j.bbs, i.bbs, bb, block),
         bb \in 1 .. Len(i.bbs) =>
           /\ IsBlock(block) /\ block.dominator = i.bbs[bb].dominator
           /\ block.else_bb = i.bbs[bb].else_bb /\ block.br_reg = i.bbs[bb].br_reg
  PROVE  Like(i, j)
<1>0. IsSeq(i.bbs)
  BY DEF Good
<1>1. IsSeq(j.bbs) /\ Len(j.bbs) = Len(i.bbs)
      /\ \A b \in 1 .. Len(i.bbs) : j.bbs[b] = IF b = bb THEN block ELSE i.bbs[b]
  BY <1>0, ReplacedIs
<1>2. ASSUME NEW b \in 1 .. Len(i.bbs)
      PROVE  /\ IsBlock(j.bbs[b]) /\ j.bbs[b].dominator = i.bbs[b].dominator
             /\ j.bbs[b].else_bb = i.bbs[b].else_bb /\ j.bbs[b].br_reg = i.bbs[b].br_reg
  BY <1>1 DEF Good
<1>3. Good(j)
  BY <1>1, <1>2 DEF Good
<1>4. Open(j) = Open(i)
  BY <1>1, <1>2 DEF Open
<1> QED BY <1>1, <1>3, <1>4 DEF Like

LEMMA PutLike ==
  ASSUME NEW i, Good(i), NEW bb, NEW table \in {"constant_table", "numeric_value"},
         NEW key, NEW value
  PROVE  Like(i, Put(i, bb, table, key, value))
<1> DEFINE block == [i.bbs[bb] EXCEPT ![table] = With(@, key, value)]
           j == Put(i, bb, table, key, value)
<1>1. j = [i EXCEPT !.bbs = [@ EXCEPT ![bb] = block]]
  BY DEF Put
<1>2. IsBuilder(j) /\ ~j.extended /\ j.current_bb = i.current_bb
  BY <1>1 DEF Good, IsBuilder
<1>3. Replaces(j.bbs, i.bbs, bb, block)
  BY <1>1 DEF Good, IsBuilder, Replaces
<1>4. ASSUME bb \in 1 .. Len(i.bbs)
      PROVE  /\ IsBlock(block) /\ block.dominator = i.bbs[bb].dominator
             /\ block.else_bb = i.bbs[bb].else_bb /\ block.br_reg = i.bbs[bb].br_reg
  BY <1>4 DEF Good, IsBlock
<1> HIDE DEF block, j
<1>5. Like(i, j)
  BY <1>2, <1>3, <1>4, OneBlock
<1> QED BY <1>5 DEF j

(* assert_basic_block_not_end does not fail.                                 *)
LEMMA NotEndLike ==
  ASSUME NEW i, Good(i), NEW bb \in Open(i)
  PROVE  Like(i, NotEnd(i, bb)) /\ NotEnd(i, bb).bbs = i.bbs
<1>1. i.bbs[bb].else_bb = None /\ i.bbs[bb].br_reg = 0
  BY DEF Good, Open
<1>2. NotEnd(i, bb) = [i EXCEPT !.extended = @ \/ FALSE \/ FALSE]
  BY <1>1 DEF NotEnd
<1>3. PICK j : j = NotEnd(i, bb)
  OBVIOUS
<1>4. IsBuilder(j) /\ j.bbs = i.bbs /\ j.current_bb = i.current_bb /\ ~j.extended
  BY <1>2, <1>3 DEF Good, IsBuilder
<1>5. Like(i, j)
  BY <1>4, SameBlocks
<1> QED BY <1>3, <1>4, <1>5

LEMMA EmitLike ==
  ASSUME NEW i, Good(i), NEW bb \in Open(i), NEW inst
  PROVE  Like(i, Emit(i, bb, inst))
<1>1. PICK n : n = NotEnd(i, bb)
  OBVIOUS
<1>2. Like(i, n) /\ n.bbs = i.bbs
  BY <1>1, NotEndLike
<1> DEFINE block == [n.bbs[bb] EXCEPT !.insts = Append(@, inst)]
           j == Emit(i, bb, inst)
<1>3. j = [n EXCEPT !.bbs = [@ EXCEPT ![bb] = block]]
  BY <1>1 DEF Emit
<1>4. Good(n) /\ IsBuilder(n)
  BY <1>2 DEF Like, Good
<1>5. IsBuilder(j) /\ ~j.extended /\ j.current_bb = n.current_bb /\ j.bbs = [n.bbs EXCEPT ![bb] = block]
  BY <1>3, <1>4 DEF Good, IsBuilder
<1>6. ASSUME bb \in 1 .. Len(n.bbs)
      PROVE  /\ IsBlock(block) /\ block.dominator = n.bbs[bb].dominator
             /\ block.else_bb = n.bbs[bb].else_bb /\ block.br_reg = n.bbs[bb].br_reg
  BY <1>4, <1>6 DEF Good, IsBlock
<1> HIDE DEF block, j
<1>7. Like(n, j)
  <2>1. Good(n)
    BY <1>4
  <2>2. IsBuilder(j) /\ ~j.extended /\ j.current_bb = n.current_bb
    BY <1>5
  <2>3. Replaces(j.bbs, n.bbs, bb, block)
    BY <1>5 DEF Replaces
  <2> QED BY <2>1, <2>2, <2>3, <1>6, OneBlock
<1> QED BY <1>2, <1>7, LikeLike DEF j

LEMMA AllocatedLike ==
  ASSUME NEW i, Good(i)
  PROVE  Like(i, Allocated(i))
<1>1. PICK j : j = Allocated(i)
  OBVIOUS
<1>2. IsBuilder(j) /\ j.bbs = i.bbs /\ j.current_bb = i.current_bb /\ ~j.extended
  BY <1>1 DEF Good, IsBuilder, Allocated
<1> QED BY <1>1, <1>2, SameBlocks

LEMMA DoubtLike ==
  ASSUME NEW i, Good(i), NEW cond
  PROVE  Like(i, Doubt(i, cond))
<1>1. PICK j : j = Doubt(i, cond)
  OBVIOUS
<1>2. IsBuilder(j) /\ j.bbs = i.bbs /\ j.current_bb = i.current_bb /\ ~j.extended
  BY <1>1 DEF Good, IsBuilder, Doubt
<1> QED BY <1>1, <1>2, SameBlocks

LEMMA FreshLike ==
  ASSUME NEW i, Good(i), NEW bb \in Open(i), NEW inst
  PROVE  Like(i, Fresh(i, bb, inst))
<1>1. PICK n : n = Allocated(i)
  OBVIOUS
<1>2. Like(i, n) /\ Good(n) /\ bb \in Open(n)
  BY <1>1, AllocatedLike DEF Like
<1>3. PICK x : x = [inst EXCEPT !.rd = n.reg]
  OBVIOUS
<1>4. Fresh(i, bb, inst) = Emit(n, bb, x)
  BY <1>1, <1>3 DEF Fresh
<1> QED BY <1>2, <1>4, EmitLike, LikeLike

(* What is copied goes down from block to block.                             *)
CopiedBy(c, i, bb, table, key, holder) ==
  /\ \A b \in 0 .. Len(i.bbs) : c[b] =
       IF b \in {None, holder} THEN i
       ELSE Put(c[i.bbs[b].dominator], b, table, key, i.bbs[holder][table][key])
  /\ CopyDown(i, bb, table, key, holder) = IF holder = None THEN i ELSE c[bb]

LEMMA CopiedIs ==
  ASSUME NEW i, Good(i), NEW bb \in 1 .. Len(i.bbs), NEW holder,
         NEW table \in {"constant_table", "numeric_value"}, NEW key
  PROVE  \E c : CopiedBy(c, i, bb, table, key, holder)
<1> DEFINE N == Len(i.bbs)
           value == i.bbs[holder][table][key]
           G(f, b) == IF b \in {None, holder} THEN i
                      ELSE Put(f[i.bbs[b].dominator], b, table, key, value)
           Rec(f, n) == f = [b \in 0 .. n |-> G(f, b)]
           S == {n \in Nat : n <= N => \E f : Rec(f, n)}
<1>0. /\ N \in Nat /\ \A b \in 1 .. N : i.bbs[b].dominator \in 0 .. b - 1
      /\ \A b \in 0 .. N : b # None => b \in 1 .. N
  BY SeqShape DEF Good, None
<1> HIDE DEF N, value
<1>1. 0 \in S
  <2> DEFINE f == [b \in 0 .. 0 |-> i]
  <2>1. \A b \in 0 .. 0 : G(f, b) = i
    BY DEF None
  <2>2. Rec(f, 0)
    BY <2>1
  <2> QED BY <2>2
<1>2. ASSUME NEW n \in Nat, n \in S PROVE n + 1 \in S
  <2> SUFFICES ASSUME n + 1 <= N PROVE \E f : Rec(f, n + 1)
    OBVIOUS
  <2>1. PICK f : Rec(f, n)
    BY <1>0, <1>2
  <2> DEFINE g == [b \in 0 .. n + 1 |-> G(f, b)]
  <2>2. ASSUME NEW b \in 0 .. n PROVE f[b] = g[b]
    <3>1. f[b] = G(f, b)
      BY <2>1
    <3>2. b \in 0 .. n + 1
      OBVIOUS
    <3>3. g[b] = G(f, b)
      BY <3>2
    <3> QED BY <3>1, <3>3
  <2>3. ASSUME NEW b \in 0 .. n + 1 PROVE G(f, b) = G(g, b)
    <3>1. CASE b \in {None, holder}
      BY <3>1
    <3>2. CASE b \notin {None, holder}
      <4>1. b \in 1 .. N
        BY <1>0, <3>2
      <4>2. i.bbs[b].dominator \in 0 .. n
        BY <1>0, <4>1
      <4> QED BY <2>2, <4>2
    <3> QED BY <3>1, <3>2
  <2>4. Rec(g, n + 1)
    <3> HIDE DEF G
    <3> QED BY <2>3
  <2> QED BY <2>4
<1>3. PICK f : Rec(f, N)
  <2> HIDE DEF S, Rec
  <2>1. N \in S
    BY <1>0, <1>1, <1>2, NatInd
  <2> QED BY <2>1 DEF S
<1>4. PICK c : c = CHOOSE g : Rec(g, N)
  OBVIOUS
<1>5. Rec(c, N)
  <2> HIDE DEF Rec
  <2> QED BY <1>3, <1>4
<1>6. \A b \in 0 .. N : c[b] = G(c, b)
  BY <1>5
<1>7. CopyDown(i, bb, table, key, holder) = IF holder = None THEN i ELSE c[bb]
  BY <1>4 DEF CopyDown, N, value
<1>8. CopiedBy(c, i, bb, table, key, holder)
  <2> HIDE DEF Rec
  <2> QED BY <1>6, <1>7 DEF CopiedBy, N, value
<1> QED BY <1>8

LEMMA CopiedLike ==
  ASSUME NEW i, Good(i), NEW bb \in 1 .. Len(i.bbs), NEW holder,
         NEW table \in {"constant_table", "numeric_value"}, NEW key
  PROVE  Like(i, CopyDown(i, bb, table, key, holder))
<1>1. PICK N : N = Len(i.bbs)
  OBVIOUS
<1>2. PICK value : value = i.bbs[holder][table][key]
  OBVIOUS
<1>3. PICK c : /\ \A b \in 0 .. N : c[b] = IF b \in {None, holder} THEN i
                                          ELSE Put(c[i.bbs[b].dominator], b, table, key, value)
               /\ CopyDown(i, bb, table, key, holder) = IF holder = None THEN i ELSE c[bb]
  <2>1. PICK c : CopiedBy(c, i, bb, table, key, holder)
    BY CopiedIs
  <2> QED BY <1>1, <1>2, <2>1 DEF CopiedBy
<1>4. /\ N \in Nat /\ \A b \in 1 .. N : i.bbs[b].dominator \in 0 .. b - 1
      /\ \A b \in 0 .. N : b # None => b \in 1 .. N
  BY <1>1, SeqShape DEF Good, None
<1> DEFINE T == {n \in Nat : \A b \in 0 .. N : b <= n => Like(i, c[b])}
<1>5. ASSUME NEW b \in 0 .. N, b \in {None, holder} PROVE Like(i, c[b])
  BY <1>3, <1>5, LikeSelf
<1>6. 0 \in T
  <2>1. \A b \in 0 .. N : b <= 0 => b = None
    BY <1>4 DEF None
  <2> QED BY <1>5, <2>1
<1>7. ASSUME NEW n \in Nat, n \in T PROVE n + 1 \in T
  <2> SUFFICES ASSUME NEW b \in 0 .. N, b <= n + 1, b \notin {None, holder}
               PROVE  Like(i, c[b])
    BY <1>5
  <2>1. b \in 1 .. N /\ b - 1 <= n
    BY <1>4
  <2>2. PICK d : d = i.bbs[b].dominator
    OBVIOUS
  <2>3. d \in 0 .. N /\ d <= n
    BY <1>4, <2>1, <2>2
  <2>4. PICK x : x = c[d]
    OBVIOUS
  <2>5. Like(i, x) /\ Good(x)
    BY <1>7, <2>3, <2>4 DEF Like
  <2>6. c[b] = Put(x, b, table, key, value)
    BY <1>3, <2>2, <2>4
  <2>7. Like(x, Put(x, b, table, key, value))
    BY <2>5, PutLike
  <2> QED BY <2>5, <2>6, <2>7, LikeLike
<1>8. Like(i, c[bb])
  <2>1. N \in T
    <3> HIDE DEF T
    <3> QED BY <1>4, <1>6, <1>7, NatInd
  <2>2. bb \in 0 .. N /\ bb <= N
    BY <1>1, <1>4
  <2> QED BY <2>1, <2>2
<1> QED BY <1>3, <1>8, LikeSelf

LEMMA CachedLike ==
  ASSUME NEW i, Good(i), NEW bb \in Open(i),
         NEW table \in {"constant_table", "numeric_value"}, NEW key
  PROVE  Like(i, Cached(i, bb, table, key))
<1>1. bb \in 1 .. Len(i.bbs)
  BY DEF Open
<1> QED BY <1>1, CopiedLike DEF Cached

LEMMA LiLike ==
  ASSUME NEW i, Good(i), NEW bb \in Open(i), NEW imm
  PROVE  Like(i, Li(i, bb, imm))
<1>1. PICK c : c = Cached(i, bb, "constant_table", imm)
  OBVIOUS
<1>2. Like(i, c) /\ Good(c) /\ bb \in Open(c)
  BY <1>1, CachedLike DEF Like
<1>3. CASE imm \in DOMAIN c.bbs[bb].constant_table
  <2>1. PICK j : j = [c EXCEPT !.reg = c.bbs[bb].constant_table[imm]]
    OBVIOUS
  <2>2. Li(i, bb, imm) = j
    BY <1>1, <1>3, <2>1 DEF Li, Shared
  <2>3. IsBuilder(j) /\ j.bbs = c.bbs /\ ~j.extended /\ j.current_bb = c.current_bb
    BY <1>2, <2>1 DEF Good, IsBuilder
  <2> QED BY <1>2, <2>2, <2>3, SameBlocks, LikeLike
<1>4. CASE imm \notin DOMAIN c.bbs[bb].constant_table
  <2>1. PICK n : n = Fresh(c, bb, Inst("LI", 0, imm, 0))
    OBVIOUS
  <2>2. Like(c, n)
    BY <1>2, <2>1, FreshLike
  <2>3. PICK p : p = Put(n, bb, "constant_table", imm, n.reg)
    OBVIOUS
  <2>4. Like(n, p)
    BY <2>2, <2>3, PutLike DEF Like
  <2>5. Li(i, bb, imm) = Put(p, bb, "numeric_value", n.reg, imm)
    BY <1>1, <1>4, <2>1, <2>3 DEF Li, Shared, Load
  <2>6. Like(p, Li(i, bb, imm))
    BY <2>4, <2>5, PutLike DEF Like
  <2> QED BY <1>2, <2>2, <2>4, <2>6, LikeLike
<1> QED BY <1>3, <1>4

LEMMA BinaryLike ==
  ASSUME NEW i, Good(i), NEW bb \in Open(i), NEW op, NEW rs, NEW rt
  PROVE  Like(i, Binary(i, bb, op, rs, rt))
<1>1. PICK n : n = NotEnd(i, bb)
  OBVIOUS
<1>2. Like(i, n) /\ Good(n) /\ bb \in Open(n)
  BY <1>1, NotEndLike DEF Like
<1>3. PICK l : l = Cached(n, bb, "numeric_value", rs)
  OBVIOUS
<1>4. Like(i, l) /\ Good(l) /\ bb \in Open(l)
  BY <1>2, <1>3, CachedLike, LikeLike DEF Like
<1>5. PICK c : c = Cached(l, bb, "numeric_value", rt)
  OBVIOUS
<1>6. Like(i, c) /\ Good(c) /\ bb \in Open(c)
  BY <1>4, <1>5, CachedLike, LikeLike DEF Like
<1>7. PICK d : d = Doubt(c, op \in {"DIV", "MOD"} /\ c.bbs[bb].numeric_value[rt] = 0)
  OBVIOUS
<1>8. Like(c, d) /\ Good(d) /\ bb \in Open(d)
  BY <1>6, <1>7, DoubtLike DEF Like
<1>9. PICK v : v = Apply(op, c.bbs[bb].numeric_value[rs], c.bbs[bb].numeric_value[rt])
  OBVIOUS
<1>10. Binary(i, bb, op, rs, rt) \in {Li(d, bb, v), Fresh(c, bb, Inst(op, 0, rs, rt))}
  BY <1>1, <1>3, <1>5, <1>7, <1>9 DEF Binary, Folded
<1>11. Like(d, Li(d, bb, v)) /\ Like(c, Fresh(c, bb, Inst(op, 0, rs, rt)))
  BY <1>6, <1>8, LiLike, FreshLike
<1> QED BY <1>6, <1>8, <1>10, <1>11, LikeLike

LEMMA LnotLike ==
  ASSUME NEW i, Good(i), NEW bb \in Open(i), NEW rs
  PROVE  Like(i, Lnot(i, bb, rs))
BY FreshLike DEF Lnot

LEMMA LearnLike ==
  ASSUME NEW i, Good(i), NEW bb \in Open(i), NEW rd, NEW rs
  PROVE  Like(i, Learn(i, bb, rd, rs))
<1>1. PICK c : c = Cached(i, bb, "numeric_value", rs)
  OBVIOUS
<1>2. Like(i, c) /\ Good(c)
  BY <1>1, CachedLike DEF Like
<1>3. PICK v : v = c.bbs[bb].numeric_value[rs]
  OBVIOUS
<1>4. Learn(i, bb, rd, rs) \in {Put(c, bb, "numeric_value", rd, v), c}
  BY <1>1, <1>3 DEF Learn, Learnt
<1> QED BY <1>2, <1>4, PutLike, LikeLike

LEMMA MovLike ==
  ASSUME NEW i, Good(i), NEW bb \in Open(i), NEW rs
  PROVE  Like(i, Mov(i, bb, rs))
<1>1. PICK n : n = Fresh(i, bb, Inst("MOV", 0, rs, 0))
  OBVIOUS
<1>2. Like(i, n) /\ Good(n) /\ bb \in Open(n)
  BY <1>1, FreshLike DEF Like
<1>3. Mov(i, bb, rs) = Learn(n, bb, n.reg, rs)
  BY <1>1 DEF Mov
<1> QED BY <1>2, <1>3, LearnLike, LikeLike

LEMMA MovUpperLike ==
  ASSUME NEW i, Good(i), NEW bb \in Open(i), NEW rd, NEW rs
  PROVE  Like(i, MovUpper(i, bb, rd, rs))
<1>1. PICK n : n = Emit(i, bb, Inst("MOV", rd, rs, 0))
  OBVIOUS
<1>2. Like(i, n) /\ Good(n) /\ bb \in Open(n)
  BY <1>1, EmitLike DEF Like
<1>3. MovUpper(i, bb, rd, rs) = Learn(n, bb, rd, rs)
  BY <1>1 DEF MovUpper
<1> QED BY <1>2, <1>3, LearnLike, LikeLike

------------------------------------------------------------------------------
(* Calls that make a block, and calls that end one.                          *)

LEMMA ExtendedIs ==
  ASSUME NEW i, Good(i), NEW dominator \in 0 .. Len(i.bbs)
  PROVE  LET j == Extended(i, dominator) IN
         /\ Good(j) /\ Len(j.bbs) = Len(i.bbs) + 1 /\ Newest(j) = Len(i.bbs) + 1
         /\ Open(j) = Open(i) \cup {Len(i.bbs) + 1} /\ j.current_bb = i.current_bb
<1>1. PICK j : j = Extended(i, dominator)
  OBVIOUS
<1>2. PICK new : new = NewBlock(dominator)
  OBVIOUS
<1>3. IsBlock(new) /\ new.dominator = dominator /\ new.br_reg = 0 /\ new.else_bb = None
  BY <1>2 DEF NewBlock, IsBlock
<1>4. IsBuilder(j) /\ j.bbs = Append(i.bbs, new) /\ ~j.extended /\ j.current_bb = i.current_bb
  BY <1>1, <1>2 DEF Extended, Good, IsBuilder
<1>5. /\ IsSeq(j.bbs) /\ Len(j.bbs) = Len(i.bbs) + 1
      /\ \A b \in 1 .. Len(i.bbs) : j.bbs[b] = i.bbs[b]
      /\ j.bbs[Len(i.bbs) + 1] = new
  BY <1>4, AppendedIs DEF Good
<1>6. Len(i.bbs) \in Nat
  BY SeqShape DEF Good
<1>7. Good(j)
  <2> SUFFICES ASSUME NEW b \in 1 .. Len(j.bbs)
               PROVE  /\ IsBlock(j.bbs[b]) /\ j.bbs[b].dominator \in 0 .. b - 1
                      /\ j.bbs[b].else_bb = None => j.bbs[b].br_reg = 0
    BY <1>4, <1>5 DEF Good
  <2>1. CASE b = Len(i.bbs) + 1
    <3>1. j.bbs[b] = new
      BY <1>5, <2>1
    <3>2. new.dominator \in 0 .. b - 1
      BY <1>3, <1>6, <2>1
    <3> QED BY <1>3, <3>1, <3>2
  <2>2. CASE b \in 1 .. Len(i.bbs)
    <3>1. j.bbs[b] = i.bbs[b]
      BY <1>5, <2>2
    <3> QED BY <2>2, <3>1 DEF Good
  <2>3. b = Len(i.bbs) + 1 \/ b \in 1 .. Len(i.bbs)
    BY <1>5, <1>6
  <2> QED BY <2>1, <2>2, <2>3
<1>8. Open(j) = Open(i) \cup {Len(i.bbs) + 1}
  BY <1>3, <1>5, <1>6 DEF Open
<1> QED BY <1>1, <1>4, <1>5, <1>7, <1>8 DEF Newest

(* j comes from i by a call that ends bb.                                    *)
Less(i, j, bb) ==
  /\ Good(j) /\ Len(j.bbs) = Len(i.bbs) /\ Open(j) = Open(i) \ {bb}
  /\ j.current_bb = i.current_bb

LEMMA EndedIs ==
  ASSUME NEW i, Good(i), NEW j, IsBuilder(j), ~j.extended, j.current_bb = i.current_bb,
         NEW bb \in Open(i), NEW block, Replaces(j.bbs, i.bbs, bb, block),
         IsBlock(block), block.dominator = i.bbs[bb].dominator, block.else_bb # None
  PROVE  Less(i, j, bb)
<1>0. IsSeq(i.bbs)
  BY DEF Good
<1>1. IsSeq(j.bbs) /\ Len(j.bbs) = Len(i.bbs)
      /\ \A b \in 1 .. Len(i.bbs) : j.bbs[b] = IF b = bb THEN block ELSE i.bbs[b]
  BY <1>0, ReplacedIs
<1>2. Good(j)
  BY <1>1 DEF Good
<1>3. Open(j) = Open(i) \ {bb}
  BY <1>1 DEF Open
<1> QED BY <1>1, <1>2, <1>3 DEF Less

LEMMA BrLess ==
  ASSUME NEW i, Good(i), NEW bb \in Open(i), NEW rd, NEW then_bb, NEW else_bb, else_bb # None
  PROVE  Less(i, Br(i, bb, rd, then_bb, else_bb), bb)
<1>1. PICK n : n = NotEnd(i, bb)
  OBVIOUS
<1>2. Good(n) /\ IsBuilder(n) /\ n.bbs = i.bbs /\ n.current_bb = i.current_bb /\ IsBlock(i.bbs[bb])
  BY <1>1, NotEndLike DEF Like, Good, Open
<1> DEFINE block == [i.bbs[bb] EXCEPT !.br_reg = rd, !.then_bb = then_bb, !.else_bb = else_bb]
           j == Br(i, bb, rd, then_bb, else_bb)
<1>3. j = [n EXCEPT !.bbs[bb].br_reg = rd, !.bbs[bb].then_bb = then_bb, !.bbs[bb].else_bb = else_bb]
  BY <1>1 DEF Br
<1>4. IsBuilder(j) /\ ~j.extended /\ j.current_bb = i.current_bb
  BY <1>2, <1>3 DEF Good, IsBuilder
<1>5. j.bbs = [[[i.bbs EXCEPT ![bb].br_reg = rd] EXCEPT ![bb].then_bb = then_bb] EXCEPT ![bb].else_bb = else_bb]
  BY <1>2, <1>3 DEF Good, IsBuilder
<1>6. Replaces(j.bbs, i.bbs, bb, block)
  BY <1>5 DEF Open, Replaces
<1>7. IsBlock(block) /\ block.dominator = i.bbs[bb].dominator /\ block.else_bb # None
  BY <1>2 DEF IsBlock
<1> HIDE DEF block, j
<1>8. Less(i, j, bb)
  BY <1>4, <1>6, <1>7, EndedIs
<1> QED BY <1>8 DEF j

LEMMA JLess ==
  ASSUME NEW i, Good(i), NEW bb \in Open(i), NEW successor_bb, successor_bb # None
  PROVE  Less(i, J(i, bb, successor_bb), bb)
<1>1. PICK n : n = NotEnd(i, bb)
  OBVIOUS
<1>2. Good(n) /\ IsBuilder(n) /\ n.bbs = i.bbs /\ n.current_bb = i.current_bb /\ IsBlock(i.bbs[bb])
  BY <1>1, NotEndLike DEF Like, Good, Open
<1> DEFINE block == [i.bbs[bb] EXCEPT !.br_reg = 0, !.else_bb = successor_bb]
           j == J(i, bb, successor_bb)
<1>3. j = [n EXCEPT !.bbs[bb].br_reg = 0, !.bbs[bb].else_bb = successor_bb]
  BY <1>1 DEF J
<1>4. IsBuilder(j) /\ ~j.extended /\ j.current_bb = i.current_bb
  BY <1>2, <1>3 DEF Good, IsBuilder
<1>5. j.bbs = [[i.bbs EXCEPT ![bb].br_reg = 0] EXCEPT ![bb].else_bb = successor_bb]
  BY <1>2, <1>3 DEF Good, IsBuilder
<1>6. Replaces(j.bbs, i.bbs, bb, block)
  BY <1>5 DEF Open, Replaces
<1>7. IsBlock(block) /\ block.dominator = i.bbs[bb].dominator /\ block.else_bb # None
  BY <1>2 DEF IsBlock
<1> HIDE DEF block, j
<1>8. Less(i, j, bb)
  BY <1>4, <1>6, <1>7, EndedIs
<1> QED BY <1>8 DEF j

(* The block that is read into from now on.                                  *)
LEMMA CurrentIs ==
  ASSUME NEW i, Good(i), NEW bb
  PROVE  LET j == [i EXCEPT !.current_bb = bb] IN
         Good(j) /\ Len(j.bbs) = Len(i.bbs) /\ Open(j) = Open(i) /\ j.current_bb = bb
<1>1. PICK j : j = [i EXCEPT !.current_bb = bb]
  OBVIOUS
<1>2. IsBuilder(j) /\ j.bbs = i.bbs /\ j.current_bb = bb /\ j.extended = i.extended
  BY <1>1 DEF Good, IsBuilder
<1>3. Good(j) /\ Open(j) = Open(i)
  BY <1>2 DEF Good, Open
<1> QED BY <1>1, <1>2, <1>3

------------------------------------------------------------------------------
(* Names and moves.                                                          *)

LEMMA FoundLike ==
  ASSUME NEW i, Good(i), NEW ss, NEW n
  PROVE  Like(i, Found(i, ss, n))
<1>1. PICK a : a = Allocated(i)
  OBVIOUS
<1>2. Like(i, a) /\ Good(a)
  BY <1>1, AllocatedLike DEF Like
<1>3. PICK c : c = Capture(i, n)
  OBVIOUS
<1>4. IsBuilder(c) /\ c.bbs = a.bbs /\ ~c.extended /\ c.current_bb = a.current_bb
  BY <1>1, <1>2, <1>3 DEF Good, IsBuilder, Capture
<1>5. Like(i, c)
  BY <1>2, <1>4, SameBlocks, LikeLike
<1>6. ASSUME NEW r PROVE Like(i, [i EXCEPT !.reg = r])
  <2>1. PICK j : j = [i EXCEPT !.reg = r]
    OBVIOUS
  <2>2. IsBuilder(j) /\ j.bbs = i.bbs /\ ~j.extended /\ j.current_bb = i.current_bb
    BY <2>1 DEF Good, IsBuilder
  <2> QED BY <2>1, <2>2, SameBlocks
<1>7. PICK l : l = Lookup(ss, n)
  OBVIOUS
<1>8. PICK h : h = i.captured[n]
  OBVIOUS
<1>9. Found(i, ss, n) \in {[i EXCEPT !.reg = l], [i EXCEPT !.reg = h], c}
  BY <1>3, <1>7, <1>8 DEF Found
<1> QED BY <1>5, <1>6, <1>9

LEMMA ReadLike ==
  ASSUME NEW i, Good(i), NEW ss, NEW n
  PROVE  Like(i, Read(i, ss, n))
<1>1. PICK d : d = Doubt(i, Exists(ss, n) /\ Stale(ss, n))
  OBVIOUS
<1>2. Like(i, d) /\ Good(d)
  BY <1>1, DoubtLike DEF Like
<1>3. Read(i, ss, n) = Found(d, ss, n)
  BY <1>1 DEF Read
<1> QED BY <1>2, <1>3, FoundLike, LikeLike

LEMMA NegativeLike ==
  ASSUME NEW i, Good(i), i.current_bb \in Open(i), NEW r
  PROVE  Like(i, Negative(i, r))
<1>1. PICK z : z = Li(i, i.current_bb, 0)
  OBVIOUS
<1>2. Like(i, z) /\ Good(z) /\ i.current_bb \in Open(z)
  BY <1>1, LiLike DEF Like
<1>3. Negative(i, r) = Binary(z, i.current_bb, "SUB", z.reg, r)
  BY <1>1 DEF Negative
<1> QED BY <1>2, <1>3, BinaryLike, LikeLike

LEMMA InvertedLike ==
  ASSUME NEW i, Good(i), i.current_bb \in Open(i), NEW r
  PROVE  Like(i, Inverted(i, r))
BY LnotLike DEF Inverted

LEMMA CompareLike ==
  ASSUME NEW i, Good(i), i.current_bb \in Open(i), NEW op, NEW l, NEW r
  PROVE  Like(i, Compare(i, op, l, r))
<1>1. PICK bb : bb = i.current_bb /\ bb \in Open(i)
  OBVIOUS
<1>2. PICK equal : equal = Binary(i, bb, "SEQ", l, r)
  OBVIOUS
<1>3. Like(i, equal) /\ Good(equal) /\ equal.current_bb \in Open(equal)
  BY <1>1, <1>2, BinaryLike DEF Like
<1>4. Like(equal, Inverted(equal, equal.reg))
  BY <1>3, InvertedLike
<1>5. Compare(i, op, l, r) \in {Binary(i, bb, "SLT", r, l), Binary(i, bb, "SLE", r, l),
                                Inverted(equal, equal.reg), Binary(i, bb, op, l, r)}
  BY <1>1, <1>2 DEF Compare
<1> QED BY <1>1, <1>3, <1>4, <1>5, BinaryLike, LikeLike

(* The registers of a function literal's names are found one after the other. *)
(* The names are read one after the other.                                   *)
NewClosureBy(c, i, ss, names) ==
  /\ c[0] = [ir |-> i, list |-> Empty]
  /\ \A k \in 1 .. Len(names) : c[k] = [ir |-> Read(c[k - 1].ir, ss, names[k]),
                 list |-> With(c[k - 1].list, Read(c[k - 1].ir, ss, names[k]).reg, k)]
  /\ NewClosure(i, ss, names) =
                    Fresh(c[Len(names)].ir, i.current_bb, Inst("NEW_CLS", 0, c[Len(names)].list, Len(names)))
LEMMA NewClosureIs ==
  ASSUME NEW i, NEW ss, NEW names, Len(names) \in Nat
  PROVE  \E c : NewClosureBy(c, i, ss, names)
<1> DEFINE N == Len(names)
           G(f, k) == IF k = 0 THEN [ir |-> i, list |-> Empty]
                      ELSE [ir |-> Read(f[k - 1].ir, ss, names[k]),
                 list |-> With(f[k - 1].list, Read(f[k - 1].ir, ss, names[k]).reg, k)]
           Rec(f, n) == f = [k \in 0 .. n |-> G(f, k)]
           S == {n \in Nat : \E f : Rec(f, n)}
<1>0. N \in Nat
  OBVIOUS
<1> HIDE DEF N
<1>1. 0 \in S
  <2> DEFINE f == [k \in 0 .. 0 |-> [ir |-> i, list |-> Empty]]
  <2>1. \A k \in 0 .. 0 : G(f, k) = [ir |-> i, list |-> Empty]
    OBVIOUS
  <2>2. Rec(f, 0)
    BY <2>1
  <2> QED BY <2>2
<1>2. ASSUME NEW n \in Nat, n \in S PROVE n + 1 \in S
  <2>1. PICK f : Rec(f, n)
    BY <1>2
  <2> DEFINE g == [k \in 0 .. n + 1 |-> G(f, k)]
  <2>2. ASSUME NEW k \in 0 .. n PROVE f[k] = g[k]
    <3> HIDE DEF G
    <3> QED BY <2>1
  <2>3. ASSUME NEW k \in 0 .. n + 1 PROVE G(f, k) = G(g, k)
    <3>1. k # 0 => k - 1 \in 0 .. n
      OBVIOUS
    <3>2. k # 0 => f[k - 1] = g[k - 1]
      <4> HIDE DEF g
      <4> QED BY <2>2, <3>1
    <3> QED BY <3>2
  <2>4. Rec(g, n + 1)
    <3> HIDE DEF G
    <3> QED BY <2>3
  <2> HIDE DEF g, Rec
  <2> QED BY <2>4
<1>3. PICK f : Rec(f, N)
  <2> HIDE DEF S, Rec
  <2>1. N \in S
    BY <1>0, <1>1, <1>2, NatInd
  <2> QED BY <2>1 DEF S
<1>4. ASSUME NEW g, Rec(g, N), NEW k \in 0 .. N PROVE g[k] = G(g, k)
  BY <1>4
<1>5. PICK c : c = CHOOSE g : Rec(g, N)
  OBVIOUS
<1>6. Rec(c, N)
  <2> HIDE DEF Rec
  <2> QED BY <1>3, <1>5
<1>7. ASSUME NEW k \in 0 .. N PROVE c[k] = G(c, k)
  <2> HIDE DEF Rec, G
  <2> QED BY <1>4, <1>6
<1>8. c[0] = [ir |-> i, list |-> Empty]
  <2>1. c[0] = G(c, 0)
    <3> HIDE DEF Rec, G
    <3> QED BY <1>0, <1>7
  <2> QED BY <2>1
<1>9. ASSUME NEW k \in 1 .. N PROVE c[k] = [ir |-> Read(c[k - 1].ir, ss, names[k]),
                 list |-> With(c[k - 1].list, Read(c[k - 1].ir, ss, names[k]).reg, k)]
  <2>1. k \in 0 .. N /\ k # 0
    BY <1>0
  <2>2. c[k] = G(c, k)
    <3> HIDE DEF Rec, G
    <3> QED BY <1>7, <2>1
  <2> QED BY <2>1, <2>2
<1>10. NewClosure(i, ss, names) =
                    Fresh(c[N].ir, i.current_bb, Inst("NEW_CLS", 0, c[N].list, Len(names)))
  BY <1>5 DEF NewClosure, N
<1>11. NewClosureBy(c, i, ss, names)
  <2> HIDE DEF G, Rec
  <2> QED BY <1>8, <1>9, <1>10 DEF N, NewClosureBy
<1> QED BY <1>11

LEMMA NewClosureLike ==
  ASSUME NEW i, Good(i), i.current_bb \in Open(i), NEW ss, NEW names, Len(names) \in Nat
  PROVE  Like(i, NewClosure(i, ss, names))
<1>1. PICK N : N = Len(names) /\ N \in Nat
  OBVIOUS
<1>2. PICK c : /\ c[0] = [ir |-> i, list |-> Empty]
               /\ \A k \in 1 .. N : c[k] = [ir |-> Read(c[k - 1].ir, ss, names[k]),
                    list |-> With(c[k - 1].list, Read(c[k - 1].ir, ss, names[k]).reg, k)]
               /\ NewClosure(i, ss, names) =
                    Fresh(c[N].ir, i.current_bb, Inst("NEW_CLS", 0, c[N].list, Len(names)))
  <2>1. PICK c : NewClosureBy(c, i, ss, names)
    BY <1>1, NewClosureIs
  <2> QED BY <1>1, <2>1 DEF NewClosureBy
<1>3. c[0].ir = i /\ \A k \in 1 .. N : c[k].ir = Read(c[k - 1].ir, ss, names[k])
  <2>1. c[0].ir = i
    BY <1>2
  <2>2. ASSUME NEW k \in 1 .. N PROVE c[k].ir = Read(c[k - 1].ir, ss, names[k])
    <3>1. PICK r : r = Read(c[k - 1].ir, ss, names[k])
      OBVIOUS
    <3>2. c[k] = [ir |-> r, list |-> With(c[k - 1].list, r.reg, k)]
      BY <1>2, <3>1, Zenon
    <3> QED BY <3>1, <3>2
  <2> QED BY <2>1, <2>2
<1> DEFINE T == {n \in Nat : n <= N => Like(i, c[n].ir)}
<1>4. 0 \in T
  BY <1>3, LikeSelf
<1>5. ASSUME NEW n \in Nat, n \in T PROVE n + 1 \in T
  <2> SUFFICES ASSUME n + 1 <= N PROVE Like(i, c[n + 1].ir)
    OBVIOUS
  <2>1. PICK x : x = c[n].ir
    OBVIOUS
  <2>2. Like(i, x) /\ Good(x)
    BY <1>1, <1>5, <2>1 DEF Like
  <2>3. n + 1 \in 1 .. N /\ (n + 1) - 1 = n
    BY <1>1
  <2>4. c[n + 1].ir = Read(x, ss, names[n + 1])
    BY <1>3, <2>1, <2>3
  <2> QED BY <2>2, <2>4, ReadLike, LikeLike
<1>6. N \in T
  <2> HIDE DEF T
  <2> QED BY <1>1, <1>4, <1>5, NatInd
<1>7. PICK r : r = c[N].ir
  OBVIOUS
<1>8. Like(i, r) /\ Good(r) /\ i.current_bb \in Open(r)
  BY <1>1, <1>6, <1>7 DEF Like
<1> QED BY <1>2, <1>7, <1>8, FreshLike, LikeLike

------------------------------------------------------------------------------
(* Expressions.  While one is read, the blocks that have not been ended are  *)
(* those of before, but that the current one may be another, and where the   *)
(* chains end that are being read.                                           *)
Ends(chains) == {chains[k].expr_end : k \in 1 .. Len(chains)}
Reading(i, c, depth) ==
  /\ Good(c.ir) /\ Len(i.bbs) <= Len(c.ir.bbs)
  /\ IsSeq(c.chains) /\ Len(c.chains) = depth
  /\ \A k \in 1 .. depth : /\ c.chains[k].expr_end \in Len(i.bbs) + 1 .. Len(c.ir.bbs)
                           /\ c.chains[k].expr_end # c.ir.current_bb
  /\ \A k, l \in 1 .. depth : c.chains[k].expr_end = c.chains[l].expr_end => k = l
  /\ Open(c.ir) = (Open(i) \ {i.current_bb}) \cup {c.ir.current_bb} \cup Ends(c.chains)
  /\ c.ir.current_bb = i.current_bb \/ c.ir.current_bb > Len(i.bbs)

LEMMA PlainStep ==
  ASSUME NEW i, NEW c, NEW depth, Reading(i, c, depth), NEW d, Like(c.ir, d.ir), d.chains = c.chains
  PROVE  Reading(i, d, depth)
BY DEF Reading, Like

LEMMA FirstStep ==
  ASSUME NEW i, Good(i), NEW c, NEW depth \in Nat, Reading(i, c, depth), NEW ss, NEW t, t.op = "FIRST",
         DOMAIN c = {"ir", "operands", "chains"}
  PROVE  Reading(i, Step(c, ss, t), depth + 1)
<1>1. PICK j : j = First(c.ir)
  OBVIOUS
<1>2. PICK N : N = Len(c.ir.bbs)
  OBVIOUS
<1>3. Good(c.ir) /\ N \in Nat /\ Len(i.bbs) \in Nat /\ c.ir.current_bb \in 1 .. N
  BY <1>2, SeqShape DEF Reading, Good, Open
<1>4. Good(j) /\ Len(j.bbs) = N + 1 /\ Newest(j) = N + 1 /\ Open(j) = Open(c.ir) \cup {N + 1}
      /\ j.current_bb = c.ir.current_bb
  <2>1. PICK a : a = Allocated(c.ir)
    OBVIOUS
  <2>2. Good(a) /\ Len(a.bbs) = N /\ Open(a) = Open(c.ir) /\ a.current_bb = c.ir.current_bb
    BY <1>2, <1>3, <2>1, AllocatedLike DEF Like
  <2>3. j = Extended(a, c.ir.current_bb)
    BY <1>1, <2>1 DEF First
  <2>4. c.ir.current_bb \in 0 .. Len(a.bbs)
    BY <1>3, <2>2
  <2> QED BY <2>2, <2>3, <2>4, ExtendedIs
<1>5. PICK x : x = [temp_reg |-> j.reg, expr_end |-> N + 1]
  OBVIOUS
<1>6. PICK s : s = <<x>> \o c.chains
  OBVIOUS
<1>7. PICK d : d = Step(c, ss, t)
  OBVIOUS
<1>8. d = [c EXCEPT !.ir = j, !.chains = <<x>> \o @]
  BY <1>1, <1>4, <1>5, <1>7 DEF Step
<1>9. d.ir = j /\ d.chains = s
  BY <1>6, <1>8
<1>10. IsSeq(c.chains) /\ Len(c.chains) = depth
  BY DEF Reading
<1>11. IsSeq(s) /\ Len(s) = depth + 1 /\ s[1] = x /\ \A k \in 1 .. depth : s[k + 1] = c.chains[k]
  BY <1>6, <1>10, PushedIs
<1>12. x.expr_end = N + 1
  BY <1>5
<1>13. ASSUME NEW k \in 1 .. depth + 1
       PROVE  k = 1 \/ (k - 1 \in 1 .. depth /\ s[k] = c.chains[k - 1])
  BY <1>11
<1>14. \A k \in 1 .. depth : /\ c.chains[k].expr_end \in Len(i.bbs) + 1 .. N
                             /\ c.chains[k].expr_end # c.ir.current_bb
  BY <1>2 DEF Reading
<1>15. Len(i.bbs) <= N /\ Len(i.bbs) <= Len(j.bbs)
  BY <1>2, <1>3, <1>4 DEF Reading
<1>16. \A k \in 1 .. depth + 1 : /\ s[k].expr_end \in Len(i.bbs) + 1 .. N + 1
                                 /\ s[k].expr_end # c.ir.current_bb
  <2>1. ASSUME NEW k \in 1 .. depth + 1
        PROVE  s[k].expr_end \in Len(i.bbs) + 1 .. N + 1 /\ s[k].expr_end # c.ir.current_bb
    <3>1. CASE k = 1
      BY <1>3, <1>11, <1>12, <1>15, <3>1
    <3>2. CASE k # 1
      <4>1. k - 1 \in 1 .. depth /\ s[k] = c.chains[k - 1]
        BY <1>13, <2>1, <3>2
      <4> QED BY <1>3, <1>14, <4>1
    <3> QED BY <3>1, <3>2
  <2> QED BY <2>1
<1>17. ASSUME NEW k \in 1 .. depth + 1, NEW l \in 1 .. depth + 1, s[k].expr_end = s[l].expr_end
       PROVE  k = l
  <2>1. \A m, n \in 1 .. depth : c.chains[m].expr_end = c.chains[n].expr_end => m = n
    BY DEF Reading
  <2>2. \A m \in 1 .. depth : c.chains[m].expr_end # N + 1
    BY <1>3, <1>14
  <2>3. CASE k = 1
    BY <1>11, <1>12, <1>13, <1>17, <2>2, <2>3
  <2>4. CASE l = 1
    BY <1>11, <1>12, <1>13, <1>17, <2>2, <2>4
  <2>5. CASE k # 1 /\ l # 1
    BY <1>13, <1>17, <2>1, <2>5
  <2> QED BY <2>3, <2>4, <2>5
<1>18. Ends(s) = Ends(c.chains) \cup {N + 1}
  <2>1. ASSUME NEW y \in Ends(s) PROVE y \in Ends(c.chains) \cup {N + 1}
    <3>1. PICK k \in 1 .. depth + 1 : y = s[k].expr_end
      BY <1>11 DEF Ends
    <3>2. CASE k = 1
      BY <1>11, <1>12, <3>1, <3>2
    <3>3. CASE k # 1
      <4>1. k - 1 \in 1 .. Len(c.chains) /\ y = c.chains[k - 1].expr_end
        BY <1>10, <1>13, <3>1, <3>3
      <4> QED BY <4>1 DEF Ends
    <3> QED BY <3>2, <3>3
  <2>2. ASSUME NEW y \in Ends(c.chains) PROVE y \in Ends(s)
    <3>1. PICK k \in 1 .. depth : y = c.chains[k].expr_end
      BY <1>10 DEF Ends
    <3>2. k + 1 \in 1 .. Len(s) /\ s[k + 1].expr_end = y
      BY <1>11, <3>1
    <3> QED BY <3>2 DEF Ends
  <2>3. N + 1 \in Ends(s)
    <3>1. 1 \in 1 .. Len(s) /\ s[1].expr_end = N + 1
      BY <1>11, <1>12
    <3> QED BY <3>1 DEF Ends
  <2> QED BY <2>1, <2>2, <2>3
<1>19. Open(j) = (Open(i) \ {i.current_bb}) \cup {j.current_bb} \cup Ends(s)
  BY <1>4, <1>18 DEF Reading
<1>20. j.current_bb = i.current_bb \/ j.current_bb > Len(i.bbs)
  BY <1>4 DEF Reading
<1>21. Reading(i, d, depth + 1)
  BY <1>4, <1>9, <1>11, <1>15, <1>16, <1>17, <1>19, <1>20 DEF Reading
<1> QED BY <1>7, <1>21

LEMMA BranchStep ==
  ASSUME NEW i, Good(i), NEW c, NEW depth \in Nat, Reading(i, c, depth), depth > 0, NEW ss, NEW t,
         t.op \in {"AND", "OR"}, DOMAIN c = {"ir", "operands", "chains"}
  PROVE  Reading(i, Step(c, ss, t), depth)
<1>1. PICK ir0 : ir0 = c.ir
  OBVIOUS
<1>2. PICK N : N = Len(ir0.bbs)
  OBVIOUS
<1>3. PICK bb : bb = ir0.current_bb
  OBVIOUS
<1>4. Good(ir0) /\ N \in Nat /\ Len(i.bbs) \in Nat /\ bb \in Open(ir0) /\ bb \in 1 .. N /\ Len(i.bbs) <= N
  BY <1>1, <1>2, <1>3, SeqShape DEF Reading, Good, Open
<1>5. Head(c.chains) = c.chains[1] /\ c.chains[1].expr_end \in Len(i.bbs) + 1 .. N
  <2>1. IsSeq(c.chains) /\ Len(c.chains) = depth /\ c.chains # <<>>
    BY DEF Reading
  <2>2. Head(c.chains) = c.chains[1]
    BY <2>1, PoppedIs
  <2> QED BY <1>1, <1>2, <2>2 DEF Reading
<1>6. PICK temp_reg : temp_reg = Head(c.chains).temp_reg
  OBVIOUS
<1>7. PICK expr_end : expr_end = Head(c.chains).expr_end
  OBVIOUS
<1>8. expr_end # None
  BY <1>4, <1>5, <1>7 DEF None
<1>9. PICK r : r = c.operands[1]
  OBVIOUS
<1>10. PICK m : m = MovUpper(ir0, bb, temp_reg, r)
  OBVIOUS
<1>11. Good(m) /\ Len(m.bbs) = N /\ Open(m) = Open(ir0) /\ m.current_bb = bb
  BY <1>2, <1>3, <1>4, <1>10, MovUpperLike DEF Like
<1>12. PICK x : x = Extended(m, bb)
  OBVIOUS
<1>13. Good(x) /\ Len(x.bbs) = N + 1 /\ Open(x) = Open(ir0) \cup {N + 1} /\ x.current_bb = bb
  <2>1. bb \in 0 .. Len(m.bbs)
    BY <1>4, <1>11
  <2> QED BY <1>11, <1>12, <2>1, ExtendedIs
<1>14. PICK d : d = Doubt(x, Holder(ir0, bb, "numeric_value", r) # None)
  OBVIOUS
<1>15. Good(d) /\ Len(d.bbs) = N + 1 /\ Open(d) = Open(ir0) \cup {N + 1} /\ d.current_bb = bb
  BY <1>13, <1>14, DoubtLike DEF Like
<1>16. PICK else_bb : else_bb = IF t.op = "AND" THEN expr_end ELSE N + 1
  OBVIOUS
<1>17. PICK then_bb : then_bb = IF t.op = "AND" THEN N + 1 ELSE expr_end
  OBVIOUS
<1>18. PICK b : b = Br(d, bb, temp_reg, then_bb, else_bb)
  OBVIOUS
<1>19. Good(b) /\ Len(b.bbs) = N + 1 /\ Open(b) = (Open(ir0) \cup {N + 1}) \ {bb}
  <2>1. else_bb # None /\ bb \in Open(d)
    BY <1>4, <1>8, <1>15, <1>16 DEF None
  <2> QED BY <1>15, <1>18, <2>1, BrLess DEF Less
<1>20. PICK j : j = [b EXCEPT !.current_bb = N + 1]
  OBVIOUS
<1>21. Good(j) /\ Len(j.bbs) = N + 1 /\ Open(j) = (Open(ir0) \cup {N + 1}) \ {bb} /\ j.current_bb = N + 1
  BY <1>19, <1>20, CurrentIs
<1>22. Branch(ir0, t.op, r, temp_reg, expr_end) = j
  BY <1>2, <1>3, <1>10, <1>12, <1>14, <1>16, <1>17, <1>18, <1>20 DEF Branch, Newest
<1>23. PICK e : e = Step(c, ss, t)
  OBVIOUS
<1>24. e = [c EXCEPT !.ir = j, !.operands = Tail(@)]
  BY <1>1, <1>6, <1>7, <1>9, <1>22, <1>23 DEF Step
<1>25. e.ir = j /\ e.chains = c.chains
  BY <1>24
<1>26. N + 1 \notin 1 .. N /\ Ends(c.chains) \subseteq 1 .. N /\ bb \notin Ends(c.chains)
       /\ \A k \in 1 .. depth : c.chains[k].expr_end \in Len(i.bbs) + 1 .. N
  <2>1. \A k \in 1 .. depth : c.chains[k].expr_end \in Len(i.bbs) + 1 .. N /\ c.chains[k].expr_end # bb
    BY <1>1, <1>2, <1>3 DEF Reading
  <2>2. Len(c.chains) = depth /\ Len(i.bbs) \in Nat
    BY SeqShape DEF Reading, Good
  <2>3. \A k \in 1 .. Len(c.chains) : c.chains[k].expr_end \in 1 .. N
    BY <1>4, <2>1, <2>2
  <2>4. Ends(c.chains) \subseteq 1 .. N /\ bb \notin Ends(c.chains)
    BY <2>1, <2>2, <2>3 DEF Ends
  <2> QED BY <1>4, <2>1, <2>4
<1>27. Open(j) = (Open(i) \ {i.current_bb}) \cup {j.current_bb} \cup Ends(c.chains)
  <2>1. Open(ir0) = (Open(i) \ {i.current_bb}) \cup {bb} \cup Ends(c.chains)
    BY <1>1, <1>3 DEF Reading
  <2>2. bb = i.current_bb \/ bb > Len(i.bbs)
    BY <1>1, <1>3 DEF Reading
  <2>3. bb \notin Open(i) \ {i.current_bb}
    BY <1>4, <2>2 DEF Open
  <2>4. Open(j) = (Open(ir0) \ {bb}) \cup {N + 1}
    BY <1>4, <1>21
  <2> QED BY <1>21, <1>26, <2>1, <2>3, <2>4
<1>28. \A k \in 1 .. depth : /\ c.chains[k].expr_end \in Len(i.bbs) + 1 .. N + 1
                             /\ c.chains[k].expr_end # N + 1
  BY <1>4, <1>26
<1>29. Len(i.bbs) <= N + 1 /\ N + 1 > Len(i.bbs)
  BY <1>4
<1>30. IsSeq(c.chains) /\ Len(c.chains) = depth
       /\ \A k, l \in 1 .. depth : c.chains[k].expr_end = c.chains[l].expr_end => k = l
  BY DEF Reading
<1>31. Reading(i, e, depth)
  BY <1>21, <1>25, <1>27, <1>28, <1>29, <1>30 DEF Reading
<1> QED BY <1>23, <1>31

LEMMA LastStep ==
  ASSUME NEW i, Good(i), NEW c, NEW depth \in Nat, Reading(i, c, depth), depth > 0, NEW ss, NEW t,
         t.op = "LAST", DOMAIN c = {"ir", "operands", "chains"}
  PROVE  Reading(i, Step(c, ss, t), depth - 1)
<1>1. PICK ir0 : ir0 = c.ir
  OBVIOUS
<1>2. PICK N : N = Len(ir0.bbs)
  OBVIOUS
<1>3. PICK bb : bb = ir0.current_bb
  OBVIOUS
<1>4. Good(ir0) /\ N \in Nat /\ Len(i.bbs) \in Nat /\ bb \in Open(ir0) /\ bb \in 1 .. N /\ Len(i.bbs) <= N
  BY <1>1, <1>2, <1>3, SeqShape DEF Reading, Good, Open
<1>5. PICK s : s = Tail(c.chains)
  OBVIOUS
<1>6. IsSeq(c.chains) /\ Len(c.chains) = depth /\ c.chains # <<>>
  BY DEF Reading
<1>7. /\ Head(c.chains) = c.chains[1] /\ IsSeq(s) /\ Len(s) = depth - 1
      /\ \A k \in 1 .. depth - 1 : s[k] = c.chains[k + 1]
  BY <1>5, <1>6, PoppedIs
<1>8. PICK temp_reg : temp_reg = Head(c.chains).temp_reg
  OBVIOUS
<1>9. PICK expr_end : expr_end = Head(c.chains).expr_end
  OBVIOUS
<1>10. expr_end \in Len(i.bbs) + 1 .. N /\ expr_end # bb
  BY <1>1, <1>2, <1>3, <1>7, <1>9 DEF Reading
<1>11. expr_end # None
  BY <1>4, <1>10 DEF None
<1>12. PICK r : r = c.operands[1]
  OBVIOUS
<1>13. PICK m : m = MovUpper(ir0, bb, temp_reg, r)
  OBVIOUS
<1>14. Good(m) /\ Len(m.bbs) = N /\ Open(m) = Open(ir0) /\ m.current_bb = bb
  BY <1>2, <1>3, <1>4, <1>13, MovUpperLike DEF Like
<1>15. PICK b : b = J(m, bb, expr_end)
  OBVIOUS
<1>16. Good(b) /\ Len(b.bbs) = N /\ Open(b) = Open(ir0) \ {bb}
  BY <1>4, <1>11, <1>14, <1>15, JLess DEF Less
<1>17. PICK j : j = [b EXCEPT !.current_bb = expr_end, !.reg = temp_reg]
  OBVIOUS
<1>18. Good(j) /\ Len(j.bbs) = N /\ Open(j) = Open(ir0) \ {bb} /\ j.current_bb = expr_end
  <2>1. IsBuilder(j) /\ j.bbs = b.bbs /\ j.current_bb = expr_end /\ j.extended = b.extended
    BY <1>16, <1>17 DEF Good, IsBuilder
  <2> QED BY <1>16, <2>1 DEF Good, Open
<1>19. Ended(ir0, r, temp_reg, expr_end) = j
  BY <1>3, <1>13, <1>15, <1>17 DEF Ended
<1>20. PICK e : e = Step(c, ss, t)
  OBVIOUS
<1>21. e = [[c EXCEPT !.ir = j, !.operands = <<j.reg>> \o SubSeq(@, 1 + 1, Len(@))] EXCEPT !.chains = Tail(@)]
  BY <1>1, <1>8, <1>9, <1>12, <1>19, <1>20 DEF Step
<1>22. e.ir = j /\ e.chains = s
  BY <1>5, <1>21
<1>23. \A k \in 1 .. depth : /\ c.chains[k].expr_end \in Len(i.bbs) + 1 .. N
                             /\ c.chains[k].expr_end # bb
  BY <1>1, <1>2, <1>3 DEF Reading
<1>24. \A k, l \in 1 .. depth : c.chains[k].expr_end = c.chains[l].expr_end => k = l
  BY DEF Reading
<1>25. \A k \in 1 .. depth - 1 : /\ k + 1 \in 1 .. depth /\ s[k] = c.chains[k + 1]
                                 /\ s[k].expr_end # expr_end
  BY <1>7, <1>9, <1>24
<1>26. \A k, l \in 1 .. depth - 1 : s[k].expr_end = s[l].expr_end => k = l
  <2> SUFFICES ASSUME NEW k \in 1 .. depth - 1, NEW l \in 1 .. depth - 1, s[k].expr_end = s[l].expr_end
               PROVE  k = l
    OBVIOUS
  <2>1. k + 1 = l + 1
    BY <1>24, <1>25
  <2> QED BY <2>1
<1>27. Ends(c.chains) = Ends(s) \cup {expr_end}
  <2>1. ASSUME NEW y \in Ends(c.chains), y # expr_end PROVE y \in Ends(s)
    <3>1. PICK k \in 1 .. depth : y = c.chains[k].expr_end
      BY <1>6 DEF Ends
    <3>2. k - 1 \in 1 .. depth - 1 /\ s[k - 1] = c.chains[k]
      BY <1>7, <1>9, <2>1, <3>1
    <3> QED BY <1>7, <3>1, <3>2 DEF Ends
  <2>2. ASSUME NEW y \in Ends(s) PROVE y \in Ends(c.chains)
    BY <1>6, <1>7, <1>25 DEF Ends
  <2>3. expr_end \in Ends(c.chains)
    <3>1. 1 \in 1 .. Len(c.chains)
      BY <1>6
    <3> QED BY <1>7, <1>9, <3>1 DEF Ends
  <2> QED BY <2>1, <2>2, <2>3
<1>28. Open(j) = (Open(i) \ {i.current_bb}) \cup {j.current_bb} \cup Ends(s)
  <2>1. Open(ir0) = (Open(i) \ {i.current_bb}) \cup {bb} \cup Ends(c.chains)
    BY <1>1, <1>3 DEF Reading
  <2>2. bb = i.current_bb \/ bb > Len(i.bbs)
    BY <1>1, <1>3 DEF Reading
  <2>3. bb \notin Open(i) \ {i.current_bb}
    BY <1>4, <2>2 DEF Open
  <2>4. bb \notin Ends(c.chains)
    BY <1>6, <1>23 DEF Ends
  <2> QED BY <1>18, <1>27, <2>1, <2>3, <2>4
<1>29. \A k \in 1 .. depth - 1 : s[k].expr_end \in Len(i.bbs) + 1 .. N
  BY <1>23, <1>25
<1>30. expr_end > Len(i.bbs)
  BY <1>4, <1>10
<1>31. Reading(i, e, depth - 1)
  BY <1>4, <1>7, <1>18, <1>22, <1>25, <1>26, <1>28, <1>29, <1>30 DEF Reading
<1> QED BY <1>20, <1>31

IsReader(c) == DOMAIN c = {"ir", "operands", "chains"}

LEMMA OtherStep ==
  ASSUME NEW i, NEW c, NEW depth, Reading(i, c, depth), NEW ss, NEW t, IsReader(c),
         t.op \notin {"FIRST", "AND", "OR", "LAST"}, t.op = "FUNCTION" => Len(t.names) \in Nat
  PROVE  Reading(i, Step(c, ss, t), depth)
<1>1. PICK ir0 : ir0 = c.ir
  OBVIOUS
<1>2. Good(ir0) /\ ir0.current_bb \in Open(ir0)
  BY <1>1 DEF Reading
<1>3. PICK r : r = c.operands[1]
  OBVIOUS
<1>4. PICK d : d = Step(c, ss, t)
  OBVIOUS
<1> DEFINE Gives(n, j) == d = [c EXCEPT !.ir = j, !.operands = <<j.reg>> \o SubSeq(@, n + 1, Len(@))]
<1>5. ASSUME NEW n, NEW j, Like(ir0, j), Gives(n, j)
      PROVE  Reading(i, Step(c, ss, t), depth)
  <2>1. d.ir = j /\ d.chains = c.chains
    BY <1>5 DEF IsReader
  <2>2. Reading(i, d, depth)
    BY <1>1, <1>5, <2>1, PlainStep
  <2> QED BY <1>4, <2>2
<1>6. CASE t.op = "NUM"
  <2>1. PICK j : j = Li(ir0, ir0.current_bb, t.n)
    OBVIOUS
  <2>2. Gives(0, j)
    BY <1>1, <1>4, <1>6, <2>1 DEF Step
  <2>3. Like(ir0, j)
    BY <1>2, <2>1, LiLike
  <2> HIDE DEF Gives
  <2> QED BY <1>5, <2>2, <2>3
<1>7. CASE t.op = "VAR"
  <2>1. PICK j : j = Read(ir0, ss, t.name)
    OBVIOUS
  <2>2. Gives(0, j)
    BY <1>1, <1>4, <1>7, <2>1 DEF Step
  <2>3. Like(ir0, j)
    BY <1>2, <2>1, ReadLike
  <2> HIDE DEF Gives
  <2> QED BY <1>5, <2>2, <2>3
<1>8. CASE t.op = "FUNCTION"
  <2>1. PICK j : j = NewClosure(ir0, ss, t.names)
    OBVIOUS
  <2>2. Gives(0, j)
    BY <1>1, <1>4, <1>8, <2>1 DEF Step
  <2>3. Like(ir0, j)
    BY <1>2, <1>8, <2>1, NewClosureLike
  <2> HIDE DEF Gives
  <2> QED BY <1>5, <2>2, <2>3
<1>9. CASE t.op = "NEG"
  <2>1. PICK j : j = Negative(ir0, r)
    OBVIOUS
  <2>2. Gives(1, j)
    BY <1>1, <1>3, <1>4, <1>9, <2>1 DEF Step
  <2>3. Like(ir0, j)
    BY <1>2, <2>1, NegativeLike
  <2> HIDE DEF Gives
  <2> QED BY <1>5, <2>2, <2>3
<1>10. CASE t.op = "NOT"
  <2>1. PICK j : j = Inverted(ir0, r)
    OBVIOUS
  <2>2. Gives(1, j)
    BY <1>1, <1>3, <1>4, <1>10, <2>1 DEF Step
  <2>3. Like(ir0, j)
    BY <1>2, <2>1, InvertedLike
  <2> HIDE DEF Gives
  <2> QED BY <1>5, <2>2, <2>3
<1>11. CASE t.op \notin {"NUM", "VAR", "FUNCTION", "NEG", "NOT"}
  <2>1. PICK j : j = Compare(ir0, t.op, c.operands[2], r)
    OBVIOUS
  <2>2. Gives(2, j)
    BY <1>1, <1>3, <1>4, <1>11, <2>1 DEF Step
  <2>3. Like(ir0, j)
    BY <1>2, <2>1, CompareLike
  <2> HIDE DEF Gives
  <2> QED BY <1>5, <2>2, <2>3
<1> QED BY <1>4, <1>6, <1>7, <1>8, <1>9, <1>10, <1>11

LEMMA StepReader ==
  ASSUME NEW c, IsReader(c), NEW ss, NEW t
  PROVE  IsReader(Step(c, ss, t))
<1>1. \A n, j : IsReader([c EXCEPT !.ir = j, !.operands = <<j.reg>> \o SubSeq(@, n + 1, Len(@))])
  BY DEF IsReader
<1>2. \A j, x : IsReader([c EXCEPT !.ir = j, !.chains = <<x>> \o @])
  BY DEF IsReader
<1>3. \A j : IsReader([c EXCEPT !.ir = j, !.operands = Tail(@)])
  BY DEF IsReader
<1>4. \A n, j : IsReader([[c EXCEPT !.ir = j, !.operands = <<j.reg>> \o SubSeq(@, n + 1, Len(@))]
                          EXCEPT !.chains = Tail(@)])
  BY DEF IsReader
<1> HIDE DEF IsReader
<1>5. CASE t.op = "FIRST"
  BY <1>2, <1>5, Zenon DEF Step
<1>6. CASE t.op \in {"AND", "OR"}
  BY <1>3, <1>6 DEF Step
<1>7. CASE t.op = "LAST"
  BY <1>4, <1>7 DEF Step
<1>8. CASE t.op \notin {"FIRST", "AND", "OR", "LAST"}
  BY <1>1, <1>8 DEF Step
<1> QED BY <1>5, <1>6, <1>7, <1>8

(* How many tokens of a kind there are among the first k.                    *)
LEMMA CountIs ==
  ASSUME NEW e, NEW ops
  PROVE  /\ Count(e, 0, ops) = 0
         /\ \A k \in Nat : Count(e, k, ops) \in Nat
<1> DEFINE S(k) == {j \in 1 .. k : e[j].op \in ops}
<1>1. ASSUME NEW k \in Nat PROVE Count(e, k, ops) \in Nat
  <2>1. IsFiniteSet(1 .. k) /\ S(k) \subseteq 1 .. k
    BY FS_Interval
  <2>2. Cardinality(S(k)) \in Nat
    BY <2>1, FS_Subset, FS_CardinalityType
  <2> QED BY <2>2 DEF Count
<1>2. S(0) = {}
  OBVIOUS
<1>3. Count(e, 0, ops) = Cardinality(S(0))
  BY DEF Count
<1> QED BY <1>1, <1>2, <1>3, FS_EmptySet

LEMMA CountNext ==
  ASSUME NEW e, NEW ops, NEW k \in Nat \ {0}
  PROVE  Count(e, k, ops) = IF e[k].op \in ops THEN Count(e, k - 1, ops) + 1
                            ELSE Count(e, k - 1, ops)
<1> DEFINE S(n) == {j \in 1 .. n : e[j].op \in ops}
<1>1. \A n : Count(e, n, ops) = Cardinality(S(n))
  BY DEF Count
<1>2. IsFiniteSet(S(k - 1))
  <2>1. k - 1 \in Nat
    OBVIOUS
  <2>2. IsFiniteSet(1 .. k - 1) /\ S(k - 1) \subseteq 1 .. k - 1
    BY <2>1, FS_Interval
  <2> QED BY <2>2, FS_Subset
<1>3. CASE e[k].op \in ops
  <2>1. S(k) = S(k - 1) \cup {k} /\ k \notin S(k - 1)
    BY <1>3
  <2> HIDE DEF S
  <2>2. Cardinality(S(k - 1) \cup {k}) = Cardinality(S(k - 1)) + 1
    BY <1>2, <2>1, FS_AddElement
  <2> QED BY <1>1, <1>3, <2>1, <2>2
<1>4. CASE e[k].op \notin ops
  <2>1. S(k) = S(k - 1)
    BY <1>4
  <2> HIDE DEF S
  <2> QED BY <1>1, <1>4, <2>1
<1> QED BY <1>3, <1>4

(* How many chains are being read after k tokens.                            *)
LEMMA ChainsIs ==
  ASSUME NEW e
  PROVE  Chains(e, 0) = 0 /\ \A k \in Nat : Chains(e, k) \in Int
BY CountIs DEF Chains

LEMMA ChainsNext ==
  ASSUME NEW e, NEW k \in Nat \ {0}
  PROVE  Chains(e, k) = IF e[k].op = "FIRST" THEN Chains(e, k - 1) + 1
                        ELSE IF e[k].op = "LAST" THEN Chains(e, k - 1) - 1 ELSE Chains(e, k - 1)
<1>1. PICK first, last : first = {"FIRST"} /\ last = {"LAST"}
  OBVIOUS
<1>2. \A n : Chains(e, n) = Count(e, n, first) - Count(e, n, last)
  BY <1>1 DEF Chains
<1>3. k - 1 \in Nat
  OBVIOUS
<1>4. Count(e, k - 1, first) \in Nat /\ Count(e, k - 1, last) \in Nat
  BY <1>3, CountIs
<1>5. /\ Count(e, k, first) = IF e[k].op \in first THEN Count(e, k - 1, first) + 1
                              ELSE Count(e, k - 1, first)
      /\ Count(e, k, last) = IF e[k].op \in last THEN Count(e, k - 1, last) + 1
                             ELSE Count(e, k - 1, last)
  BY CountNext
<1> QED BY <1>1, <1>2, <1>4, <1>5

(* And how many operands there are.                                          *)
LEMMA OperandsIs ==
  ASSUME NEW e
  PROVE  Operands(e, 0) = 0 /\ \A k \in Nat : Operands(e, k) \in Int
<1>1. PICK less : less = {"AND", "OR"} \cup Binaries
  OBVIOUS
<1>2. \A n : Operands(e, n) = Count(e, n, Leaves) - Count(e, n, less)
  BY <1>1 DEF Operands
<1>3. /\ Count(e, 0, Leaves) = 0 /\ Count(e, 0, less) = 0
      /\ \A k \in Nat : Count(e, k, Leaves) \in Nat /\ Count(e, k, less) \in Nat
  BY CountIs
<1> QED BY <1>2, <1>3

LEMMA OperandsNext ==
  ASSUME NEW e, NEW k \in Nat \ {0}
  PROVE  Operands(e, k) = IF e[k].op \in Leaves THEN Operands(e, k - 1) + 1
                          ELSE IF e[k].op \in {"AND", "OR"} \cup Binaries
                               THEN Operands(e, k - 1) - 1 ELSE Operands(e, k - 1)
<1>1. PICK less : less = {"AND", "OR"} \cup Binaries
  OBVIOUS
<1>2. \A n : Operands(e, n) = Count(e, n, Leaves) - Count(e, n, less)
  BY <1>1 DEF Operands
<1>3. k - 1 \in Nat
  OBVIOUS
<1>4. Count(e, k - 1, Leaves) \in Nat /\ Count(e, k - 1, less) \in Nat
  BY <1>3, CountIs
<1>5. /\ Count(e, k, Leaves) = IF e[k].op \in Leaves THEN Count(e, k - 1, Leaves) + 1
                               ELSE Count(e, k - 1, Leaves)
      /\ Count(e, k, less) = IF e[k].op \in less THEN Count(e, k - 1, less) + 1
                             ELSE Count(e, k - 1, less)
  BY CountNext
<1>6. e[k].op \in Leaves => e[k].op \notin less
  BY <1>1 DEF Leaves, Binaries, Ops
<1>7. CASE e[k].op \in Leaves
  BY <1>2, <1>4, <1>5, <1>6, <1>7
<1>8. CASE e[k].op \notin Leaves
  BY <1>1, <1>2, <1>4, <1>5, <1>8
<1> QED BY <1>7, <1>8

(* What an expression leaves: the same blocks are open, but that the current *)
(* one may be a new one.                                                     *)
Reads(i, j) ==
  /\ Good(j) /\ Len(i.bbs) <= Len(j.bbs)
  /\ Open(j) = (Open(i) \ {i.current_bb}) \cup {j.current_bb}
  /\ j.current_bb = i.current_bb \/ j.current_bb > Len(i.bbs)

(* Tokens are read one after the other.                                      *)
CompileBy(c, i, ss, e) ==
  /\ c[0] = [ir |-> i, operands |-> <<>>, chains |-> <<>>]
  /\ \A k \in 1 .. Len(e) : c[k] = Step(c[k - 1], ss, e[k])
  /\ Compile(i, ss, e) = c[Len(e)].ir
LEMMA CompileIs ==
  ASSUME NEW i, NEW ss, NEW e, Len(e) \in Nat
  PROVE  \E c : CompileBy(c, i, ss, e)
<1> DEFINE N == Len(e)
           G(f, k) == IF k = 0 THEN [ir |-> i, operands |-> <<>>, chains |-> <<>>]
                      ELSE Step(f[k - 1], ss, e[k])
           Rec(f, n) == f = [k \in 0 .. n |-> G(f, k)]
           S == {n \in Nat : \E f : Rec(f, n)}
<1>0. N \in Nat
  OBVIOUS
<1> HIDE DEF N
<1>1. 0 \in S
  <2> DEFINE f == [k \in 0 .. 0 |-> [ir |-> i, operands |-> <<>>, chains |-> <<>>]]
  <2>1. \A k \in 0 .. 0 : G(f, k) = [ir |-> i, operands |-> <<>>, chains |-> <<>>]
    OBVIOUS
  <2>2. Rec(f, 0)
    BY <2>1
  <2> QED BY <2>2
<1>2. ASSUME NEW n \in Nat, n \in S PROVE n + 1 \in S
  <2>1. PICK f : Rec(f, n)
    BY <1>2
  <2> DEFINE g == [k \in 0 .. n + 1 |-> G(f, k)]
  <2>2. ASSUME NEW k \in 0 .. n PROVE f[k] = g[k]
    <3> HIDE DEF G
    <3> QED BY <2>1
  <2>3. ASSUME NEW k \in 0 .. n + 1 PROVE G(f, k) = G(g, k)
    <3>1. k # 0 => k - 1 \in 0 .. n
      OBVIOUS
    <3>2. k # 0 => f[k - 1] = g[k - 1]
      <4> HIDE DEF g
      <4> QED BY <2>2, <3>1
    <3> QED BY <3>2
  <2>4. Rec(g, n + 1)
    <3> HIDE DEF G
    <3> QED BY <2>3
  <2> HIDE DEF g, Rec
  <2> QED BY <2>4
<1>3. PICK f : Rec(f, N)
  <2> HIDE DEF S, Rec
  <2>1. N \in S
    BY <1>0, <1>1, <1>2, NatInd
  <2> QED BY <2>1 DEF S
<1>4. ASSUME NEW g, Rec(g, N), NEW k \in 0 .. N PROVE g[k] = G(g, k)
  BY <1>4
<1>5. PICK c : c = CHOOSE g : Rec(g, N)
  OBVIOUS
<1>6. Rec(c, N)
  <2> HIDE DEF Rec
  <2> QED BY <1>3, <1>5
<1>7. ASSUME NEW k \in 0 .. N PROVE c[k] = G(c, k)
  <2> HIDE DEF Rec, G
  <2> QED BY <1>4, <1>6
<1>8. c[0] = [ir |-> i, operands |-> <<>>, chains |-> <<>>]
  <2>1. c[0] = G(c, 0)
    <3> HIDE DEF Rec, G
    <3> QED BY <1>0, <1>7
  <2> QED BY <2>1
<1>9. ASSUME NEW k \in 1 .. N PROVE c[k] = Step(c[k - 1], ss, e[k])
  <2>1. k \in 0 .. N /\ k # 0
    BY <1>0
  <2>2. c[k] = G(c, k)
    <3> HIDE DEF Rec, G
    <3> QED BY <1>7, <2>1
  <2> QED BY <2>1, <2>2
<1>10. Compile(i, ss, e) = c[N].ir
  BY <1>5 DEF Compile, N
<1>11. CompileBy(c, i, ss, e)
  <2> HIDE DEF G, Rec
  <2> QED BY <1>8, <1>9, <1>10 DEF N, CompileBy
<1> QED BY <1>11

LEMMA WellFormedIs ==
  ASSUME NEW e, WellFormed(e)
  PROVE  /\ Len(e) \in Nat /\ DOMAIN e = 1 .. Len(e) /\ Chains(e, Len(e)) = 0
         /\ \A k \in 1 .. Len(e) :
              /\ e[k].op \in Leaves \cup Binaries \cup {"NEG", "NOT", "FIRST", "AND", "OR", "LAST"}
              /\ Operands(e, k - 1) >= Needs(e[k].op)
              /\ e[k].op \in {"AND", "OR", "LAST"} => Chains(e, k - 1) > 0
              /\ e[k].op = "FUNCTION" => Len(e[k].names) \in Nat
<1>1. e \in Seq(Range(e))
  BY DEF WellFormed
<1>2. DOMAIN e = 1 .. Len(e) /\ Len(e) \in Nat
  BY <1>1, LenProperties
<1>3. ASSUME NEW k \in 1 .. Len(e), e[k].op = "FUNCTION" PROVE Len(e[k].names) \in Nat
  <2>1. e[k].names \in Seq(Names)
    BY <1>2, <1>3 DEF WellFormed
  <2> QED BY <2>1, LenProperties
<1> QED BY <1>2, <1>3 DEF WellFormed

(* An expression of which k tokens have been read.                           *)
ReadTo(i, c, e, k) == IsReader(c) /\ Reading(i, c, Chains(e, k)) /\ Chains(e, k) \in Nat

LEMMA ReadNothing ==
  ASSUME NEW i, Good(i), i.current_bb \in Open(i), NEW e
  PROVE  ReadTo(i, [ir |-> i, operands |-> <<>>, chains |-> <<>>], e, 0)
<1>1. PICK c : c = [ir |-> i, operands |-> <<>>, chains |-> <<>>]
  OBVIOUS
<1>2. IsReader(c) /\ c.ir = i /\ c.chains = <<>>
  BY <1>1 DEF IsReader
<1>3. IsSeq(<<>>) /\ Len(<<>>) = 0 /\ Ends(<<>>) = {}
  BY DEF IsSeq, Ends
<1>4. Chains(e, 0) = 0
  BY ChainsIs
<1>5. Len(i.bbs) \in Nat
  BY SeqShape DEF Good
<1>6. Reading(i, c, 0)
  BY <1>2, <1>3, <1>5 DEF Reading
<1> QED BY <1>1, <1>2, <1>4, <1>6 DEF ReadTo

LEMMA ReadNext ==
  ASSUME NEW i, Good(i), NEW ss, NEW e, WellFormed(e), NEW k \in 1 .. Len(e), NEW c, ReadTo(i, c, e, k - 1)
  PROVE  ReadTo(i, Step(c, ss, e[k]), e, k)
<1>1. PICK d : d = Chains(e, k - 1)
  OBVIOUS
<1>2. IsReader(c) /\ Reading(i, c, d) /\ d \in Nat
  BY <1>1 DEF ReadTo
<1>3. DOMAIN c = {"ir", "operands", "chains"}
  BY <1>2 DEF IsReader
<1>4. PICK t : t = e[k]
  OBVIOUS
<1>5. Chains(e, k) = IF t.op = "FIRST" THEN d + 1 ELSE IF t.op = "LAST" THEN d - 1 ELSE d
  <2>1. k \in Nat \ {0}
    BY WellFormedIs
  <2> QED BY <1>1, <1>4, <2>1, ChainsNext
<1>6. /\ t.op \in {"AND", "OR", "LAST"} => d > 0
      /\ t.op = "FUNCTION" => Len(t.names) \in Nat
  BY <1>1, <1>4, WellFormedIs
<1>7. IsReader(Step(c, ss, t))
  BY <1>2, StepReader
<1>8. CASE t.op = "FIRST"
  <2>1. Reading(i, Step(c, ss, t), d + 1)
    BY <1>2, <1>3, <1>8, FirstStep
  <2> QED BY <1>2, <1>4, <1>5, <1>7, <1>8, <2>1 DEF ReadTo
<1>9. CASE t.op \in {"AND", "OR"}
  <2>1. Reading(i, Step(c, ss, t), d)
    BY <1>2, <1>3, <1>6, <1>9, BranchStep
  <2> QED BY <1>2, <1>4, <1>5, <1>7, <1>9, <2>1 DEF ReadTo
<1>10. CASE t.op = "LAST"
  <2>1. Reading(i, Step(c, ss, t), d - 1)
    BY <1>2, <1>3, <1>6, <1>10, LastStep
  <2>2. d - 1 \in Nat
    BY <1>2, <1>6, <1>10
  <2> QED BY <2>2, <1>4, <1>5, <1>7, <1>10, <2>1 DEF ReadTo
<1>11. CASE t.op \notin {"FIRST", "AND", "OR", "LAST"}
  <2>1. Reading(i, Step(c, ss, t), d)
    BY <1>2, <1>6, <1>11, OtherStep
  <2> QED BY <1>2, <1>4, <1>5, <1>7, <1>11, <2>1 DEF ReadTo
<1> QED BY <1>8, <1>9, <1>10, <1>11

LEMMA CompileReads ==
  ASSUME NEW i, Good(i), i.current_bb \in Open(i), NEW ss, NEW e, WellFormed(e)
  PROVE  Reads(i, Compile(i, ss, e))
<1>1. PICK N : N = Len(e) /\ N \in Nat /\ Chains(e, N) = 0
  BY WellFormedIs
<1>2. PICK f : /\ f[0] = [ir |-> i, operands |-> <<>>, chains |-> <<>>]
               /\ \A k \in 1 .. N : f[k] = Step(f[k - 1], ss, e[k])
               /\ Compile(i, ss, e) = f[N].ir
  <2>1. PICK f : CompileBy(f, i, ss, e)
    BY <1>1, CompileIs
  <2> QED BY <1>1, <2>1 DEF CompileBy
<1> DEFINE T == {n \in Nat : n <= N => ReadTo(i, f[n], e, n)}
<1>3. 0 \in T
  BY <1>2, ReadNothing
<1>4. ASSUME NEW n \in Nat, n \in T PROVE n + 1 \in T
  <2> SUFFICES ASSUME n + 1 <= N PROVE ReadTo(i, f[n + 1], e, n + 1)
    OBVIOUS
  <2>1. PICK m : m = n + 1 /\ m \in 1 .. N /\ m - 1 = n
    BY <1>1
  <2>2. PICK x : x = f[m - 1]
    OBVIOUS
  <2>3. ReadTo(i, x, e, m - 1)
    BY <1>1, <1>4, <2>1, <2>2
  <2>4. f[m] = Step(x, ss, e[m])
    BY <1>2, <2>1, <2>2
  <2> HIDE DEF T
  <2> QED BY <1>1, <2>1, <2>3, <2>4, ReadNext
<1>5. N \in T
  <2> HIDE DEF T
  <2> QED BY <1>1, <1>3, <1>4, NatInd
<1>6. PICK r : r = f[N]
  OBVIOUS
<1>7. ReadTo(i, r, e, N)
  BY <1>1, <1>5, <1>6
<1>8. Reading(i, r, 0)
  BY <1>1, <1>7 DEF ReadTo
<1>9. Ends(r.chains) = {}
  BY <1>8 DEF Reading, Ends
<1>10. Reads(i, r.ir)
  BY <1>8, <1>9 DEF Reading, Reads
<1> QED BY <1>2, <1>6, <1>10

------------------------------------------------------------------------------
(* Claims, values and moves.                                                 *)

LEMMA LikeReads ==
  ASSUME NEW i, Good(i), i.current_bb \in Open(i), NEW j, Like(i, j)
  PROVE  Reads(i, j) /\ j.current_bb \in Open(j)
<1>1. Len(i.bbs) \in Nat
  BY SeqShape DEF Good
<1> QED BY <1>1 DEF Like, Reads

LEMMA ReadsReads ==
  ASSUME NEW i, Good(i), NEW j, NEW k, Reads(i, j), Reads(j, k)
  PROVE  Reads(i, k)
<1>1. Len(i.bbs) \in Nat /\ Len(j.bbs) \in Nat /\ Len(k.bbs) \in Nat
  BY SeqShape DEF Reads, Good
<1>2. j.current_bb \in 1 .. Len(j.bbs) /\ k.current_bb \in 1 .. Len(k.bbs)
  BY DEF Reads, Open
<1>3. Open(i) \subseteq 1 .. Len(i.bbs)
  BY DEF Open
<1>4. j.current_bb \notin Open(i) \ {i.current_bb}
  BY <1>1, <1>3 DEF Reads
<1>5. Open(k) = (Open(i) \ {i.current_bb}) \cup {k.current_bb}
  BY <1>4 DEF Reads
<1>6. k.current_bb = i.current_bb \/ k.current_bb > Len(i.bbs)
  BY <1>1, <1>2 DEF Reads
<1> QED BY <1>1, <1>5, <1>6 DEF Reads

LEMMA ClaimLike ==
  ASSUME NEW i, Good(i), NEW bb, NEW claim
  PROVE  Like(i, Claim(i, bb, claim))
<1> DEFINE block == [i.bbs[bb] EXCEPT !.insts = Append(@, claim)]
           j == Claim(i, bb, claim)
<1>1. j = [i EXCEPT !.bbs = [@ EXCEPT ![bb] = block]]
  BY DEF Claim
<1>2. IsBuilder(j) /\ ~j.extended /\ j.current_bb = i.current_bb /\ j.bbs = [i.bbs EXCEPT ![bb] = block]
  BY <1>1 DEF Good, IsBuilder
<1>3. ASSUME bb \in 1 .. Len(i.bbs)
      PROVE  /\ IsBlock(block) /\ block.dominator = i.bbs[bb].dominator
             /\ block.else_bb = i.bbs[bb].else_bb /\ block.br_reg = i.bbs[bb].br_reg
  BY <1>3 DEF Good, IsBlock
<1> HIDE DEF block, j
<1>4. Like(i, j)
  <2>1. IsBuilder(j) /\ ~j.extended /\ j.current_bb = i.current_bb
    BY <1>2
  <2>2. Replaces(j.bbs, i.bbs, bb, block)
    BY <1>2 DEF Replaces
  <2> QED BY <2>1, <2>2, <1>3, OneBlock
<1> QED BY <1>4 DEF j

LEMMA IsLike ==
  ASSUME NEW i, Good(i), NEW ss, NEW variable, NEW e, NEW r
  PROVE  Like(i, Is(i, ss, variable, e, r))
<1>1. PICK claim : claim = [type |-> "IS", variable |-> variable, expr |-> e,
                            names |-> Variables(ss), rs |-> r]
  OBVIOUS
<1>2. Is(i, ss, variable, e, r) = Claim(i, i.current_bb, claim)
  BY <1>1 DEF Is
<1> QED BY <1>2, ClaimLike

LEMMA WhenLike ==
  ASSUME NEW i, Good(i), NEW ss, NEW bb, NEW e, NEW true
  PROVE  Like(i, When(i, ss, bb, e, true))
<1>1. PICK claim : claim = [type |-> "WHEN", expr |-> e, names |-> Variables(ss), true |-> true]
  OBVIOUS
<1>2. When(i, ss, bb, e, true) = Claim(i, bb, claim)
  BY <1>1 DEF When
<1> QED BY <1>2, ClaimLike

LEMMA ValuedReads ==
  ASSUME NEW i, Good(i), i.current_bb \in Open(i), NEW ss, NEW e, WellFormed(e)
  PROVE  Reads(i, Valued(i, ss, e))
<1>1. PICK c : c = Compile(i, ss, e)
  OBVIOUS
<1>2. Reads(i, c) /\ Good(c) /\ c.current_bb \in Open(c)
  BY <1>1, CompileReads DEF Reads
<1>3. PICK d : d = Doubt(c, c.reg <= i.register_nr \/ c.reg \in Range(c.captured))
  OBVIOUS
<1>4. Valued(i, ss, e) \in {Mov(c, c.current_bb, c.reg), d}
  BY <1>1, <1>3 DEF Valued, Owned
<1>5. Like(c, Valued(i, ss, e))
  BY <1>2, <1>3, <1>4, MovLike, DoubtLike
<1>6. PICK v : v = Valued(i, ss, e)
  OBVIOUS
<1>7. Reads(c, v)
  BY <1>2, <1>5, <1>6, LikeReads
<1>8. Reads(i, v)
  BY <1>2, <1>7, ReadsReads
<1> QED BY <1>6, <1>8

(* The names can be put in an order, and an order has a length.              *)
LEMMA OrdersAre == Orders # {} /\ \A order \in Orders : Len(order) \in Nat
<1>1. IsFiniteSet(Names)
  BY NamesAssumption
<1>2. PICK n : n = Cardinality(Names)
  OBVIOUS
<1>3. n \in Nat
  BY <1>1, <1>2, FS_CardinalityType
<1>4. Orders = {f \in [1 .. n -> Names] : \A i, j \in 1 .. n : i # j => f[i] # f[j]}
  BY <1>2 DEF Orders, SetToSeqs
<1>5. ASSUME NEW order \in Orders PROVE Len(order) \in Nat
  <2>1. order \in Seq(Names)
    BY <1>3, <1>4, SeqDef
  <2> QED BY <2>1, LenProperties
<1>6. \E f \in [1 .. n -> Names] : \A i, j \in 1 .. n : i # j => f[i] # f[j]
  <2>1. ExistsBijection(1 .. n, Names)
    BY <1>1, <1>2, FS_NatBijection, FS_CountingElements
  <2>2. PICK f : f \in Bijection(1 .. n, Names)
    BY <2>1 DEF ExistsBijection
  <2>3. f \in [1 .. n -> Names] /\ IsInjective(f)
    BY <2>2 DEF Bijection, Injection
  <2>4. \A i, j \in 1 .. n : i # j => f[i] # f[j]
    BY <2>3 DEF IsInjective
  <2> QED BY <2>3, <2>4
<1> QED BY <1>4, <1>5, <1>6

(* Moves are emitted one after the other.                                    *)
MovesBy(c, i, order, names, bb, to, from) ==
  /\ c[0] = i
  /\ \A k \in 1 .. Len(order) : c[k] = IF order[k] \in names
                      THEN MovUpper(c[k - 1], bb, to[order[k]], from[order[k]]) ELSE c[k - 1]
  /\ Moves(i, order, names, bb, to, from) = c[Len(order)]
LEMMA MovesIs ==
  ASSUME NEW i, NEW order, Len(order) \in Nat, NEW names, NEW bb, NEW to, NEW from
  PROVE  \E c : MovesBy(c, i, order, names, bb, to, from)
<1> DEFINE N == Len(order)
           G(f, k) == IF k = 0 THEN i
                      ELSE IF order[k] \in names
                      THEN MovUpper(f[k - 1], bb, to[order[k]], from[order[k]]) ELSE f[k - 1]
           Rec(f, n) == f = [k \in 0 .. n |-> G(f, k)]
           S == {n \in Nat : \E f : Rec(f, n)}
<1>0. N \in Nat
  OBVIOUS
<1> HIDE DEF N
<1>1. 0 \in S
  <2> DEFINE f == [k \in 0 .. 0 |-> i]
  <2>1. \A k \in 0 .. 0 : G(f, k) = i
    OBVIOUS
  <2>2. Rec(f, 0)
    BY <2>1
  <2> QED BY <2>2
<1>2. ASSUME NEW n \in Nat, n \in S PROVE n + 1 \in S
  <2>1. PICK f : Rec(f, n)
    BY <1>2
  <2> DEFINE g == [k \in 0 .. n + 1 |-> G(f, k)]
  <2>2. ASSUME NEW k \in 0 .. n PROVE f[k] = g[k]
    <3> HIDE DEF G
    <3> QED BY <2>1
  <2>3. ASSUME NEW k \in 0 .. n + 1 PROVE G(f, k) = G(g, k)
    <3>1. k # 0 => k - 1 \in 0 .. n
      OBVIOUS
    <3>2. k # 0 => f[k - 1] = g[k - 1]
      <4> HIDE DEF g
      <4> QED BY <2>2, <3>1
    <3> QED BY <3>2
  <2>4. Rec(g, n + 1)
    <3> HIDE DEF G
    <3> QED BY <2>3
  <2> HIDE DEF g, Rec
  <2> QED BY <2>4
<1>3. PICK f : Rec(f, N)
  <2> HIDE DEF S, Rec
  <2>1. N \in S
    BY <1>0, <1>1, <1>2, NatInd
  <2> QED BY <2>1 DEF S
<1>4. ASSUME NEW g, Rec(g, N), NEW k \in 0 .. N PROVE g[k] = G(g, k)
  BY <1>4
<1>5. PICK c : c = CHOOSE g : Rec(g, N)
  OBVIOUS
<1>6. Rec(c, N)
  <2> HIDE DEF Rec
  <2> QED BY <1>3, <1>5
<1>7. ASSUME NEW k \in 0 .. N PROVE c[k] = G(c, k)
  <2> HIDE DEF Rec, G
  <2> QED BY <1>4, <1>6
<1>8. c[0] = i
  <2>1. c[0] = G(c, 0)
    <3> HIDE DEF Rec, G
    <3> QED BY <1>0, <1>7
  <2> QED BY <2>1
<1>9. ASSUME NEW k \in 1 .. N PROVE c[k] = IF order[k] \in names
                      THEN MovUpper(c[k - 1], bb, to[order[k]], from[order[k]]) ELSE c[k - 1]
  <2>1. k \in 0 .. N /\ k # 0
    BY <1>0
  <2>2. c[k] = G(c, k)
    <3> HIDE DEF Rec, G
    <3> QED BY <1>7, <2>1
  <2> QED BY <2>1, <2>2
<1>10. Moves(i, order, names, bb, to, from) = c[N]
  BY <1>5 DEF Moves, N
<1>11. MovesBy(c, i, order, names, bb, to, from)
  <2> HIDE DEF G, Rec
  <2> QED BY <1>8, <1>9, <1>10 DEF N, MovesBy
<1> QED BY <1>11

LEMMA MovesLike ==
  ASSUME NEW i, Good(i), NEW order, Len(order) \in Nat, NEW names, NEW bb \in Open(i), NEW to, NEW from
  PROVE  Like(i, Moves(i, order, names, bb, to, from))
<1>1. PICK N : N = Len(order) /\ N \in Nat
  OBVIOUS
<1>2. PICK c : /\ c[0] = i
               /\ \A k \in 1 .. N : c[k] = IF order[k] \in names
                    THEN MovUpper(c[k - 1], bb, to[order[k]], from[order[k]]) ELSE c[k - 1]
               /\ Moves(i, order, names, bb, to, from) = c[N]
  <2>1. PICK c : MovesBy(c, i, order, names, bb, to, from)
    BY <1>1, MovesIs
  <2> QED BY <1>1, <2>1 DEF MovesBy
<1> DEFINE T == {n \in Nat : n <= N => Like(i, c[n])}
<1>3. 0 \in T
  BY <1>2, LikeSelf
<1>4. ASSUME NEW n \in Nat, n \in T PROVE n + 1 \in T
  <2> SUFFICES ASSUME n + 1 <= N PROVE Like(i, c[n + 1])
    OBVIOUS
  <2>1. PICK x : x = c[n]
    OBVIOUS
  <2>2. Like(i, x) /\ Good(x) /\ bb \in Open(x)
    BY <1>1, <1>4, <2>1 DEF Like
  <2>3. PICK y : y = MovUpper(x, bb, to[order[n + 1]], from[order[n + 1]])
    OBVIOUS
  <2>4. Like(i, y)
    BY <2>2, <2>3, MovUpperLike, LikeLike
  <2>5. n + 1 \in 1 .. N /\ (n + 1) - 1 = n
    BY <1>1
  <2>6. c[n + 1] \in {x, y}
    BY <1>2, <2>1, <2>3, <2>5
  <2> QED BY <2>2, <2>4, <2>6
<1>5. N \in T
  <2> HIDE DEF T
  <2> QED BY <1>1, <1>3, <1>4, NatInd
<1> QED BY <1>1, <1>2, <1>5

------------------------------------------------------------------------------
(* Statements that are being parsed: the blocks that each of them still has  *)
(* to end are the only ones that have not been, but for the current one.     *)
Pending(c) == IF c.kind = "else" THEN c.then_bb ELSE c.start
Waiting(os) == {Pending(os[k]) : k \in {l \in 1 .. Len(os) : os[l].kind # "block"}}
IsConstruct(c) ==
  /\ DOMAIN c = {"kind", "parsed", "start", "reg", "expr", "cond_start", "body_start", "then_bb", "newer"}
  /\ c.kind = "while" => c.cond_start # None
Constructs(os) == \A k \in 1 .. Len(os) : IsConstruct(os[k])
Starts(os, nr) == \A k \in 1 .. Len(os) : os[k].start \in 0 .. nr
Distinct(os) ==
  \A k, l \in 1 .. Len(os) :
    os[k].kind # "block" /\ os[l].kind # "block" /\ Pending(os[k]) = Pending(os[l]) => k = l
Nested(i, os) ==
  /\ Good(i) /\ IsSeq(os) /\ Constructs(os) /\ Distinct(os) /\ Starts(os, Len(i.bbs))
  /\ i.current_bb \notin Waiting(os) /\ Open(i) = {i.current_bb} \cup Waiting(os)

(* s is t without its innermost statement x.                                 *)
Top(t, x, s) ==
  /\ IsSeq(t) /\ IsSeq(s) /\ Len(t) = Len(s) + 1 /\ t[1] = x
  /\ \A k \in 1 .. Len(s) : t[k + 1] = s[k]
Own(x) == IF x.kind = "block" THEN {} ELSE {Pending(x)}

LEMMA TopIs ==
  ASSUME NEW t, NEW x, NEW s, Top(t, x, s)
  PROVE  /\ Waiting(t) = Waiting(s) \cup Own(x)
         /\ Constructs(t) <=> Constructs(s) /\ IsConstruct(x)
         /\ Distinct(t) <=> Distinct(s) /\ Own(x) \cap Waiting(s) = {}
         /\ \A nr : Starts(t, nr) <=> Starts(s, nr) /\ x.start \in 0 .. nr
<1>0. Len(s) \in Nat /\ Len(t) = Len(s) + 1
  BY SeqShape DEF Top
<1>1. ASSUME NEW k \in 1 .. Len(t)
      PROVE  (k = 1 /\ t[k] = x) \/ (k - 1 \in 1 .. Len(s) /\ t[k] = s[k - 1])
  BY <1>0 DEF Top
<1>2. ASSUME NEW k \in 1 .. Len(s) PROVE k + 1 \in 1 .. Len(t) /\ t[k + 1] = s[k] /\ k + 1 # 1
  BY <1>0 DEF Top
<1>3. 1 \in 1 .. Len(t) /\ t[1] = x
  BY <1>0 DEF Top
<1>4. Waiting(t) = Waiting(s) \cup Own(x)
  <2>1. ASSUME NEW y \in Waiting(t) PROVE y \in Waiting(s) \cup Own(x)
    BY <1>1 DEF Waiting, Own
  <2>2. ASSUME NEW y \in Waiting(s) PROVE y \in Waiting(t)
    BY <1>2 DEF Waiting
  <2>3. ASSUME NEW y \in Own(x) PROVE y \in Waiting(t)
    BY <1>3 DEF Waiting, Own
  <2> QED BY <2>1, <2>2, <2>3
<1>5. Constructs(t) <=> Constructs(s) /\ IsConstruct(x)
  <2>1. ASSUME Constructs(t) PROVE Constructs(s) /\ IsConstruct(x)
    BY <1>2, <1>3, <2>1 DEF Constructs
  <2>2. ASSUME Constructs(s), IsConstruct(x) PROVE Constructs(t)
    BY <1>1, <2>2 DEF Constructs
  <2> QED BY <2>1, <2>2
<1>6. ASSUME Distinct(t) PROVE Distinct(s) /\ Own(x) \cap Waiting(s) = {}
  <2>1. Distinct(s)
    <3> SUFFICES ASSUME NEW k \in 1 .. Len(s), NEW l \in 1 .. Len(s), s[k].kind # "block", s[l].kind # "block",
                        Pending(s[k]) = Pending(s[l])
                 PROVE  k = l
      BY DEF Distinct
    <3>1. k + 1 = l + 1
      BY <1>2, <1>6 DEF Distinct
    <3> QED BY <3>1
  <2>2. ASSUME NEW y \in Own(x), y \in Waiting(s) PROVE FALSE
    <3>1. PICK k \in 1 .. Len(s) : s[k].kind # "block" /\ y = Pending(s[k])
      BY <2>2 DEF Waiting
    <3>2. x.kind # "block" /\ y = Pending(x)
      BY <2>2 DEF Own
    <3>3. k + 1 \in 1 .. Len(t) /\ t[k + 1] = s[k] /\ k + 1 # 1
      BY <1>2
    <3>4. Pending(t[k + 1]) = Pending(t[1]) /\ t[k + 1].kind # "block" /\ t[1].kind # "block"
      BY <1>3, <3>1, <3>2, <3>3
    <3>5. k + 1 = 1
      BY <1>3, <1>6, <3>3, <3>4 DEF Distinct
    <3> QED BY <3>3, <3>5
  <2> QED BY <2>1, <2>2
<1>7. ASSUME Distinct(s), Own(x) \cap Waiting(s) = {} PROVE Distinct(t)
  <2> SUFFICES ASSUME NEW k \in 1 .. Len(t), NEW l \in 1 .. Len(t), t[k].kind # "block", t[l].kind # "block",
                      Pending(t[k]) = Pending(t[l])
               PROVE  k = l
    BY DEF Distinct
  <2>1. ASSUME NEW m \in 1 .. Len(t), m # 1, t[m].kind # "block" PROVE Pending(t[m]) \in Waiting(s)
    BY <1>1, <2>1 DEF Waiting
  <2>2. ASSUME t[1].kind # "block" PROVE Pending(t[1]) \notin Waiting(s)
    BY <1>3, <1>7, <2>2 DEF Own
  <2>3. CASE k = 1 \/ l = 1
    BY <2>1, <2>2, <2>3
  <2>4. CASE k # 1 /\ l # 1
    <3>1. /\ k - 1 \in 1 .. Len(s) /\ t[k] = s[k - 1]
          /\ l - 1 \in 1 .. Len(s) /\ t[l] = s[l - 1]
      BY <1>1, <2>4
    <3>2. k - 1 = l - 1
      BY <1>7, <3>1 DEF Distinct
    <3> QED BY <1>0, <3>2
  <2> QED BY <2>3, <2>4
<1>8. ASSUME NEW nr PROVE Starts(t, nr) <=> Starts(s, nr) /\ x.start \in 0 .. nr
  <2>1. ASSUME Starts(t, nr) PROVE Starts(s, nr) /\ x.start \in 0 .. nr
    BY <1>2, <1>3, <2>1 DEF Starts
  <2>2. ASSUME Starts(s, nr), x.start \in 0 .. nr PROVE Starts(t, nr)
    BY <1>1, <2>2 DEF Starts
  <2> QED BY <2>1, <2>2
<1> QED BY <1>4, <1>5, <1>6, <1>7, <1>8

LEMMA TopPushed ==
  ASSUME NEW s, IsSeq(s), NEW x
  PROVE  Top(<<x>> \o s, x, s)
<1>1. PICK t : t = <<x>> \o s
  OBVIOUS
<1>2. IsSeq(t) /\ Len(t) = Len(s) + 1 /\ t[1] = x /\ \A j \in 1 .. Len(s) : t[j + 1] = s[j]
  BY <1>1, PushedIs
<1> QED BY <1>1, <1>2 DEF Top

LEMMA TopPopped ==
  ASSUME NEW s, IsSeq(s), s # <<>>
  PROVE  Top(s, s[1], Tail(s)) /\ \A y : Top([s EXCEPT ![1] = y], y, Tail(s))
<1>1. PICK r : r = Tail(s)
  OBVIOUS
<1>2. /\ Len(s) \in Nat \ {0} /\ IsSeq(r) /\ Len(r) = Len(s) - 1
      /\ \A j \in 1 .. Len(s) - 1 : r[j] = s[j + 1]
  BY <1>1, PoppedIs
<1>3. Top(s, s[1], r)
  BY <1>2 DEF Top
<1>4. ASSUME NEW y, NEW t, t = [s EXCEPT ![1] = y] PROVE Top(t, y, r)
  <2>1. IsSeq(t) /\ Len(t) = Len(s) /\ \A j \in 1 .. Len(s) : t[j] = IF j = 1 THEN y ELSE s[j]
    <3>1. Replaces(t, s, 1, y)
      BY <1>4 DEF Replaces
    <3> QED BY <3>1, ReplacedIs
  <2> QED BY <1>2, <2>1 DEF Top
<1> QED BY <1>1, <1>3, <1>4

LEMMA NestedIs ==
  ASSUME NEW i, NEW os, Nested(i, os)
  PROVE  /\ Good(i) /\ i.current_bb \in Open(i) /\ Waiting(os) \subseteq Open(i)
         /\ Len(i.bbs) \in Nat /\ Open(i) \subseteq 1 .. Len(i.bbs) /\ IsSeq(os)
<1>1. Len(i.bbs) \in Nat
  BY SeqShape DEF Nested, Good
<1>2. Open(i) \subseteq 1 .. Len(i.bbs)
  BY DEF Open
<1> QED BY <1>1, <1>2 DEF Nested

LEMMA NestedReads ==
  ASSUME NEW i, NEW os, Nested(i, os), NEW j, Reads(i, j)
  PROVE  Nested(j, os) /\ j.current_bb \in Open(j)
<1>1. /\ Len(i.bbs) \in Nat /\ Waiting(os) \subseteq 1 .. Len(i.bbs) /\ Len(j.bbs) \in Nat
  BY NestedIs, SeqShape DEF Reads, Good
<1>2. j.current_bb \notin Waiting(os)
  <2>1. i.current_bb \notin Waiting(os)
    BY DEF Nested
  <2>2. j.current_bb = i.current_bb \/ j.current_bb > Len(i.bbs)
    BY DEF Reads
  <2> QED BY <1>1, <2>1, <2>2
<1>3. Open(j) = {j.current_bb} \cup Waiting(os)
  BY DEF Nested, Reads
<1>4. Starts(os, Len(j.bbs))
  <2>1. Starts(os, Len(i.bbs)) /\ Len(i.bbs) <= Len(j.bbs)
    BY DEF Nested, Reads
  <2> QED BY <1>1, <2>1 DEF Starts
<1> QED BY <1>2, <1>3, <1>4 DEF Nested, Reads

(* Only which of them is being read changes.                                 *)
LEMMA NestedParsed ==
  ASSUME NEW i, NEW os, Nested(i, os)
  PROVE  Nested(i, Parsed(os))
<1>1. CASE os = <<>>
  BY <1>1 DEF Parsed
<1>2. CASE os # <<>>
  <2>1. PICK x : x = os[1]
    OBVIOUS
  <2>2. PICK y : y = [x EXCEPT !.parsed = TRUE]
    OBVIOUS
  <2>3. PICK t : t = [os EXCEPT ![1] = y]
    OBVIOUS
  <2>4. PICK s : s = Tail(os)
    OBVIOUS
  <2>5. Top(os, x, s) /\ Top(t, y, s)
    BY <1>2, <2>1, <2>3, <2>4, TopPopped DEF Nested
  <2>6. IsConstruct(x)
    BY <2>5, TopIs DEF Nested
  <2>7. IsConstruct(y) /\ y.start = x.start /\ y.kind = x.kind /\ y.then_bb = x.then_bb
    BY <2>2, <2>6 DEF IsConstruct
  <2>8. Own(y) = Own(x)
    BY <2>7 DEF Own, Pending
  <2>9. /\ Waiting(t) = Waiting(os) /\ Constructs(t) /\ Distinct(t) /\ Starts(t, Len(i.bbs))
    <3>1. Constructs(os) /\ Distinct(os) /\ Starts(os, Len(i.bbs))
      BY DEF Nested
    <3>2. /\ Waiting(os) = Waiting(s) \cup Own(x)
          /\ Constructs(s) /\ Distinct(s) /\ Own(x) \cap Waiting(s) = {}
          /\ Starts(s, Len(i.bbs)) /\ x.start \in 0 .. Len(i.bbs)
      BY <2>5, <3>1, TopIs
    <3> QED BY <2>5, <2>7, <2>8, <3>2, TopIs
  <2>10. IsSeq(t)
    BY <2>5 DEF Top
  <2>11. Parsed(os) = t
    BY <1>2, <2>1, <2>2, <2>3 DEF Parsed
  <2> QED BY <2>9, <2>10, <2>11 DEF Nested
<1> QED BY <1>1, <1>2

LEMMA NestedPush ==
  ASSUME NEW i, NEW os, Nested(i, os), NEW x, IsConstruct(x), NEW j, Good(j), x.start \in 0 .. Len(i.bbs),
         Len(j.bbs) >= Len(i.bbs),
         \/ x.kind = "block" /\ Open(j) = Open(i) /\ j.current_bb = i.current_bb
         \/ /\ x.kind # "block" /\ Pending(x) = i.current_bb
            /\ j.current_bb \notin Open(i) /\ Open(j) = Open(i) \cup {j.current_bb}
  PROVE  Nested(j, <<x>> \o os)
<1>1. PICK t : t = <<x>> \o os
  OBVIOUS
<1>2. Top(t, x, os) /\ IsSeq(t)
  <2>1. Top(t, x, os)
    BY <1>1, TopPushed DEF Nested
  <2> QED BY <2>1 DEF Top
<1>3. /\ Constructs(os) /\ Distinct(os) /\ Starts(os, Len(i.bbs)) /\ i.current_bb \notin Waiting(os)
      /\ Open(i) = {i.current_bb} \cup Waiting(os)
  BY DEF Nested
<1>4. Starts(os, Len(j.bbs)) /\ x.start \in 0 .. Len(j.bbs)
  <2>1. Len(i.bbs) \in Nat /\ Len(j.bbs) \in Nat
    BY SeqShape DEF Nested, Good
  <2> QED BY <1>3, <2>1 DEF Starts
<1>5. Own(x) \cap Waiting(os) = {}
  BY <1>3 DEF Own
<1>6. Waiting(t) = Waiting(os) \cup Own(x) /\ Constructs(t) /\ Distinct(t) /\ Starts(t, Len(j.bbs))
  BY <1>2, <1>3, <1>4, <1>5, TopIs
<1>7. j.current_bb \notin Waiting(t) /\ Open(j) = {j.current_bb} \cup Waiting(t)
  BY <1>3, <1>6 DEF Own
<1>8. Nested(j, t)
  BY <1>2, <1>6, <1>7 DEF Nested
<1> QED BY <1>1, <1>8

LEMMA NestedHead ==
  ASSUME NEW i, NEW os, Nested(i, os), os # <<>>
  PROVE  /\ IsConstruct(os[1]) /\ os[1].start \in 0 .. Len(i.bbs)
         /\ Own(os[1]) \subseteq Open(i) /\ i.current_bb \notin Own(os[1])
         /\ os[1].kind # "block" =>
              Pending(os[1]) \in Open(i) /\ Pending(os[1]) # i.current_bb
<1>1. Top(os, os[1], Tail(os))
  BY TopPopped DEF Nested
<1>2. Constructs(os) /\ Starts(os, Len(i.bbs)) /\ i.current_bb \notin Waiting(os)
      /\ Open(i) = {i.current_bb} \cup Waiting(os)
  BY DEF Nested
<1>3. Waiting(os) = Waiting(Tail(os)) \cup Own(os[1]) /\ IsConstruct(os[1])
      /\ os[1].start \in 0 .. Len(i.bbs)
  BY <1>1, <1>2, TopIs
<1>4. os[1].kind # "block" => Own(os[1]) = {Pending(os[1])}
  BY DEF Own
<1> QED BY <1>2, <1>3, <1>4

LEMMA NestedPop ==
  ASSUME NEW i, NEW os, Nested(i, os), os # <<>>, NEW j, Good(j), Len(j.bbs) >= Len(i.bbs),
         \/ os[1].kind = "block" /\ Open(j) = Open(i) /\ j.current_bb = i.current_bb
         \/ /\ os[1].kind # "block" /\ j.current_bb \notin Open(i)
            /\ Open(j) = (Open(i) \ {i.current_bb, Pending(os[1])}) \cup {j.current_bb}
  PROVE  Nested(j, Tail(os))
<1>1. PICK s : s = Tail(os)
  OBVIOUS
<1>2. PICK x : x = os[1]
  OBVIOUS
<1>3. Top(os, x, s) /\ IsSeq(s)
  <2>1. Top(os, x, s)
    BY <1>1, <1>2, TopPopped DEF Nested
  <2> QED BY <2>1 DEF Top
<1>4. /\ Constructs(os) /\ Distinct(os) /\ Starts(os, Len(i.bbs)) /\ i.current_bb \notin Waiting(os)
      /\ Open(i) = {i.current_bb} \cup Waiting(os)
  BY DEF Nested
<1>5. /\ Waiting(os) = Waiting(s) \cup Own(x)
      /\ Constructs(s) /\ Distinct(s) /\ Own(x) \cap Waiting(s) = {} /\ Starts(s, Len(i.bbs))
  BY <1>3, <1>4, TopIs
<1>6. Starts(s, Len(j.bbs))
  <2>1. Len(i.bbs) \in Nat /\ Len(j.bbs) \in Nat
    BY SeqShape DEF Nested, Good
  <2> QED BY <1>5, <2>1 DEF Starts
<1>7. j.current_bb \notin Waiting(s) /\ Open(j) = {j.current_bb} \cup Waiting(s)
  <2>1. CASE x.kind = "block"
    <3>1. Own(x) = {}
      BY <2>1 DEF Own
    <3> QED BY <1>2, <1>4, <1>5, <2>1, <3>1
  <2>2. CASE x.kind # "block"
    <3>1. Own(x) = {Pending(x)}
      BY <2>2 DEF Own
    <3> QED BY <1>2, <1>4, <1>5, <2>2, <3>1
  <2> QED BY <2>1, <2>2
<1>8. Nested(j, s)
  BY <1>3, <1>5, <1>6, <1>7 DEF Nested
<1> QED BY <1>1, <1>8

LEMMA NestedSwap ==
  ASSUME NEW i, NEW os, Nested(i, os), os # <<>>, os[1].kind # "block", NEW j, Good(j),
         Len(j.bbs) >= Len(i.bbs), j.current_bb \notin Open(i),
         Open(j) = (Open(i) \ {Pending(os[1])}) \cup {j.current_bb},
         NEW y, IsConstruct(y), y.kind # "block", Pending(y) = i.current_bb, y.start \in 0 .. Len(i.bbs)
  PROVE  Nested(j, [os EXCEPT ![1] = y])
<1>1. PICK s : s = Tail(os)
  OBVIOUS
<1>2. PICK x : x = os[1]
  OBVIOUS
<1>3. PICK t : t = [os EXCEPT ![1] = y]
  OBVIOUS
<1>4. Top(os, x, s) /\ Top(t, y, s) /\ IsSeq(t)
  <2>1. Top(os, x, s) /\ Top(t, y, s)
    BY <1>1, <1>2, <1>3, TopPopped DEF Nested
  <2> QED BY <2>1 DEF Top
<1>5. /\ Constructs(os) /\ Distinct(os) /\ Starts(os, Len(i.bbs)) /\ i.current_bb \notin Waiting(os)
      /\ Open(i) = {i.current_bb} \cup Waiting(os)
  BY DEF Nested
<1>6. /\ Waiting(os) = Waiting(s) \cup Own(x)
      /\ Constructs(s) /\ Distinct(s) /\ Own(x) \cap Waiting(s) = {} /\ Starts(s, Len(i.bbs))
  BY <1>4, <1>5, TopIs
<1>7. Own(x) = {Pending(x)} /\ Own(y) = {i.current_bb}
  BY <1>2 DEF Own
<1>8. Starts(s, Len(j.bbs)) /\ y.start \in 0 .. Len(j.bbs)
  <2>1. Len(i.bbs) \in Nat /\ Len(j.bbs) \in Nat
    BY SeqShape DEF Nested, Good
  <2> QED BY <1>6, <2>1 DEF Starts
<1>9. Own(y) \cap Waiting(s) = {}
  BY <1>5, <1>6, <1>7
<1>10. Waiting(t) = Waiting(s) \cup Own(y) /\ Constructs(t) /\ Distinct(t) /\ Starts(t, Len(j.bbs))
  BY <1>4, <1>6, <1>8, <1>9, TopIs
<1>11. j.current_bb \notin Waiting(t) /\ Open(j) = {j.current_bb} \cup Waiting(t)
  BY <1>2, <1>5, <1>6, <1>7, <1>10
<1>12. Nested(j, t)
  BY <1>4, <1>10, <1>11 DEF Nested
<1> QED BY <1>3, <1>12

------------------------------------------------------------------------------
(* The steps of the parser.                                                  *)
EndsInv == Nested(ir, open) /\ (ended => open = <<>>)

LEMMA SimpleStep ==
  ASSUME EndsInv, NEW i, NEW ss, Reads(ir, i), Simple(i, ss)
  PROVE  EndsInv'
<1>1. ir' = i /\ open' = Parsed(open) /\ ended' = ended /\ ~ended
  BY DEF Simple, MayBegin
<1>2. Nested(i, open)
  BY NestedReads DEF EndsInv
<1>3. Nested(i, Parsed(open))
  BY <1>2, NestedParsed
<1>4. Nested(ir', open')
  BY <1>1, <1>3
<1> QED BY <1>1, <1>4 DEF EndsInv

LEMMA DefineStep ==
  ASSUME EndsInv, NEW n, NEW i, NEW e, Reads(ir, i), Define(n, i, e)
  PROVE  EndsInv'
<1>1. Good(ir) /\ ir.current_bb \in Open(ir)
  BY NestedIs DEF EndsInv
<1>2. PICK variable : variable = Len(Params) + statements + 1
  OBVIOUS
<1>3. PICK j : j = Is(i, scopes, variable, e, i.reg)
  OBVIOUS
<1>4. Good(i) /\ i.current_bb \in Open(i)
  BY DEF Reads
<1>5. Like(i, j)
  BY <1>3, <1>4, IsLike
<1>6. Reads(ir, j)
  <2>1. Reads(i, j)
    BY <1>4, <1>5, LikeReads
  <2> QED BY <1>1, <2>1, ReadsReads
<1>7. \E ss : Simple(j, ss)
  BY <1>2, <1>3 DEF Define
<1> QED BY <1>6, <1>7, SimpleStep

LEMMA LetStep ==
  ASSUME EndsInv, NEW n, NEW e \in Values, Let(n, e)
  PROVE  EndsInv'
<1>1. Good(ir) /\ ir.current_bb \in Open(ir)
  BY NestedIs DEF EndsInv
<1>2. PICK i : i = Valued(ir, scopes, e)
  OBVIOUS
<1>3. WellFormed(e)
  BY ExpressionsAssumption
<1>4. Reads(ir, i)
  BY <1>1, <1>2, <1>3, ValuedReads
<1>5. Define(n, i, e)
  BY <1>2 DEF Let
<1> QED BY <1>4, <1>5, DefineStep

LEMMA DeclareStep ==
  ASSUME EndsInv, NEW n, Declare(n)
  PROVE  EndsInv'
<1>1. Good(ir) /\ ir.current_bb \in Open(ir)
  BY NestedIs DEF EndsInv
<1>2. PICK i : i = Fresh(ir, ir.current_bb, Inst("UNDEFINED", 0, 0, 0))
  OBVIOUS
<1>3. Like(ir, i)
  BY <1>1, <1>2, FreshLike
<1>4. Reads(ir, i)
  BY <1>1, <1>3, LikeReads
<1>5. Define(n, i, Nothing)
  BY <1>2 DEF Declare
<1> QED BY <1>4, <1>5, DefineStep

LEMMA AssignStep ==
  ASSUME EndsInv, NEW n, NEW e \in Values, Assign(n, e)
  PROVE  EndsInv'
<1>1. Good(ir) /\ ir.current_bb \in Open(ir)
  BY NestedIs DEF EndsInv
<1>2. PICK found : found = Found(ir, scopes, n)
  OBVIOUS
<1>3. Reads(ir, found) /\ found.current_bb \in Open(found) /\ Good(found)
  BY <1>1, <1>2, FoundLike, LikeReads DEF Reads
<1>4. PICK ss : ss = Captured(scopes, found)
  OBVIOUS
<1>5. PICK i : i = Valued(found, ss, e)
  OBVIOUS
<1>6. WellFormed(e)
  BY ExpressionsAssumption
<1>7. Reads(found, i)
  BY <1>3, <1>5, <1>6, ValuedReads
<1>8. Reads(ir, i) /\ Good(i) /\ i.current_bb \in Open(i)
  <2>1. Reads(ir, i)
    BY <1>1, <1>3, <1>7, ReadsReads
  <2> QED BY <2>1 DEF Reads
<1>9. PICK variable : variable = Variables(ss)[n]
  OBVIOUS
<1>10. PICK j : j = Is(i, ss, variable, e, i.reg)
  OBVIOUS
<1>11. Reads(i, j)
  BY <1>8, <1>10, IsLike, LikeReads
<1>12. Reads(ir, j)
  BY <1>1, <1>8, <1>11, ReadsReads
<1>13. \E s2 : Simple(j, s2)
  BY <1>2, <1>4, <1>5, <1>9, <1>10 DEF Assign
<1> QED BY <1>12, <1>13, SimpleStep

LEMMA ReturnedStep ==
  ASSUME EndsInv, NEW i, Reads(ir, i), NEW e, Returned(i, e)
  PROVE  EndsInv'
<1>1. Good(ir) /\ ir.current_bb \in Open(ir)
  BY NestedIs DEF EndsInv
<1>2. Good(i) /\ i.current_bb \in Open(i)
  BY DEF Reads
<1>3. PICK claimed : claimed = Is(i, scopes, 0, e, i.reg)
  OBVIOUS
<1>4. Like(i, claimed) /\ Good(claimed) /\ i.current_bb \in Open(claimed)
  BY <1>2, <1>3, IsLike DEF Like
<1>5. PICK j : j = Emit(claimed, i.current_bb, Inst("RET", i.reg, 0, 0))
  OBVIOUS
<1>6. Like(i, j)
  BY <1>4, <1>5, EmitLike, LikeLike
<1>7. Reads(ir, j)
  <2>1. Reads(i, j)
    BY <1>2, <1>6, LikeReads
  <2> QED BY <1>1, <1>2, <2>1, ReadsReads
<1>8. \E ss : Simple(j, ss)
  BY <1>3, <1>5 DEF Returned
<1> QED BY <1>7, <1>8, SimpleStep

LEMMA ReturnStep ==
  ASSUME EndsInv, NEW e \in Results, Return(e)
  PROVE  EndsInv'
<1>1. Good(ir) /\ ir.current_bb \in Open(ir)
  BY NestedIs DEF EndsInv
<1>2. PICK i : i = Compile(ir, scopes, e)
  OBVIOUS
<1>3. WellFormed(e)
  BY ExpressionsAssumption
<1>4. Reads(ir, i)
  BY <1>1, <1>2, <1>3, CompileReads
<1>5. Returned(i, e)
  BY <1>2 DEF Return
<1> QED BY <1>4, <1>5, ReturnedStep

LEMMA ReturnNothingStep ==
  ASSUME EndsInv, ReturnNothing
  PROVE  EndsInv'
<1>1. Good(ir) /\ ir.current_bb \in Open(ir)
  BY NestedIs DEF EndsInv
<1>2. PICK i : i = Fresh(ir, ir.current_bb, Inst("UNDEFINED", 0, 0, 0))
  OBVIOUS
<1>3. Like(ir, i)
  BY <1>1, <1>2, FreshLike
<1>4. Reads(ir, i)
  BY <1>1, <1>3, LikeReads
<1>5. Returned(i, Nothing)
  BY <1>2 DEF ReturnNothing
<1> QED BY <1>4, <1>5, ReturnedStep

LEMMA ConstructIs ==
  ASSUME NEW kind, NEW start, NEW reg, NEW expr
  PROVE  LET x == Construct(kind, start, reg, expr) IN
         /\ DOMAIN x = {"kind", "parsed", "start", "reg", "expr", "cond_start", "body_start", "then_bb", "newer"}
         /\ x.kind = kind /\ x.start = start
BY DEF Construct

LEMMA OpenBlockStep ==
  ASSUME EndsInv, OpenBlock
  PROVE  EndsInv'
<1>1. Nested(ir, open) /\ Good(ir) /\ Len(ir.bbs) \in Nat
  BY NestedIs DEF EndsInv
<1>2. PICK x : x = Construct("block", 0, 0, Num(0))
  OBVIOUS
<1>3. IsConstruct(x) /\ x.kind = "block" /\ x.start = 0
  BY <1>2, ConstructIs DEF IsConstruct
<1>4. PICK j : j = [ir EXCEPT !.current_bb = ir.current_bb]
  OBVIOUS
<1>5. Good(j) /\ Len(j.bbs) = Len(ir.bbs) /\ Open(j) = Open(ir) /\ j.current_bb = ir.current_bb
  BY <1>1, <1>4, CurrentIs
<1>6. x.start \in 0 .. Len(ir.bbs) /\ Len(j.bbs) >= Len(ir.bbs)
  BY <1>1, <1>3, <1>5
<1>7. Nested(j, <<x>> \o open)
  BY <1>1, <1>3, <1>5, <1>6, NestedPush
<1>8. ir' = j /\ open' = <<x>> \o open /\ ended' = ended /\ ~ended
  BY <1>2, <1>4 DEF OpenBlock, Begin, MayBegin
<1>9. Nested(ir', open')
  BY <1>7, <1>8
<1> QED BY <1>8, <1>9 DEF EndsInv

LEMMA CloseBlockStep ==
  ASSUME EndsInv, CloseBlock
  PROVE  EndsInv'
<1>1. Nested(ir, open) /\ Good(ir) /\ Len(ir.bbs) \in Nat
  BY NestedIs DEF EndsInv
<1>2. open # <<>> /\ open[1].kind = "block" /\ ~ended
  BY DEF CloseBlock, Ending
<1>3. PICK j : j = [ir EXCEPT !.current_bb = ir.current_bb]
  OBVIOUS
<1>4. Good(j) /\ Len(j.bbs) = Len(ir.bbs) /\ Open(j) = Open(ir) /\ j.current_bb = ir.current_bb
  BY <1>1, <1>3, CurrentIs
<1>5. Len(j.bbs) >= Len(ir.bbs)
  BY <1>1, <1>4
<1>6. Nested(j, Tail(open))
  BY <1>1, <1>2, <1>4, <1>5, NestedPop
<1>7. Nested(j, Parsed(Tail(open)))
  BY <1>6, NestedParsed
<1>8. ir' = j /\ open' = Parsed(Tail(open)) /\ ended' = ended
  BY <1>3 DEF CloseBlock, Finish
<1>9. Nested(ir', open')
  BY <1>7, <1>8
<1> QED BY <1>2, <1>8, <1>9 DEF EndsInv

(* The block of a branch or a loop's body, which becomes the current one.    *)
Body(i, ss, e) ==
  LET j == Extended(i, i.current_bb)
  IN  [When(j, ss, Newest(j), e, TRUE) EXCEPT !.current_bb = Newest(j)]

LEMMA BodyIs ==
  ASSUME NEW i, NEW os, Nested(i, os), NEW ss, NEW e,
         NEW x, IsConstruct(x), x.kind \in {"then", "while"}, x.start = i.current_bb
  PROVE  Nested(Body(i, ss, e), <<x>> \o os)
<1> DEFINE k == Body(i, ss, e)
<1>0. PICK j : j = Extended(i, i.current_bb)
  OBVIOUS
<1>1. Good(i) /\ Len(i.bbs) \in Nat /\ i.current_bb \in Open(i) /\ Open(i) \subseteq 1 .. Len(i.bbs)
  BY NestedIs
<1>2. PICK N : N = Len(i.bbs)
  OBVIOUS
<1>3. Good(j) /\ Len(j.bbs) = N + 1 /\ Newest(j) = N + 1 /\ Open(j) = Open(i) \cup {N + 1}
  <2>1. i.current_bb \in 0 .. Len(i.bbs)
    BY <1>1
  <2> QED BY <1>0, <1>1, <1>2, <2>1, ExtendedIs
<1>4. PICK w : w = When(j, ss, N + 1, e, TRUE)
  OBVIOUS
<1>5. Good(w) /\ Len(w.bbs) = N + 1 /\ Open(w) = Open(i) \cup {N + 1}
  <2>1. Like(j, w)
    BY <1>3, <1>4, WhenLike
  <2> QED BY <1>3, <2>1 DEF Like
<1>6. k = [w EXCEPT !.current_bb = N + 1]
  BY <1>0, <1>3, <1>4 DEF Body
<1> HIDE DEF k
<1>7. Good(k) /\ Len(k.bbs) = N + 1 /\ Open(k) = Open(i) \cup {N + 1} /\ k.current_bb = N + 1
  BY <1>5, <1>6, CurrentIs
<1>8. /\ x.start \in 0 .. Len(i.bbs) /\ Len(k.bbs) >= Len(i.bbs) /\ k.current_bb \notin Open(i)
      /\ x.kind # "block" /\ Pending(x) = i.current_bb /\ Open(k) = Open(i) \cup {k.current_bb}
  BY <1>1, <1>2, <1>7 DEF Pending
<1>9. Nested(k, <<x>> \o os)
  BY <1>7, <1>8, NestedPush
<1> QED BY <1>9 DEF k

LEMMA IfStep ==
  ASSUME EndsInv, NEW e \in Conds, If(e)
  PROVE  EndsInv'
<1>1. Nested(ir, open) /\ Good(ir) /\ ir.current_bb \in Open(ir)
  BY NestedIs DEF EndsInv
<1>2. PICK i : i = Compile(ir, scopes, e)
  OBVIOUS
<1>3. WellFormed(e)
  BY ExpressionsAssumption
<1>4. Reads(ir, i)
  BY <1>1, <1>2, <1>3, CompileReads
<1>5. Nested(i, open)
  BY <1>1, <1>4, NestedReads
<1>6. PICK j : j = Extended(i, i.current_bb)
  OBVIOUS
<1>7. PICK k : k = [When(j, scopes, Newest(j), e, TRUE) EXCEPT !.current_bb = Newest(j)]
  OBVIOUS
<1>8. PICK x : x = [Construct("then", i.current_bb, i.reg, e) EXCEPT !.body_start = Newest(j)]
  OBVIOUS
<1>9. IsConstruct(x) /\ x.kind \in {"then", "while"} /\ x.start = i.current_bb
  BY <1>8 DEF IsConstruct, Construct
<1>10. Nested(k, <<x>> \o open)
  <2>1. k = Body(i, scopes, e)
    BY <1>6, <1>7 DEF Body
  <2> QED BY <1>5, <1>9, <2>1, BodyIs
<1>11. ir' = k /\ open' = <<x>> \o open /\ ended' = ended /\ ~ended
  BY <1>2, <1>6, <1>7, <1>8 DEF If, Begin, MayBegin
<1>12. Nested(ir', open')
  BY <1>10, <1>11
<1> QED BY <1>11, <1>12 DEF EndsInv

LEMMA WhileStep ==
  ASSUME EndsInv, NEW e \in Conds, While(e)
  PROVE  EndsInv'
<1>1. Nested(ir, open) /\ Good(ir) /\ ir.current_bb \in Open(ir) /\ Len(ir.bbs) \in Nat
      /\ Open(ir) \subseteq 1 .. Len(ir.bbs)
  BY NestedIs DEF EndsInv
<1>2. PICK start : start = CondStart(ir)
  OBVIOUS
<1>3. PICK c : c = Len(ir.bbs) + 1
  OBVIOUS
<1>4. Good(start) /\ Len(start.bbs) = c /\ Newest(start) = c /\ Open(start) = Open(ir) \cup {c}
      /\ start.current_bb = ir.current_bb
  <2>1. 0 \in 0 .. Len(ir.bbs) /\ start = Extended(ir, 0)
    BY <1>1, <1>2 DEF CondStart, None
  <2> QED BY <1>1, <1>3, <2>1, ExtendedIs
<1>5. PICK b : b = J(start, ir.current_bb, c)
  OBVIOUS
<1>6. Good(b) /\ Len(b.bbs) = c /\ Open(b) = Open(start) \ {ir.current_bb}
  <2>1. ir.current_bb \in Open(start) /\ c # None
    BY <1>1, <1>3, <1>4 DEF None
  <2>2. Less(start, b, ir.current_bb)
    BY <1>4, <1>5, <2>1, JLess
  <2> QED BY <1>4, <2>2 DEF Less
<1>7. PICK d : d = [b EXCEPT !.current_bb = c]
  OBVIOUS
<1>8. Good(d) /\ Len(d.bbs) = c /\ Open(d) = Open(start) \ {ir.current_bb} /\ d.current_bb = c
  BY <1>6, <1>7, CurrentIs
<1>9. Reads(ir, d) /\ d.current_bb \in Open(d)
  BY <1>1, <1>3, <1>4, <1>8 DEF Reads
<1>10. PICK i : i = Compile(d, scopes, e)
  OBVIOUS
<1>11. WellFormed(e)
  BY ExpressionsAssumption
<1>12. Reads(d, i)
  BY <1>8, <1>9, <1>10, <1>11, CompileReads
<1>13. Nested(i, open)
  <2>1. Reads(ir, i)
    BY <1>1, <1>9, <1>12, ReadsReads
  <2> QED BY <1>1, <2>1, NestedReads
<1>14. PICK j : j = Extended(i, i.current_bb)
  OBVIOUS
<1>15. PICK k : k = [When(j, scopes, Newest(j), e, TRUE) EXCEPT !.current_bb = Newest(j)]
  OBVIOUS
<1>16. PICK x : x = [Construct("while", i.current_bb, i.reg, e)
                       EXCEPT !.cond_start = c, !.body_start = Newest(j)]
  OBVIOUS
<1>17. IsConstruct(x) /\ x.kind \in {"then", "while"} /\ x.start = i.current_bb
  BY <1>1, <1>3, <1>16 DEF IsConstruct, Construct, None
<1>18. Nested(k, <<x>> \o open)
  <2>1. k = Body(i, scopes, e)
    BY <1>14, <1>15 DEF Body
  <2> QED BY <1>13, <1>17, <2>1, BodyIs
<1>19. ir' = k /\ open' = <<x>> \o open /\ ended' = ended /\ ~ended
  BY <1>2, <1>4, <1>5, <1>7, <1>10, <1>14, <1>15, <1>16 DEF While, Begin, MayBegin
<1>20. Nested(ir', open')
  BY <1>18, <1>19
<1> QED BY <1>19, <1>20 DEF EndsInv

(* Where the then branch ends, the block before it ends.                     *)
LEMMA ElseStartIs ==
  ASSUME Nested(ir, open), open # <<>>, open[1].kind = "then"
  PROVE  /\ Good(ElseStart) /\ Len(ElseStart.bbs) = Len(ir.bbs) + 1 /\ Newest(ElseStart) = Len(ir.bbs) + 1
         /\ ElseStart.current_bb = ir.current_bb
         /\ Open(ElseStart) = (Open(ir) \cup {Len(ir.bbs) + 1}) \ {open[1].start}
<1>1. Good(ir) /\ Len(ir.bbs) \in Nat /\ Open(ir) \subseteq 1 .. Len(ir.bbs)
  BY NestedIs
<1>2. PICK N : N = Len(ir.bbs)
  OBVIOUS
<1>3. PICK start : start = open[1].start
  OBVIOUS
<1>4. start \in Open(ir) /\ start \in 0 .. N
  <2>1. Pending(open[1]) = start
    BY <1>3 DEF Pending
  <2> QED BY <1>2, <1>3, <2>1, NestedHead
<1>5. PICK i : i = Extended(ir, start)
  OBVIOUS
<1>6. Good(i) /\ Len(i.bbs) = N + 1 /\ Newest(i) = N + 1 /\ Open(i) = Open(ir) \cup {N + 1}
      /\ i.current_bb = ir.current_bb
  BY <1>1, <1>2, <1>4, <1>5, ExtendedIs
<1>7. PICK b : b = Br(i, start, open[1].reg, open[1].body_start, N + 1)
  OBVIOUS
<1>8. Good(b) /\ Len(b.bbs) = N + 1 /\ Open(b) = (Open(ir) \cup {N + 1}) \ {start}
      /\ b.current_bb = ir.current_bb
  <2>1. start \in Open(i) /\ N + 1 # None
    BY <1>1, <1>2, <1>4, <1>6 DEF None
  <2>2. Less(i, b, start)
    BY <1>6, <1>7, <2>1, BrLess
  <2> QED BY <1>6, <2>2 DEF Less
<1>9. PICK w : w = When(b, Tail(scopes), N + 1, open[1].expr, FALSE)
  OBVIOUS
<1>10. Like(b, w)
  BY <1>8, <1>9, WhenLike
<1>11. ElseStart = w
  BY <1>3, <1>5, <1>6, <1>7, <1>9 DEF ElseStart
<1> QED BY <1>2, <1>3, <1>8, <1>10, <1>11 DEF Like, Newest

(* Both branches end, and the block after them is the current one.           *)
LEMMA EndIfStep ==
  ASSUME EndsInv, open # <<>>, open[1].kind # "block", ~ended,
         NEW i, Good(i), Len(ir.bbs) <= Len(i.bbs), NEW then_bb \in Open(i), NEW else_bb \in Open(i), then_bb # else_bb,
         Open(i) \ {then_bb, else_bb} = Open(ir) \ {ir.current_bb, Pending(open[1])},
         NEW ss, EndIf(i, then_bb, else_bb, ss)
  PROVE  EndsInv'
<1>1. Nested(ir, open) /\ Good(ir) /\ Len(ir.bbs) \in Nat /\ Open(ir) \subseteq 1 .. Len(ir.bbs)
  BY NestedIs DEF EndsInv
<1>2. Len(i.bbs) \in Nat /\ Open(i) \subseteq 1 .. Len(i.bbs)
  BY SeqShape DEF Good, Open
<1>3. PICK N : N = Len(i.bbs)
  OBVIOUS
<1>4. PICK if_end : if_end = Extended(i, open[1].start)
  OBVIOUS
<1>5. Good(if_end) /\ Len(if_end.bbs) = N + 1 /\ Newest(if_end) = N + 1 /\ Open(if_end) = Open(i) \cup {N + 1}
  <2>1. open[1].start \in 0 .. Len(ir.bbs)
    BY <1>1, NestedHead
  <2>2. open[1].start \in 0 .. Len(i.bbs)
    BY <1>1, <1>2, <2>1
  <2> QED BY <1>3, <1>4, <2>2, ExtendedIs
<1>6. PICK a : a = J(if_end, then_bb, N + 1)
  OBVIOUS
<1>7. Good(a) /\ Len(a.bbs) = N + 1 /\ Open(a) = (Open(i) \cup {N + 1}) \ {then_bb}
  <2>1. then_bb \in Open(if_end) /\ N + 1 # None
    BY <1>2, <1>3, <1>5 DEF None
  <2> QED BY <1>5, <1>6, <2>1, JLess DEF Less
<1>8. PICK b : b = J(a, else_bb, N + 1)
  OBVIOUS
<1>9. Good(b) /\ Len(b.bbs) = N + 1 /\ Open(b) = (Open(i) \cup {N + 1}) \ {then_bb, else_bb}
  <2>1. else_bb \in Open(a) /\ N + 1 # None
    BY <1>2, <1>3, <1>7 DEF None
  <2> QED BY <1>7, <1>8, <2>1, JLess DEF Less
<1>10. PICK j : j = [b EXCEPT !.current_bb = N + 1]
  OBVIOUS
<1>11. Good(j) /\ Len(j.bbs) = N + 1 /\ Open(j) = (Open(i) \cup {N + 1}) \ {then_bb, else_bb}
       /\ j.current_bb = N + 1
  BY <1>9, <1>10, CurrentIs
<1>12. N + 1 \notin Open(i) /\ N + 1 \notin Open(ir) /\ Len(j.bbs) >= Len(ir.bbs)
  BY <1>1, <1>2, <1>3, <1>11
<1>13. Open(j) = (Open(ir) \ {ir.current_bb, Pending(open[1])}) \cup {j.current_bb}
  BY <1>11, <1>12
<1>14. j.current_bb \notin Open(ir)
  BY <1>11, <1>12
<1>15. Nested(j, Tail(open))
  BY <1>1, <1>11, <1>12, <1>13, <1>14, NestedPop
<1>16. Nested(j, Parsed(Tail(open)))
  BY <1>15, NestedParsed
<1>17. ir' = j /\ open' = Parsed(Tail(open)) /\ ended' = ended
  BY <1>4, <1>5, <1>6, <1>8, <1>10 DEF EndIf, Finish
<1>18. Nested(ir', open')
  BY <1>16, <1>17
<1> QED BY <1>17, <1>18 DEF EndsInv

LEMMA EndThenStep ==
  ASSUME EndsInv, NEW order \in Orders, EndThen(order)
  PROVE  EndsInv'
<1>1. open # <<>> /\ open[1].kind = "then" /\ ~ended
  BY DEF EndThen, Ending
<1>2. Nested(ir, open) /\ Good(ir) /\ Len(ir.bbs) \in Nat /\ Open(ir) \subseteq 1 .. Len(ir.bbs)
      /\ ir.current_bb \in Open(ir)
  BY NestedIs DEF EndsInv
<1>3. PICK E : E = ElseStart
  OBVIOUS
<1>4. PICK N : N = Len(ir.bbs)
  OBVIOUS
<1>5. /\ Good(E) /\ Len(E.bbs) = N + 1 /\ Newest(E) = N + 1
      /\ Open(E) = (Open(ir) \cup {N + 1}) \ {open[1].start}
  BY <1>1, <1>2, <1>3, <1>4, ElseStartIs
<1>6. Pending(open[1]) = open[1].start /\ open[1].start \in Open(ir) /\ open[1].start # ir.current_bb
  <2>1. Pending(open[1]) = open[1].start
    BY <1>1 DEF Pending
  <2> QED BY <1>1, <1>2, <2>1, NestedHead
<1>7. Len(order) \in Nat
  BY OrdersAre
<1>8. PICK newer : newer = Head(scopes).upper_table
  OBVIOUS
<1>9. PICK original : original = Registers(Tail(scopes), DOMAIN newer)
  OBVIOUS
<1>10. PICK changed : changed = {n \in DOMAIN newer : newer[n] # original[n]}
  OBVIOUS
<1>11. PICK moved : moved = Moves(E, order, changed, N + 1, newer, original)
  OBVIOUS
<1>12. Like(E, moved) /\ Good(moved)
  <2>1. N + 1 \in Open(E)
    BY <1>2, <1>4, <1>5, <1>6
  <2> QED BY <1>5, <1>7, <1>11, <2>1, MovesLike DEF Like
<1>13. PICK d : d = Doubt(moved, AnyStale(Tail(scopes), DOMAIN newer))
  OBVIOUS
<1>14. Like(E, d)
  BY <1>12, <1>13, DoubtLike, LikeLike
<1>15. Good(d) /\ Len(d.bbs) = N + 1 /\ Open(d) = (Open(ir) \cup {N + 1}) \ {open[1].start}
  BY <1>5, <1>14 DEF Like
<1>16. EndIf(d, ir.current_bb, N + 1, Join(scopes))
  BY <1>3, <1>5, <1>8, <1>9, <1>10, <1>11, <1>13 DEF EndThen
<1>17. /\ ir.current_bb \in Open(d) /\ N + 1 \in Open(d) /\ ir.current_bb # N + 1
       /\ Open(d) \ {ir.current_bb, N + 1} = Open(ir) \ {ir.current_bb, Pending(open[1])}
  BY <1>2, <1>4, <1>6, <1>15
<1>18. Len(ir.bbs) <= Len(d.bbs) /\ open[1].kind # "block"
  BY <1>1, <1>2, <1>4, <1>15
<1> QED BY <1>1, <1>15, <1>16, <1>17, <1>18, EndIfStep

LEMMA ElseStep ==
  ASSUME EndsInv, Else
  PROVE  EndsInv'
<1>1. open # <<>> /\ open[1].kind = "then" /\ ~ended
  BY DEF Else, Ending
<1>2. Nested(ir, open) /\ Good(ir) /\ Len(ir.bbs) \in Nat /\ Open(ir) \subseteq 1 .. Len(ir.bbs)
      /\ ir.current_bb \in Open(ir)
  BY NestedIs DEF EndsInv
<1>3. PICK E : E = ElseStart
  OBVIOUS
<1>4. PICK N : N = Len(ir.bbs)
  OBVIOUS
<1>5. /\ Good(E) /\ Len(E.bbs) = N + 1 /\ Newest(E) = N + 1
      /\ Open(E) = (Open(ir) \cup {N + 1}) \ {open[1].start}
  BY <1>1, <1>2, <1>3, <1>4, ElseStartIs
<1>6. Pending(open[1]) = open[1].start /\ open[1].start \in Open(ir) /\ open[1].start \in 0 .. N
  <2>1. Pending(open[1]) = open[1].start
    BY <1>1 DEF Pending
  <2> QED BY <1>1, <1>2, <1>4, <2>1, NestedHead
<1>7. PICK j : j = [E EXCEPT !.current_bb = N + 1]
  OBVIOUS
<1>8. Good(j) /\ Len(j.bbs) = N + 1 /\ Open(j) = (Open(ir) \cup {N + 1}) \ {open[1].start} /\ j.current_bb = N + 1
  BY <1>5, <1>7, CurrentIs
<1>9. PICK newer : newer = Head(scopes).upper_table
  OBVIOUS
<1>10. PICK y : y = [Construct("else", open[1].start, open[1].reg, open[1].expr)
                       EXCEPT !.newer = newer, !.then_bb = ir.current_bb]
  OBVIOUS
<1>11. IsConstruct(y) /\ y.kind = "else" /\ y.start = open[1].start /\ y.then_bb = ir.current_bb
  BY <1>10 DEF IsConstruct, Construct
<1>12. Pending(y) = ir.current_bb /\ y.kind # "block" /\ open[1].kind # "block"
  BY <1>1, <1>11 DEF Pending
<1>13. /\ Len(j.bbs) >= Len(ir.bbs) /\ j.current_bb \notin Open(ir) /\ y.start \in 0 .. Len(ir.bbs)
       /\ Open(j) = (Open(ir) \ {Pending(open[1])}) \cup {j.current_bb}
  BY <1>2, <1>4, <1>6, <1>8, <1>11
<1>14. Nested(j, [open EXCEPT ![1] = y])
  BY <1>1, <1>2, <1>8, <1>11, <1>12, <1>13, NestedSwap
<1>15. ir' = j /\ ended' = ended
  BY <1>3, <1>5, <1>7 DEF Else
<1>16. open' = [open EXCEPT ![1] = y]
  <2>1. open' = [open EXCEPT ![1] = [Construct("else", @.start, @.reg, @.expr)
                                       EXCEPT !.newer = newer, !.then_bb = ir.current_bb]]
    BY <1>9 DEF Else
  <2> QED BY <1>10, <2>1
<1>17. Nested(ir', open')
  BY <1>14, <1>15, <1>16
<1> QED BY <1>1, <1>15, <1>17 DEF EndsInv

LEMMA EndElseStep ==
  ASSUME EndsInv, NEW order \in Orders, NEW later \in Orders, EndElse(order, later)
  PROVE  EndsInv'
<1>1. open # <<>> /\ open[1].kind = "else" /\ ~ended
  BY DEF EndElse, Ending
<1>2. Nested(ir, open) /\ Good(ir) /\ Len(ir.bbs) \in Nat /\ ir.current_bb \in Open(ir)
  BY NestedIs DEF EndsInv
<1>3. PICK bb : bb = open[1].then_bb
  OBVIOUS
<1>4. Pending(open[1]) = bb /\ bb \in Open(ir) /\ bb # ir.current_bb
  <2>1. Pending(open[1]) = bb
    BY <1>1, <1>3 DEF Pending
  <2> QED BY <1>1, <1>2, <2>1, NestedHead
<1>5. Len(order) \in Nat /\ Len(later) \in Nat
  BY OrdersAre
<1>6. PICK newer, upper, base : newer = open[1].newer /\ upper = Head(scopes).upper_table /\ base = Tail(scopes)
  OBVIOUS
<1>7. PICK only, both, left : /\ only = DOMAIN upper \ DOMAIN newer /\ both = DOMAIN upper \cap DOMAIN newer
                              /\ left = DOMAIN newer \ DOMAIN upper
  OBVIOUS
<1>8. PICK old : old = Registers(base, only)
  OBVIOUS
<1>9. PICK merged : merged = [base EXCEPT ![1].upper_table = Over([n \in only |-> upper[n]], @)]
  OBVIOUS
<1>10. PICK cond : cond = (\/ left \cap Head(scopes).stale # {}
                          \/ {n \in only \cap DOMAIN base[1].symbol_table : upper[n] # old[n]} # {}
                          \/ AnyStale(base, only))
  OBVIOUS
<1>11. PICK a : a = Moves(ir, order, only, bb, upper, old)
  OBVIOUS
<1>12. PICK b : b = Moves(a, order, both, ir.current_bb, newer, upper)
  OBVIOUS
<1>13. PICK c : c = Moves(b, later, left, ir.current_bb, newer, Registers(merged, left))
  OBVIOUS
<1>14. PICK d : d = Doubt(c, cond)
  OBVIOUS
<1>15. Like(ir, a)
  BY <1>2, <1>4, <1>5, <1>11, MovesLike
<1>16. Like(ir, b)
  <2>1. Good(a) /\ ir.current_bb \in Open(a)
    BY <1>2, <1>15 DEF Like
  <2> QED BY <1>5, <1>12, <1>15, <2>1, MovesLike, LikeLike
<1>17. Like(ir, c)
  <2>1. Good(b) /\ ir.current_bb \in Open(b)
    BY <1>2, <1>16 DEF Like
  <2> QED BY <1>5, <1>13, <1>16, <2>1, MovesLike, LikeLike
<1>18. Like(ir, d)
  <2>1. Good(c)
    BY <1>17 DEF Like
  <2> QED BY <1>14, <1>17, <2>1, DoubtLike, LikeLike
<1>19. Good(d) /\ Open(d) = Open(ir) /\ Len(ir.bbs) <= Len(d.bbs) /\ ir.current_bb \in Open(d) /\ bb \in Open(d)
  BY <1>2, <1>4, <1>18 DEF Like
<1>20. EndIf(d, bb, ir.current_bb, merged)
  BY <1>3, <1>6, <1>7, <1>8, <1>9, <1>10, <1>11, <1>12, <1>13, <1>14, ZenonT(30)
     DEF EndElse
<1>21. Open(d) \ {bb, ir.current_bb} = Open(ir) \ {ir.current_bb, Pending(open[1])} /\ open[1].kind # "block"
  BY <1>1, <1>4, <1>19
<1> QED BY <1>1, <1>4, <1>19, <1>20, <1>21, EndIfStep

LEMMA EndWhileStep ==
  ASSUME EndsInv, NEW order \in Orders, NEW later \in Orders, EndWhile(order, later)
  PROVE  EndsInv'
<1>1. open # <<>> /\ open[1].kind = "while" /\ ~ended
  BY DEF EndWhile, Ending
<1>2. Nested(ir, open) /\ Good(ir) /\ Len(ir.bbs) \in Nat /\ Open(ir) \subseteq 1 .. Len(ir.bbs)
      /\ ir.current_bb \in Open(ir)
  BY NestedIs DEF EndsInv
<1>3. PICK body_end : body_end = ir.current_bb
  OBVIOUS
<1>4. PICK start : start = open[1].start
  OBVIOUS
<1>5. PICK cond_start : cond_start = open[1].cond_start
  OBVIOUS
<1>6. PICK N : N = Len(ir.bbs)
  OBVIOUS
<1>7. /\ Pending(open[1]) = start /\ start \in Open(ir) /\ start # body_end /\ start \in 0 .. N
      /\ cond_start # None
  <2>1. Pending(open[1]) = start
    BY <1>1, <1>4 DEF Pending
  <2>2. IsConstruct(open[1])
    BY <1>1, <1>2, NestedHead
  <2>3. cond_start # None
    BY <1>1, <1>5, <2>2 DEF IsConstruct
  <2> QED BY <1>1, <1>2, <1>3, <1>4, <1>6, <2>1, <2>3, NestedHead
<1>8. Len(order) \in Nat /\ Len(later) \in Nat
  BY OrdersAre
<1>9. PICK end : end = Extended(ir, start)
  OBVIOUS
<1>10. Good(end) /\ Len(end.bbs) = N + 1 /\ Newest(end) = N + 1 /\ Open(end) = Open(ir) \cup {N + 1}
  BY <1>2, <1>6, <1>7, <1>9, ExtendedIs
<1>11. PICK upper : upper = Head(scopes).upper_table
  OBVIOUS
<1>12. PICK old : old = Registers(Tail(scopes), DOMAIN upper)
  OBVIOUS
<1>13. PICK joined : joined = Join(scopes)
  OBVIOUS
<1>14. PICK claim, reg : claim = open[1].expr /\ reg = open[1].reg
  OBVIOUS
<1>15. PICK cond : cond = ((\E k \in 2 .. Len(open), n \in DOMAIN upper :
                              /\ open[k].kind \in {"then", "else"}
                              /\ Holder(ir, open[k].start, "numeric_value", old[n]) # None)
                           \/ AnyStale(Tail(scopes), DOMAIN upper))
  OBVIOUS
<1>16. PICK a : a = Moves(end, order, DOMAIN upper, body_end, old, upper)
  OBVIOUS
<1>17. PICK b : b = When(a, Tail(scopes), N + 1, claim, FALSE)
  OBVIOUS
<1>18. PICK c : c = Moves(b, later, DOMAIN upper, N + 1, Registers(joined, DOMAIN upper), old)
  OBVIOUS
<1>19. PICK d : d = Br(c, start, reg, open[1].body_start, N + 1)
  OBVIOUS
<1>20. PICK f : f = J(d, body_end, cond_start)
  OBVIOUS
<1>21. PICK g : g = Doubt(f, cond)
  OBVIOUS
<1>22. PICK j : j = [g EXCEPT !.current_bb = N + 1]
  OBVIOUS
<1>23. Like(end, a) /\ Good(a)
  <2>1. body_end \in Open(end)
    BY <1>2, <1>3, <1>10
  <2>2. Like(end, a)
    BY <1>8, <1>10, <1>16, <2>1, MovesLike
  <2> QED BY <2>2 DEF Like
<1>24. Like(end, b) /\ Good(b)
  <2>1. Like(end, b)
    BY <1>17, <1>23, WhenLike, LikeLike
  <2> QED BY <2>1 DEF Like
<1>25. Like(end, c)
  <2>1. N + 1 \in Open(b)
    BY <1>10, <1>24 DEF Like
  <2> QED BY <1>8, <1>18, <1>24, <2>1, MovesLike, LikeLike
<1>26. Good(c) /\ Len(c.bbs) = N + 1 /\ Open(c) = Open(ir) \cup {N + 1}
  BY <1>10, <1>25 DEF Like
<1>27. Good(d) /\ Len(d.bbs) = N + 1 /\ Open(d) = (Open(ir) \cup {N + 1}) \ {start}
  <2>1. start \in Open(c) /\ N + 1 # None
    BY <1>2, <1>6, <1>7, <1>26 DEF None
  <2>2. Less(c, d, start)
    BY <1>19, <1>26, <2>1, BrLess
  <2> QED BY <1>26, <2>2 DEF Less
<1>28. Good(f) /\ Len(f.bbs) = N + 1 /\ Open(f) = (Open(ir) \cup {N + 1}) \ {start, body_end}
  <2>1. body_end \in Open(d)
    BY <1>2, <1>3, <1>7, <1>27
  <2>2. Less(d, f, body_end)
    BY <1>7, <1>20, <1>27, <2>1, JLess
  <2> QED BY <1>27, <2>2 DEF Less
<1>29. Good(g) /\ Len(g.bbs) = N + 1 /\ Open(g) = (Open(ir) \cup {N + 1}) \ {start, body_end}
  <2>1. Like(f, g)
    BY <1>21, <1>28, DoubtLike
  <2> QED BY <1>28, <2>1 DEF Like
<1>30. Good(j) /\ Len(j.bbs) = N + 1 /\ Open(j) = (Open(ir) \cup {N + 1}) \ {start, body_end}
       /\ j.current_bb = N + 1
  BY <1>22, <1>29, CurrentIs
<1>31. /\ Len(j.bbs) >= Len(ir.bbs) /\ open[1].kind # "block" /\ j.current_bb \notin Open(ir)
       /\ Open(j) = (Open(ir) \ {ir.current_bb, Pending(open[1])}) \cup {j.current_bb}
  <2>1. N \in Nat /\ N + 1 \notin Open(ir)
    BY <1>2, <1>6
  <2>2. N + 1 # start /\ N + 1 # body_end
    BY <1>2, <1>3, <1>7, <2>1
  <2> QED BY <1>1, <1>3, <1>6, <1>7, <1>30, <2>1, <2>2
<1>32. Nested(j, Tail(open))
  BY <1>1, <1>2, <1>30, <1>31, NestedPop
<1>33. Nested(j, Parsed(Tail(open)))
  BY <1>32, NestedParsed
<1>34. Finish(g, N + 1, joined)
  BY <1>3, <1>4, <1>5, <1>9, <1>10, <1>11, <1>12, <1>13, <1>14, <1>15, <1>16, <1>17, <1>18,
     <1>19, <1>20, <1>21
     DEF EndWhile
<1>35. ir' = j /\ open' = Parsed(Tail(open)) /\ ended' = ended
  BY <1>22, <1>34 DEF Finish
<1>36. Nested(ir', open')
  BY <1>33, <1>35
<1> QED BY <1>1, <1>35, <1>36 DEF EndsInv

(* Names are claimed one after the other.                                    *)
ClaimAllBy(c, i, ss, readable, order) ==
  /\ c[0] = i
  /\ \A k \in 1 .. Len(order) : c[k] = IF order[k] \in readable
                      THEN Is(c[k - 1], ss, Variables(ss)[order[k]], Var(order[k]), Lookup(ss, order[k]))
                      ELSE c[k - 1]
  /\ ClaimAll(i, ss) = c[Len(order)]
LEMMA ClaimAllIs ==
  ASSUME NEW i, NEW ss, NEW readable, readable = {n \in DOMAIN Variables(ss) : Exists(ss, n)},
         NEW order, order = CHOOSE o \in Orders : TRUE, Len(order) \in Nat
  PROVE  \E c : ClaimAllBy(c, i, ss, readable, order)
<1> DEFINE N == Len(order)
           G(f, k) == IF k = 0 THEN i
                      ELSE IF order[k] \in readable
                      THEN Is(f[k - 1], ss, Variables(ss)[order[k]], Var(order[k]), Lookup(ss, order[k]))
                      ELSE f[k - 1]
           Rec(f, n) == f = [k \in 0 .. n |-> G(f, k)]
           S == {n \in Nat : \E f : Rec(f, n)}
<1>0. N \in Nat
  OBVIOUS
<1> HIDE DEF N
<1>1. 0 \in S
  <2> DEFINE f == [k \in 0 .. 0 |-> i]
  <2>1. \A k \in 0 .. 0 : G(f, k) = i
    OBVIOUS
  <2>2. Rec(f, 0)
    BY <2>1
  <2> QED BY <2>2
<1>2. ASSUME NEW n \in Nat, n \in S PROVE n + 1 \in S
  <2>1. PICK f : Rec(f, n)
    BY <1>2
  <2> DEFINE g == [k \in 0 .. n + 1 |-> G(f, k)]
  <2>2. ASSUME NEW k \in 0 .. n PROVE f[k] = g[k]
    <3> HIDE DEF G
    <3> QED BY <2>1
  <2>3. ASSUME NEW k \in 0 .. n + 1 PROVE G(f, k) = G(g, k)
    <3>1. k # 0 => k - 1 \in 0 .. n
      OBVIOUS
    <3>2. k # 0 => f[k - 1] = g[k - 1]
      <4> HIDE DEF g
      <4> QED BY <2>2, <3>1
    <3> QED BY <3>2
  <2>4. Rec(g, n + 1)
    <3> HIDE DEF G
    <3> QED BY <2>3
  <2> HIDE DEF g, Rec
  <2> QED BY <2>4
<1>3. PICK f : Rec(f, N)
  <2> HIDE DEF S, Rec
  <2>1. N \in S
    BY <1>0, <1>1, <1>2, NatInd
  <2> QED BY <2>1 DEF S
<1>4. ASSUME NEW g, Rec(g, N), NEW k \in 0 .. N PROVE g[k] = G(g, k)
  BY <1>4
<1>5. PICK c : c = CHOOSE g : Rec(g, N)
  OBVIOUS
<1>6. Rec(c, N)
  <2> HIDE DEF Rec
  <2> QED BY <1>3, <1>5
<1>7. ASSUME NEW k \in 0 .. N PROVE c[k] = G(c, k)
  <2> HIDE DEF Rec, G
  <2> QED BY <1>4, <1>6
<1>8. c[0] = i
  <2>1. c[0] = G(c, 0)
    <3> HIDE DEF Rec, G
    <3> QED BY <1>0, <1>7
  <2> QED BY <2>1
<1>9. ASSUME NEW k \in 1 .. N PROVE c[k] = IF order[k] \in readable
                      THEN Is(c[k - 1], ss, Variables(ss)[order[k]], Var(order[k]), Lookup(ss, order[k]))
                      ELSE c[k - 1]
  <2>1. k \in 0 .. N /\ k # 0
    BY <1>0
  <2>2. c[k] = G(c, k)
    <3> HIDE DEF Rec, G
    <3> QED BY <1>7, <2>1
  <2> QED BY <2>1, <2>2
<1>10. ClaimAll(i, ss) = c[N]
  BY <1>5 DEF ClaimAll, N
<1>11. ClaimAllBy(c, i, ss, readable, order)
  <2> HIDE DEF G, Rec
  <2> QED BY <1>8, <1>9, <1>10 DEF N, ClaimAllBy
<1> QED BY <1>11

LEMMA ClaimAllLike ==
  ASSUME NEW i, Good(i), NEW ss
  PROVE  Like(i, ClaimAll(i, ss))
<1>1. PICK readable : readable = {n \in DOMAIN Variables(ss) : Exists(ss, n)}
  OBVIOUS
<1>2. PICK order : order = CHOOSE o \in Orders : TRUE
  OBVIOUS
<1>3. PICK N : N = Len(order) /\ N \in Nat
  BY <1>2, OrdersAre
<1>4. PICK c : /\ c[0] = i
               /\ \A k \in 1 .. N : c[k] = IF order[k] \in readable
                    THEN Is(c[k - 1], ss, Variables(ss)[order[k]], Var(order[k]), Lookup(ss, order[k]))
                    ELSE c[k - 1]
               /\ ClaimAll(i, ss) = c[N]
  <2>1. PICK c : ClaimAllBy(c, i, ss, readable, order)
    BY <1>1, <1>2, <1>3, ClaimAllIs
  <2> QED BY <1>3, <2>1 DEF ClaimAllBy
<1> DEFINE T == {n \in Nat : n <= N => Like(i, c[n])}
<1>5. 0 \in T
  BY <1>4, LikeSelf
<1>6. ASSUME NEW n \in Nat, n \in T PROVE n + 1 \in T
  <2> SUFFICES ASSUME n + 1 <= N PROVE Like(i, c[n + 1])
    OBVIOUS
  <2>1. PICK x : x = c[n]
    OBVIOUS
  <2>2. Like(i, x) /\ Good(x)
    BY <1>3, <1>6, <2>1 DEF Like
  <2>3. PICK y : y = Is(x, ss, Variables(ss)[order[n + 1]], Var(order[n + 1]), Lookup(ss, order[n + 1]))
    OBVIOUS
  <2>4. Like(i, y)
    BY <2>2, <2>3, IsLike, LikeLike
  <2>5. n + 1 \in 1 .. N /\ (n + 1) - 1 = n
    BY <1>3
  <2>6. c[n + 1] \in {x, y}
    BY <1>4, <2>1, <2>3, <2>5
  <2> QED BY <2>2, <2>4, <2>6
<1>7. N \in T
  <2> HIDE DEF T
  <2> QED BY <1>3, <1>5, <1>6, NatInd
<1> QED BY <1>3, <1>4, <1>7

LEMMA EndFunctionStep ==
  ASSUME EndsInv, EndFunction
  PROVE  EndsInv'
<1>0. open = <<>> /\ open' = open /\ ~ended
  BY DEF EndFunction
<1>1. Nested(ir, open) /\ Good(ir) /\ ir.current_bb \in Open(ir)
  BY NestedIs DEF EndsInv
<1>2. PICK d : d = ClaimAll(ir, scopes)
  OBVIOUS
<1>3. PICK undefined : undefined = Fresh(d, ir.current_bb, Inst("UNDEFINED", 0, 0, 0))
  OBVIOUS
<1>4. PICK j : j = Emit(undefined, ir.current_bb, Inst("RET", undefined.reg, 0, 0))
  OBVIOUS
<1>5. ir' = j
  BY <1>2, <1>3, <1>4 DEF EndFunction
<1>6. Like(ir, undefined)
  <2>1. Like(ir, d)
    BY <1>1, <1>2, ClaimAllLike
  <2>2. Good(d) /\ ir.current_bb \in Open(d)
    BY <1>1, <2>1 DEF Like
  <2> QED BY <1>3, <2>1, <2>2, FreshLike, LikeLike
<1>7. Like(ir, j)
  <2>1. Good(undefined) /\ ir.current_bb \in Open(undefined)
    BY <1>1, <1>6 DEF Like
  <2> QED BY <1>4, <1>6, <2>1, EmitLike, LikeLike
<1>8. Nested(j, open)
  BY <1>1, <1>7, LikeReads, NestedReads
<1>9. Nested(ir', open')
  BY <1>0, <1>5, <1>8
<1> QED BY <1>0, <1>9 DEF EndsInv

LEMMA EndsInit == CallInit => EndsInv
<1> SUFFICES ASSUME CallInit PROVE EndsInv
  OBVIOUS
<1>1. open = <<>>
  BY DEF CallInit, Init
<1>2. ir = [Builder EXCEPT !.register_nr = 1 + Len(Params)]
  BY DEF CallInit, Init
<1>3. PICK b : b = NewBlock(None)
  OBVIOUS
<1>4. IsBuilder(ir) /\ ir.bbs = <<b>> /\ ir.current_bb = 1 /\ ir.extended = FALSE
  BY <1>2, <1>3 DEF Builder, IsBuilder
<1>5. IsBlock(b) /\ b.dominator = 0 /\ b.br_reg = 0 /\ b.else_bb = None
  BY <1>3 DEF NewBlock, IsBlock, None
<1>6. IsSeq(<<b>>) /\ Len(<<b>>) = 1 /\ <<b>>[1] = b
  BY DEF IsSeq
<1>7. Good(ir) /\ Open(ir) = {1} /\ Len(ir.bbs) = 1
  <2>1. \A k \in 1 .. 1 : k = 1
    OBVIOUS
  <2>2. Good(ir)
    BY <1>4, <1>5, <1>6, <2>1 DEF Good
  <2>3. Open(ir) = {1}
    BY <1>4, <1>5, <1>6, <2>1 DEF Open
  <2> QED BY <1>4, <1>6, <2>2, <2>3
<1>8. IsSeq(open) /\ Constructs(open) /\ Distinct(open) /\ Starts(open, 1) /\ Waiting(open) = {}
  BY <1>1 DEF IsSeq, Constructs, Distinct, Starts, Waiting
<1>9. Nested(ir, open)
  BY <1>4, <1>7, <1>8 DEF Nested
<1> QED BY <1>1, <1>9 DEF EndsInv

LEMMA EndsNext ==
  ASSUME EndsInv, [CallNext]_allVars
  PROVE  EndsInv'
<1>1. CASE UNCHANGED <<ir, open, ended>>
  <2>1. EndsInv' <=> EndsInv
    BY <1>1, Zenon DEF EndsInv
  <2> QED BY <2>1
<1>2. CASE Run
  <2>1. UNCHANGED vars
    BY <1>2 DEF Run, Call, RunBlock
  <2> QED BY <1>1, <2>1 DEF vars
<1>3. CASE UNCHANGED allVars
  BY <1>1, <1>3 DEF allVars, vars
<1>4. CASE EndFunction
  BY <1>4, EndFunctionStep
<1>5. CASE ParseStatement
  <2>1. ASSUME NEW n \in Names, NEW e \in Values, Let(n, e) PROVE EndsInv'
    BY <2>1, LetStep
  <2>2. ASSUME NEW n \in Names, NEW e \in Values, Assign(n, e) PROVE EndsInv'
    BY <2>2, AssignStep
  <2>3. ASSUME NEW n \in Names, Declare(n) PROVE EndsInv'
    BY <2>3, DeclareStep
  <2>4. ASSUME NEW e \in Results, Return(e) PROVE EndsInv'
    BY <2>4, ReturnStep
  <2>13. CASE ReturnNothing
    BY <2>13, ReturnNothingStep
  <2>5. CASE OpenBlock
    BY <2>5, OpenBlockStep
  <2>6. CASE CloseBlock
    BY <2>6, CloseBlockStep
  <2>7. ASSUME NEW e \in Conds, If(e) PROVE EndsInv'
    BY <2>7, IfStep
  <2>8. ASSUME NEW e \in Conds, While(e) PROVE EndsInv'
    BY <2>8, WhileStep
  <2>9. CASE Else
    BY <2>9, ElseStep
  <2>10. ASSUME NEW order \in Orders, EndThen(order) PROVE EndsInv'
    BY <2>10, EndThenStep
  <2>11. ASSUME NEW order \in Orders, NEW later \in Orders, EndElse(order, later) PROVE EndsInv'
    BY <2>11, EndElseStep
  <2>12. ASSUME NEW order \in Orders, NEW later \in Orders, EndWhile(order, later) PROVE EndsInv'
    BY <2>12, EndWhileStep
  <2> QED BY <1>5, <2>1, <2>2, <2>3, <2>4, <2>5, <2>6, <2>7, <2>8, <2>9, <2>10, <2>11, <2>12, <2>13
       DEF ParseStatement
<1> QED BY <1>2, <1>3, <1>4, <1>5 DEF CallNext, Parse

(* No instruction or jump is added to a block that has been ended, and when  *)
(* the function has been read every block but the last one leads somewhere.  *)
THEOREM BlocksEnd == CallSpec => []BlocksEndOnce
<1>1. EndsInv => BlocksEndOnce
  <2> SUFFICES ASSUME EndsInv PROVE BlocksEndOnce
    OBVIOUS
  <2>1. ~ir.extended
    BY DEF EndsInv, Nested, Good
  <2>2. ASSUME ended, NEW b \in DOMAIN ir.bbs PROVE ir.bbs[b].else_bb = None <=> b = ir.current_bb
    <3>1. Open(ir) = {ir.current_bb} \cup Waiting(open) /\ open = <<>>
      BY <2>2 DEF EndsInv, Nested
    <3>2. Waiting(open) = {}
      BY <3>1 DEF Waiting
    <3>3. b \in 1 .. Len(ir.bbs)
      BY SeqShape DEF EndsInv, Nested, Good
    <3> QED BY <3>1, <3>2, <3>3 DEF Open
  <2> QED BY <2>1, <2>2 DEF BlocksEndOnce
<1> QED BY <1>1, EndsInit, EndsNext, PTL DEF CallSpec

------------------------------------------------------------------------------
------------------------------------------------------------------------------
(* Types.  Instructions, branches and tables name registers and blocks that  *)
(* exist; register 0 is never written.                                       *)
Fits(nr, inst) ==
  /\ inst.type \in Ops \cup {"MOV", "LNOT"} => inst.rd \in 1 .. nr /\ {inst.rs, inst.rt} \subseteq 0 .. nr
  /\ inst.type = "IS" => inst.rs \in 0 .. nr
FitsBlock(nr, n, b) ==
  /\ IsSeq(b.insts) /\ \A k \in 1 .. Len(b.insts) : Fits(nr, b.insts[k])
  /\ b.br_reg \in 0 .. nr /\ b.then_bb \in 0 .. n /\ b.else_bb \in 0 .. n
  /\ \A imm \in DOMAIN b.constant_table : b.constant_table[imm] \in 0 .. nr
  /\ \A r \in DOMAIN b.numeric_value : r \in 0 .. nr
Typed(i) ==
  /\ i.register_nr \in Nat /\ i.reg \in 0 .. i.register_nr
  /\ \A b \in 1 .. Len(i.bbs) : FitsBlock(i.register_nr, Len(i.bbs), i.bbs[b])
  /\ \A n \in DOMAIN i.captured : i.captured[n] \in 1 .. i.register_nr

(* j comes from i by calls that allocate no register, or that may.           *)
Kept(i, j) ==
  Typed(j) /\ j.register_nr = i.register_nr /\ j.reg = i.reg /\ j.captured = i.captured
Given(i, j) == Typed(j) /\ i.register_nr <= j.register_nr /\ j.captured = i.captured

LEMMA KeptKept ==
  ASSUME NEW i, NEW j, NEW k, Kept(i, j), Kept(j, k)
  PROVE  Kept(i, k)
BY DEF Kept

LEMMA KeptGiven ==
  ASSUME NEW i, NEW j, Typed(i), Kept(i, j)
  PROVE  Given(i, j)
BY DEF Kept, Given, Typed

LEMMA GivenGiven ==
  ASSUME NEW i, NEW j, NEW k, Typed(i), Given(i, j), Given(j, k)
  PROVE  Given(i, k)
BY DEF Given, Typed

LEMMA FitsMore ==
  ASSUME NEW nr \in Nat, NEW nr2 \in Nat, nr <= nr2, NEW n \in Nat, NEW n2 \in Nat, n <= n2,
         NEW b, FitsBlock(nr, n, b)
  PROVE  FitsBlock(nr2, n2, b)
<1>1. 0 .. nr \subseteq 0 .. nr2 /\ 1 .. nr \subseteq 1 .. nr2 /\ 0 .. n \subseteq 0 .. n2
  OBVIOUS
<1>2. \A inst : Fits(nr, inst) => Fits(nr2, inst)
  BY <1>1 DEF Fits
<1> QED BY <1>1, <1>2 DEF FitsBlock

LEMMA SameBlocksGiven ==
  ASSUME NEW i, NEW j, Good(i), Typed(i), j.bbs = i.bbs, j.register_nr \in Nat, i.register_nr <= j.register_nr,
         j.reg \in 0 .. j.register_nr, j.captured = i.captured
  PROVE  Given(i, j)
<1>1. Len(i.bbs) \in Nat
  BY SeqShape DEF Good
<1>2. ASSUME NEW b \in 1 .. Len(i.bbs) PROVE FitsBlock(j.register_nr, Len(i.bbs), i.bbs[b])
  <2>1. FitsBlock(i.register_nr, Len(i.bbs), i.bbs[b]) /\ i.register_nr \in Nat
    BY DEF Typed
  <2> QED BY <1>1, <2>1, FitsMore
<1>3. \A n \in DOMAIN i.captured : i.captured[n] \in 1 .. j.register_nr
  BY DEF Typed
<1> QED BY <1>2, <1>3 DEF Given, Typed

LEMMA OneBlockKept ==
  ASSUME NEW i, NEW j, Good(i), Typed(i), NEW bb, NEW block, Replaces(j.bbs, i.bbs, bb, block),
         bb \in 1 .. Len(i.bbs) => FitsBlock(i.register_nr, Len(i.bbs), block),
         j.register_nr = i.register_nr, j.reg = i.reg, j.captured = i.captured
  PROVE  Kept(i, j)
<1>1. IsSeq(i.bbs)
  BY DEF Good
<1>2. /\ Len(j.bbs) = Len(i.bbs)
      /\ \A b \in 1 .. Len(i.bbs) : j.bbs[b] = IF b = bb THEN block ELSE i.bbs[b]
  BY <1>1, ReplacedIs
<1> QED BY <1>2 DEF Kept, Typed

LEMMA PutKept ==
  ASSUME NEW i, Good(i), Typed(i), NEW bb, NEW table \in {"constant_table", "numeric_value"},
         NEW key, NEW value,
         IF table = "constant_table" THEN value \in 0 .. i.register_nr ELSE key \in 0 .. i.register_nr
  PROVE  Kept(i, Put(i, bb, table, key, value))
<1> DEFINE block == [i.bbs[bb] EXCEPT ![table] = With(@, key, value)]
<1>1. PICK j : j = Put(i, bb, table, key, value)
  OBVIOUS
<1>2. j = [i EXCEPT !.bbs = [@ EXCEPT ![bb] = block]]
  BY <1>1 DEF Put
<1>3. j.register_nr = i.register_nr /\ j.reg = i.reg /\ j.captured = i.captured
  BY <1>2 DEF Good, IsBuilder
<1>4. Replaces(j.bbs, i.bbs, bb, block)
  BY <1>2 DEF Good, IsBuilder, Replaces
<1>5. ASSUME bb \in 1 .. Len(i.bbs) PROVE FitsBlock(i.register_nr, Len(i.bbs), block)
  <2>1. PICK b : b = i.bbs[bb]
    OBVIOUS
  <2>2. PICK old : old = b[table]
    OBVIOUS
  <2>3. PICK new : new = With(old, key, value)
    OBVIOUS
  <2>4. DOMAIN new = DOMAIN old \cup {key} /\ \A x \in DOMAIN new : new[x] = IF x = key THEN value ELSE old[x]
    BY <2>3 DEF With
  <2>5. PICK c : c = block
    OBVIOUS
  <2>6. IsBlock(b) /\ FitsBlock(i.register_nr, Len(i.bbs), b)
    BY <1>5, <2>1 DEF Good, Typed
  <2>7. c = [b EXCEPT ![table] = new]
    BY <2>1, <2>2, <2>3, <2>5
  <2>8. /\ c.insts = b.insts /\ c.br_reg = b.br_reg /\ c.then_bb = b.then_bb /\ c.else_bb = b.else_bb
        /\ c.constant_table = IF table = "constant_table" THEN new ELSE b.constant_table
        /\ c.numeric_value = IF table = "numeric_value" THEN new ELSE b.numeric_value
    BY <2>6, <2>7 DEF IsBlock
  <2>9. CASE table = "constant_table"
    <3>1. old = b.constant_table /\ value \in 0 .. i.register_nr
      BY <2>2, <2>9
    <3>2. \A imm \in DOMAIN c.constant_table : c.constant_table[imm] \in 0 .. i.register_nr
      BY <2>4, <2>6, <2>8, <2>9, <3>1 DEF FitsBlock
    <3>3. c.numeric_value = b.numeric_value
      BY <2>8, <2>9
    <3>4. FitsBlock(i.register_nr, Len(i.bbs), c)
      BY <2>6, <2>8, <3>2, <3>3 DEF FitsBlock
    <3> QED BY <2>5, <3>4
  <2>10. CASE table = "numeric_value"
    <3>1. old = b.numeric_value /\ key \in 0 .. i.register_nr
      BY <2>2, <2>10
    <3>2. \A r \in DOMAIN c.numeric_value : r \in 0 .. i.register_nr
      BY <2>4, <2>6, <2>8, <2>10, <3>1 DEF FitsBlock
    <3>3. c.constant_table = b.constant_table
      BY <2>8, <2>10
    <3>4. FitsBlock(i.register_nr, Len(i.bbs), c)
      BY <2>6, <2>8, <3>2, <3>3 DEF FitsBlock
    <3> QED BY <2>5, <3>4
  <2> QED BY <2>9, <2>10
<1> HIDE DEF block
<1>6. Kept(i, j)
  BY <1>3, <1>4, <1>5, OneBlockKept
<1> QED BY <1>1, <1>6

LEMMA NotEndKept ==
  ASSUME NEW i, Good(i), Typed(i), NEW bb \in Open(i)
  PROVE  Kept(i, NotEnd(i, bb))
<1>1. PICK j : j = NotEnd(i, bb)
  OBVIOUS
<1>2. j.bbs = i.bbs /\ j.register_nr = i.register_nr /\ j.reg = i.reg /\ j.captured = i.captured
  BY <1>1 DEF NotEnd, Good, IsBuilder
<1>3. Kept(i, j)
  BY <1>2 DEF Kept, Typed
<1> QED BY <1>1, <1>3

LEMMA DoubtKept ==
  ASSUME NEW i, Good(i), Typed(i), NEW cond
  PROVE  Kept(i, Doubt(i, cond))
<1>1. PICK j : j = Doubt(i, cond)
  OBVIOUS
<1>2. j.bbs = i.bbs /\ j.register_nr = i.register_nr /\ j.reg = i.reg /\ j.captured = i.captured
  BY <1>1 DEF Doubt, Good, IsBuilder
<1>3. Kept(i, j)
  BY <1>2 DEF Kept, Typed
<1> QED BY <1>1, <1>3

(* An instruction that is appended to a block.                               *)
LEMMA AppendKept ==
  ASSUME NEW i, Good(i), Typed(i), NEW bb, NEW inst, Fits(i.register_nr, inst),
         NEW j, j.register_nr = i.register_nr, j.reg = i.reg, j.captured = i.captured,
         Replaces(j.bbs, i.bbs, bb, [i.bbs[bb] EXCEPT !.insts = Append(@, inst)])
  PROVE  Kept(i, j)
<1> DEFINE block == [i.bbs[bb] EXCEPT !.insts = Append(@, inst)]
<1>1. ASSUME bb \in 1 .. Len(i.bbs) PROVE FitsBlock(i.register_nr, Len(i.bbs), block)
  <2>1. PICK b : b = i.bbs[bb]
    OBVIOUS
  <2>2. IsBlock(b) /\ FitsBlock(i.register_nr, Len(i.bbs), b)
    BY <1>1, <2>1 DEF Good, Typed
  <2>3. PICK s : s = b.insts
    OBVIOUS
  <2>4. IsSeq(s) /\ \A k \in 1 .. Len(s) : Fits(i.register_nr, s[k])
    BY <2>2, <2>3 DEF FitsBlock
  <2>5. PICK t : t = Append(s, inst)
    OBVIOUS
  <2>6. IsSeq(t) /\ Len(t) = Len(s) + 1 /\ t[Len(s) + 1] = inst /\ \A k \in 1 .. Len(s) : t[k] = s[k]
    BY <2>4, <2>5, AppendedIs
  <2>7. Len(s) \in Nat
    BY <2>4, SeqShape
  <2>8. \A k \in 1 .. Len(t) : Fits(i.register_nr, t[k])
    <3>1. \A k \in 1 .. Len(t) : k \in 1 .. Len(s) \/ k = Len(s) + 1
      BY <2>6, <2>7
    <3> QED BY <2>4, <2>6, <3>1
  <2>9. PICK c : c = block
    OBVIOUS
  <2>10. /\ c.insts = t /\ c.br_reg = b.br_reg /\ c.then_bb = b.then_bb /\ c.else_bb = b.else_bb
         /\ c.constant_table = b.constant_table /\ c.numeric_value = b.numeric_value
    BY <2>1, <2>2, <2>3, <2>5, <2>9 DEF IsBlock
  <2>11. FitsBlock(i.register_nr, Len(i.bbs), c)
    BY <2>2, <2>6, <2>8, <2>10 DEF FitsBlock
  <2> QED BY <2>9, <2>11
<1> HIDE DEF block
<1>2. Replaces(j.bbs, i.bbs, bb, block)
  BY DEF block
<1> QED BY <1>1, <1>2, OneBlockKept

LEMMA EmitKept ==
  ASSUME NEW i, Good(i), Typed(i), NEW bb \in Open(i), NEW inst, Fits(i.register_nr, inst)
  PROVE  Kept(i, Emit(i, bb, inst))
<1>1. PICK n : n = NotEnd(i, bb)
  OBVIOUS
<1>2. Kept(i, n) /\ Good(n)
  BY <1>1, NotEndKept, NotEndLike DEF Like
<1>3. PICK block : block = [n.bbs[bb] EXCEPT !.insts = Append(@, inst)]
  OBVIOUS
<1>4. PICK j : j = Emit(i, bb, inst)
  OBVIOUS
<1>5. j = [n EXCEPT !.bbs = [@ EXCEPT ![bb] = block]]
  BY <1>1, <1>3, <1>4 DEF Emit
<1>6. /\ j.register_nr = n.register_nr /\ j.reg = n.reg /\ j.captured = n.captured
      /\ j.bbs = [n.bbs EXCEPT ![bb] = block]
  BY <1>2, <1>5 DEF Good, IsBuilder
<1>7. Replaces(j.bbs, n.bbs, bb, [n.bbs[bb] EXCEPT !.insts = Append(@, inst)])
  BY <1>3, <1>6 DEF Replaces
<1>8. Typed(n) /\ Fits(n.register_nr, inst)
  BY <1>2 DEF Kept
<1>9. Kept(n, j)
  BY <1>2, <1>6, <1>7, <1>8, AppendKept
<1> QED BY <1>2, <1>4, <1>9, KeptKept

LEMMA ClaimKept ==
  ASSUME NEW i, Good(i), Typed(i), NEW bb, NEW claim, Fits(i.register_nr, claim)
  PROVE  Kept(i, Claim(i, bb, claim))
<1>1. PICK block : block = [i.bbs[bb] EXCEPT !.insts = Append(@, claim)]
  OBVIOUS
<1>2. PICK j : j = Claim(i, bb, claim)
  OBVIOUS
<1>3. j = [i EXCEPT !.bbs = [@ EXCEPT ![bb] = block]]
  BY <1>1, <1>2 DEF Claim
<1>4. /\ j.register_nr = i.register_nr /\ j.reg = i.reg /\ j.captured = i.captured
      /\ j.bbs = [i.bbs EXCEPT ![bb] = block]
  BY <1>3 DEF Good, IsBuilder
<1>5. Replaces(j.bbs, i.bbs, bb, [i.bbs[bb] EXCEPT !.insts = Append(@, claim)])
  BY <1>1, <1>4 DEF Replaces
<1>6. Kept(i, j)
  BY <1>4, <1>5, AppendKept
<1> QED BY <1>2, <1>6

LEMMA AllocatedGiven ==
  ASSUME NEW i, Good(i), Typed(i)
  PROVE  /\ Given(i, Allocated(i))
         /\ Allocated(i).register_nr = i.register_nr + 1 /\ Allocated(i).reg = i.register_nr + 1
<1>1. PICK j : j = Allocated(i)
  OBVIOUS
<1>2. /\ j.bbs = i.bbs /\ j.register_nr = i.register_nr + 1 /\ j.reg = i.register_nr + 1
      /\ j.captured = i.captured
  BY <1>1 DEF Allocated, Good, IsBuilder
<1>3. i.register_nr \in Nat
  BY DEF Typed
<1>4. Given(i, j)
  BY <1>2, <1>3, SameBlocksGiven
<1> QED BY <1>1, <1>2, <1>4

(* An instruction but for the register it writes.                            *)
Operates(nr, inst) ==
  /\ "rd" \in DOMAIN inst /\ inst.type # "IS"
  /\ inst.type \in Ops \cup {"MOV", "LNOT"} => {inst.rs, inst.rt} \subseteq 0 .. nr

LEMMA FreshGiven ==
  ASSUME NEW i, Good(i), Typed(i), NEW bb \in Open(i), NEW inst, Operates(i.register_nr, inst)
  PROVE  /\ Given(i, Fresh(i, bb, inst))
         /\ Fresh(i, bb, inst).register_nr = i.register_nr + 1
         /\ Fresh(i, bb, inst).reg = i.register_nr + 1
<1>1. PICK n : n = Allocated(i)
  OBVIOUS
<1>2. Given(i, n) /\ n.register_nr = i.register_nr + 1 /\ n.reg = i.register_nr + 1
  BY <1>1, AllocatedGiven
<1>3. Good(n) /\ bb \in Open(n)
  BY <1>1, AllocatedLike DEF Like
<1>4. PICK x : x = [inst EXCEPT !.rd = n.reg]
  OBVIOUS
<1>5. Fresh(i, bb, inst) = Emit(n, bb, x)
  BY <1>1, <1>4 DEF Fresh
<1>6. x.type = inst.type /\ x.rd = n.reg /\ x.rs = inst.rs /\ x.rt = inst.rt
  BY <1>4 DEF Operates
<1>7. Fits(n.register_nr, x)
  <2>1. i.register_nr \in Nat
    BY DEF Typed
  <2>2. n.reg \in 1 .. n.register_nr /\ 0 .. i.register_nr \subseteq 0 .. n.register_nr
    BY <1>2, <2>1
  <2> QED BY <1>6, <2>2 DEF Fits, Operates
<1>8. Typed(n)
  BY <1>2 DEF Given
<1>9. Kept(n, Emit(n, bb, x))
  BY <1>3, <1>7, <1>8, EmitKept
<1>10. Given(i, Emit(n, bb, x))
  BY <1>2, <1>8, <1>9, KeptGiven, GivenGiven
<1> QED BY <1>2, <1>5, <1>9, <1>10 DEF Kept

(* A block that has the key, or none.                                        *)
LEMMA HolderIs ==
  ASSUME NEW i, Good(i), NEW bb \in 1 .. Len(i.bbs), NEW table, NEW key
  PROVE  LET holder == Holder(i, bb, table, key) IN
         holder # None => holder \in 1 .. Len(i.bbs) /\ key \in DOMAIN i.bbs[holder][table]
<1> DEFINE N == Len(i.bbs)
           has(b) == key \in DOMAIN i.bbs[b][table]
           G(f, b) == IF b = None THEN None ELSE IF has(b) THEN b ELSE f[i.bbs[b].dominator]
           Rec(f, n) == f = [b \in 0 .. n |-> G(f, b)]
           S == {n \in Nat : n <= N => \E f : Rec(f, n)}
<1>0. /\ N \in Nat /\ \A b \in 1 .. N : i.bbs[b].dominator \in 0 .. b - 1
      /\ \A b \in 0 .. N : b # None => b \in 1 .. N
  BY SeqShape DEF Good, None
<1> HIDE DEF N, has
<1>1. 0 \in S
  <2> DEFINE f == [b \in 0 .. 0 |-> None]
  <2>1. \A b \in 0 .. 0 : G(f, b) = None
    BY DEF None
  <2>2. Rec(f, 0)
    BY <2>1
  <2> QED BY <2>2
<1>2. ASSUME NEW n \in Nat, n \in S PROVE n + 1 \in S
  <2> SUFFICES ASSUME n + 1 <= N PROVE \E f : Rec(f, n + 1)
    OBVIOUS
  <2>1. PICK f : Rec(f, n)
    BY <1>0, <1>2
  <2> DEFINE g == [b \in 0 .. n + 1 |-> G(f, b)]
  <2>2. ASSUME NEW b \in 0 .. n PROVE f[b] = g[b]
    <3>1. f[b] = G(f, b)
      BY <2>1
    <3>2. b \in 0 .. n + 1
      OBVIOUS
    <3>3. g[b] = G(f, b)
      BY <3>2
    <3> QED BY <3>1, <3>3
  <2>3. ASSUME NEW b \in 0 .. n + 1 PROVE G(f, b) = G(g, b)
    <3>1. CASE b = None
      BY <3>1
    <3>2. CASE b # None
      <4>1. b \in 1 .. N
        BY <1>0, <3>2
      <4>2. i.bbs[b].dominator \in 0 .. n
        BY <1>0, <4>1
      <4> QED BY <2>2, <4>2
    <3> QED BY <3>1, <3>2
  <2>4. Rec(g, n + 1)
    <3> HIDE DEF G
    <3> QED BY <2>3
  <2> QED BY <2>4
<1>3. PICK f : Rec(f, N)
  <2> HIDE DEF S, Rec
  <2>1. N \in S
    BY <1>0, <1>1, <1>2, NatInd
  <2> QED BY <2>1 DEF S
<1>4. PICK c : c = CHOOSE g : Rec(g, N)
  OBVIOUS
<1>5. Rec(c, N)
  <2> HIDE DEF Rec
  <2> QED BY <1>3, <1>4
<1>6. ASSUME NEW b \in 0 .. N PROVE c[b] = G(c, b)
  BY <1>5
<1>7. Holder(i, bb, table, key) = c[bb]
  BY <1>4 DEF Holder, N, has
<1> DEFINE Held(b) == c[b] # None => c[b] \in 1 .. N /\ has(c[b])
           T == {n \in Nat : \A b \in 0 .. N : b <= n => Held(b)}
<1> HIDE DEF Rec
<1>8. 0 \in T
  <2>1. \A b \in 0 .. N : b <= 0 => b = None
    BY <1>0 DEF None
  <2> QED BY <1>6, <2>1
<1>9. ASSUME NEW n \in Nat, n \in T PROVE n + 1 \in T
  <2> SUFFICES ASSUME NEW b \in 0 .. N, b <= n + 1, b # None PROVE Held(b)
    BY <1>6
  <2>1. b \in 1 .. N /\ b - 1 <= n
    BY <1>0
  <2>2. PICK d : d = i.bbs[b].dominator
    OBVIOUS
  <2>3. d \in 0 .. N /\ d <= n
    BY <1>0, <2>1, <2>2
  <2>4. Held(d)
    BY <1>9, <2>3
  <2>5. c[b] = IF has(b) THEN b ELSE c[d]
    BY <1>6, <2>2
  <2> QED BY <2>1, <2>4, <2>5
<1>10. Held(bb)
  <2>1. N \in T
    <3> HIDE DEF T
    <3> QED BY <1>0, <1>8, <1>9, NatInd
  <2>2. bb \in 0 .. N /\ bb <= N
    BY <1>0 DEF N
  <2> QED BY <2>1, <2>2
<1> QED BY <1>7, <1>10 DEF N, has

LEMMA CopiedKept ==
  ASSUME NEW i, Good(i), Typed(i), NEW bb \in 1 .. Len(i.bbs),
         NEW table \in {"constant_table", "numeric_value"}, NEW key,
         NEW holder, holder # None => holder \in 1 .. Len(i.bbs) /\ key \in DOMAIN i.bbs[holder][table]
  PROVE  Kept(i, CopyDown(i, bb, table, key, holder))
<1>1. PICK N : N = Len(i.bbs)
  OBVIOUS
<1>2. PICK value : value = i.bbs[holder][table][key]
  OBVIOUS
<1>3. PICK c : /\ \A b \in 0 .. N : c[b] = IF b \in {None, holder} THEN i
                                          ELSE Put(c[i.bbs[b].dominator], b, table, key, value)
               /\ CopyDown(i, bb, table, key, holder) = IF holder = None THEN i ELSE c[bb]
  <2>1. PICK c : CopiedBy(c, i, bb, table, key, holder)
    BY CopiedIs
  <2> QED BY <1>1, <1>2, <2>1 DEF CopiedBy
<1>4. /\ N \in Nat /\ \A b \in 1 .. N : i.bbs[b].dominator \in 0 .. b - 1
      /\ \A b \in 0 .. N : b # None => b \in 1 .. N
  BY <1>1, SeqShape DEF Good, None
<1>5. Kept(i, i) /\ Like(i, i)
  BY LikeSelf DEF Kept
<1> SUFFICES ASSUME holder # None PROVE Kept(i, c[bb])
  BY <1>3, <1>5
<1>6. IF table = "constant_table" THEN value \in 0 .. i.register_nr ELSE key \in 0 .. i.register_nr
  <2>1. FitsBlock(i.register_nr, Len(i.bbs), i.bbs[holder])
    BY DEF Typed
  <2> QED BY <1>2, <2>1 DEF FitsBlock
<1> DEFINE Fine(x) == Kept(i, x) /\ Like(i, x)
           T == {n \in Nat : \A b \in 0 .. N : b <= n => Fine(c[b])}
<1>7. ASSUME NEW b \in 0 .. N, b \in {None, holder} PROVE Fine(c[b])
  BY <1>3, <1>5, <1>7
<1>8. 0 \in T
  <2> HIDE DEF Fine
  <2>1. \A b \in 0 .. N : b <= 0 => b = None
    BY <1>4 DEF None
  <2> QED BY <1>7, <2>1
<1>9. ASSUME NEW n \in Nat, n \in T PROVE n + 1 \in T
  <2> SUFFICES ASSUME NEW b \in 0 .. N, b <= n + 1
               PROVE  Fine(c[b])
    <3> HIDE DEF Fine
    <3> QED BY <1>9
  <2>1. CASE b \in {None, holder}
    <3> HIDE DEF Fine
    <3> QED BY <1>7, <2>1
  <2>2. CASE b \notin {None, holder}
    <3>1. b \in 1 .. N /\ b - 1 <= n
      BY <1>4, <2>2
    <3>2. PICK d : d = i.bbs[b].dominator
      OBVIOUS
    <3>3. d \in 0 .. N /\ d <= n
      BY <1>4, <3>1, <3>2
    <3>4. PICK x : x = c[d]
      OBVIOUS
    <3>5. Fine(x)
      <4> HIDE DEF Fine
      <4> QED BY <1>9, <3>3, <3>4
    <3>6. c[b] = Put(x, b, table, key, value)
      BY <1>3, <2>2, <3>2, <3>4
    <3>7. Good(x) /\ Typed(x) /\ x.register_nr = i.register_nr
      BY <3>5 DEF Like, Kept
    <3>8. IF table = "constant_table" THEN value \in 0 .. x.register_nr ELSE key \in 0 .. x.register_nr
      BY <1>6, <3>7
    <3>9. PICK y : y = Put(x, b, table, key, value)
      OBVIOUS
    <3>10. Like(x, y) /\ Kept(x, y)
      BY <3>7, <3>8, <3>9, PutLike, PutKept
    <3> QED BY <3>5, <3>6, <3>9, <3>10, LikeLike, KeptKept
  <2> HIDE DEF Fine
  <2> QED BY <2>1, <2>2
<1>10. Fine(c[bb])
  <2>1. N \in T
    <3> HIDE DEF T
    <3> QED BY <1>4, <1>8, <1>9, NatInd
  <2>2. bb \in 0 .. N /\ bb <= N
    BY <1>1, <1>4
  <2> HIDE DEF Fine
  <2> QED BY <2>1, <2>2
<1> QED BY <1>10

LEMMA CachedKept ==
  ASSUME NEW i, Good(i), Typed(i), NEW bb \in Open(i),
         NEW table \in {"constant_table", "numeric_value"}, NEW key
  PROVE  Kept(i, Cached(i, bb, table, key))
<1>1. bb \in 1 .. Len(i.bbs)
  BY DEF Open
<1>2. PICK holder : holder = Holder(i, bb, table, key)
  OBVIOUS
<1>3. holder # None => holder \in 1 .. Len(i.bbs) /\ key \in DOMAIN i.bbs[holder][table]
  BY <1>1, <1>2, HolderIs
<1> QED BY <1>1, <1>2, <1>3, CopiedKept DEF Cached

LEMMA LiGiven ==
  ASSUME NEW i, Good(i), Typed(i), NEW bb \in Open(i), NEW imm
  PROVE  Given(i, Li(i, bb, imm))
<1>1. PICK c : c = Cached(i, bb, "constant_table", imm)
  OBVIOUS
<1>2. Kept(i, c) /\ Good(c) /\ bb \in Open(c)
  BY <1>1, CachedLike, CachedKept DEF Like
<1>3. Typed(c) /\ Given(i, c)
  BY <1>2, KeptGiven DEF Kept
<1>4. CASE imm \in DOMAIN c.bbs[bb].constant_table
  <2>1. PICK j : j = [c EXCEPT !.reg = c.bbs[bb].constant_table[imm]]
    OBVIOUS
  <2>2. /\ j.bbs = c.bbs /\ j.register_nr = c.register_nr /\ j.captured = c.captured
        /\ j.reg = c.bbs[bb].constant_table[imm]
    BY <1>2, <2>1 DEF Good, IsBuilder
  <2>3. FitsBlock(c.register_nr, Len(c.bbs), c.bbs[bb])
    BY <1>2, <1>3 DEF Typed, Open
  <2>4. j.reg \in 0 .. c.register_nr
    BY <1>4, <2>2, <2>3 DEF FitsBlock
  <2>5. Given(c, j)
    BY <1>2, <1>3, <2>2, <2>4, SameBlocksGiven DEF Typed
  <2>6. Li(i, bb, imm) = j
    BY <1>1, <1>4, <2>1 DEF Li, Shared
  <2> QED BY <1>3, <2>5, <2>6, GivenGiven
<1>5. CASE imm \notin DOMAIN c.bbs[bb].constant_table
  <2>1. PICK inst : inst = Inst("LI", 0, imm, 0)
    OBVIOUS
  <2>2. Operates(c.register_nr, inst)
    BY <2>1 DEF Inst, Operates, Ops
  <2>3. PICK n : n = Fresh(c, bb, inst)
    OBVIOUS
  <2>4. Given(c, n) /\ n.register_nr = c.register_nr + 1 /\ n.reg = c.register_nr + 1
    BY <1>2, <1>3, <2>2, <2>3, FreshGiven
  <2>5. Good(n) /\ Typed(n) /\ n.reg \in 0 .. n.register_nr
    BY <1>2, <2>3, <2>4, FreshLike DEF Like, Given, Typed
  <2>6. PICK p : p = Put(n, bb, "constant_table", imm, n.reg)
    OBVIOUS
  <2>7. Kept(n, p) /\ Good(p)
    BY <2>5, <2>6, PutKept, PutLike DEF Like
  <2>8. Typed(p) /\ n.reg \in 0 .. p.register_nr
    BY <2>5, <2>7 DEF Kept
  <2>9. Kept(p, Put(p, bb, "numeric_value", n.reg, imm))
    BY <2>7, <2>8, PutKept
  <2>10. PICK q : q = Put(p, bb, "numeric_value", n.reg, imm)
    OBVIOUS
  <2>11. Kept(n, q)
    BY <2>7, <2>9, <2>10, KeptKept
  <2>12. Given(c, q)
    BY <2>4, <2>5, <2>11, <1>3, KeptGiven, GivenGiven
  <2>13. Li(i, bb, imm) = q
    BY <1>1, <1>5, <2>1, <2>3, <2>6, <2>10 DEF Li, Shared, Load
  <2> QED BY <1>3, <2>12, <2>13, GivenGiven
<1> QED BY <1>4, <1>5

LEMMA BinaryGiven ==
  ASSUME NEW i, Good(i), Typed(i), NEW bb \in Open(i), NEW op \in Ops,
         NEW rs \in 0 .. i.register_nr, NEW rt \in 0 .. i.register_nr
  PROVE  Given(i, Binary(i, bb, op, rs, rt))
<1>1. PICK n : n = NotEnd(i, bb)
  OBVIOUS
<1>2. Kept(i, n) /\ Good(n) /\ bb \in Open(n)
  BY <1>1, NotEndLike, NotEndKept DEF Like
<1>3. PICK c : c = Cached(n, bb, "numeric_value", rs)
  OBVIOUS
<1>4. Kept(n, c) /\ Good(c) /\ bb \in Open(c)
  <2>1. Typed(n)
    BY <1>2 DEF Kept
  <2> QED BY <1>2, <1>3, <2>1, CachedLike, CachedKept DEF Like
<1>5. PICK d : d = Cached(c, bb, "numeric_value", rt)
  OBVIOUS
<1>6. Kept(c, d) /\ Good(d) /\ bb \in Open(d)
  <2>1. Typed(c)
    BY <1>4 DEF Kept
  <2> QED BY <1>4, <1>5, <2>1, CachedLike, CachedKept DEF Like
<1>7. Kept(i, d) /\ Typed(d)
  BY <1>2, <1>4, <1>6, KeptKept DEF Kept
<1>8. PICK known : known = d.bbs[bb].numeric_value
  OBVIOUS
<1>9. CASE {rs, rt} \subseteq DOMAIN known
  <2>1. PICK x : x = Doubt(d, op \in {"DIV", "MOD"} /\ known[rt] = 0)
    OBVIOUS
  <2>2. Kept(d, x) /\ Good(x) /\ bb \in Open(x)
    BY <1>6, <1>7, <2>1, DoubtLike, DoubtKept DEF Like
  <2>3. Typed(x)
    BY <2>2 DEF Kept
  <2>4. PICK y : y = Li(x, bb, Apply(op, known[rs], known[rt]))
    OBVIOUS
  <2>5. Given(x, y)
    BY <2>2, <2>3, <2>4, LiGiven
  <2>6. Binary(i, bb, op, rs, rt) = y
    BY <1>1, <1>3, <1>5, <1>8, <1>9, <2>1, <2>4 DEF Binary, Folded
  <2>7. Given(d, x) /\ Given(i, d)
    BY <1>7, <2>2, KeptGiven
  <2> QED BY <1>7, <2>5, <2>6, <2>7, GivenGiven
<1>10. CASE ~({rs, rt} \subseteq DOMAIN known)
  <2>1. PICK inst : inst = Inst(op, 0, rs, rt)
    OBVIOUS
  <2>2. inst.type = op /\ "rd" \in DOMAIN inst /\ inst.rs = rs /\ inst.rt = rt
    BY <2>1 DEF Inst
  <2>3. Operates(d.register_nr, inst)
    BY <1>7, <2>2 DEF Operates, Ops, Kept
  <2>4. Given(d, Fresh(d, bb, inst))
    BY <1>6, <1>7, <2>3, FreshGiven
  <2>5. Binary(i, bb, op, rs, rt) = Fresh(d, bb, inst)
    BY <1>1, <1>3, <1>5, <1>8, <1>10, <2>1 DEF Binary, Folded
  <2>6. Given(i, d)
    BY <1>7, KeptGiven
  <2> QED BY <1>7, <2>4, <2>5, <2>6, GivenGiven
<1> QED BY <1>9, <1>10

LEMMA LnotGiven ==
  ASSUME NEW i, Good(i), Typed(i), NEW bb \in Open(i), NEW rs \in 0 .. i.register_nr
  PROVE  Given(i, Lnot(i, bb, rs))
<1>1. PICK inst : inst = Inst("LNOT", 0, rs, 0)
  OBVIOUS
<1>2. inst.type = "LNOT" /\ "rd" \in DOMAIN inst /\ inst.rs = rs /\ inst.rt = 0
  BY <1>1 DEF Inst
<1>3. Operates(i.register_nr, inst)
  BY <1>2 DEF Operates, Typed
<1> QED BY <1>1, <1>3, FreshGiven DEF Lnot

LEMMA LearnKept ==
  ASSUME NEW i, Good(i), Typed(i), NEW bb \in Open(i), NEW rd \in 0 .. i.register_nr, NEW rs
  PROVE  Kept(i, Learn(i, bb, rd, rs))
<1>1. PICK c : c = Cached(i, bb, "numeric_value", rs)
  OBVIOUS
<1>2. Kept(i, c) /\ Good(c)
  BY <1>1, CachedLike, CachedKept DEF Like
<1>3. Typed(c) /\ rd \in 0 .. c.register_nr
  BY <1>2 DEF Kept
<1>4. PICK d : d = Put(c, bb, "numeric_value", rd, c.bbs[bb].numeric_value[rs])
  OBVIOUS
<1>5. Kept(i, d)
  BY <1>2, <1>3, <1>4, PutKept, KeptKept
<1>6. Learn(i, bb, rd, rs) \in {c, d}
  BY <1>1, <1>4 DEF Learn, Learnt
<1> QED BY <1>2, <1>5, <1>6

(* The register of a move is a new one.                                      *)
LEMMA MovGiven ==
  ASSUME NEW i, Good(i), Typed(i), NEW bb \in Open(i), NEW rs \in 0 .. i.register_nr
  PROVE  Given(i, Mov(i, bb, rs)) /\ Mov(i, bb, rs).reg = i.register_nr + 1
<1>1. PICK inst : inst = Inst("MOV", 0, rs, 0)
  OBVIOUS
<1>2. inst.type = "MOV" /\ "rd" \in DOMAIN inst /\ inst.rs = rs /\ inst.rt = 0
  BY <1>1 DEF Inst
<1>3. Operates(i.register_nr, inst)
  BY <1>2 DEF Operates, Typed
<1>4. PICK n : n = Fresh(i, bb, inst)
  OBVIOUS
<1>5. Given(i, n) /\ n.reg = i.register_nr + 1
  BY <1>3, <1>4, FreshGiven
<1>6. Good(n) /\ bb \in Open(n) /\ Typed(n) /\ n.reg \in 0 .. n.register_nr
  BY <1>4, <1>5, FreshLike DEF Like, Given, Typed
<1>7. PICK j : j = Learn(n, bb, n.reg, rs)
  OBVIOUS
<1>8. Kept(n, j)
  BY <1>6, <1>7, LearnKept
<1>9. Mov(i, bb, rs) = j
  BY <1>1, <1>4, <1>7 DEF Mov
<1>10. Given(i, j)
  BY <1>5, <1>6, <1>8, KeptGiven, GivenGiven
<1> QED BY <1>5, <1>8, <1>9, <1>10 DEF Kept

LEMMA MovUpperKept ==
  ASSUME NEW i, Good(i), Typed(i), NEW bb \in Open(i), NEW rd \in 1 .. i.register_nr,
         NEW rs \in 0 .. i.register_nr
  PROVE  Kept(i, MovUpper(i, bb, rd, rs))
<1>1. PICK inst : inst = Inst("MOV", rd, rs, 0)
  OBVIOUS
<1>2. inst.type = "MOV" /\ inst.rd = rd /\ inst.rs = rs /\ inst.rt = 0
  BY <1>1 DEF Inst
<1>3. Fits(i.register_nr, inst)
  BY <1>2 DEF Fits, Typed
<1>4. PICK n : n = Emit(i, bb, inst)
  OBVIOUS
<1>5. Kept(i, n) /\ Good(n) /\ bb \in Open(n)
  BY <1>3, <1>4, EmitKept, EmitLike DEF Like
<1>6. Typed(n) /\ rd \in 0 .. n.register_nr
  BY <1>5 DEF Kept
<1>7. Kept(n, Learn(n, bb, rd, rs))
  BY <1>5, <1>6, LearnKept
<1> QED BY <1>1, <1>4, <1>5, <1>7, KeptKept DEF MovUpper

LEMMA ExtendedKept ==
  ASSUME NEW i, Good(i), Typed(i), NEW dominator
  PROVE  Kept(i, Extended(i, dominator))
<1>1. PICK j : j = Extended(i, dominator)
  OBVIOUS
<1>2. PICK new : new = NewBlock(dominator)
  OBVIOUS
<1>3. /\ j.bbs = Append(i.bbs, new) /\ j.register_nr = i.register_nr /\ j.reg = i.reg
      /\ j.captured = i.captured
  BY <1>1, <1>2 DEF Extended, Good, IsBuilder
<1>4. PICK n : n = Len(i.bbs) /\ n \in Nat
  BY SeqShape DEF Good
<1>5. /\ Len(j.bbs) = n + 1 /\ j.bbs[n + 1] = new /\ \A b \in 1 .. n : j.bbs[b] = i.bbs[b]
  BY <1>3, <1>4, AppendedIs DEF Good
<1>6. i.register_nr \in Nat
  BY DEF Typed
<1>7. FitsBlock(i.register_nr, n + 1, new)
  <2>1. IsSeq(<<>>) /\ Len(<<>>) = 0
    BY DEF IsSeq
  <2>2. PICK t : t = With(Empty, 0, 0)
    OBVIOUS
  <2>3. DOMAIN t = {0} /\ t[0] = 0
    BY <2>2 DEF With, Empty
  <2>4. /\ new.insts = <<>> /\ new.br_reg = 0 /\ new.then_bb = 0 /\ new.else_bb = 0
        /\ new.constant_table = t /\ new.numeric_value = t
    BY <1>2, <2>2 DEF NewBlock, None
  <2> QED BY <1>4, <1>6, <2>1, <2>3, <2>4 DEF FitsBlock
<1>8. ASSUME NEW b \in 1 .. n PROVE FitsBlock(i.register_nr, n + 1, i.bbs[b])
  <2>1. FitsBlock(i.register_nr, n, i.bbs[b])
    BY <1>4 DEF Typed
  <2> QED BY <1>4, <1>6, <2>1, FitsMore
<1>9. \A b \in 1 .. n + 1 : FitsBlock(i.register_nr, n + 1, j.bbs[b])
  <2>1. \A b \in 1 .. n + 1 : b \in 1 .. n \/ b = n + 1
    BY <1>4
  <2> QED BY <1>5, <1>7, <1>8, <2>1
<1>10. Kept(i, j)
  BY <1>3, <1>5, <1>9 DEF Kept, Typed
<1> QED BY <1>1, <1>10

LEMMA BranchKept ==
  ASSUME NEW i, Good(i), Typed(i), NEW bb, NEW rd \in 0 .. i.register_nr,
         NEW then_bb \in 0 .. Len(i.bbs), NEW else_bb \in 0 .. Len(i.bbs),
         NEW j, j.register_nr = i.register_nr, j.reg = i.reg, j.captured = i.captured,
         Replaces(j.bbs, i.bbs, bb,
                  [i.bbs[bb] EXCEPT !.br_reg = rd, !.then_bb = then_bb, !.else_bb = else_bb])
  PROVE  Kept(i, j)
<1>1. PICK b : b = i.bbs[bb]
  OBVIOUS
<1>2. PICK c : c = [b EXCEPT !.br_reg = rd, !.then_bb = then_bb, !.else_bb = else_bb]
  OBVIOUS
<1>3. ASSUME bb \in 1 .. Len(i.bbs) PROVE FitsBlock(i.register_nr, Len(i.bbs), c)
  <2>1. IsBlock(b) /\ FitsBlock(i.register_nr, Len(i.bbs), b)
    BY <1>1, <1>3 DEF Good, Typed
  <2>2. /\ c.insts = b.insts /\ c.br_reg = rd /\ c.then_bb = then_bb /\ c.else_bb = else_bb
        /\ c.constant_table = b.constant_table /\ c.numeric_value = b.numeric_value
    BY <1>2, <2>1 DEF IsBlock
  <2> QED BY <2>1, <2>2 DEF FitsBlock
<1>4. Replaces(j.bbs, i.bbs, bb, c)
  BY <1>1, <1>2
<1> QED BY <1>3, <1>4, OneBlockKept

LEMMA BrKept ==
  ASSUME NEW i, Good(i), Typed(i), NEW bb \in Open(i), NEW rd \in 0 .. i.register_nr,
         NEW then_bb \in 0 .. Len(i.bbs), NEW else_bb \in 0 .. Len(i.bbs)
  PROVE  Kept(i, Br(i, bb, rd, then_bb, else_bb))
<1>1. PICK n : n = NotEnd(i, bb)
  OBVIOUS
<1>2. Kept(i, n) /\ Good(n) /\ n.bbs = i.bbs
  BY <1>1, NotEndKept, NotEndLike DEF Like
<1>3. PICK block : block = [n.bbs[bb] EXCEPT !.br_reg = rd, !.then_bb = then_bb, !.else_bb = else_bb]
  OBVIOUS
<1>4. PICK j : j = Br(i, bb, rd, then_bb, else_bb)
  OBVIOUS
<1>5. j = [n EXCEPT !.bbs = [@ EXCEPT ![bb] = block]]
  BY <1>1, <1>3, <1>4 DEF Br
<1>6. /\ j.register_nr = n.register_nr /\ j.reg = n.reg /\ j.captured = n.captured
      /\ j.bbs = [n.bbs EXCEPT ![bb] = block]
  BY <1>2, <1>5 DEF Good, IsBuilder
<1>7. Replaces(j.bbs, n.bbs, bb,
               [n.bbs[bb] EXCEPT !.br_reg = rd, !.then_bb = then_bb, !.else_bb = else_bb])
  BY <1>3, <1>6 DEF Replaces
<1>8. Typed(n) /\ rd \in 0 .. n.register_nr
  BY <1>2 DEF Kept
<1>9. Kept(n, j)
  BY <1>2, <1>6, <1>7, <1>8, BranchKept
<1> QED BY <1>2, <1>4, <1>9, KeptKept

LEMMA JKept ==
  ASSUME NEW i, Good(i), Typed(i), NEW bb \in Open(i), NEW successor_bb \in 0 .. Len(i.bbs)
  PROVE  Kept(i, J(i, bb, successor_bb))
<1>1. PICK n : n = NotEnd(i, bb)
  OBVIOUS
<1>2. Kept(i, n) /\ Good(n) /\ n.bbs = i.bbs
  BY <1>1, NotEndKept, NotEndLike DEF Like
<1>3. bb \in 1 .. Len(n.bbs) /\ IsBlock(n.bbs[bb]) /\ FitsBlock(n.register_nr, Len(n.bbs), n.bbs[bb])
  BY <1>2 DEF Kept, Typed, Open, Good
<1>4. PICK then_bb : then_bb = n.bbs[bb].then_bb /\ then_bb \in 0 .. Len(n.bbs)
  BY <1>3 DEF FitsBlock
<1>5. PICK block : block = [n.bbs[bb] EXCEPT !.br_reg = 0, !.else_bb = successor_bb]
  OBVIOUS
<1>6. block = [n.bbs[bb] EXCEPT !.br_reg = 0, !.then_bb = then_bb, !.else_bb = successor_bb]
  BY <1>3, <1>4, <1>5 DEF IsBlock
<1>7. PICK j : j = J(i, bb, successor_bb)
  OBVIOUS
<1>8. j = [n EXCEPT !.bbs = [@ EXCEPT ![bb] = block]]
  BY <1>1, <1>5, <1>7 DEF J
<1>9. /\ j.register_nr = n.register_nr /\ j.reg = n.reg /\ j.captured = n.captured
      /\ j.bbs = [n.bbs EXCEPT ![bb] = block]
  BY <1>2, <1>8 DEF Good, IsBuilder
<1>10. PICK rd : rd = 0
  OBVIOUS
<1>11. Replaces(j.bbs, n.bbs, bb,
               [n.bbs[bb] EXCEPT !.br_reg = rd, !.then_bb = then_bb, !.else_bb = successor_bb])
  BY <1>6, <1>9, <1>10, Zenon DEF Replaces
<1>12. Kept(n, j)
  <2>1. Typed(n) /\ rd \in 0 .. n.register_nr
    BY <1>2, <1>10 DEF Kept, Typed
  <2>2. successor_bb \in 0 .. Len(n.bbs)
    BY <1>2
  <2> QED BY <1>2, <1>4, <1>9, <1>11, <2>1, <2>2, BranchKept
<1> QED BY <1>2, <1>7, <1>12, KeptKept

LEMMA CurrentKept ==
  ASSUME NEW i, Good(i), Typed(i), NEW bb
  PROVE  Kept(i, [i EXCEPT !.current_bb = bb])
<1>1. PICK j : j = [i EXCEPT !.current_bb = bb]
  OBVIOUS
<1>2. j.bbs = i.bbs /\ j.register_nr = i.register_nr /\ j.reg = i.reg /\ j.captured = i.captured
  BY <1>1 DEF Good, IsBuilder
<1>3. Kept(i, j)
  BY <1>2 DEF Kept, Typed
<1> QED BY <1>1, <1>3

------------------------------------------------------------------------------
(* Scopes: their tables name registers that exist.                           *)
IsScope(s) == DOMAIN s = {"symbol_table", "upper_table", "variable", "stale"}
InRegs(nr, table) == \A n \in DOMAIN table : table[n] \in 1 .. nr
Scoped(ss, nr) ==
  /\ IsSeq(ss) /\ Len(ss) > 0
  /\ \A k \in 1 .. Len(ss) : /\ IsScope(ss[k])
                             /\ InRegs(nr, ss[k].symbol_table) /\ InRegs(nr, ss[k].upper_table)

LEMMA MinIs ==
  ASSUME NEW T \in SUBSET Nat, T # {}
  PROVE  Min(T) \in T /\ \A k \in T : Min(T) <= k
<1>1. \E m \in T : \A k \in T : m <= k
  BY NatMin
<1> QED BY <1>1 DEF Min

LEMMA ScopedMore ==
  ASSUME NEW ss, NEW nr \in Nat, NEW nr2 \in Nat, nr <= nr2, Scoped(ss, nr)
  PROVE  Scoped(ss, nr2)
<1>1. \A table : InRegs(nr, table) => InRegs(nr2, table)
  BY DEF InRegs
<1> QED BY <1>1 DEF Scoped

LEMMA ExistsIs ==
  ASSUME NEW ss, IsSeq(ss), NEW n
  PROVE  Exists(ss, n) <=>
           \E k \in 1 .. Len(ss) : n \in DOMAIN ss[k].symbol_table \cup DOMAIN ss[k].upper_table
<1>1. DOMAIN ss = 1 .. Len(ss)
  BY SeqShape
<1> QED BY <1>1 DEF Exists, Range

LEMMA LookupIs ==
  ASSUME NEW ss, NEW nr, Scoped(ss, nr), NEW n, Exists(ss, n)
  PROVE  Lookup(ss, n) \in 1 .. nr
<1> DEFINE S == {k \in DOMAIN ss : n \in DOMAIN ss[k].symbol_table \cup DOMAIN ss[k].upper_table}
<1>1. DOMAIN ss = 1 .. Len(ss) /\ Len(ss) \in Nat
  BY SeqShape DEF Scoped
<1>2. S \in SUBSET Nat /\ S # {}
  <2>1. \E k \in 1 .. Len(ss) : n \in DOMAIN ss[k].symbol_table \cup DOMAIN ss[k].upper_table
    BY ExistsIs DEF Scoped
  <2> QED BY <1>1, <2>1
<1>3. At(ss, n) = Min(S)
  BY DEF At
<1>4. At(ss, n) \in S
  <2> HIDE DEF S
  <2> QED BY <1>2, <1>3, MinIs
<1>5. PICK s : s = ss[At(ss, n)]
  OBVIOUS
<1>6. /\ InRegs(nr, s.symbol_table) /\ InRegs(nr, s.upper_table)
      /\ n \in DOMAIN s.symbol_table \cup DOMAIN s.upper_table
  BY <1>1, <1>4, <1>5 DEF Scoped
<1>7. Lookup(ss, n) = IF n \in DOMAIN s.symbol_table THEN s.symbol_table[n] ELSE s.upper_table[n]
  BY <1>5 DEF Lookup
<1> QED BY <1>6, <1>7 DEF InRegs

(* j comes from i by reading what may capture names: those that are in no    *)
(* scope.                                                                    *)
Met(i, j, ss) ==
  /\ Typed(j) /\ i.register_nr <= j.register_nr /\ DOMAIN i.captured \subseteq DOMAIN j.captured
  /\ \A n \in DOMAIN j.captured \ DOMAIN i.captured : ~Exists(ss, n)

LEMMA GivenMet ==
  ASSUME NEW i, NEW j, NEW ss, Given(i, j)
  PROVE  Met(i, j, ss)
BY DEF Given, Met

LEMMA MetMet ==
  ASSUME NEW i, NEW j, NEW k, NEW ss, Typed(i), Met(i, j, ss), Met(j, k, ss)
  PROVE  Met(i, k, ss)
BY DEF Met, Typed

LEMMA MetScoped ==
  ASSUME NEW i, NEW j, NEW ss, Typed(i), Met(i, j, ss), Scoped(ss, i.register_nr)
  PROVE  Scoped(ss, j.register_nr)
BY ScopedMore DEF Met, Typed

LEMMA FoundMet ==
  ASSUME NEW i, Good(i), Typed(i), NEW ss, Scoped(ss, i.register_nr), NEW n
  PROVE  Met(i, Found(i, ss, n), ss) /\ (Exists(ss, n) \/ n \in DOMAIN Found(i, ss, n).captured)
<1>1. PICK f : f = Found(i, ss, n)
  OBVIOUS
<1>2. ASSUME NEW r \in 1 .. i.register_nr, f = [i EXCEPT !.reg = r] PROVE Met(i, f, ss) /\ f.captured = i.captured
  <2>1. /\ f.bbs = i.bbs /\ f.register_nr = i.register_nr /\ f.reg = r /\ f.captured = i.captured
    BY <1>2 DEF Good, IsBuilder
  <2>2. i.register_nr \in Nat /\ r \in 0 .. i.register_nr
    BY DEF Typed
  <2>3. Given(i, f)
    BY <2>1, <2>2, SameBlocksGiven
  <2> QED BY <2>1, <2>3, GivenMet
<1>3. CASE Exists(ss, n)
  <2>1. f = [i EXCEPT !.reg = Lookup(ss, n)]
    BY <1>1, <1>3 DEF Found
  <2>2. Lookup(ss, n) \in 1 .. i.register_nr
    BY <1>3, LookupIs
  <2> QED BY <1>1, <1>2, <1>3, <2>1, <2>2
<1>4. CASE ~Exists(ss, n) /\ n \in DOMAIN i.captured
  <2>1. f = [i EXCEPT !.reg = i.captured[n]]
    BY <1>1, <1>4 DEF Found
  <2>2. i.captured[n] \in 1 .. i.register_nr
    BY <1>4 DEF Typed
  <2> QED BY <1>1, <1>2, <1>4, <2>1, <2>2
<1>5. CASE ~Exists(ss, n) /\ n \notin DOMAIN i.captured
  <2>1. PICK a : a = Allocated(i)
    OBVIOUS
  <2>2. Good(a) /\ Given(i, a) /\ a.register_nr = i.register_nr + 1 /\ a.reg = i.register_nr + 1
    BY <2>1, AllocatedGiven, AllocatedLike DEF Like
  <2>3. PICK captured : captured = With(a.captured, n, a.reg)
    OBVIOUS
  <2>4. PICK list : list = With(a.capture_list, Enclosing[n], a.reg)
    OBVIOUS
  <2>5. f = Capture(i, n)
    BY <1>1, <1>5 DEF Found
  <2>6. f = [a EXCEPT !.captured = captured, !.capture_list = list]
    BY <2>1, <2>3, <2>4, <2>5 DEF Capture
  <2>7. /\ f.bbs = a.bbs /\ f.register_nr = a.register_nr /\ f.reg = a.reg /\ f.captured = captured
    BY <2>2, <2>6 DEF Good, IsBuilder
  <2>8. /\ DOMAIN captured = DOMAIN i.captured \cup {n}
        /\ \A m \in DOMAIN captured : captured[m] = IF m = n THEN a.reg ELSE i.captured[m]
    BY <2>2, <2>3 DEF With, Given
  <2>9. a.register_nr \in Nat /\ a.reg \in 1 .. a.register_nr /\ i.register_nr \in Nat
    BY <2>2 DEF Given, Typed
  <2>10. \A m \in DOMAIN captured : captured[m] \in 1 .. a.register_nr
    <3>1. \A m \in DOMAIN i.captured : i.captured[m] \in 1 .. a.register_nr
      BY <2>2 DEF Given, Typed
    <3> QED BY <2>8, <2>9, <3>1
  <2>11. Typed(f)
    BY <2>2, <2>7, <2>10 DEF Given, Typed
  <2>12. Met(i, f, ss)
    BY <1>5, <2>2, <2>7, <2>8, <2>9, <2>11 DEF Met
  <2> QED BY <1>1, <2>7, <2>8, <2>12
<1> QED BY <1>3, <1>4, <1>5

LEMMA ReadMet ==
  ASSUME NEW i, Good(i), Typed(i), NEW ss, Scoped(ss, i.register_nr), NEW n
  PROVE  Met(i, Read(i, ss, n), ss)
<1>1. PICK d : d = Doubt(i, Exists(ss, n) /\ Stale(ss, n))
  OBVIOUS
<1>2. Kept(i, d) /\ Good(d)
  BY <1>1, DoubtKept, DoubtLike DEF Like
<1>3. Typed(d) /\ Scoped(ss, d.register_nr)
  BY <1>2 DEF Kept
<1>4. Met(d, Found(d, ss, n), ss)
  BY <1>2, <1>3, FoundMet
<1>5. Met(i, d, ss)
  BY <1>2, KeptGiven, GivenMet
<1> QED BY <1>1, <1>4, <1>5, MetMet DEF Read

LEMMA NewClosureMet ==
  ASSUME NEW i, Good(i), Typed(i), i.current_bb \in Open(i), NEW ss, Scoped(ss, i.register_nr),
         NEW names, Len(names) \in Nat
  PROVE  Met(i, NewClosure(i, ss, names), ss)
<1>1. PICK N : N = Len(names) /\ N \in Nat
  OBVIOUS
<1>2. PICK c : /\ c[0] = [ir |-> i, list |-> Empty]
               /\ \A k \in 1 .. N : c[k] = [ir |-> Read(c[k - 1].ir, ss, names[k]),
                    list |-> With(c[k - 1].list, Read(c[k - 1].ir, ss, names[k]).reg, k)]
               /\ NewClosure(i, ss, names) =
                    Fresh(c[N].ir, i.current_bb, Inst("NEW_CLS", 0, c[N].list, Len(names)))
  <2>1. PICK c : NewClosureBy(c, i, ss, names)
    BY <1>1, NewClosureIs
  <2> QED BY <1>1, <2>1 DEF NewClosureBy
<1>3. c[0].ir = i /\ \A k \in 1 .. N : c[k].ir = Read(c[k - 1].ir, ss, names[k])
  <2>1. c[0].ir = i
    BY <1>2
  <2>2. ASSUME NEW k \in 1 .. N PROVE c[k].ir = Read(c[k - 1].ir, ss, names[k])
    <3>1. PICK r : r = Read(c[k - 1].ir, ss, names[k])
      OBVIOUS
    <3>2. c[k] = [ir |-> r, list |-> With(c[k - 1].list, r.reg, k)]
      BY <1>2, <3>1, Zenon
    <3> QED BY <3>1, <3>2
  <2> QED BY <2>1, <2>2
<1> DEFINE T == {n \in Nat : n <= N => Like(i, c[n].ir) /\ Met(i, c[n].ir, ss)}
<1>4. 0 \in T
  BY <1>3, LikeSelf DEF Met, Typed
<1>5. ASSUME NEW n \in Nat, n \in T PROVE n + 1 \in T
  <2> SUFFICES ASSUME n + 1 <= N PROVE Like(i, c[n + 1].ir) /\ Met(i, c[n + 1].ir, ss)
    OBVIOUS
  <2>1. PICK x : x = c[n].ir
    OBVIOUS
  <2>2. Like(i, x) /\ Good(x) /\ Met(i, x, ss) /\ Typed(x)
    BY <1>1, <1>5, <2>1 DEF Like, Met
  <2>3. n + 1 \in 1 .. N /\ (n + 1) - 1 = n
    BY <1>1
  <2>4. c[n + 1].ir = Read(x, ss, names[n + 1])
    BY <1>3, <2>1, <2>3
  <2>5. Scoped(ss, x.register_nr)
    BY <2>2, MetScoped
  <2>6. PICK y : y = Read(x, ss, names[n + 1])
    OBVIOUS
  <2>7. Met(x, y, ss) /\ Like(x, y)
    BY <2>2, <2>5, <2>6, ReadMet, ReadLike
  <2>8. Met(i, y, ss) /\ Like(i, y)
    BY <2>2, <2>7, MetMet, LikeLike
  <2> QED BY <2>4, <2>6, <2>8
<1>6. N \in T
  <2> HIDE DEF T
  <2> QED BY <1>1, <1>4, <1>5, NatInd
<1>7. PICK r : r = c[N].ir
  OBVIOUS
<1>8. Like(i, r) /\ Good(r) /\ i.current_bb \in Open(r) /\ Met(i, r, ss) /\ Typed(r)
  BY <1>1, <1>6, <1>7 DEF Like, Met
<1>9. PICK inst : inst = Inst("NEW_CLS", 0, c[N].list, Len(names))
  OBVIOUS
<1>10. inst.type = "NEW_CLS" /\ "rd" \in DOMAIN inst
  BY <1>9 DEF Inst
<1>11. Operates(r.register_nr, inst)
  BY <1>10 DEF Operates, Ops
<1>12. Given(r, Fresh(r, i.current_bb, inst))
  BY <1>8, <1>11, FreshGiven
<1>13. Met(r, Fresh(r, i.current_bb, inst), ss)
  BY <1>12, GivenMet
<1> QED BY <1>2, <1>7, <1>8, <1>9, <1>13, MetMet

LEMMA NegativeGiven ==
  ASSUME NEW i, Good(i), Typed(i), i.current_bb \in Open(i), NEW r \in 0 .. i.register_nr
  PROVE  Given(i, Negative(i, r))
<1>1. PICK z : z = Li(i, i.current_bb, 0)
  OBVIOUS
<1>2. Given(i, z) /\ Good(z) /\ i.current_bb \in Open(z)
  BY <1>1, LiGiven, LiLike DEF Like
<1>3. Typed(z) /\ z.reg \in 0 .. z.register_nr /\ r \in 0 .. z.register_nr
  BY <1>2 DEF Given, Typed
<1>4. Given(z, Binary(z, i.current_bb, "SUB", z.reg, r))
  BY <1>2, <1>3, BinaryGiven DEF Ops
<1> QED BY <1>1, <1>2, <1>4, GivenGiven DEF Negative

LEMMA CompareGiven ==
  ASSUME NEW i, Good(i), Typed(i), i.current_bb \in Open(i), NEW op \in Binaries,
         NEW l \in 0 .. i.register_nr, NEW r \in 0 .. i.register_nr
  PROVE  Given(i, Compare(i, op, l, r))
<1>1. PICK bb : bb = i.current_bb /\ bb \in Open(i)
  OBVIOUS
<1>2. PICK equal : equal = Binary(i, bb, "SEQ", l, r)
  OBVIOUS
<1>3. Given(i, equal) /\ Good(equal) /\ bb \in Open(equal) /\ equal.current_bb = bb
  BY <1>1, <1>2, BinaryGiven, BinaryLike DEF Like, Ops
<1>4. Typed(equal) /\ equal.reg \in 0 .. equal.register_nr
  BY <1>3 DEF Given, Typed
<1>5. CASE op = ">"
  BY <1>1, <1>5, BinaryGiven DEF Compare, Ops
<1>6. CASE op = ">="
  BY <1>1, <1>6, BinaryGiven DEF Compare, Ops
<1>7. CASE op = "!="
  <2>1. Given(equal, Lnot(equal, bb, equal.reg))
    BY <1>3, <1>4, LnotGiven
  <2>2. Compare(i, op, l, r) = Lnot(equal, bb, equal.reg)
    BY <1>1, <1>2, <1>3, <1>7 DEF Compare, Inverted
  <2> QED BY <1>3, <2>1, <2>2, GivenGiven
<1>8. CASE op \notin {">", ">=", "!="}
  <2>1. op \in Ops
    BY <1>8 DEF Binaries
  <2>2. Compare(i, op, l, r) = Binary(i, bb, op, l, r)
    BY <1>1, <1>8 DEF Compare
  <2> QED BY <1>1, <2>1, <2>2, BinaryGiven
<1> QED BY <1>5, <1>6, <1>7, <1>8

(* What is known of the registers of operands while an expression is read.   *)
Holds(i, c, ss, d) ==
  /\ Met(i, c.ir, ss)
  /\ IsSeq(c.operands) /\ Len(c.operands) = d
  /\ \A k \in 1 .. d : c.operands[k] \in 0 .. c.ir.register_nr
  /\ \A k \in 1 .. Len(c.chains) : c.chains[k].temp_reg \in 1 .. c.ir.register_nr

(* n operands make place for one.                                            *)
LEMMA GiveIs ==
  ASSUME NEW s, IsSeq(s), NEW n \in 0 .. Len(s), NEW x
  PROVE  LET t == <<x>> \o SubSeq(s, n + 1, Len(s)) IN
         /\ IsSeq(t) /\ Len(t) = Len(s) - n + 1 /\ t[1] = x
         /\ \A k \in 1 .. Len(s) - n : t[k + 1] = s[n + k]
<1>1. PICK m : m = Len(s) /\ m \in Nat
  BY SeqShape
<1>2. PICK u : u = SubSeq(s, n + 1, m)
  OBVIOUS
<1>3. IsSeq(u) /\ Len(u) = m - n /\ \A k \in 1 .. m - n : u[k] = s[n + k]
  <2> DEFINE S == {s[k] : k \in DOMAIN s}
  <2>1. DOMAIN s = 1 .. m
    BY <1>1, SeqShape
  <2>2. \A k \in n + 1 .. m : s[k] \in S
    BY <1>1, <2>1
  <2>3. n + 1 \in Int /\ m \in Int
    BY <1>1
  <2> HIDE DEF S
  <2>4. /\ SubSeq(s, n + 1, m) \in Seq(S)
        /\ Len(SubSeq(s, n + 1, m)) = IF n + 1 <= m THEN m - (n + 1) + 1 ELSE 0
        /\ \A k \in 1 .. m - (n + 1) + 1 : SubSeq(s, n + 1, m)[k] = s[(n + 1) + k - 1]
    BY <2>2, <2>3, SubSeqProperties
  <2>5. IsSeq(u)
    BY <1>2, <2>4, SeqIs
  <2>6. Len(u) = m - n
    BY <1>1, <1>2, <2>4
  <2>7. ASSUME NEW k \in 1 .. m - n PROVE u[k] = s[n + k]
    <3>1. k \in 1 .. m - (n + 1) + 1 /\ (n + 1) + k - 1 = n + k
      BY <1>1
    <3> QED BY <1>2, <2>4, <3>1
  <2> QED BY <2>5, <2>6, <2>7
<1>4. PICK t : t = <<x>> \o u
  OBVIOUS
<1>5. IsSeq(t) /\ Len(t) = Len(u) + 1 /\ t[1] = x /\ \A k \in 1 .. Len(u) : t[k + 1] = u[k]
  BY <1>3, <1>4, PushedIs
<1>6. IsSeq(t) /\ Len(t) = m - n + 1 /\ t[1] = x /\ \A k \in 1 .. m - n : t[k + 1] = s[n + k]
  BY <1>1, <1>3, <1>5
<1> QED BY <1>1, <1>2, <1>4, <1>6

(* An operator that takes n operands and gives the register of j.            *)
Gives(c, d, n, j) ==
  /\ d.ir = j /\ d.operands = <<j.reg>> \o SubSeq(c.operands, n + 1, Len(c.operands))

LEMMA GivesHolds ==
  ASSUME NEW i, Typed(i), NEW ss, NEW c, NEW d \in Nat, Holds(i, c, ss, d), NEW n \in 0 .. d,
         NEW j, Met(c.ir, j, ss), NEW x, Gives(c, x, n, j),
         \A k \in 1 .. Len(x.chains) : x.chains[k].temp_reg \in 1 .. c.ir.register_nr
  PROVE  Holds(i, x, ss, d - n + 1)
<1>1. Met(i, j, ss)
  BY MetMet DEF Holds
<1>2. Typed(c.ir) /\ Typed(j) /\ c.ir.register_nr <= j.register_nr
  BY DEF Holds, Met
<1>3. c.ir.register_nr \in Nat /\ j.register_nr \in Nat /\ j.reg \in 0 .. j.register_nr
  BY <1>2 DEF Typed
<1>4. PICK s : s = c.operands
  OBVIOUS
<1>5. IsSeq(s) /\ Len(s) = d /\ \A k \in 1 .. d : s[k] \in 0 .. j.register_nr
  BY <1>2, <1>3, <1>4 DEF Holds
<1>6. PICK t : t = <<j.reg>> \o SubSeq(s, n + 1, Len(s))
  OBVIOUS
<1>7. /\ IsSeq(t) /\ Len(t) = Len(s) - n + 1 /\ t[1] = j.reg
      /\ \A k \in 1 .. Len(s) - n : t[k + 1] = s[n + k]
  <2>1. n \in 0 .. Len(s)
    BY <1>5
  <2>2. PICK x0 : x0 = j.reg
    OBVIOUS
  <2>3. t = <<x0>> \o SubSeq(s, n + 1, Len(s))
    BY <1>6, <2>2
  <2>4. PICK u : u = <<x0>> \o SubSeq(s, n + 1, Len(s))
    OBVIOUS
  <2>5. /\ IsSeq(u) /\ Len(u) = Len(s) - n + 1 /\ u[1] = x0
        /\ \A k \in 1 .. Len(s) - n : u[k + 1] = s[n + k]
    BY <1>5, <2>1, <2>4, GiveIs
  <2> QED BY <2>2, <2>3, <2>4, <2>5
<1>8. ASSUME NEW k \in 1 .. d - n + 1 PROVE t[k] \in 0 .. j.register_nr
  <2>1. CASE k = 1
    BY <1>3, <1>7, <2>1
  <2>2. CASE k # 1
    <3>1. k - 1 \in 1 .. Len(s) - n /\ (k - 1) + 1 = k /\ n + (k - 1) \in 1 .. d
      BY <1>5, <2>2
    <3>2. t[k] = s[n + (k - 1)]
      BY <1>7, <3>1
    <3> QED BY <1>5, <3>1, <3>2
  <2> QED BY <2>1, <2>2
<1>9. x.ir = j /\ x.operands = t
  BY <1>4, <1>6 DEF Gives
<1>10. \A k \in 1 .. Len(x.chains) : x.chains[k].temp_reg \in 1 .. j.register_nr
  BY <1>2, <1>3
<1> QED BY <1>1, <1>5, <1>7, <1>8, <1>9, <1>10 DEF Holds

LEMMA OtherHolds ==
  ASSUME NEW i, Typed(i), NEW ss, Scoped(ss, i.register_nr), NEW c, IsReader(c),
         Good(c.ir), c.ir.current_bb \in Open(c.ir), NEW d \in Nat, Holds(i, c, ss, d),
         NEW t, t.op \in Leaves \cup Binaries \cup {"NEG", "NOT"}, d >= Needs(t.op),
         t.op = "FUNCTION" => Len(t.names) \in Nat
  PROVE  Holds(i, Step(c, ss, t), ss, IF t.op \in Leaves THEN d + 1 ELSE IF t.op \in Binaries THEN d - 1 ELSE d)
<1>1. PICK x : x = Step(c, ss, t)
  OBVIOUS
<1>2. PICK ir0 : ir0 = c.ir
  OBVIOUS
<1>3. Good(ir0) /\ ir0.current_bb \in Open(ir0) /\ Typed(ir0) /\ Scoped(ss, ir0.register_nr)
  BY <1>2, MetScoped DEF Holds, Met
<1>4. \A k \in 1 .. d : c.operands[k] \in 0 .. ir0.register_nr
  BY <1>2 DEF Holds
<1>5. PICK r : r = c.operands[1]
  OBVIOUS
<1>6. ASSUME NEW n \in 0 .. d, NEW j, Met(ir0, j, ss),
             x = [c EXCEPT !.ir = j, !.operands = <<j.reg>> \o SubSeq(@, n + 1, Len(@))]
      PROVE  Holds(i, x, ss, d - n + 1)
  <2>1. x.ir = j /\ x.chains = c.chains /\ x.operands = <<j.reg>> \o SubSeq(c.operands, n + 1, Len(c.operands))
    BY <1>6 DEF IsReader
  <2>2. Gives(c, x, n, j)
    BY <2>1 DEF Gives
  <2>3. \A k \in 1 .. Len(x.chains) : x.chains[k].temp_reg \in 1 .. c.ir.register_nr
    BY <2>1 DEF Holds
  <2> QED BY <1>2, <1>6, <2>2, <2>3, GivesHolds
<1>12. PICK zero : zero = 0 /\ zero \in 0 .. d
  OBVIOUS
<1>7. CASE t.op = "NUM"
  <2>1. PICK j : j = Li(ir0, ir0.current_bb, t.n)
    OBVIOUS
  <2>2. Met(ir0, j, ss)
    BY <1>3, <2>1, LiGiven, GivenMet
  <2>3. x = [c EXCEPT !.ir = j, !.operands = <<j.reg>> \o SubSeq(@, zero + 1, Len(@))]
    BY <1>1, <1>2, <1>7, <1>12, <2>1 DEF Step
  <2>4. Holds(i, x, ss, d - zero + 1)
    BY <1>6, <1>12, <2>2, <2>3
  <2> QED BY <1>1, <1>7, <1>12, <2>4 DEF Leaves
<1>8. CASE t.op = "VAR"
  <2>1. PICK j : j = Read(ir0, ss, t.name)
    OBVIOUS
  <2>2. Met(ir0, j, ss)
    BY <1>3, <2>1, ReadMet
  <2>3. x = [c EXCEPT !.ir = j, !.operands = <<j.reg>> \o SubSeq(@, zero + 1, Len(@))]
    BY <1>1, <1>2, <1>8, <1>12, <2>1 DEF Step
  <2>4. Holds(i, x, ss, d - zero + 1)
    BY <1>6, <1>12, <2>2, <2>3
  <2> QED BY <1>1, <1>8, <1>12, <2>4 DEF Leaves
<1>9. CASE t.op = "FUNCTION"
  <2>1. PICK j : j = NewClosure(ir0, ss, t.names)
    OBVIOUS
  <2>2. Met(ir0, j, ss)
    BY <1>3, <1>9, <2>1, NewClosureMet
  <2>3. x = [c EXCEPT !.ir = j, !.operands = <<j.reg>> \o SubSeq(@, zero + 1, Len(@))]
    BY <1>1, <1>2, <1>9, <1>12, <2>1 DEF Step
  <2>4. Holds(i, x, ss, d - zero + 1)
    BY <1>6, <1>12, <2>2, <2>3
  <2> QED BY <1>1, <1>9, <1>12, <2>4 DEF Leaves
<1>10. CASE t.op \in {"NEG", "NOT"}
  <2>1. 1 \in 0 .. d /\ r \in 0 .. ir0.register_nr
    BY <1>4, <1>5, <1>10 DEF Needs, Leaves, Binaries, Ops
  <2>2. PICK j : j = IF t.op = "NEG" THEN Negative(ir0, r) ELSE Inverted(ir0, r)
    OBVIOUS
  <2>3. Given(ir0, Negative(ir0, r)) /\ Given(ir0, Inverted(ir0, r))
    BY <1>3, <2>1, NegativeGiven, LnotGiven DEF Inverted
  <2>4. Met(ir0, j, ss)
    BY <2>2, <2>3, GivenMet
  <2>5. x = [c EXCEPT !.ir = j, !.operands = <<j.reg>> \o SubSeq(@, 1 + 1, Len(@))]
    BY <1>1, <1>2, <1>5, <1>10, <2>2 DEF Step
  <2>6. Holds(i, x, ss, d - 1 + 1)
    BY <1>6, <2>1, <2>4, <2>5
  <2> QED BY <1>1, <1>10, <2>6 DEF Leaves, Binaries, Ops
<1>11. CASE t.op \in Binaries
  <2>1. 2 \in 0 .. d /\ r \in 0 .. ir0.register_nr /\ c.operands[2] \in 0 .. ir0.register_nr
    BY <1>4, <1>5, <1>11 DEF Needs, Leaves, Binaries, Ops
  <2>2. PICK j : j = Compare(ir0, t.op, c.operands[2], r)
    OBVIOUS
  <2>3. Met(ir0, j, ss)
    BY <1>3, <1>11, <2>1, <2>2, CompareGiven, GivenMet
  <2>4. t.op \notin {"NUM", "VAR", "FUNCTION", "NEG", "NOT", "FIRST", "AND", "OR", "LAST"}
    BY <1>11 DEF Binaries, Ops
  <2>5. x = [c EXCEPT !.ir = j, !.operands = <<j.reg>> \o SubSeq(@, 2 + 1, Len(@))]
    BY <1>1, <1>2, <1>5, <2>2, <2>4 DEF Step
  <2>6. Holds(i, x, ss, d - 2 + 1)
    BY <1>6, <2>1, <2>3, <2>5
  <2>7. d - 2 + 1 = d - 1
    OBVIOUS
  <2> QED BY <1>1, <1>11, <2>4, <2>6, <2>7 DEF Leaves
<1> QED BY <1>7, <1>8, <1>9, <1>10, <1>11 DEF Leaves

LEMMA FirstHolds ==
  ASSUME NEW i, Typed(i), NEW ss, NEW c, IsReader(c), Good(c.ir),
         NEW d \in Nat, Holds(i, c, ss, d), IsSeq(c.chains), NEW t, t.op = "FIRST"
  PROVE  Holds(i, Step(c, ss, t), ss, d)
<1>1. PICK ir0 : ir0 = c.ir
  OBVIOUS
<1>2. PICK a : a = Allocated(ir0)
  OBVIOUS
<1>3. /\ Good(a) /\ Given(ir0, a) /\ a.register_nr = ir0.register_nr + 1 /\ a.reg = ir0.register_nr + 1
      /\ Typed(ir0) /\ Typed(a)
  BY <1>1, <1>2, AllocatedGiven, AllocatedLike DEF Like, Holds, Met, Given
<1>4. PICK j : j = First(ir0)
  OBVIOUS
<1>5. j = Extended(a, ir0.current_bb)
  BY <1>2, <1>4 DEF First
<1>6. Kept(a, j)
  BY <1>3, <1>5, ExtendedKept
<1>7. /\ Given(ir0, j) /\ j.register_nr = ir0.register_nr + 1 /\ j.reg = ir0.register_nr + 1
      /\ ir0.register_nr \in Nat
  BY <1>3, <1>6, KeptGiven, GivenGiven DEF Kept, Typed
<1>8. Met(i, j, ss)
  BY <1>1, <1>7, GivenMet, MetMet DEF Holds
<1>9. PICK y : y = [temp_reg |-> j.reg, expr_end |-> Newest(j)]
  OBVIOUS
<1>10. PICK x : x = Step(c, ss, t)
  OBVIOUS
<1>11. x = [c EXCEPT !.ir = j, !.chains = <<y>> \o @]
  BY <1>1, <1>4, <1>9, <1>10 DEF Step
<1>12. PICK s : s = c.chains
  OBVIOUS
<1>13. PICK u : u = <<y>> \o s
  OBVIOUS
<1>14. x.ir = j /\ x.operands = c.operands /\ x.chains = u
  BY <1>11, <1>12, <1>13 DEF IsReader
<1>15. Len(u) = Len(s) + 1 /\ u[1] = y /\ (\A k \in 1 .. Len(s) : u[k + 1] = s[k]) /\ Len(s) \in Nat
  <2>1. IsSeq(s)
    BY <1>12
  <2>2. Len(u) = Len(s) + 1 /\ u[1] = y /\ \A k \in 1 .. Len(s) : u[k + 1] = s[k]
    BY <1>13, <2>1, PushedIs
  <2> QED BY <2>1, <2>2, SeqShape
<1>16. ASSUME NEW k \in 1 .. Len(u) PROVE u[k].temp_reg \in 1 .. j.register_nr
  <2>1. CASE k = 1
    BY <1>7, <1>9, <1>15, <2>1
  <2>2. CASE k # 1
    <3>1. k - 1 \in 1 .. Len(s) /\ (k - 1) + 1 = k
      BY <1>15, <2>2
    <3>2. u[k] = s[k - 1] /\ s[k - 1].temp_reg \in 1 .. ir0.register_nr
      BY <1>1, <1>12, <1>15, <3>1 DEF Holds
    <3> QED BY <1>7, <3>2
  <2> QED BY <2>1, <2>2
<1>17. \A k \in 1 .. d : c.operands[k] \in 0 .. j.register_nr
  BY <1>1, <1>7 DEF Holds
<1>18. Holds(i, x, ss, d)
  BY <1>8, <1>14, <1>16, <1>17 DEF Holds
<1> QED BY <1>10, <1>18

------------------------------------------------------------------------------
LEMMA BranchHolds ==
  ASSUME NEW i, Good(i), Typed(i), NEW ss, NEW c, IsReader(c), NEW depth \in Nat, Reading(i, c, depth),
         depth > 0, NEW d \in Nat \ {0}, Holds(i, c, ss, d), NEW t, t.op \in {"AND", "OR"}
  PROVE  Holds(i, Step(c, ss, t), ss, d - 1)
<1>1. PICK ir0 : ir0 = c.ir
  OBVIOUS
<1>2. PICK N : N = Len(ir0.bbs)
  OBVIOUS
<1>3. PICK bb : bb = ir0.current_bb
  OBVIOUS
<1>4. Good(ir0) /\ N \in Nat /\ Len(i.bbs) \in Nat /\ bb \in Open(ir0) /\ Typed(ir0)
  BY <1>1, <1>2, <1>3, SeqShape DEF Reading, Good, Holds, Met
<1>5. IsSeq(c.chains) /\ Len(c.chains) = depth /\ 1 \in 1 .. depth /\ Head(c.chains) = c.chains[1]
  <2>1. IsSeq(c.chains) /\ Len(c.chains) = depth /\ c.chains # <<>>
    BY DEF Reading
  <2> QED BY <2>1, PoppedIs
<1>6. PICK temp_reg : temp_reg = Head(c.chains).temp_reg /\ temp_reg \in 1 .. ir0.register_nr
  BY <1>1, <1>5 DEF Holds
<1>7. PICK expr_end : expr_end = Head(c.chains).expr_end /\ expr_end \in 0 .. N
  BY <1>1, <1>2, <1>4, <1>5 DEF Reading
<1>8. PICK s : s = c.operands
  OBVIOUS
<1>9. IsSeq(s) /\ Len(s) = d /\ \A k \in 1 .. d : s[k] \in 0 .. ir0.register_nr
  BY <1>1, <1>8 DEF Holds
<1>10. PICK r : r = s[1] /\ r \in 0 .. ir0.register_nr
  BY <1>9
<1>11. PICK m : m = MovUpper(ir0, bb, temp_reg, r)
  OBVIOUS
<1>12. Good(m) /\ Len(m.bbs) = N /\ Open(m) = Open(ir0) /\ Kept(ir0, m) /\ Typed(m)
  <2>1. Like(ir0, m)
    BY <1>4, <1>11, MovUpperLike
  <2>2. Kept(ir0, m)
    BY <1>4, <1>6, <1>10, <1>11, MovUpperKept
  <2>3. Good(m) /\ Len(m.bbs) = N /\ Open(m) = Open(ir0)
    BY <1>2, <2>1 DEF Like
  <2>4. Typed(m)
    BY <2>2 DEF Kept
  <2> QED BY <2>2, <2>3, <2>4
<1>13. PICK x : x = Extended(m, bb)
  OBVIOUS
<1>14. Good(x) /\ Len(x.bbs) = N + 1 /\ Open(x) = Open(ir0) \cup {N + 1} /\ Kept(m, x) /\ Typed(x)
  <2>1. bb \in 0 .. Len(m.bbs)
    BY <1>2, <1>4, <1>12 DEF Open
  <2> QED BY <1>12, <1>13, <2>1, ExtendedIs, ExtendedKept DEF Kept
<1>15. PICK u : u = Doubt(x, Holder(ir0, bb, "numeric_value", r) # None)
  OBVIOUS
<1>16. Good(u) /\ Len(u.bbs) = N + 1 /\ bb \in Open(u) /\ Kept(x, u) /\ Typed(u)
  BY <1>4, <1>14, <1>15, DoubtLike, DoubtKept DEF Like, Kept
<1>17. PICK else_bb : else_bb = IF t.op = "AND" THEN expr_end ELSE N + 1
  OBVIOUS
<1>18. PICK then_bb : then_bb = IF t.op = "AND" THEN N + 1 ELSE expr_end
  OBVIOUS
<1>19. else_bb \in 0 .. N + 1 /\ then_bb \in 0 .. N + 1
  BY <1>4, <1>7, <1>17, <1>18
<1>20. Kept(ir0, u)
  BY <1>12, <1>14, <1>16, KeptKept
<1>21. temp_reg \in 0 .. u.register_nr
  BY <1>4, <1>6, <1>20 DEF Kept, Typed
<1>22. PICK b : b = Br(u, bb, temp_reg, then_bb, else_bb)
  OBVIOUS
<1>23. Kept(u, b) /\ Typed(b)
  BY <1>16, <1>19, <1>21, <1>22, BrKept DEF Kept
<1>24. else_bb # None
  <2>1. Head(c.chains).expr_end \in Len(i.bbs) + 1 .. N
    BY <1>1, <1>2, <1>5 DEF Reading
  <2> QED BY <1>4, <1>7, <1>17, <2>1 DEF None
<1>25. Good(b)
  BY <1>16, <1>22, <1>24, BrLess DEF Less
<1>26. PICK j : j = [b EXCEPT !.current_bb = N + 1]
  OBVIOUS
<1>27. Kept(b, j)
  BY <1>23, <1>25, <1>26, CurrentKept
<1>28. Kept(ir0, j)
  BY <1>20, <1>23, <1>27, KeptKept
<1>29. Branch(ir0, t.op, r, temp_reg, expr_end) = j
  BY <1>2, <1>3, <1>11, <1>13, <1>15, <1>17, <1>18, <1>22, <1>26 DEF Branch, Newest
<1>30. PICK y : y = Step(c, ss, t)
  OBVIOUS
<1>31. y = [c EXCEPT !.ir = j, !.operands = Tail(@)]
  BY <1>1, <1>6, <1>7, <1>8, <1>10, <1>29, <1>30 DEF Step
<1>32. PICK v : v = Tail(s)
  OBVIOUS
<1>33. y.ir = j /\ y.chains = c.chains /\ y.operands = v
  BY <1>8, <1>31, <1>32 DEF IsReader
<1>34. IsSeq(v) /\ Len(v) = d - 1 /\ \A k \in 1 .. d - 1 : v[k] = s[k + 1]
  <2>1. s # <<>>
    BY <1>9
  <2> QED BY <1>9, <1>32, <2>1, PoppedIs
<1>35. \A k \in 1 .. d - 1 : v[k] \in 0 .. j.register_nr
  <2>1. \A k \in 1 .. d - 1 : k + 1 \in 1 .. d
    OBVIOUS
  <2> QED BY <1>9, <1>28, <1>34, <2>1 DEF Kept
<1>36. Met(i, j, ss)
  <2>1. Met(ir0, j, ss)
    BY <1>4, <1>28, KeptGiven, GivenMet
  <2> QED BY <1>1, <2>1, MetMet DEF Holds
<1>37. \A k \in 1 .. Len(c.chains) : c.chains[k].temp_reg \in 1 .. j.register_nr
  BY <1>1, <1>28 DEF Holds, Kept
<1>38. Holds(i, y, ss, d - 1)
  BY <1>33, <1>34, <1>35, <1>36, <1>37 DEF Holds
<1> QED BY <1>30, <1>38

LEMMA LastHolds ==
  ASSUME NEW i, Good(i), Typed(i), NEW ss, NEW c, IsReader(c), NEW depth \in Nat, Reading(i, c, depth),
         depth > 0, NEW d \in Nat \ {0}, Holds(i, c, ss, d), NEW t, t.op = "LAST"
  PROVE  Holds(i, Step(c, ss, t), ss, d)
<1>1. PICK ir0 : ir0 = c.ir
  OBVIOUS
<1>2. PICK N : N = Len(ir0.bbs)
  OBVIOUS
<1>3. PICK bb : bb = ir0.current_bb
  OBVIOUS
<1>4. Good(ir0) /\ N \in Nat /\ Len(i.bbs) \in Nat /\ bb \in Open(ir0) /\ Typed(ir0)
  BY <1>1, <1>2, <1>3, SeqShape DEF Reading, Good, Holds, Met
<1>5. PICK q : q = Tail(c.chains)
  OBVIOUS
<1>6. /\ Len(c.chains) = depth /\ 1 \in 1 .. depth /\ Head(c.chains) = c.chains[1]
      /\ Len(q) = depth - 1 /\ \A k \in 1 .. depth - 1 : q[k] = c.chains[k + 1]
  <2>1. IsSeq(c.chains) /\ Len(c.chains) = depth /\ c.chains # <<>>
    BY DEF Reading
  <2> QED BY <1>5, <2>1, PoppedIs
<1>7. PICK temp_reg : temp_reg = Head(c.chains).temp_reg /\ temp_reg \in 1 .. ir0.register_nr
  BY <1>1, <1>6 DEF Holds
<1>8. PICK expr_end : expr_end = Head(c.chains).expr_end /\ expr_end \in 0 .. N /\ expr_end # None
  <2>1. Head(c.chains).expr_end \in Len(i.bbs) + 1 .. N
    BY <1>1, <1>2, <1>6 DEF Reading
  <2> QED BY <1>4, <2>1 DEF None
<1>9. PICK r : r = c.operands[1] /\ r \in 0 .. ir0.register_nr
  BY <1>1 DEF Holds
<1>10. PICK m : m = MovUpper(ir0, bb, temp_reg, r)
  OBVIOUS
<1>11. Good(m) /\ Len(m.bbs) = N /\ Open(m) = Open(ir0) /\ Kept(ir0, m) /\ Typed(m)
  BY <1>2, <1>4, <1>7, <1>9, <1>10, MovUpperLike, MovUpperKept DEF Like, Kept
<1>12. PICK b : b = J(m, bb, expr_end)
  OBVIOUS
<1>13. Kept(m, b) /\ Good(b) /\ Typed(b)
  BY <1>4, <1>8, <1>11, <1>12, JKept, JLess DEF Kept, Less
<1>14. PICK j : j = [b EXCEPT !.current_bb = expr_end, !.reg = temp_reg]
  OBVIOUS
<1>15. Kept(ir0, b)
  BY <1>11, <1>13, KeptKept
<1>16. /\ j.bbs = b.bbs /\ j.register_nr = b.register_nr /\ j.reg = temp_reg
       /\ j.captured = b.captured
  BY <1>13, <1>14 DEF Good, IsBuilder
<1>17. b.register_nr \in Nat /\ b.register_nr = ir0.register_nr /\ temp_reg \in 0 .. b.register_nr
  BY <1>4, <1>7, <1>15 DEF Kept, Typed
<1>18. Given(b, j)
  BY <1>13, <1>16, <1>17, SameBlocksGiven
<1>19. Met(ir0, j, ss) /\ j.register_nr = ir0.register_nr
  BY <1>4, <1>15, <1>16, <1>17, <1>18, KeptGiven, GivenGiven, GivenMet
<1>20. Ended(ir0, r, temp_reg, expr_end) = j
  BY <1>3, <1>10, <1>12, <1>14 DEF Ended
<1>21. PICK y : y = Step(c, ss, t)
  OBVIOUS
<1>22. y = [[c EXCEPT !.ir = j, !.operands = <<j.reg>> \o SubSeq(@, 1 + 1, Len(@))] EXCEPT !.chains = Tail(@)]
  BY <1>1, <1>7, <1>8, <1>9, <1>20, <1>21 DEF Step
<1>23. y.ir = j /\ y.chains = q /\ y.operands = <<j.reg>> \o SubSeq(c.operands, 1 + 1, Len(c.operands))
  BY <1>5, <1>22 DEF IsReader
<1>24. PICK n : n = 1 /\ n \in 0 .. d
  OBVIOUS
<1>25. Gives(c, y, n, j)
  BY <1>23, <1>24 DEF Gives
<1>26. \A k \in 1 .. Len(y.chains) : y.chains[k].temp_reg \in 1 .. c.ir.register_nr
  <2>1. \A k \in 1 .. depth - 1 : k + 1 \in 1 .. depth
    OBVIOUS
  <2> QED BY <1>6, <1>23, <2>1 DEF Holds
<1>27. Holds(i, y, ss, d - n + 1)
  BY <1>1, <1>19, <1>24, <1>25, <1>26, GivesHolds
<1>28. d - n + 1 = d
  BY <1>24
<1> QED BY <1>21, <1>27, <1>28

(* Reading an expression captures and allocates, and no more.                *)
LEMMA NextHolds ==
  ASSUME NEW i, Good(i), Typed(i), NEW ss, Scoped(ss, i.register_nr), NEW e, WellFormed(e),
         NEW k \in 1 .. Len(e), NEW c, ReadTo(i, c, e, k - 1), Holds(i, c, ss, Operands(e, k - 1)),
         Operands(e, k - 1) \in Nat
  PROVE  Holds(i, Step(c, ss, e[k]), ss, Operands(e, k)) /\ Operands(e, k) \in Nat
<1>1. PICK t : t = e[k]
  OBVIOUS
<1>2. PICK d : d = Operands(e, k - 1) /\ d \in Nat
  OBVIOUS
<1>3. PICK depth : depth = Chains(e, k - 1) /\ depth \in Nat
  BY DEF ReadTo
<1>4. /\ t.op \in Leaves \cup Binaries \cup {"NEG", "NOT", "FIRST", "AND", "OR", "LAST"}
      /\ d >= Needs(t.op)
      /\ t.op \in {"AND", "OR", "LAST"} => depth > 0
      /\ t.op = "FUNCTION" => Len(t.names) \in Nat
  BY <1>1, <1>2, <1>3, WellFormedIs
<1>5. k \in Nat \ {0}
  BY WellFormedIs
<1>6. Operands(e, k) = IF t.op \in Leaves THEN d + 1
                       ELSE IF t.op \in {"AND", "OR"} \cup Binaries THEN d - 1 ELSE d
  BY <1>1, <1>2, <1>5, OperandsNext
<1>7. IsReader(c) /\ Reading(i, c, depth) /\ Holds(i, c, ss, d)
  BY <1>2, <1>3 DEF ReadTo
<1>8. Good(c.ir) /\ c.ir.current_bb \in Open(c.ir) /\ IsSeq(c.chains)
  BY <1>7 DEF Reading
<1>9. PICK y : y = Step(c, ss, t)
  OBVIOUS
<1>10. CASE t.op = "FIRST"
  <2>1. Operands(e, k) = d
    BY <1>6, <1>10 DEF Leaves, Binaries, Ops
  <2>2. Holds(i, y, ss, d)
    BY <1>2, <1>7, <1>8, <1>9, <1>10, FirstHolds
  <2> QED BY <1>1, <1>2, <1>9, <2>1, <2>2
<1>11. CASE t.op \in {"AND", "OR"}
  <2>1. Operands(e, k) = d - 1 /\ d \in Nat \ {0}
    BY <1>2, <1>4, <1>6, <1>11 DEF Leaves, Binaries, Ops, Needs
  <2>2. Holds(i, y, ss, d - 1)
    BY <1>3, <1>4, <1>7, <1>9, <1>11, <2>1, BranchHolds
  <2> QED BY <1>1, <1>9, <2>1, <2>2
<1>12. CASE t.op = "LAST"
  <2>1. Operands(e, k) = d /\ d \in Nat \ {0}
    BY <1>2, <1>4, <1>6, <1>12 DEF Leaves, Binaries, Ops, Needs
  <2>2. Holds(i, y, ss, d)
    BY <1>3, <1>4, <1>7, <1>9, <1>12, <2>1, LastHolds
  <2> QED BY <1>1, <1>9, <2>1, <2>2
<1>13. CASE t.op \in Leaves \cup Binaries \cup {"NEG", "NOT"}
  <2>1. PICK n : n = IF t.op \in Leaves THEN d + 1 ELSE IF t.op \in Binaries THEN d - 1 ELSE d
    OBVIOUS
  <2>2. Operands(e, k) = n
    BY <1>6, <1>13, <2>1 DEF Leaves, Binaries, Ops
  <2>3. n \in Nat
    BY <1>2, <1>4, <1>13, <2>1 DEF Leaves, Binaries, Ops, Needs
  <2>4. Holds(i, y, ss, n)
    BY <1>2, <1>4, <1>7, <1>8, <1>9, <1>13, <2>1, OtherHolds
  <2> QED BY <1>1, <1>9, <2>2, <2>3, <2>4
<1> QED BY <1>4, <1>10, <1>11, <1>12, <1>13

LEMMA CompileMet ==
  ASSUME NEW i, Good(i), Typed(i), i.current_bb \in Open(i), NEW ss, Scoped(ss, i.register_nr),
         NEW e, WellFormed(e)
  PROVE  Met(i, Compile(i, ss, e), ss)
<1>1. PICK N : N = Len(e) /\ N \in Nat /\ Chains(e, N) = 0
  BY WellFormedIs
<1>2. PICK f : /\ f[0] = [ir |-> i, operands |-> <<>>, chains |-> <<>>]
               /\ \A k \in 1 .. N : f[k] = Step(f[k - 1], ss, e[k])
               /\ Compile(i, ss, e) = f[N].ir
  <2>1. PICK f : CompileBy(f, i, ss, e)
    BY <1>1, CompileIs
  <2> QED BY <1>1, <2>1 DEF CompileBy
<1> DEFINE T == {n \in Nat : n <= N => ReadTo(i, f[n], e, n) /\ Holds(i, f[n], ss, Operands(e, n)) /\ Operands(e, n) \in Nat}
<1>3. 0 \in T
  <2>1. ReadTo(i, f[0], e, 0)
    BY <1>2, ReadNothing
  <2>2. Operands(e, 0) = 0
    BY OperandsIs
  <2>3. PICK c : c = f[0]
    OBVIOUS
  <2>4. c.ir = i /\ c.operands = <<>> /\ c.chains = <<>>
    BY <1>2, <2>3
  <2>5. IsSeq(<<>>) /\ Len(<<>>) = 0
    BY DEF IsSeq
  <2>6. Met(i, i, ss)
    BY DEF Met, Typed
  <2>7. Holds(i, c, ss, 0)
    BY <2>4, <2>5, <2>6 DEF Holds
  <2> QED BY <2>1, <2>2, <2>3, <2>7
<1>4. ASSUME NEW n \in Nat, n \in T PROVE n + 1 \in T
  <2> SUFFICES ASSUME n + 1 <= N
               PROVE ReadTo(i, f[n + 1], e, n + 1) /\ Holds(i, f[n + 1], ss, Operands(e, n + 1)) /\ Operands(e, n + 1) \in Nat
    OBVIOUS
  <2>1. PICK m : m = n + 1 /\ m \in 1 .. N /\ m - 1 = n
    BY <1>1
  <2>2. PICK x : x = f[m - 1]
    OBVIOUS
  <2>3. ReadTo(i, x, e, m - 1) /\ Holds(i, x, ss, Operands(e, m - 1)) /\ Operands(e, m - 1) \in Nat
    BY <1>1, <1>4, <2>1, <2>2
  <2>4. f[m] = Step(x, ss, e[m])
    BY <1>2, <2>1, <2>2
  <2> HIDE DEF T
  <2>5. m \in 1 .. Len(e)
    BY <1>1, <2>1
  <2>6. ReadTo(i, Step(x, ss, e[m]), e, m)
    BY <2>3, <2>5, ReadNext
  <2>7. Holds(i, Step(x, ss, e[m]), ss, Operands(e, m)) /\ Operands(e, m) \in Nat
    BY <2>3, <2>5, NextHolds
  <2> QED BY <2>1, <2>4, <2>6, <2>7
<1>5. N \in T
  <2> HIDE DEF T
  <2> QED BY <1>1, <1>3, <1>4, NatInd
<1>6. Holds(i, f[N], ss, Operands(e, N))
  BY <1>1, <1>5
<1> QED BY <1>2, <1>6 DEF Holds

(* A value that is not doubtful has a register that nothing else has.        *)
LEMMA ValuedMet ==
  ASSUME NEW i, Good(i), Typed(i), i.current_bb \in Open(i), NEW ss, Scoped(ss, i.register_nr),
         NEW e, WellFormed(e)
  PROVE  LET v == Valued(i, ss, e) IN
         Met(i, v, ss) /\ (~v.doubtful => v.reg \in i.register_nr + 1 .. v.register_nr)
<1>1. PICK c : c = Compile(i, ss, e)
  OBVIOUS
<1>2. Good(c) /\ c.current_bb \in Open(c) /\ Met(i, c, ss) /\ Typed(c)
  <2>1. Reads(i, c)
    BY <1>1, CompileReads
  <2>2. Met(i, c, ss)
    BY <1>1, CompileMet
  <2> QED BY <2>1, <2>2 DEF Reads, Met
<1>3. /\ c.reg \in 0 .. c.register_nr /\ c.register_nr \in Nat /\ i.register_nr \in Nat
      /\ i.register_nr <= c.register_nr
  BY <1>2 DEF Typed, Met
<1>4. PICK v : v = Valued(i, ss, e)
  OBVIOUS
<1>5. CASE c.register_nr = i.register_nr
  <2>1. v = Mov(c, c.current_bb, c.reg)
    BY <1>1, <1>4, <1>5 DEF Valued, Owned
  <2>2. Given(c, v) /\ v.reg = i.register_nr + 1
    BY <1>2, <1>3, <1>5, <2>1, MovGiven
  <2>3. Met(i, v, ss)
    BY <1>2, <2>2, GivenMet, MetMet
  <2>4. v.reg \in 0 .. v.register_nr /\ v.register_nr \in Nat
    BY <2>2 DEF Given, Typed
  <2>5. v.reg \in i.register_nr + 1 .. v.register_nr
    BY <1>3, <2>2, <2>4
  <2> QED BY <1>4, <2>3, <2>5
<1>6. CASE c.register_nr # i.register_nr
  <2>1. PICK cond : cond = (c.reg <= i.register_nr \/ c.reg \in Range(c.captured))
    OBVIOUS
  <2>2. v = Doubt(c, cond)
    BY <1>1, <1>4, <1>6, <2>1 DEF Valued, Owned
  <2>3. Kept(c, v)
    BY <1>2, <2>2, DoubtKept
  <2>4. Met(i, v, ss)
    BY <1>2, <2>3, KeptGiven, GivenMet, MetMet
  <2>5. v.doubtful = (c.doubtful \/ cond)
    BY <1>2, <2>2 DEF Doubt, Good, IsBuilder
  <2>6. ~v.doubtful => ~(c.reg <= i.register_nr)
    BY <2>1, <2>5, Zenon
  <2>7. v.reg = c.reg /\ v.register_nr = c.register_nr
    BY <2>3 DEF Kept
  <2>8. ~(c.reg <= i.register_nr) => v.reg \in i.register_nr + 1 .. v.register_nr
    BY <1>3, <2>7
  <2> QED BY <1>4, <2>4, <2>6, <2>8
<1> QED BY <1>5, <1>6

LEMMA IsKept ==
  ASSUME NEW i, Good(i), Typed(i), NEW ss, NEW variable, NEW e, NEW r \in 0 .. i.register_nr
  PROVE  Kept(i, Is(i, ss, variable, e, r))
<1>1. PICK claim : claim = [type |-> "IS", variable |-> variable, expr |-> e,
                            names |-> Variables(ss), rs |-> r]
  OBVIOUS
<1>2. Is(i, ss, variable, e, r) = Claim(i, i.current_bb, claim)
  BY <1>1 DEF Is
<1>3. claim.type = "IS" /\ claim.rs = r
  BY <1>1
<1>4. Fits(i.register_nr, claim)
  BY <1>3 DEF Fits, Ops
<1> QED BY <1>2, <1>4, ClaimKept

LEMMA WhenKept ==
  ASSUME NEW i, Good(i), Typed(i), NEW ss, NEW bb, NEW e, NEW true
  PROVE  Kept(i, When(i, ss, bb, e, true))
<1>1. PICK claim : claim = [type |-> "WHEN", expr |-> e, names |-> Variables(ss), true |-> true]
  OBVIOUS
<1>2. When(i, ss, bb, e, true) = Claim(i, bb, claim)
  BY <1>1 DEF When
<1>3. claim.type = "WHEN"
  BY <1>1
<1>4. Fits(i.register_nr, claim)
  BY <1>3 DEF Fits, Ops
<1> QED BY <1>2, <1>4, ClaimKept

(* Each of names, in the one table and in the other, has a register.         *)
LEMMA MovesKept ==
  ASSUME NEW i, Good(i), Typed(i), NEW order, Len(order) \in Nat, NEW names, NEW bb \in Open(i),
         NEW to, NEW from, \A n \in names : to[n] \in 1 .. i.register_nr /\ from[n] \in 0 .. i.register_nr
  PROVE  Kept(i, Moves(i, order, names, bb, to, from))
<1>1. PICK N : N = Len(order) /\ N \in Nat
  OBVIOUS
<1>2. PICK c : /\ c[0] = i
               /\ \A k \in 1 .. N : c[k] = IF order[k] \in names
                    THEN MovUpper(c[k - 1], bb, to[order[k]], from[order[k]]) ELSE c[k - 1]
               /\ Moves(i, order, names, bb, to, from) = c[N]
  <2>1. PICK c : MovesBy(c, i, order, names, bb, to, from)
    BY <1>1, MovesIs
  <2> QED BY <1>1, <2>1 DEF MovesBy
<1> DEFINE T == {n \in Nat : n <= N => Like(i, c[n]) /\ Kept(i, c[n])}
<1>3. 0 \in T
  BY <1>2, LikeSelf DEF Kept
<1>4. ASSUME NEW n \in Nat, n \in T PROVE n + 1 \in T
  <2> SUFFICES ASSUME n + 1 <= N PROVE Like(i, c[n + 1]) /\ Kept(i, c[n + 1])
    OBVIOUS
  <2>1. PICK x : x = c[n]
    OBVIOUS
  <2>2. Like(i, x) /\ Good(x) /\ bb \in Open(x) /\ Kept(i, x) /\ Typed(x)
    BY <1>1, <1>4, <2>1 DEF Like, Kept
  <2>3. PICK name : name = order[n + 1]
    OBVIOUS
  <2>4. n + 1 \in 1 .. N /\ (n + 1) - 1 = n
    BY <1>1
  <2>5. c[n + 1] = IF name \in names THEN MovUpper(x, bb, to[name], from[name]) ELSE x
    BY <1>2, <2>1, <2>3, <2>4
  <2>6. CASE name \in names
    <3>1. to[name] \in 1 .. x.register_nr /\ from[name] \in 0 .. x.register_nr
      BY <2>2, <2>6 DEF Kept
    <3>2. PICK y : y = MovUpper(x, bb, to[name], from[name])
      OBVIOUS
    <3>3. Like(x, y) /\ Kept(x, y)
      BY <2>2, <3>1, <3>2, MovUpperLike, MovUpperKept
    <3> QED BY <2>2, <2>5, <2>6, <3>2, <3>3, LikeLike, KeptKept
  <2>7. CASE name \notin names
    BY <2>2, <2>5, <2>7
  <2> QED BY <2>6, <2>7
<1>5. N \in T
  <2> HIDE DEF T
  <2> QED BY <1>1, <1>3, <1>4, NatInd
<1> QED BY <1>1, <1>2, <1>5

LEMMA ClaimAllKept ==
  ASSUME NEW i, Good(i), Typed(i), NEW ss, Scoped(ss, i.register_nr)
  PROVE  Kept(i, ClaimAll(i, ss))
<1>1. PICK readable : readable = {n \in DOMAIN Variables(ss) : Exists(ss, n)}
  OBVIOUS
<1>2. PICK order : order = CHOOSE o \in Orders : TRUE
  OBVIOUS
<1>3. PICK N : N = Len(order) /\ N \in Nat
  BY <1>2, OrdersAre
<1>4. PICK c : /\ c[0] = i
               /\ \A k \in 1 .. N : c[k] = IF order[k] \in readable
                    THEN Is(c[k - 1], ss, Variables(ss)[order[k]], Var(order[k]), Lookup(ss, order[k]))
                    ELSE c[k - 1]
               /\ ClaimAll(i, ss) = c[N]
  <2>1. PICK c : ClaimAllBy(c, i, ss, readable, order)
    BY <1>1, <1>2, <1>3, ClaimAllIs
  <2> QED BY <1>3, <2>1 DEF ClaimAllBy
<1> DEFINE T == {n \in Nat : n <= N => Like(i, c[n]) /\ Kept(i, c[n])}
<1>5. 0 \in T
  BY <1>4, LikeSelf DEF Kept
<1>6. ASSUME NEW n \in Nat, n \in T PROVE n + 1 \in T
  <2> SUFFICES ASSUME n + 1 <= N PROVE Like(i, c[n + 1]) /\ Kept(i, c[n + 1])
    OBVIOUS
  <2>1. PICK x : x = c[n]
    OBVIOUS
  <2>2. Like(i, x) /\ Good(x) /\ Kept(i, x) /\ Typed(x)
    BY <1>3, <1>6, <2>1 DEF Like, Kept
  <2>3. PICK name : name = order[n + 1]
    OBVIOUS
  <2>4. n + 1 \in 1 .. N /\ (n + 1) - 1 = n
    BY <1>3
  <2>5. PICK r : r = Lookup(ss, name)
    OBVIOUS
  <2>6. PICK y : y = Is(x, ss, Variables(ss)[name], Var(name), r)
    OBVIOUS
  <2>7. c[n + 1] = IF name \in readable THEN y ELSE x
    BY <1>4, <2>1, <2>3, <2>4, <2>5, <2>6, Zenon
  <2>8. CASE name \in readable
    <3>1. r \in 1 .. i.register_nr
      BY <1>1, <2>5, <2>8, LookupIs
    <3>2. r \in 0 .. x.register_nr
      BY <2>2, <3>1 DEF Kept
    <3>3. Like(x, y) /\ Kept(x, y)
      BY <2>2, <2>6, <3>2, IsLike, IsKept
    <3> QED BY <2>2, <2>7, <2>8, <3>3, LikeLike, KeptKept
  <2>9. CASE name \notin readable
    BY <2>2, <2>7, <2>9
  <2> QED BY <2>8, <2>9
<1>7. N \in T
  <2> HIDE DEF T
  <2> QED BY <1>3, <1>5, <1>6, NatInd
<1> QED BY <1>3, <1>4, <1>7

------------------------------------------------------------------------------

(* The tables of scopes: a name that a scope assigns to is defined further   *)
(* out, but for what is captured, which the base scope defines and takes for *)
(* assigned; and but for that, its register is not the one it has there.     *)
Beyond(ss, k, n) == \E m \in k + 1 .. Len(ss) : n \in DOMAIN ss[m].symbol_table
Tied(ss) ==
  /\ \A k \in 1 .. Len(ss) - 1 : \A n \in DOMAIN ss[k].upper_table : Beyond(ss, k, n)
  /\ DOMAIN ss[Len(ss)].upper_table \subseteq DOMAIN ss[Len(ss)].symbol_table
  /\ \A k \in 1 .. Len(ss), m \in 1 .. Len(ss) - 1 : k < m =>
       \A n \in DOMAIN ss[k].upper_table \cap DOMAIN ss[m].symbol_table :
         ss[k].upper_table[n] # ss[m].symbol_table[n]

(* Scopes define what they did and perhaps more.                             *)
Grown(ss, tt) ==
  /\ IsSeq(tt) /\ Len(tt) = Len(ss)
  /\ \A k \in 1 .. Len(ss) : DOMAIN ss[k].symbol_table \subseteq DOMAIN tt[k].symbol_table

LEMMA BeyondGrown ==
  ASSUME NEW ss, NEW tt, Grown(ss, tt), IsSeq(ss), NEW k \in Nat, NEW n, Beyond(ss, k, n)
  PROVE  Beyond(tt, k, n)
<1>1. Len(ss) \in Nat
  BY SeqShape
<1>2. PICK m \in k + 1 .. Len(ss) : n \in DOMAIN ss[m].symbol_table
  BY DEF Beyond
<1>3. m \in 1 .. Len(ss)
  BY <1>1
<1> QED BY <1>2, <1>3 DEF Beyond, Grown

LEMMA GrownGrown ==
  ASSUME NEW ss, NEW tt, NEW uu, Grown(ss, tt), Grown(tt, uu)
  PROVE  Grown(ss, uu)
BY DEF Grown

LEMMA TiedExists ==
  ASSUME NEW ss, NEW nr, Scoped(ss, nr), Tied(ss), NEW n, Exists(ss, n)
  PROVE  \E m \in 1 .. Len(ss) : n \in DOMAIN ss[m].symbol_table
<1>1. Len(ss) \in Nat /\ IsSeq(ss)
  BY SeqShape DEF Scoped
<1>2. PICK k \in 1 .. Len(ss) : n \in DOMAIN ss[k].symbol_table \cup DOMAIN ss[k].upper_table
  BY <1>1, ExistsIs
<1>3. CASE n \in DOMAIN ss[k].symbol_table
  BY <1>3
<1>4. CASE n \in DOMAIN ss[k].upper_table /\ k = Len(ss)
  BY <1>4 DEF Tied
<1>5. CASE n \in DOMAIN ss[k].upper_table /\ k # Len(ss)
  <2>1. Beyond(ss, k, n)
    BY <1>1, <1>5 DEF Tied
  <2>2. PICK m \in k + 1 .. Len(ss) : n \in DOMAIN ss[m].symbol_table
    BY <2>1 DEF Beyond
  <2>3. m \in 1 .. Len(ss)
    BY <1>1
  <2> QED BY <2>2, <2>3
<1> QED BY <1>2, <1>3, <1>4, <1>5

(* A new innermost scope.                                                    *)
Heads(ss, nr, h) ==
  /\ IsScope(h) /\ InRegs(nr, h.symbol_table) /\ InRegs(nr, h.upper_table)
  /\ DOMAIN ss[1].symbol_table \subseteq DOMAIN h.symbol_table
  /\ \A n \in DOMAIN h.upper_table : IF Len(ss) = 1 THEN n \in DOMAIN h.symbol_table ELSE Beyond(ss, 1, n)
  /\ \A m \in 2 .. Len(ss) - 1 : \A n \in DOMAIN h.upper_table \cap DOMAIN ss[m].symbol_table :
       h.upper_table[n] # ss[m].symbol_table[n]

LEMMA HeadTied ==
  ASSUME NEW ss, NEW nr, Scoped(ss, nr), Tied(ss), NEW h, Heads(ss, nr, h), NEW tt, Replaces(tt, ss, 1, h)
  PROVE  Scoped(tt, nr) /\ Tied(tt) /\ Grown(ss, tt)
<1>1. PICK L : L = Len(ss) /\ L \in Nat \ {0}
  BY SeqShape DEF Scoped
<1>2. IsSeq(tt) /\ Len(tt) = L /\ \A k \in 1 .. L : tt[k] = IF k = 1 THEN h ELSE ss[k]
  BY <1>1, ReplacedIs DEF Scoped
<1>3. tt[1] = h /\ \A k \in 2 .. L : k \in 1 .. L /\ tt[k] = ss[k]
  BY <1>1, <1>2
<1>4. Grown(ss, tt)
  BY <1>1, <1>2 DEF Grown, Heads
<1>5. Scoped(tt, nr)
  BY <1>1, <1>2 DEF Scoped, Heads
<1>6. ASSUME NEW k \in 1 .. L - 1, NEW n \in DOMAIN tt[k].upper_table PROVE Beyond(tt, k, n)
  <2>1. Beyond(ss, k, n)
    <3>1. CASE k = 1
      BY <1>1, <1>3, <1>6, <3>1 DEF Heads
    <3>2. CASE k # 1
      <4>1. k \in 2 .. L /\ k \in 1 .. Len(ss) - 1
        BY <1>1, <3>2
      <4> QED BY <1>3, <1>6, <4>1 DEF Tied
    <3> QED BY <3>1, <3>2
  <2> QED BY <1>4, <2>1, BeyondGrown DEF Scoped
<1>7. DOMAIN tt[L].upper_table \subseteq DOMAIN tt[L].symbol_table
  <2>1. CASE L = 1
    BY <1>1, <1>3, <2>1 DEF Heads
  <2>2. CASE L # 1
    <3>1. L \in 2 .. L
      BY <1>1, <2>2
    <3> QED BY <1>1, <1>3, <3>1 DEF Tied
  <2> QED BY <2>1, <2>2
<1>8. ASSUME NEW k \in 1 .. L, NEW m \in 1 .. L - 1, k < m,
             NEW n \in DOMAIN tt[k].upper_table \cap DOMAIN tt[m].symbol_table
      PROVE  tt[k].upper_table[n] # tt[m].symbol_table[n]
  <2>1. m \in 2 .. L - 1 /\ m \in 2 .. L
    BY <1>1, <1>8
  <2>2. tt[m] = ss[m]
    BY <1>3, <2>1
  <2>3. CASE k = 1
    BY <1>1, <1>3, <1>8, <2>1, <2>2, <2>3 DEF Heads
  <2>4. CASE k # 1
    <3>1. k \in 2 .. L
      BY <2>4
    <3>2. tt[k] = ss[k] /\ k \in 1 .. Len(ss) /\ m \in 1 .. Len(ss) - 1
      BY <1>1, <1>3, <3>1
    <3> QED BY <1>8, <2>2, <3>2 DEF Tied
  <2> QED BY <2>3, <2>4
<1>9. Tied(tt)
  BY <1>2, <1>6, <1>7, <1>8 DEF Tied
<1> QED BY <1>4, <1>5, <1>9

LEMMA TailBeyond ==
  ASSUME NEW ss, IsSeq(ss), Len(ss) > 1, NEW k \in Nat, NEW n
  PROVE  Beyond(Tail(ss), k, n) <=> Beyond(ss, k + 1, n)
<1>1. PICK L : L = Len(ss) /\ L \in Nat
  BY SeqShape
<1>2. PICK tt : tt = Tail(ss)
  OBVIOUS
<1>3. Len(tt) = L - 1 /\ \A m \in 1 .. L - 1 : tt[m] = ss[m + 1]
  <2>1. ss # <<>>
    BY <1>1
  <2> QED BY <1>1, <1>2, <2>1, PoppedIs
<1>4. ASSUME Beyond(tt, k, n) PROVE Beyond(ss, k + 1, n)
  <2>1. PICK m \in k + 1 .. L - 1 : n \in DOMAIN tt[m].symbol_table
    BY <1>3, <1>4 DEF Beyond
  <2>2. m \in 1 .. L - 1 /\ m + 1 \in (k + 1) + 1 .. L
    BY <1>1
  <2> QED BY <1>1, <1>3, <2>1, <2>2 DEF Beyond
<1>5. ASSUME Beyond(ss, k + 1, n) PROVE Beyond(tt, k, n)
  <2>1. PICK m \in (k + 1) + 1 .. L : n \in DOMAIN ss[m].symbol_table
    BY <1>1, <1>5 DEF Beyond
  <2>2. m - 1 \in 1 .. L - 1 /\ m - 1 \in k + 1 .. L - 1 /\ (m - 1) + 1 = m
    BY <1>1
  <2>3. tt[m - 1] = ss[m]
    BY <1>3, <2>2
  <2> QED BY <1>3, <2>1, <2>2, <2>3 DEF Beyond
<1> QED BY <1>2, <1>4, <1>5

LEMMA TailTied ==
  ASSUME NEW ss, NEW nr, Scoped(ss, nr), Tied(ss), Len(ss) > 1
  PROVE  Scoped(Tail(ss), nr) /\ Tied(Tail(ss))
<1>1. PICK L : L = Len(ss) /\ L \in Nat /\ L > 1
  BY SeqShape DEF Scoped
<1>2. PICK tt : tt = Tail(ss)
  OBVIOUS
<1>3. /\ IsSeq(tt) /\ Len(tt) = L - 1 /\ \A m \in 1 .. L - 1 : tt[m] = ss[m + 1] /\ m + 1 \in 1 .. L
  <2>1. ss # <<>> /\ \A m \in 1 .. L - 1 : m + 1 \in 1 .. L
    BY <1>1
  <2> QED BY <1>1, <1>2, <2>1, PoppedIs DEF Scoped
<1>4. Scoped(tt, nr)
  BY <1>1, <1>3 DEF Scoped
<1>5. ASSUME NEW k \in 1 .. (L - 1) - 1, NEW n \in DOMAIN tt[k].upper_table PROVE Beyond(tt, k, n)
  <2>1. k \in 1 .. L - 1 /\ k + 1 \in 1 .. L - 1 /\ k \in Nat
    BY <1>1
  <2>2. Beyond(ss, k + 1, n)
    BY <1>1, <1>3, <1>5, <2>1 DEF Tied
  <2> QED BY <1>1, <1>2, <2>1, <2>2, TailBeyond DEF Scoped
<1>6. DOMAIN tt[L - 1].upper_table \subseteq DOMAIN tt[L - 1].symbol_table
  <2>1. tt[L - 1] = ss[L]
    <3>1. L - 1 \in 1 .. L - 1 /\ (L - 1) + 1 = L
      BY <1>1
    <3> QED BY <1>3, <3>1
  <2> QED BY <1>1, <2>1 DEF Tied
<1>7. ASSUME NEW k \in 1 .. L - 1, NEW m \in 1 .. (L - 1) - 1, k < m,
             NEW n \in DOMAIN tt[k].upper_table \cap DOMAIN tt[m].symbol_table
      PROVE  tt[k].upper_table[n] # tt[m].symbol_table[n]
  <2>1. m \in 1 .. L - 1 /\ m + 1 \in 1 .. L - 1 /\ k + 1 \in 1 .. L /\ k + 1 < m + 1
    BY <1>1, <1>7
  <2>2. tt[k] = ss[k + 1] /\ tt[m] = ss[m + 1]
    BY <1>3, <2>1
  <2> QED BY <1>1, <1>7, <2>1, <2>2 DEF Tied
<1>8. Tied(tt)
  BY <1>3, <1>5, <1>6, <1>7 DEF Tied
<1> QED BY <1>2, <1>4, <1>8

LEMMA PushTied ==
  ASSUME NEW ss, NEW nr, Scoped(ss, nr), Tied(ss), NEW tt, NEW s, Top(tt, s, ss), IsScope(s),
         s.symbol_table = Empty, s.upper_table = Empty
  PROVE  /\ Scoped(tt, nr) /\ Tied(tt) /\ Len(tt) = Len(ss) + 1 /\ tt[Len(tt)] = ss[Len(ss)]
         /\ \A k \in Nat : \A n : Beyond(ss, k, n) => Beyond(tt, k + 1, n)
<1>1. PICK L : L = Len(ss) /\ L \in Nat \ {0}
  BY SeqShape DEF Scoped
<1>2. DOMAIN Empty = {}
  BY DEF Empty
<1>3. /\ IsSeq(tt) /\ Len(tt) = L + 1 /\ tt[1] = s
      /\ \A k \in 1 .. L : tt[k + 1] = ss[k]
  BY <1>1 DEF Top
<1>4. \A k \in 2 .. L + 1 : k - 1 \in 1 .. L /\ tt[k] = ss[k - 1]
  <2> SUFFICES ASSUME NEW k \in 2 .. L + 1 PROVE k - 1 \in 1 .. L /\ tt[k] = ss[k - 1]
    OBVIOUS
  <2>1. k - 1 \in 1 .. L /\ (k - 1) + 1 = k
    BY <1>1
  <2> QED BY <1>3, <2>1
<1>5. ASSUME NEW k \in Nat, NEW n, Beyond(ss, k, n) PROVE Beyond(tt, k + 1, n)
  <2>1. PICK m \in k + 1 .. L : n \in DOMAIN ss[m].symbol_table
    BY <1>1, <1>5 DEF Beyond
  <2>2. m \in 1 .. L /\ m + 1 \in (k + 1) + 1 .. L + 1
    BY <1>1
  <2> QED BY <1>3, <2>1, <2>2 DEF Beyond
<1>6. Scoped(tt, nr)
  <2>1. ASSUME NEW k \in 1 .. L + 1
        PROVE  IsScope(tt[k]) /\ InRegs(nr, tt[k].symbol_table) /\ InRegs(nr, tt[k].upper_table)
    <3>1. CASE k = 1
      BY <1>2, <1>3, <3>1 DEF InRegs
    <3>2. CASE k # 1
      <4>1. k \in 2 .. L + 1
        BY <3>2
      <4> QED BY <1>1, <1>4, <4>1 DEF Scoped
    <3> QED BY <3>1, <3>2
  <2> QED BY <1>1, <1>3, <2>1 DEF Scoped
<1>7. ASSUME NEW k \in 1 .. (L + 1) - 1, NEW n \in DOMAIN tt[k].upper_table PROVE Beyond(tt, k, n)
  <2>1. k \in 2 .. L + 1 /\ k - 1 \in 1 .. L - 1 /\ (k - 1) + 1 = k
    BY <1>1, <1>2, <1>3, <1>7
  <2>2. Beyond(ss, k - 1, n)
    BY <1>1, <1>4, <1>7, <2>1 DEF Tied
  <2>3. Beyond(tt, (k - 1) + 1, n)
    BY <1>5, <2>1, <2>2
  <2> QED BY <2>1, <2>3
<1>8. tt[L + 1] = ss[L]
  BY <1>1, <1>3
<1>9. ASSUME NEW k \in 1 .. L + 1, NEW m \in 1 .. (L + 1) - 1, k < m,
             NEW n \in DOMAIN tt[k].upper_table \cap DOMAIN tt[m].symbol_table
      PROVE  tt[k].upper_table[n] # tt[m].symbol_table[n]
  <2>1. k # 1
    BY <1>2, <1>3, <1>9
  <2>2. k \in 2 .. L + 1 /\ m \in 2 .. L + 1 /\ k - 1 \in 1 .. L /\ m - 1 \in 1 .. L - 1 /\ k - 1 < m - 1
    BY <1>1, <1>9, <2>1
  <2>3. tt[k] = ss[k - 1] /\ tt[m] = ss[m - 1]
    BY <1>4, <2>2
  <2> QED BY <1>1, <1>9, <2>2, <2>3 DEF Tied
<1>10. Tied(tt)
  BY <1>1, <1>3, <1>7, <1>8, <1>9 DEF Tied
<1> QED BY <1>1, <1>3, <1>5, <1>6, <1>8, <1>10

------------------------------------------------------------------------------

LEMMA OverRegs ==
  ASSUME NEW nr, NEW g, InRegs(nr, g), NEW f, InRegs(nr, f)
  PROVE  InRegs(nr, Over(g, f))
<1>1. PICK t : t = Over(g, f)
  OBVIOUS
<1>2. /\ DOMAIN t = DOMAIN g \cup DOMAIN f
      /\ \A x \in DOMAIN t : t[x] = IF x \in DOMAIN g THEN g[x] ELSE f[x]
  BY <1>1 DEF Over
<1>3. InRegs(nr, t)
  BY <1>2 DEF InRegs
<1> QED BY <1>1, <1>3

(* What is captured anew is defined by the base scope, and assigned by the   *)
(* innermost.                                                                *)
CapturedBy(tt, ss, new) ==
  /\ IsSeq(tt) /\ Len(tt) = Len(ss)
  /\ \A k \in 1 .. Len(ss) :
       /\ IsScope(tt[k])
       /\ tt[k].symbol_table = IF k = Len(ss) THEN Over(new, ss[k].symbol_table) ELSE ss[k].symbol_table
       /\ tt[k].upper_table = IF k = 1 /\ Len(ss) # 1 THEN Over(new, ss[k].upper_table) ELSE ss[k].upper_table

LEMMA CapturedIs ==
  ASSUME NEW ss, NEW nr, Scoped(ss, nr), NEW i
  PROVE  CapturedBy(Captured(ss, i), ss,
           [n \in DOMAIN i.captured \ DOMAIN ss[Len(ss)].symbol_table |-> i.captured[n]])
<1>1. PICK L : L = Len(ss) /\ L \in Nat \ {0}
  BY SeqShape DEF Scoped
<1>2. PICK base : base = ss[L]
  OBVIOUS
<1>3. Last(ss) = base
  BY <1>1, <1>2 DEF Last
<1>4. PICK new : new = [n \in DOMAIN i.captured \ DOMAIN base.symbol_table |-> i.captured[n]]
  OBVIOUS
<1>5. PICK below : below = [base EXCEPT !.symbol_table = Over(new, @)]
  OBVIOUS
<1>6. PICK d : d = [ss EXCEPT ![L] = below]
  OBVIOUS
<1>7. IsScope(base)
  BY <1>1, <1>2 DEF Scoped
<1>8. /\ IsScope(below) /\ below.symbol_table = Over(new, base.symbol_table)
      /\ below.upper_table = base.upper_table
  BY <1>5, <1>7 DEF IsScope
<1>9. IsSeq(d) /\ Len(d) = L /\ \A k \in 1 .. L : d[k] = IF k = L THEN below ELSE ss[k]
  <2>1. Replaces(d, ss, L, below) /\ IsSeq(ss)
    BY <1>6 DEF Scoped, Replaces
  <2> QED BY <1>1, <2>1, ReplacedIs
<1>10. PICK tt : tt = Captured(ss, i)
  OBVIOUS
<1>11. tt = IF L = 1 THEN d ELSE [d EXCEPT ![1].upper_table = Over(new, @)]
  BY <1>1, <1>2, <1>3, <1>4, <1>5, <1>6, <1>10 DEF Captured
<1>12. CASE L = 1
  <2>1. tt = d
    BY <1>11, <1>12
  <2>2. CapturedBy(tt, ss, new)
    BY <1>1, <1>2, <1>8, <1>9, <1>12, <2>1 DEF CapturedBy
  <2> QED BY <1>1, <1>2, <1>4, <1>10, <2>2
<1>13. CASE L # 1
  <2>1. PICK top : top = [d[1] EXCEPT !.upper_table = Over(new, @)]
    OBVIOUS
  <2>2. tt = [d EXCEPT ![1] = top]
    BY <1>11, <1>13, <2>1
  <2>3. d[1] = ss[1] /\ IsScope(ss[1])
    BY <1>1, <1>9, <1>13 DEF Scoped
  <2>4. /\ IsScope(top) /\ top.symbol_table = ss[1].symbol_table
        /\ top.upper_table = Over(new, ss[1].upper_table)
    BY <2>1, <2>3 DEF IsScope
  <2>5. Replaces(tt, d, 1, top)
    BY <2>2 DEF Replaces
  <2>6. IsSeq(tt) /\ Len(tt) = L /\ \A k \in 1 .. L : tt[k] = IF k = 1 THEN top ELSE d[k]
    BY <1>9, <2>5, ReplacedIs
  <2>7. ASSUME NEW k \in 1 .. L
        PROVE  /\ IsScope(tt[k])
               /\ tt[k].symbol_table = IF k = L THEN Over(new, ss[k].symbol_table) ELSE ss[k].symbol_table
               /\ tt[k].upper_table = IF k = 1 /\ L # 1 THEN Over(new, ss[k].upper_table) ELSE ss[k].upper_table
    <3>1. CASE k = 1
      BY <1>13, <2>4, <2>6, <3>1
    <3>2. CASE k = L
      BY <1>2, <1>8, <1>9, <1>13, <2>6, <3>2
    <3>3. CASE k # 1 /\ k # L
      BY <1>1, <1>9, <2>6, <3>3 DEF Scoped
    <3> QED BY <3>1, <3>2, <3>3
  <2>8. CapturedBy(tt, ss, new)
    BY <1>1, <2>6, <2>7 DEF CapturedBy
  <2> QED BY <1>1, <1>2, <1>4, <1>10, <2>8
<1> QED BY <1>12, <1>13

(* The names of i.captured are those that the base scope defines for it.     *)
Based(i, ss) == DOMAIN i.captured \subseteq DOMAIN ss[Len(ss)].symbol_table

LEMMA CapturedTied ==
  ASSUME NEW i, Typed(i), NEW ss, Scoped(ss, i.register_nr), Tied(ss), Based(i, ss),
         NEW j, Met(i, j, ss), NEW tt, tt = Captured(ss, j)
  PROVE  /\ Scoped(tt, j.register_nr) /\ Tied(tt) /\ Based(j, tt) /\ Grown(ss, tt)
         /\ \A k \in 1 .. Len(ss) - 1 : tt[k].symbol_table = ss[k].symbol_table
<1>1. PICK L : L = Len(ss) /\ L \in Nat \ {0}
  BY SeqShape DEF Scoped
<1>2. PICK new : new = [n \in DOMAIN j.captured \ DOMAIN ss[L].symbol_table |-> j.captured[n]]
  OBVIOUS
<1>3. CapturedBy(tt, ss, new)
  BY <1>1, <1>2, CapturedIs
<1>4. /\ IsSeq(tt) /\ Len(tt) = L
      /\ \A k \in 1 .. L :
           /\ IsScope(tt[k])
           /\ tt[k].symbol_table = IF k = L THEN Over(new, ss[k].symbol_table) ELSE ss[k].symbol_table
           /\ tt[k].upper_table = IF k = 1 /\ L # 1 THEN Over(new, ss[k].upper_table) ELSE ss[k].upper_table
  BY <1>1, <1>3 DEF CapturedBy
<1>5. /\ DOMAIN new = DOMAIN j.captured \ DOMAIN ss[L].symbol_table
      /\ \A n \in DOMAIN new : new[n] = j.captured[n]
  BY <1>2
<1>6. \A n \in DOMAIN new : ~Exists(ss, n)
  BY <1>1, <1>5 DEF Met, Based
<1>7. ASSUME NEW m \in 1 .. L, NEW n \in DOMAIN ss[m].symbol_table PROVE n \notin DOMAIN new
  <2>1. Exists(ss, n)
    BY <1>1, <1>7, ExistsIs DEF Scoped
  <2> QED BY <1>6, <2>1
<1>8. Scoped(ss, j.register_nr)
  BY MetScoped
<1>9. InRegs(j.register_nr, new)
  BY <1>5 DEF InRegs, Met, Typed
<1>10. Scoped(tt, j.register_nr)
  <2>1. ASSUME NEW k \in 1 .. L
        PROVE  InRegs(j.register_nr, tt[k].symbol_table) /\ InRegs(j.register_nr, tt[k].upper_table)
    <3>1. InRegs(j.register_nr, ss[k].symbol_table) /\ InRegs(j.register_nr, ss[k].upper_table)
      BY <1>1, <1>8 DEF Scoped
    <3> QED BY <1>4, <1>9, <3>1, OverRegs
  <2> QED BY <1>1, <1>4, <2>1 DEF Scoped
<1>11. Grown(ss, tt)
  <2>1. ASSUME NEW k \in 1 .. L PROVE DOMAIN ss[k].symbol_table \subseteq DOMAIN tt[k].symbol_table
    <3>1. PICK f : f = ss[k].symbol_table
      OBVIOUS
    <3>2. PICK t : t = tt[k].symbol_table
      OBVIOUS
    <3>3. t = Over(new, f) \/ t = f
      BY <1>4, <3>1, <3>2
    <3> QED BY <3>1, <3>2, <3>3 DEF Over
  <2> QED BY <1>1, <1>4, <2>1 DEF Grown
<1>12. \A k \in 1 .. L - 1 : tt[k].symbol_table = ss[k].symbol_table
  BY <1>1, <1>4
<1>13. DOMAIN tt[L].symbol_table = DOMAIN new \cup DOMAIN ss[L].symbol_table
  <2>1. PICK f : f = ss[L].symbol_table
    OBVIOUS
  <2>2. PICK t : t = tt[L].symbol_table
    OBVIOUS
  <2>3. t = Over(new, f)
    BY <1>1, <1>4, <2>1, <2>2
  <2> QED BY <2>1, <2>2, <2>3 DEF Over
<1>14. Based(j, tt)
  BY <1>4, <1>5, <1>13 DEF Based
<1>15. \A k \in 1 .. L : \A n \in DOMAIN tt[k].upper_table :
         \/ n \in DOMAIN new /\ k = 1 /\ L # 1
         \/ n \in DOMAIN ss[k].upper_table /\ (n \notin DOMAIN new => tt[k].upper_table[n] = ss[k].upper_table[n])
  <2> SUFFICES ASSUME NEW k \in 1 .. L, NEW n \in DOMAIN tt[k].upper_table
               PROVE  \/ n \in DOMAIN new /\ k = 1 /\ L # 1
                      \/ /\ n \in DOMAIN ss[k].upper_table
                         /\ n \notin DOMAIN new => tt[k].upper_table[n] = ss[k].upper_table[n]
    OBVIOUS
  <2>1. PICK f : f = ss[k].upper_table
    OBVIOUS
  <2>2. PICK t : t = tt[k].upper_table
    OBVIOUS
  <2>3. CASE k = 1 /\ L # 1
    <3>1. t = Over(new, f)
      BY <1>4, <2>1, <2>2, <2>3
    <3>2. DOMAIN t = DOMAIN new \cup DOMAIN f /\ \A x \in DOMAIN t : t[x] = IF x \in DOMAIN new THEN new[x] ELSE f[x]
      BY <3>1 DEF Over
    <3> QED BY <2>1, <2>2, <2>3, <3>2
  <2>4. CASE ~(k = 1 /\ L # 1)
    <3>1. t = f
      BY <1>4, <2>1, <2>2, <2>4
    <3> QED BY <2>1, <2>2, <3>1
  <2> QED BY <2>3, <2>4
<1>16. ASSUME NEW k \in 1 .. L - 1, NEW n \in DOMAIN tt[k].upper_table PROVE Beyond(tt, k, n)
  <2>1. CASE n \in DOMAIN new /\ k = 1 /\ L # 1
    <3>1. L \in k + 1 .. L
      BY <1>1, <2>1
    <3> QED BY <1>4, <1>13, <2>1, <3>1 DEF Beyond
  <2>2. CASE n \in DOMAIN ss[k].upper_table
    <3>1. Beyond(ss, k, n)
      BY <1>1, <2>2 DEF Tied
    <3> QED BY <1>11, <3>1, BeyondGrown DEF Scoped
  <2>3. k \in 1 .. L
    BY <1>1
  <2> QED BY <1>15, <2>1, <2>2, <2>3
<1>17. DOMAIN tt[L].upper_table \subseteq DOMAIN tt[L].symbol_table
  <2>1. DOMAIN ss[L].upper_table \subseteq DOMAIN ss[L].symbol_table
    BY <1>1 DEF Tied
  <2>2. tt[L].upper_table = ss[L].upper_table
    BY <1>1, <1>4
  <2> QED BY <1>13, <2>1, <2>2
<1>18. ASSUME NEW k \in 1 .. L, NEW m \in 1 .. L - 1, k < m,
              NEW n \in DOMAIN tt[k].upper_table \cap DOMAIN tt[m].symbol_table
       PROVE  tt[k].upper_table[n] # tt[m].symbol_table[n]
  <2>1. m \in 1 .. L /\ tt[m].symbol_table = ss[m].symbol_table
    BY <1>1, <1>12
  <2>2. n \notin DOMAIN new
    BY <1>7, <1>18, <2>1
  <2>3. n \in DOMAIN ss[k].upper_table /\ tt[k].upper_table[n] = ss[k].upper_table[n]
    BY <1>15, <1>18, <2>2
  <2> QED BY <1>1, <1>18, <2>1, <2>3 DEF Tied
<1>19. Tied(tt)
  BY <1>4, <1>16, <1>17, <1>18 DEF Tied
<1> QED BY <1>1, <1>10, <1>11, <1>12, <1>14, <1>19

(* A name that is given a register: let in the innermost scope, or assigned. *)
LEMMA OldHeads ==
  ASSUME NEW ss, NEW nr, Scoped(ss, nr), Tied(ss)
  PROVE  Heads(ss, nr, ss[1])
<1>1. PICK L : L = Len(ss) /\ L \in Nat \ {0}
  BY SeqShape DEF Scoped
<1>2. IsScope(ss[1]) /\ InRegs(nr, ss[1].symbol_table) /\ InRegs(nr, ss[1].upper_table)
  BY <1>1 DEF Scoped
<1>3. \A n \in DOMAIN ss[1].upper_table : IF L = 1 THEN n \in DOMAIN ss[1].symbol_table ELSE Beyond(ss, 1, n)
  <2>1. CASE L = 1
    BY <1>1, <2>1 DEF Tied
  <2>2. CASE L # 1
    <3>1. 1 \in 1 .. L - 1
      BY <1>1, <2>2
    <3> QED BY <1>1, <2>2, <3>1 DEF Tied
  <2> QED BY <2>1, <2>2
<1>4. ASSUME NEW m \in 2 .. L - 1, NEW n \in DOMAIN ss[1].upper_table \cap DOMAIN ss[m].symbol_table
      PROVE  ss[1].upper_table[n] # ss[m].symbol_table[n]
  <2>1. 1 \in 1 .. L /\ m \in 1 .. L - 1 /\ 1 < m
    BY <1>1
  <2> QED BY <1>1, <2>1 DEF Tied
<1> QED BY <1>1, <1>2, <1>3, <1>4 DEF Heads

LEMMA LetHeads ==
  ASSUME NEW ss, NEW nr, Scoped(ss, nr), Tied(ss), NEW n, NEW r \in 1 .. nr, NEW h, IsScope(h),
         h.symbol_table = With(ss[1].symbol_table, n, r), h.upper_table = ss[1].upper_table
  PROVE  Heads(ss, nr, h)
<1>1. Heads(ss, nr, ss[1])
  BY OldHeads
<1>2. PICK f : f = ss[1].symbol_table /\ InRegs(nr, f)
  BY <1>1 DEF Heads
<1>4. PICK t : t = h.symbol_table
  OBVIOUS
<1>5. DOMAIN t = DOMAIN f \cup {n} /\ \A x \in DOMAIN t : t[x] = IF x = n THEN r ELSE f[x]
  <2>1. t = With(f, n, r)
    BY <1>2, <1>4
  <2> QED BY <2>1 DEF With
<1>6. DOMAIN f \subseteq DOMAIN t
  BY <1>5
<1>3. InRegs(nr, t)
  BY <1>2, <1>5 DEF InRegs
<1> QED BY <1>1, <1>2, <1>3, <1>4, <1>6 DEF Heads

LEMMA StoreTied ==
  ASSUME NEW ss, NEW nr, Scoped(ss, nr), Tied(ss), NEW n, NEW r \in 1 .. nr,
         \E m \in 1 .. Len(ss) : n \in DOMAIN ss[m].symbol_table,
         \A m \in 1 .. Len(ss) - 1 : n \in DOMAIN ss[m].symbol_table => ss[m].symbol_table[n] # r,
         NEW tt, tt = Store(ss, n, r)
  PROVE  Scoped(tt, nr) /\ Tied(tt) /\ Grown(ss, tt)
<1>1. PICK L : L = Len(ss) /\ L \in Nat \ {0} /\ DOMAIN ss = 1 .. L
  BY SeqShape DEF Scoped
<1>2. Heads(ss, nr, ss[1])
  BY OldHeads
<1>3. PICK h : h = [ss[1] EXCEPT !.symbol_table = With(@, n, r)]
  OBVIOUS
<1>4. PICK u : u = [ss[1] EXCEPT !.upper_table = With(@, n, r)]
  OBVIOUS
<1>5. IsScope(ss[1])
  BY <1>2 DEF Heads
<1>6. /\ IsScope(h) /\ h.symbol_table = With(ss[1].symbol_table, n, r) /\ h.upper_table = ss[1].upper_table
      /\ IsScope(u) /\ u.upper_table = With(ss[1].upper_table, n, r) /\ u.symbol_table = ss[1].symbol_table
  BY <1>3, <1>4, <1>5 DEF IsScope
<1>7. CASE DefinedAtTop(ss, n)
  <2>1. Replaces(tt, ss, 1, h)
    BY <1>3, <1>7 DEF Store, Replaces
  <2>2. Heads(ss, nr, h)
    BY <1>6, LetHeads
  <2> QED BY <2>1, <2>2, HeadTied
<1>8. CASE ~DefinedAtTop(ss, n)
  <2>1. n \notin DOMAIN ss[1].symbol_table
    <3> SUFFICES ASSUME n \in DOMAIN ss[1].symbol_table PROVE FALSE
      OBVIOUS
    <3>1. PICK defining : defining = {k \in DOMAIN ss : n \in DOMAIN ss[k].symbol_table}
      OBVIOUS
    <3>2. 1 \in defining /\ defining \in SUBSET Nat /\ \A k \in defining : 1 <= k
      BY <1>1, <3>1
    <3>3. Min(defining) = 1
      <4>1. defining # {}
        BY <3>2
      <4>2. Min(defining) \in defining /\ Min(defining) <= 1
        BY <3>2, <4>1, MinIs
      <4>3. Min(defining) \in Nat /\ 1 <= Min(defining)
        BY <3>2, <4>2
      <4> QED BY <4>2, <4>3
    <3> QED BY <1>8, <3>1, <3>2, <3>3 DEF DefinedAtTop
  <2>2. Beyond(ss, 1, n) /\ L # 1
    <3>1. PICK m \in 1 .. L : n \in DOMAIN ss[m].symbol_table
      BY <1>1
    <3>2. m \in 1 + 1 .. L /\ L # 1
      BY <2>1, <3>1
    <3> QED BY <1>1, <3>1, <3>2 DEF Beyond
  <2>3. DOMAIN u.upper_table = DOMAIN ss[1].upper_table \cup {n}
        /\ \A x \in DOMAIN u.upper_table : u.upper_table[x] = IF x = n THEN r ELSE ss[1].upper_table[x]
    <3>1. PICK f : f = ss[1].upper_table
      OBVIOUS
    <3>2. PICK t : t = u.upper_table
      OBVIOUS
    <3>3. t = With(f, n, r)
      BY <1>6, <3>1, <3>2
    <3> QED BY <3>1, <3>2, <3>3 DEF With
  <2>4. InRegs(nr, u.symbol_table) /\ InRegs(nr, u.upper_table)
    BY <1>2, <1>6, <2>3 DEF Heads, InRegs
  <2>5. \A x \in DOMAIN u.upper_table : Beyond(ss, 1, x)
    BY <1>1, <1>2, <2>2, <2>3 DEF Heads
  <2>6. ASSUME NEW m \in 2 .. L - 1, NEW x \in DOMAIN u.upper_table \cap DOMAIN ss[m].symbol_table
        PROVE  u.upper_table[x] # ss[m].symbol_table[x]
    <3>1. m \in 1 .. L - 1
      BY <1>1
    <3>2. CASE x = n
      BY <1>1, <2>3, <2>6, <3>1, <3>2
    <3>3. CASE x # n
      BY <1>1, <1>2, <2>3, <2>6, <3>3 DEF Heads
    <3> QED BY <3>2, <3>3
  <2>7. Heads(ss, nr, u)
    BY <1>1, <1>6, <2>2, <2>4, <2>5, <2>6 DEF Heads
  <2>8. Replaces(tt, ss, 1, u)
    BY <1>4, <1>8 DEF Store, Replaces
  <2> QED BY <2>7, <2>8, HeadTied
<1> QED BY <1>7, <1>8

------------------------------------------------------------------------------

LEMMA TopLookup ==
  ASSUME NEW ss, IsSeq(ss), Len(ss) > 0, NEW n, n \in DOMAIN ss[1].symbol_table
  PROVE  Exists(ss, n) /\ Lookup(ss, n) = ss[1].symbol_table[n]
<1>1. DOMAIN ss = 1 .. Len(ss) /\ Len(ss) \in Nat /\ 1 \in 1 .. Len(ss)
  BY SeqShape
<1>2. PICK S : S = {k \in DOMAIN ss : n \in DOMAIN ss[k].symbol_table \cup DOMAIN ss[k].upper_table}
  OBVIOUS
<1>3. 1 \in S /\ S \in SUBSET Nat /\ S # {} /\ \A k \in S : 1 <= k
  BY <1>1, <1>2
<1>4. Min(S) \in S /\ Min(S) <= 1
  BY <1>3, MinIs
<1>5. At(ss, n) = 1
  <2>1. Min(S) \in Nat /\ 1 <= Min(S)
    BY <1>3, <1>4
  <2> QED BY <1>2, <1>4, <2>1 DEF At
<1>6. Exists(ss, n)
  BY <1>1, ExistsIs
<1> QED BY <1>5, <1>6 DEF Lookup

LEMMA TailIs ==
  ASSUME NEW ss, NEW nr, Scoped(ss, nr), Len(ss) > 1
  PROVE  /\ Len(ss) \in Nat /\ Head(ss) = ss[1] /\ IsSeq(Tail(ss)) /\ Len(Tail(ss)) = Len(ss) - 1
         /\ \A k \in 1 .. Len(ss) - 1 : Tail(ss)[k] = ss[k + 1]
         /\ Tail(ss)[1] = ss[2] /\ Tail(ss)[Len(ss) - 1] = ss[Len(ss)]
<1>1. Len(ss) \in Nat /\ IsSeq(ss) /\ ss # <<>>
  BY SeqShape DEF Scoped
<1>2. Head(ss) = ss[1] /\ IsSeq(Tail(ss)) /\ Len(Tail(ss)) = Len(ss) - 1
      /\ \A k \in 1 .. Len(ss) - 1 : Tail(ss)[k] = ss[k + 1]
  BY <1>1, PoppedIs
<1>3. 1 \in 1 .. Len(ss) - 1 /\ 1 + 1 = 2 /\ Len(ss) - 1 \in 1 .. Len(ss) - 1 /\ (Len(ss) - 1) + 1 = Len(ss)
  BY <1>1
<1>4. Tail(ss)[1] = ss[2]
  BY <1>2, <1>3
<1>5. Tail(ss)[Len(ss) - 1] = ss[Len(ss)]
  BY <1>2, <1>3
<1> QED BY <1>1, <1>2, <1>4, <1>5

(* What a scope assigns is defined in those around it.                       *)
LEMMA UpperIs ==
  ASSUME NEW ss, NEW nr, Scoped(ss, nr), Tied(ss), Len(ss) > 1, NEW n \in DOMAIN ss[1].upper_table
  PROVE  /\ Beyond(ss, 1, n) /\ ss[1].upper_table[n] \in 1 .. nr
         /\ Exists(Tail(ss), n) /\ Lookup(Tail(ss), n) \in 1 .. nr
         /\ \A m \in 2 .. Len(ss) - 1 : n \in DOMAIN ss[m].symbol_table =>
              ss[1].upper_table[n] # ss[m].symbol_table[n]
<1>1. PICK L : L = Len(ss) /\ L \in Nat /\ L > 1
  BY SeqShape DEF Scoped
<1>2. 1 \in 1 .. L - 1 /\ 1 \in 1 .. L /\ \A m \in 2 .. L - 1 : m \in 1 .. L - 1 /\ 1 < m
  BY <1>1
<1>3. Beyond(ss, 1, n)
  BY <1>1, <1>2 DEF Tied
<1>4. ss[1].upper_table[n] \in 1 .. nr
  BY <1>1, <1>2 DEF Scoped, InRegs
<1>5. \A m \in 2 .. L - 1 : n \in DOMAIN ss[m].symbol_table => ss[1].upper_table[n] # ss[m].symbol_table[n]
  BY <1>1, <1>2 DEF Tied
<1>6. PICK tt : tt = Tail(ss)
  OBVIOUS
<1>7. Scoped(tt, nr) /\ Len(tt) = L - 1 /\ \A k \in 1 .. L - 1 : tt[k] = ss[k + 1]
  BY <1>1, <1>6, TailTied, TailIs
<1>8. Exists(tt, n)
  <2>1. PICK m \in 1 + 1 .. L : n \in DOMAIN ss[m].symbol_table
    BY <1>1, <1>3 DEF Beyond
  <2>2. m - 1 \in 1 .. L - 1 /\ (m - 1) + 1 = m
    BY <1>1
  <2>3. n \in DOMAIN tt[m - 1].symbol_table
    BY <1>7, <2>1, <2>2
  <2> QED BY <1>7, <2>2, <2>3, ExistsIs DEF Scoped
<1>9. Lookup(tt, n) \in 1 .. nr
  BY <1>7, <1>8, LookupIs
<1> QED BY <1>1, <1>3, <1>4, <1>5, <1>6, <1>8, <1>9

(* Names of a scope that are now taken for assigned by the one around it.    *)
Handed(ss, names) == [n \in names |-> ss[1].upper_table[n]]

LEMMA HandedHeads ==
  ASSUME NEW ss, NEW nr, Scoped(ss, nr), Tied(ss), Len(ss) > 1, NEW names \in SUBSET DOMAIN ss[1].upper_table,
         \A n \in names : n \in DOMAIN ss[2].symbol_table => Len(ss) = 2,
         NEW h, IsScope(h), InRegs(nr, h.symbol_table),
         DOMAIN ss[2].symbol_table \subseteq DOMAIN h.symbol_table,
         h.upper_table = Over(Handed(ss, names), ss[2].upper_table)
  PROVE  Heads(Tail(ss), nr, h)
<1>1. PICK L : L = Len(ss) /\ L \in Nat /\ L > 1
  BY SeqShape DEF Scoped
<1>2. PICK tt : tt = Tail(ss)
  OBVIOUS
<1>3. Scoped(tt, nr) /\ Tied(tt) /\ Len(tt) = L - 1 /\ tt[1] = ss[2] /\ \A k \in 1 .. L - 1 : tt[k] = ss[k + 1]
  BY <1>1, <1>2, TailTied, TailIs
<1>4. Heads(tt, nr, ss[2])
  BY <1>3, OldHeads
<1>5. PICK u : u = h.upper_table
  OBVIOUS
<1>6. /\ DOMAIN u = names \cup DOMAIN ss[2].upper_table
      /\ \A n \in DOMAIN u : u[n] = IF n \in names THEN ss[1].upper_table[n] ELSE ss[2].upper_table[n]
  BY <1>5 DEF Over, Handed
<1>7. \A n \in names : /\ Beyond(ss, 1, n) /\ ss[1].upper_table[n] \in 1 .. nr
                       /\ \A m \in 2 .. L - 1 : n \in DOMAIN ss[m].symbol_table =>
                            ss[1].upper_table[n] # ss[m].symbol_table[n]
  BY <1>1, UpperIs
<1>8. InRegs(nr, u)
  BY <1>4, <1>6, <1>7 DEF InRegs, Heads
<1>9. ASSUME NEW n \in DOMAIN u PROVE IF L - 1 = 1 THEN n \in DOMAIN h.symbol_table ELSE Beyond(tt, 1, n)
  <2>1. CASE n \in names
    <3>1. PICK m \in 1 + 1 .. L : n \in DOMAIN ss[m].symbol_table
      BY <1>1, <1>7, <2>1 DEF Beyond
    <3>2. CASE L = 2
      <4>1. m = 2
        BY <3>2
      <4> QED BY <3>1, <3>2, <4>1
    <3>3. CASE L # 2
      <4>1. m # 2
        BY <1>1, <2>1, <3>1, <3>3
      <4>2. m \in (1 + 1) + 1 .. L /\ L - 1 # 1
        BY <1>1, <3>3, <4>1
      <4>3. Beyond(ss, 1 + 1, n)
        BY <1>1, <3>1, <4>2 DEF Beyond
      <4>4. PICK one : one = 1 /\ one \in Nat
        OBVIOUS
      <4>5. Beyond(ss, one + 1, n)
        BY <4>3, <4>4
      <4>6. Beyond(tt, one, n)
        BY <1>1, <1>2, <4>4, <4>5, TailBeyond DEF Scoped
      <4> QED BY <4>2, <4>4, <4>6
    <3> QED BY <3>2, <3>3
  <2>2. CASE n \notin names
    BY <1>3, <1>4, <1>6, <2>2 DEF Heads
  <2> QED BY <2>1, <2>2
<1>10. ASSUME NEW m \in 2 .. (L - 1) - 1, NEW n \in DOMAIN u \cap DOMAIN tt[m].symbol_table
       PROVE  u[n] # tt[m].symbol_table[n]
  <2>1. CASE n \in names
    <3>1. m + 1 \in 2 .. L - 1 /\ m \in 1 .. L - 1
      BY <1>1
    <3>2. tt[m] = ss[m + 1]
      BY <1>3, <3>1
    <3> QED BY <1>6, <1>7, <1>10, <2>1, <3>1, <3>2
  <2>2. CASE n \notin names
    BY <1>3, <1>4, <1>6, <1>10, <2>2 DEF Heads
  <2> QED BY <2>1, <2>2
<1>11. DOMAIN tt[1].symbol_table \subseteq DOMAIN h.symbol_table
  BY <1>3
<1>12. Heads(tt, nr, h)
  BY <1>3, <1>5, <1>8, <1>9, <1>10, <1>11 DEF Heads
<1> QED BY <1>2, <1>12

LEMMA JoinTied ==
  ASSUME NEW ss, NEW nr, Scoped(ss, nr), Tied(ss), Len(ss) > 1, NEW tt, tt = Join(ss)
  PROVE  Scoped(tt, nr) /\ Tied(tt) /\ Grown(Tail(ss), tt)
<1>1. PICK L : L = Len(ss) /\ L \in Nat /\ L > 1
  BY SeqShape DEF Scoped
<1>2. PICK t : t = Tail(ss)
  OBVIOUS
<1>3. Scoped(t, nr) /\ Tied(t) /\ Len(t) = L - 1 /\ t[1] = ss[2] /\ Head(ss) = ss[1]
  BY <1>1, <1>2, TailTied, TailIs
<1>4. PICK upper : upper = ss[1].upper_table
  OBVIOUS
<1>5. PICK own : own = DOMAIN ss[2].symbol_table \cap DOMAIN upper
  OBVIOUS
<1>6. PICK names : names = DOMAIN upper \ own
  OBVIOUS
<1>7. IsScope(ss[2]) /\ InRegs(nr, ss[2].symbol_table)
  BY <1>1 DEF Scoped
<1>8. PICK g : g = Handed(ss, own)
  OBVIOUS
<1>9. PICK f : f = Handed(ss, names)
  OBVIOUS
<1>10. PICK h0 : h0 = [ss[2] EXCEPT !.symbol_table = Over(g, @)]
  OBVIOUS
<1>11. /\ IsScope(h0) /\ h0.symbol_table = Over(g, ss[2].symbol_table)
       /\ h0.upper_table = ss[2].upper_table
  BY <1>7, <1>10 DEF IsScope
<1>12. PICK h : h = [h0 EXCEPT !.upper_table = Over(f, @)]
  OBVIOUS
<1>13. /\ IsScope(h) /\ h.symbol_table = Over(g, ss[2].symbol_table)
       /\ h.upper_table = Over(f, ss[2].upper_table)
  BY <1>11, <1>12 DEF IsScope
<1>14. PICK s : s = [t EXCEPT ![1].symbol_table = Over(g, @)]
  OBVIOUS
<1>15. tt = [s EXCEPT ![1].upper_table = Over(f, @)]
  <2>1. Head(ss) = ss[1]
    BY <1>3
  <2>2. g = [n \in own |-> upper[n]]
    BY <1>4, <1>8, Zenon DEF Handed
  <2>3. f = [n \in DOMAIN upper \ own |-> upper[n]]
    BY <1>4, <1>6, <1>9, Zenon DEF Handed
  <2>4. tt = [t EXCEPT ![1].symbol_table = Over(g, @), ![1].upper_table = Over(f, @)]
    BY <1>2, <1>4, <1>5, <2>1, <2>2, <2>3, Zenon DEF Join
  <2> QED BY <1>14, <2>4
<1>16. Replaces(s, t, 1, h0)
  BY <1>3, <1>10, <1>14 DEF Replaces
<1>17. IsSeq(s) /\ Len(s) = L - 1 /\ \A k \in 1 .. L - 1 : s[k] = IF k = 1 THEN h0 ELSE t[k]
  BY <1>3, <1>16, ReplacedIs DEF Scoped
<1>18. s[1] = h0
  BY <1>1, <1>17
<1>19. tt = [s EXCEPT ![1] = h]
  BY <1>12, <1>15, <1>18
<1>20. Replaces(tt, t, 1, h)
  <2>1. DOMAIN s = DOMAIN t /\ \A k \in DOMAIN t : s[k] = IF k = 1 THEN h0 ELSE t[k]
    BY <1>16 DEF Replaces
  <2>2. tt = [t EXCEPT ![1] = h]
    BY <1>19, <2>1
  <2> QED BY <2>2 DEF Replaces
<1>21. InRegs(nr, g)
  <2>1. DOMAIN g = own /\ \A n \in own : g[n] = ss[1].upper_table[n]
    BY <1>8 DEF Handed
  <2>2. \A n \in own : ss[1].upper_table[n] \in 1 .. nr
    BY <1>4, <1>5, UpperIs
  <2> QED BY <2>1, <2>2 DEF InRegs
<1>22. InRegs(nr, h.symbol_table)
  BY <1>7, <1>13, <1>21, OverRegs
<1>23. DOMAIN ss[2].symbol_table \subseteq DOMAIN h.symbol_table
  BY <1>13 DEF Over
<1>24. names \in SUBSET DOMAIN ss[1].upper_table /\ \A n \in names : n \notin DOMAIN ss[2].symbol_table
  BY <1>4, <1>5, <1>6
<1>25. h.upper_table = Over(Handed(ss, names), ss[2].upper_table)
  BY <1>9, <1>13
<1>26. Heads(t, nr, h)
  BY <1>2, <1>13, <1>22, <1>23, <1>24, <1>25, HandedHeads
<1> QED BY <1>2, <1>3, <1>20, <1>26, HeadTied

(* Of the names that only the else branch assigns, if none is defined by the *)
(* scope around it with another register, none is, but in the base scope.    *)
LEMMA MergedTied ==
  ASSUME NEW ss, NEW nr, Scoped(ss, nr), Tied(ss), Len(ss) > 1, NEW only \in SUBSET DOMAIN ss[1].upper_table,
         \A n \in only : n \in DOMAIN ss[2].symbol_table => ss[1].upper_table[n] = Lookup(Tail(ss), n),
         NEW tt, tt = [Tail(ss) EXCEPT ![1].upper_table = Over(Handed(ss, only), @)]
  PROVE  Scoped(tt, nr) /\ Tied(tt) /\ Grown(Tail(ss), tt)
<1>1. PICK L : L = Len(ss) /\ L \in Nat /\ L > 1
  BY SeqShape DEF Scoped
<1>2. PICK t : t = Tail(ss)
  OBVIOUS
<1>3. Scoped(t, nr) /\ Tied(t) /\ Len(t) = L - 1 /\ t[1] = ss[2]
  BY <1>1, <1>2, TailTied, TailIs
<1>4. IsScope(ss[2]) /\ InRegs(nr, ss[2].symbol_table)
  BY <1>1 DEF Scoped
<1>5. PICK h : h = [ss[2] EXCEPT !.upper_table = Over(Handed(ss, only), @)]
  OBVIOUS
<1>6. /\ IsScope(h) /\ h.symbol_table = ss[2].symbol_table
      /\ h.upper_table = Over(Handed(ss, only), ss[2].upper_table)
  BY <1>4, <1>5 DEF IsScope
<1>7. Replaces(tt, t, 1, h)
  BY <1>2, <1>3, <1>5 DEF Replaces
<1>8. ASSUME NEW n \in only, n \in DOMAIN ss[2].symbol_table PROVE L = 2
  <2> SUFFICES ASSUME L # 2 PROVE FALSE
    OBVIOUS
  <2>1. ss[1].upper_table[n] = Lookup(t, n)
    BY <1>2, <1>8
  <2>2. Lookup(t, n) = ss[2].symbol_table[n]
    BY <1>1, <1>3, <1>8, TopLookup DEF Scoped
  <2>3. 2 \in 2 .. L - 1
    BY <1>1
  <2>4. ss[1].upper_table[n] # ss[2].symbol_table[n]
    BY <1>1, <1>8, <2>3, UpperIs
  <2> QED BY <2>1, <2>2, <2>4
<1>9. Heads(t, nr, h)
  BY <1>1, <1>2, <1>4, <1>6, <1>8, HandedHeads
<1> QED BY <1>2, <1>3, <1>7, <1>9, HeadTied

------------------------------------------------------------------------------

(* Statements that are being parsed: each has a scope, further in than those *)
(* that define the names it will merge.                                      *)
Ready(x, nr, nb) ==
  /\ x.reg \in 0 .. nr /\ x.cond_start \in 0 .. nb /\ x.body_start \in 0 .. nb /\ x.then_bb \in 0 .. nb
  /\ InRegs(nr, x.newer)
Opened(os, ss, nr, nb) ==
  /\ Len(ss) = Len(os) + 1
  /\ \A k \in 1 .. Len(os) : Ready(os[k], nr, nb) /\ \A n \in DOMAIN os[k].newer : Beyond(ss, k, n)

LEMMA ReadyMore ==
  ASSUME NEW nr \in Nat, NEW nr2 \in Nat, nr <= nr2, NEW nb \in Nat, NEW nb2 \in Nat, nb <= nb2,
         NEW x, Ready(x, nr, nb)
  PROVE  Ready(x, nr2, nb2)
BY DEF Ready, InRegs

LEMMA OpenedMore ==
  ASSUME NEW os, IsSeq(os), NEW ss, IsSeq(ss), NEW nr \in Nat, NEW nr2 \in Nat, nr <= nr2,
         NEW nb \in Nat, NEW nb2 \in Nat, nb <= nb2, Opened(os, ss, nr, nb), NEW tt, Grown(ss, tt)
  PROVE  Opened(os, tt, nr2, nb2)
<1>1. Len(tt) = Len(os) + 1
  BY DEF Opened, Grown
<1>2. ASSUME NEW k \in 1 .. Len(os)
      PROVE  Ready(os[k], nr2, nb2) /\ \A n \in DOMAIN os[k].newer : Beyond(tt, k, n)
  <2>1. Ready(os[k], nr, nb) /\ \A n \in DOMAIN os[k].newer : Beyond(ss, k, n)
    BY DEF Opened
  <2>2. Ready(os[k], nr2, nb2)
    BY <2>1, ReadyMore
  <2>3. k \in Nat
    BY SeqShape
  <2> QED BY <2>1, <2>2, <2>3, BeyondGrown
<1> QED BY <1>1, <1>2 DEF Opened

LEMMA OpenedParsed ==
  ASSUME NEW os, IsSeq(os), Constructs(os), NEW ss, NEW nr, NEW nb, Opened(os, ss, nr, nb)
  PROVE  Opened(Parsed(os), ss, nr, nb)
<1>1. CASE os = <<>>
  BY <1>1 DEF Parsed
<1>2. CASE os # <<>>
  <2>1. Len(os) \in Nat /\ 1 \in 1 .. Len(os)
    BY <1>2, SeqShape, PoppedIs
  <2>2. PICK y : y = [os[1] EXCEPT !.parsed = TRUE]
    OBVIOUS
  <2>3. PICK t : t = Parsed(os)
    OBVIOUS
  <2>4. Replaces(t, os, 1, y)
    BY <1>2, <2>2, <2>3 DEF Parsed, Replaces
  <2>5. Len(t) = Len(os) /\ \A k \in 1 .. Len(os) : t[k] = IF k = 1 THEN y ELSE os[k]
    BY <2>4, ReplacedIs
  <2>6. IsConstruct(os[1])
    BY <2>1 DEF Constructs
  <2>7. /\ y.reg = os[1].reg /\ y.cond_start = os[1].cond_start /\ y.body_start = os[1].body_start
        /\ y.then_bb = os[1].then_bb /\ y.newer = os[1].newer
    BY <2>2, <2>6 DEF IsConstruct
  <2>8. ASSUME NEW k \in 1 .. Len(os) PROVE Ready(t[k], nr, nb) /\ \A n \in DOMAIN t[k].newer : Beyond(ss, k, n)
    <3>1. Ready(os[k], nr, nb) /\ \A n \in DOMAIN os[k].newer : Beyond(ss, k, n)
      BY DEF Opened
    <3>2. CASE k = 1
      <4>1. Ready(y, nr, nb)
        BY <2>7, <3>1, <3>2 DEF Ready
      <4> QED BY <2>5, <2>7, <3>1, <3>2, <4>1
    <3>3. CASE k # 1
      BY <2>5, <3>1, <3>3
    <3> QED BY <3>2, <3>3
  <2>9. Opened(t, ss, nr, nb)
    BY <2>5, <2>8 DEF Opened
  <2> QED BY <2>3, <2>9
<1> QED BY <1>1, <1>2

LEMMA OpenedTail ==
  ASSUME NEW os, IsSeq(os), os # <<>>, NEW ss, NEW nr, Scoped(ss, nr), NEW nb, Opened(os, ss, nr, nb)
  PROVE  Len(ss) > 1 /\ Opened(Tail(os), Tail(ss), nr, nb)
<1>1. PICK N : N = Len(os) /\ N \in Nat \ {0}
  BY PoppedIs
<1>2. IsSeq(ss) /\ Len(ss) = N + 1 /\ Len(ss) > 1
  BY <1>1 DEF Scoped, Opened
<1>3. PICK t : t = Tail(os)
  OBVIOUS
<1>4. Len(t) = N - 1 /\ \A k \in 1 .. N - 1 : t[k] = os[k + 1]
  BY <1>1, <1>3, PoppedIs
<1>5. PICK tt : tt = Tail(ss)
  OBVIOUS
<1>6. Len(tt) = (N - 1) + 1
  BY <1>1, <1>2, <1>5, TailIs
<1>7. ASSUME NEW k \in 1 .. N - 1 PROVE Ready(t[k], nr, nb) /\ \A n \in DOMAIN t[k].newer : Beyond(tt, k, n)
  <2>1. k + 1 \in 1 .. N /\ k \in Nat
    BY <1>1
  <2>2. Ready(os[k + 1], nr, nb) /\ \A n \in DOMAIN os[k + 1].newer : Beyond(ss, k + 1, n)
    BY <1>1, <2>1 DEF Opened
  <2>3. \A n : Beyond(ss, k + 1, n) => Beyond(tt, k, n)
    BY <1>2, <1>5, <2>1, TailBeyond
  <2> QED BY <1>4, <2>2, <2>3
<1>8. Opened(t, tt, nr, nb)
  BY <1>4, <1>6, <1>7 DEF Opened
<1> QED BY <1>2, <1>3, <1>5, <1>8

LEMMA OpenedPush ==
  ASSUME NEW os, NEW ss, NEW nr, NEW nb, Opened(os, ss, nr, nb), NEW x, Ready(x, nr, nb),
         NEW pushed, Top(pushed, x, os),
         NEW tt, Len(tt) = Len(ss) + 1, \A k \in Nat : \A n : Beyond(ss, k, n) => Beyond(tt, k + 1, n),
         \A n \in DOMAIN x.newer : Beyond(tt, 1, n)
  PROVE  Opened(pushed, tt, nr, nb)
<1>1. PICK N : N = Len(os) /\ N \in Nat
  BY SeqShape DEF Top
<1>2. Len(ss) = N + 1 /\ Len(tt) = (N + 1) + 1 /\ Len(pushed) = N + 1
  BY <1>1 DEF Opened, Top
<1>3. ASSUME NEW k \in 1 .. N + 1
      PROVE  Ready(pushed[k], nr, nb) /\ \A n \in DOMAIN pushed[k].newer : Beyond(tt, k, n)
  <2>1. CASE k = 1
    BY <2>1 DEF Top
  <2>2. CASE k # 1
    <3>1. PICK l : l = k - 1 /\ l \in 1 .. N /\ l \in Nat /\ l + 1 = k
      BY <1>1, <2>2
    <3>2. pushed[k] = os[l]
      BY <1>1, <3>1 DEF Top
    <3>3. Ready(os[l], nr, nb) /\ \A n \in DOMAIN os[l].newer : Beyond(ss, l, n)
      BY <1>1, <3>1 DEF Opened
    <3>4. \A n : Beyond(ss, l, n) => Beyond(tt, l + 1, n)
      BY <3>1
    <3> QED BY <3>1, <3>2, <3>3, <3>4
  <2> QED BY <2>1, <2>2
<1> QED BY <1>2, <1>3 DEF Opened

(* The invariant; what follows holds of it in each step.                     *)
Shape(i, ss, os) ==
  /\ Typed(i) /\ Scoped(ss, i.register_nr) /\ Tied(ss) /\ Based(i, ss)
  /\ Opened(os, ss, i.register_nr, Len(i.bbs))
TypesInv == Shape(ir, scopes, open)

LEMMA BasedGrown ==
  ASSUME NEW i, NEW ss, NEW nr, Scoped(ss, nr), Based(i, ss), NEW j, j.captured = i.captured, NEW tt, Grown(ss, tt)
  PROVE  Based(j, tt)
<1>1. Len(ss) \in 1 .. Len(ss)
  BY SeqShape DEF Scoped
<1> QED BY <1>1 DEF Based, Grown

LEMMA BasedTail ==
  ASSUME NEW i, NEW ss, NEW nr, Scoped(ss, nr), Len(ss) > 1, Based(i, ss)
  PROVE  Based(i, Tail(ss))
BY TailIs DEF Based

LEMMA ScopesMore ==
  ASSUME NEW i, Typed(i), NEW j, Typed(j), i.register_nr <= j.register_nr, NEW ss, Scoped(ss, i.register_nr)
  PROVE  Scoped(ss, j.register_nr)
BY ScopedMore DEF Typed

(* A statement that ends at once.                                            *)
LEMMA SimpleTypes ==
  ASSUME EndsInv, TypesInv, NEW i, NEW ss, Simple(i, ss), Typed(i), ir.register_nr <= i.register_nr,
         Good(i), Len(ir.bbs) <= Len(i.bbs), Scoped(ss, i.register_nr), Tied(ss), Based(i, ss), Grown(scopes, ss)
  PROVE  TypesInv'
<1>1. ir' = i /\ scopes' = ss /\ open' = Parsed(open)
  BY DEF Simple
<1>2. IsSeq(open) /\ Constructs(open) /\ Len(ir.bbs) \in Nat /\ Len(i.bbs) \in Nat
  BY SeqShape DEF EndsInv, Nested, Good
<1>3. ir.register_nr \in Nat /\ i.register_nr \in Nat /\ IsSeq(scopes)
  BY DEF TypesInv, Shape, Typed, Scoped
<1>4. Opened(open, ss, i.register_nr, Len(i.bbs))
  BY <1>2, <1>3, OpenedMore DEF TypesInv, Shape
<1>5. Opened(Parsed(open), ss, i.register_nr, Len(i.bbs))
  BY <1>2, <1>4, OpenedParsed
<1>6. Shape(i, ss, Parsed(open))
  BY <1>5 DEF Shape
<1> QED BY <1>1, <1>6 DEF TypesInv

LEMMA ClaimDoubt ==
  ASSUME NEW i, Good(i), NEW ss, NEW variable, NEW e, NEW r
  PROVE  Is(i, ss, variable, e, r).doubtful = i.doubtful
<1>1. PICK claim : claim = [type |-> "IS", variable |-> variable, expr |-> e,
                            names |-> Variables(ss), rs |-> r]
  OBVIOUS
<1>2. PICK bbs : bbs = [i.bbs EXCEPT ![i.current_bb].insts = Append(@, claim)]
  OBVIOUS
<1>3. Is(i, ss, variable, e, r) = [i EXCEPT !.bbs = bbs]
  BY <1>1, <1>2 DEF Is, Claim
<1> QED BY <1>3 DEF Good, IsBuilder

LEMMA DefineTypes ==
  ASSUME Careful, EndsInv, TypesInv, NEW n, NEW i, NEW e, Reads(ir, i), Met(ir, i, scopes),
         ~i.doubtful => i.reg \in 1 .. i.register_nr, Define(n, i, e)
  PROVE  TypesInv'
<1>1. PICK variable : variable = Len(Params) + statements + 1
  OBVIOUS
<1>2. PICK j : j = Is(i, scopes, variable, e, i.reg)
  OBVIOUS
<1>3. Good(i) /\ Typed(i) /\ Len(ir.bbs) <= Len(i.bbs) /\ ir.register_nr <= i.register_nr
  BY DEF Reads, Met
<1>4. i.reg \in 0 .. i.register_nr
  BY <1>3 DEF Typed
<1>5. Kept(i, j) /\ Good(j) /\ Len(j.bbs) = Len(i.bbs) /\ j.doubtful = i.doubtful
  BY <1>2, <1>3, <1>4, IsKept, IsLike, ClaimDoubt DEF Like
<1>6. PICK tt : tt = Captured(scopes, i)
  OBVIOUS
<1>7. /\ Scoped(tt, i.register_nr) /\ Tied(tt) /\ Based(i, tt) /\ Grown(scopes, tt)
  BY <1>6, CapturedTied DEF TypesInv, Shape
<1>8. PICK ss : ss = [tt EXCEPT ![1].symbol_table = With(@, n, i.reg), ![1].variable = With(@, n, variable)]
  OBVIOUS
<1>9. Simple(j, ss)
  BY <1>1, <1>2, <1>6, <1>8 DEF Define
<1>10. ~i.doubtful
  BY <1>5, <1>9 DEF Simple, Admit
<1>11. PICK h0 : h0 = [tt[1] EXCEPT !.symbol_table = With(@, n, i.reg)]
  OBVIOUS
<1>12. PICK h : h = [h0 EXCEPT !.variable = With(@, n, variable)]
  OBVIOUS
<1>13. PICK L : L = Len(tt) /\ L \in Nat \ {0} /\ DOMAIN tt = 1 .. L /\ IsScope(tt[1])
  BY <1>7, SeqShape DEF Scoped
<1>14. /\ IsScope(h) /\ h.symbol_table = With(tt[1].symbol_table, n, i.reg) /\ h.upper_table = tt[1].upper_table
  BY <1>11, <1>12, <1>13 DEF IsScope
<1>15. Replaces(ss, tt, 1, h)
  <2>1. PICK s : s = [tt EXCEPT ![1] = h0]
    OBVIOUS
  <2>2. ss = [s EXCEPT ![1].variable = With(@, n, variable)]
    BY <1>8, <1>11, <2>1
  <2>3. s[1] = h0 /\ DOMAIN s = DOMAIN tt /\ \A k \in DOMAIN tt : s[k] = IF k = 1 THEN h0 ELSE tt[k]
    BY <1>13, <2>1
  <2>4. ss = [s EXCEPT ![1] = h]
    BY <1>12, <2>2, <2>3
  <2>5. ss = [tt EXCEPT ![1] = h]
    BY <2>3, <2>4
  <2> QED BY <2>5 DEF Replaces
<1>16. Heads(tt, i.register_nr, h)
  BY <1>7, <1>10, <1>14, LetHeads
<1>17. Scoped(ss, i.register_nr) /\ Tied(ss) /\ Grown(tt, ss)
  BY <1>7, <1>15, <1>16, HeadTied
<1>18. Based(j, ss) /\ Grown(scopes, ss)
  BY <1>5, <1>7, <1>17, BasedGrown, GrownGrown DEF Kept
<1>19. Typed(j) /\ j.register_nr = i.register_nr
  BY <1>5 DEF Kept
<1> QED BY <1>3, <1>5, <1>9, <1>17, <1>18, <1>19, SimpleTypes

LEMMA NestedNow ==
  ASSUME EndsInv, TypesInv
  PROVE  /\ Good(ir) /\ ir.current_bb \in Open(ir) /\ Typed(ir) /\ Scoped(scopes, ir.register_nr)
         /\ ir.register_nr \in Nat /\ Len(ir.bbs) \in Nat
  BY NestedIs DEF EndsInv, TypesInv, Shape, Typed

LEMMA LetTypes ==
  ASSUME Careful, EndsInv, TypesInv, NEW n, NEW e \in Values, Let(n, e)
  PROVE  TypesInv'
<1>1. WellFormed(e)
  BY ExpressionsAssumption
<1>2. PICK i : i = Valued(ir, scopes, e)
  OBVIOUS
<1>3. Reads(ir, i)
  BY <1>1, <1>2, NestedNow, ValuedReads
<1>4. Met(ir, i, scopes) /\ (~i.doubtful => i.reg \in ir.register_nr + 1 .. i.register_nr)
  BY <1>1, <1>2, NestedNow, ValuedMet
<1>5. ~i.doubtful => i.reg \in 1 .. i.register_nr
  <2>1. ir.register_nr \in Nat
    BY NestedNow
  <2> QED BY <1>4, <2>1
<1>6. Define(n, i, e)
  BY <1>2 DEF Let
<1> QED BY <1>3, <1>4, <1>5, <1>6, DefineTypes

LEMMA DeclareTypes ==
  ASSUME Careful, EndsInv, TypesInv, NEW n, Declare(n)
  PROVE  TypesInv'
<1>1. PICK inst : inst = Inst("UNDEFINED", 0, 0, 0)
  OBVIOUS
<1>2. inst.type = "UNDEFINED" /\ "rd" \in DOMAIN inst
  BY <1>1 DEF Inst
<1>3. Operates(ir.register_nr, inst)
  BY <1>2 DEF Operates, Ops
<1>4. PICK i : i = Fresh(ir, ir.current_bb, inst)
  OBVIOUS
<1>5. Given(ir, i) /\ i.reg = ir.register_nr + 1 /\ i.register_nr = ir.register_nr + 1
  BY <1>3, <1>4, NestedNow, FreshGiven
<1>6. Reads(ir, i)
  BY <1>4, NestedNow, FreshLike, LikeReads
<1>7. i.reg \in 1 .. i.register_nr
  BY <1>5, NestedNow
<1>8. Define(n, i, Nothing)
  BY <1>1, <1>4 DEF Declare
<1> QED BY <1>5, <1>6, <1>7, <1>8, GivenMet, DefineTypes

LEMMA AssignTypes ==
  ASSUME Careful, EndsInv, TypesInv, NEW n, NEW e \in Values, Assign(n, e)
  PROVE  TypesInv'
<1>1. WellFormed(e) /\ Good(ir) /\ ir.current_bb \in Open(ir)
  BY ExpressionsAssumption, NestedNow
<1>2. PICK found : found = Found(ir, scopes, n)
  OBVIOUS
<1>3. /\ Like(ir, found) /\ Met(ir, found, scopes)
      /\ Exists(scopes, n) \/ n \in DOMAIN found.captured
  BY <1>2, NestedNow, FoundLike, FoundMet
<1>4. Good(found) /\ found.current_bb \in Open(found) /\ Typed(found) /\ found.register_nr \in Nat
      /\ ir.register_nr <= found.register_nr
  BY <1>1, <1>3 DEF Like, Met, Typed
<1>5. PICK ss : ss = Captured(scopes, found)
  OBVIOUS
<1>6. Scoped(ss, found.register_nr) /\ Tied(ss) /\ Based(found, ss) /\ Grown(scopes, ss)
  BY <1>3, <1>5, CapturedTied DEF TypesInv, Shape
<1>7. PICK i : i = Valued(found, ss, e)
  OBVIOUS
<1>8. Reads(found, i)
  BY <1>1, <1>4, <1>7, ValuedReads
<1>9. Met(found, i, ss) /\ (~i.doubtful => i.reg \in found.register_nr + 1 .. i.register_nr)
  BY <1>1, <1>4, <1>6, <1>7, ValuedMet
<1>10. Good(i) /\ Typed(i) /\ i.register_nr \in Nat /\ found.register_nr <= i.register_nr
       /\ i.reg \in 0 .. i.register_nr
  BY <1>8, <1>9 DEF Reads, Met, Typed
<1>11. PICK tt : tt = Captured(ss, i)
  OBVIOUS
<1>12. /\ Scoped(tt, i.register_nr) /\ Tied(tt) /\ Based(i, tt) /\ Grown(ss, tt)
       /\ \A k \in 1 .. Len(ss) - 1 : tt[k].symbol_table = ss[k].symbol_table
  BY <1>4, <1>6, <1>9, <1>11, CapturedTied
<1>13. PICK uu : uu = Store(tt, n, i.reg)
  OBVIOUS
<1>14. PICK j : j = Is(i, ss, Variables(ss)[n], e, i.reg)
  OBVIOUS
<1>15. Kept(i, j) /\ Good(j) /\ Len(j.bbs) = Len(i.bbs) /\ j.doubtful = i.doubtful
  BY <1>10, <1>14, IsKept, IsLike, ClaimDoubt DEF Like
<1>16. Simple(j, uu)
  BY <1>2, <1>5, <1>7, <1>11, <1>13, <1>14 DEF Assign
<1>17. ~i.doubtful
  BY <1>15, <1>16 DEF Simple, Admit
<1>18. i.reg \in found.register_nr + 1 .. i.register_nr /\ i.reg \in 1 .. i.register_nr
  BY <1>4, <1>9, <1>10, <1>17
<1>19. Len(ss) = Len(tt) /\ Len(scopes) = Len(ss)
  BY <1>6, <1>12 DEF Grown
<1>20. \E m \in 1 .. Len(ss) : n \in DOMAIN ss[m].symbol_table
  <2>1. CASE Exists(scopes, n)
    <3>1. PICK m \in 1 .. Len(scopes) : n \in DOMAIN scopes[m].symbol_table
      BY <2>1, TiedExists DEF TypesInv, Shape
    <3> QED BY <1>6, <1>19, <3>1 DEF Grown
  <2>2. CASE n \in DOMAIN found.captured
    <3>1. n \in DOMAIN ss[Len(ss)].symbol_table
      BY <1>6, <2>2 DEF Based
    <3>2. Len(ss) \in 1 .. Len(ss)
      BY <1>6, SeqShape DEF Scoped
    <3> QED BY <3>1, <3>2
  <2> QED BY <1>3, <2>1, <2>2
<1>21. \E m \in 1 .. Len(tt) : n \in DOMAIN tt[m].symbol_table
  BY <1>12, <1>19, <1>20 DEF Grown
<1>22. ASSUME NEW m \in 1 .. Len(tt) - 1, n \in DOMAIN tt[m].symbol_table PROVE tt[m].symbol_table[n] # i.reg
  <2>1. m \in 1 .. Len(ss) - 1 /\ m \in 1 .. Len(ss)
    BY <1>6, <1>19, SeqShape DEF Scoped
  <2>2. tt[m].symbol_table = ss[m].symbol_table /\ ss[m].symbol_table[n] \in 1 .. found.register_nr
    BY <1>6, <1>12, <1>22, <2>1 DEF Scoped, InRegs
  <2> QED BY <1>4, <1>18, <2>2
<1>23. Scoped(uu, i.register_nr) /\ Tied(uu) /\ Grown(tt, uu)
  BY <1>12, <1>13, <1>18, <1>21, <1>22, StoreTied
<1>24. Based(j, uu) /\ Grown(scopes, uu)
  BY <1>6, <1>12, <1>15, <1>23, BasedGrown, GrownGrown DEF Kept
<1>25. Typed(j) /\ j.register_nr = i.register_nr
  BY <1>15 DEF Kept
<1>26. Len(ir.bbs) <= Len(j.bbs) /\ ir.register_nr <= j.register_nr
  <2>1. Len(ir.bbs) = Len(found.bbs) /\ Len(found.bbs) <= Len(i.bbs)
    BY <1>3, <1>8 DEF Like, Reads
  <2> QED BY <1>4, <1>10, <1>15, <1>25, <2>1, NestedNow
<1> QED BY <1>15, <1>16, <1>23, <1>24, <1>25, <1>26, SimpleTypes

LEMMA ReturnedTypes ==
  ASSUME EndsInv, TypesInv, NEW i, Reads(ir, i), Met(ir, i, scopes), NEW e, Returned(i, e)
  PROVE  TypesInv'
<1>1. Good(i) /\ i.current_bb \in Open(i) /\ Typed(i) /\ i.reg \in 0 .. i.register_nr
  BY DEF Reads, Met, Typed
<1>2. PICK claimed : claimed = Is(i, scopes, 0, e, i.reg)
  OBVIOUS
<1>3. Like(i, claimed) /\ Kept(i, claimed)
  BY <1>1, <1>2, IsLike, IsKept
<1>4. PICK inst : inst = Inst("RET", i.reg, 0, 0)
  OBVIOUS
<1>5. inst.type = "RET"
  BY <1>4 DEF Inst
<1>6. Fits(claimed.register_nr, inst)
  BY <1>5 DEF Fits, Ops
<1>7. PICK j : j = Emit(claimed, i.current_bb, inst)
  OBVIOUS
<1>8. Good(claimed) /\ i.current_bb \in Open(claimed) /\ Typed(claimed)
  BY <1>1, <1>3 DEF Like, Kept
<1>9. Like(claimed, j) /\ Kept(claimed, j)
  BY <1>6, <1>7, <1>8, EmitLike, EmitKept
<1>10. Kept(i, j) /\ Good(j) /\ Len(j.bbs) = Len(i.bbs)
  BY <1>3, <1>9, KeptKept DEF Like
<1>11. PICK tt : tt = Captured(scopes, i)
  OBVIOUS
<1>12. Scoped(tt, i.register_nr) /\ Tied(tt) /\ Based(i, tt) /\ Grown(scopes, tt)
  BY <1>11, CapturedTied DEF TypesInv, Shape
<1>13. Simple(j, tt)
  BY <1>2, <1>4, <1>7, <1>11 DEF Returned
<1>14. Typed(j) /\ j.register_nr = i.register_nr /\ j.captured = i.captured
  BY <1>10 DEF Kept
<1>15. Based(j, tt)
  BY <1>12, <1>14 DEF Based
<1>16. ir.register_nr <= i.register_nr /\ Len(ir.bbs) <= Len(i.bbs)
  BY DEF Met, Reads
<1> QED BY <1>10, <1>12, <1>13, <1>14, <1>15, <1>16, SimpleTypes

LEMMA ReturnTypes ==
  ASSUME EndsInv, TypesInv, NEW e \in Results, Return(e)
  PROVE  TypesInv'
<1>1. WellFormed(e) /\ Good(ir) /\ ir.current_bb \in Open(ir)
  BY ExpressionsAssumption, NestedNow
<1>2. PICK i : i = Compile(ir, scopes, e)
  OBVIOUS
<1>3. Reads(ir, i) /\ Met(ir, i, scopes)
  BY <1>1, <1>2, NestedNow, CompileReads, CompileMet
<1>4. Returned(i, e)
  BY <1>2 DEF Return
<1> QED BY <1>3, <1>4, ReturnedTypes

LEMMA ReturnNothingTypes ==
  ASSUME EndsInv, TypesInv, ReturnNothing
  PROVE  TypesInv'
<1>1. PICK inst : inst = Inst("UNDEFINED", 0, 0, 0)
  OBVIOUS
<1>2. inst.type = "UNDEFINED" /\ "rd" \in DOMAIN inst
  BY <1>1 DEF Inst
<1>3. Operates(ir.register_nr, inst)
  BY <1>2 DEF Operates, Ops
<1>4. PICK i : i = Fresh(ir, ir.current_bb, inst)
  OBVIOUS
<1>5. Given(ir, i)
  BY <1>3, <1>4, NestedNow, FreshGiven
<1>6. Reads(ir, i)
  BY <1>4, NestedNow, FreshLike, LikeReads
<1>7. Met(ir, i, scopes)
  BY <1>5, NestedNow, GivenMet
<1>8. Returned(i, Nothing)
  BY <1>1, <1>4 DEF ReturnNothing
<1> QED BY <1>6, <1>7, <1>8, ReturnedTypes

------------------------------------------------------------------------------

(* A statement that holds others begins.                                     *)
LEMMA BeginTypes ==
  ASSUME EndsInv, TypesInv, NEW i, Good(i), Met(ir, i, scopes), Len(ir.bbs) <= Len(i.bbs), NEW block,
         NEW x, Ready(x, i.register_nr, Len(i.bbs)), x.newer = Empty, Begin(i, block, x)
  PROVE  TypesInv'
<1>1. PICK j : j = [i EXCEPT !.current_bb = block]
  OBVIOUS
<1>2. Typed(i) /\ ir.register_nr <= i.register_nr /\ i.register_nr \in Nat
  BY DEF Met, Typed
<1>3. Kept(i, j) /\ Len(j.bbs) = Len(i.bbs)
  BY <1>1, <1>2, CurrentKept, CurrentIs
<1>4. PICK tt : tt = Captured(scopes, i)
  OBVIOUS
<1>5. Scoped(tt, i.register_nr) /\ Tied(tt) /\ Based(i, tt) /\ Grown(scopes, tt)
  BY <1>4, CapturedTied DEF TypesInv, Shape
<1>6. PICK ss : ss = Push(tt)
  OBVIOUS
<1>7. ir' = j /\ scopes' = ss /\ open' = <<x>> \o open
  BY <1>1, <1>4, <1>6 DEF Begin
<1>8. IsScope(NewScope) /\ NewScope.symbol_table = Empty /\ NewScope.upper_table = Empty
  BY DEF NewScope, IsScope
<1>9. Top(ss, NewScope, tt)
  <2>1. IsSeq(tt)
    BY <1>5 DEF Scoped
  <2> QED BY <1>6, <2>1, TopPushed DEF Push
<1>10. /\ Scoped(ss, i.register_nr) /\ Tied(ss) /\ Len(ss) = Len(tt) + 1 /\ ss[Len(ss)] = tt[Len(tt)]
       /\ \A k \in Nat : \A n : Beyond(tt, k, n) => Beyond(ss, k + 1, n)
  BY <1>5, <1>8, <1>9, PushTied
<1>11. Based(j, ss)
  BY <1>3, <1>5, <1>10 DEF Based, Kept
<1>12. IsSeq(open) /\ IsSeq(scopes) /\ Len(ir.bbs) \in Nat /\ Len(i.bbs) \in Nat /\ ir.register_nr \in Nat
  BY SeqShape DEF EndsInv, Nested, Good, TypesInv, Shape, Typed, Scoped
<1>13. Opened(open, tt, i.register_nr, Len(i.bbs))
  BY <1>2, <1>5, <1>12, OpenedMore DEF TypesInv, Shape
<1>14. PICK pushed : pushed = <<x>> \o open
  OBVIOUS
<1>15. Opened(pushed, ss, i.register_nr, Len(i.bbs))
  <2>1. Top(pushed, x, open)
    BY <1>12, <1>14, TopPushed
  <2>2. \A n \in DOMAIN x.newer : Beyond(ss, 1, n)
    BY DEF Empty
  <2> QED BY <1>10, <1>13, <2>1, <2>2, OpenedPush
<1>16. Shape(j, ss, pushed)
  BY <1>3, <1>10, <1>11, <1>15 DEF Shape, Kept
<1> QED BY <1>7, <1>14, <1>16 DEF TypesInv

LEMMA OpenBlockTypes ==
  ASSUME EndsInv, TypesInv, OpenBlock
  PROVE  TypesInv'
<1>1. PICK x : x = Construct("block", 0, 0, Num(0))
  OBVIOUS
<1>2. x.reg = 0 /\ x.cond_start = 0 /\ x.body_start = 0 /\ x.then_bb = 0 /\ x.newer = Empty
  BY <1>1 DEF Construct, None
<1>3. Good(ir) /\ Typed(ir) /\ ir.register_nr \in Nat /\ Len(ir.bbs) \in Nat
  BY NestedNow
<1>4. Ready(x, ir.register_nr, Len(ir.bbs))
  BY <1>2, <1>3 DEF Ready, InRegs, Empty
<1>5. Met(ir, ir, scopes)
  BY <1>3 DEF Met
<1>6. Begin(ir, ir.current_bb, x)
  BY <1>1 DEF OpenBlock
<1> QED BY <1>2, <1>3, <1>4, <1>5, <1>6, BeginTypes

(* What a condition leads to: a block, with the claim that it is true.       *)
LEMMA BodyTypes ==
  ASSUME EndsInv, TypesInv, NEW i, Good(i), i.current_bb \in Open(i), Met(ir, i, scopes), Len(ir.bbs) <= Len(i.bbs),
         NEW j, j = Extended(i, i.current_bb),
         NEW e, NEW x, x.reg = i.reg, x.cond_start \in 0 .. Len(i.bbs), x.body_start = Newest(j),
         x.then_bb = None, x.newer = Empty,
         Begin(When(j, scopes, Newest(j), e, TRUE), Newest(j), x)
  PROVE  TypesInv'
<1>1. PICK N : N = Len(i.bbs) /\ N \in Nat
  BY SeqShape DEF Good
<1>2. Typed(i) /\ i.register_nr \in Nat /\ i.reg \in 0 .. i.register_nr
  BY DEF Met, Typed
<1>3. Good(j) /\ Len(j.bbs) = N + 1 /\ Newest(j) = N + 1 /\ Kept(i, j)
  <2>1. i.current_bb \in 0 .. Len(i.bbs)
    BY <1>1 DEF Open
  <2> QED BY <1>1, <1>2, <2>1, ExtendedIs, ExtendedKept
<1>4. PICK w : w = When(j, scopes, Newest(j), e, TRUE)
  OBVIOUS
<1>5. Like(j, w) /\ Kept(j, w)
  <2>1. Typed(j)
    BY <1>3 DEF Kept
  <2> QED BY <1>3, <1>4, <2>1, WhenLike, WhenKept
<1>6. Kept(i, w) /\ Good(w) /\ Len(w.bbs) = N + 1
  BY <1>3, <1>5, KeptKept DEF Like
<1>7. Met(ir, w, scopes)
  <2>1. Met(i, w, scopes)
    BY <1>2, <1>6, KeptGiven, GivenMet
  <2> QED BY <2>1, NestedNow, MetMet
<1>8. Ready(x, w.register_nr, Len(w.bbs))
  <2>1. w.register_nr = i.register_nr
    BY <1>6 DEF Kept
  <2>2. /\ x.reg \in 0 .. w.register_nr /\ x.cond_start \in 0 .. Len(w.bbs)
        /\ x.body_start \in 0 .. Len(w.bbs) /\ x.then_bb \in 0 .. Len(w.bbs)
    BY <1>1, <1>2, <1>3, <1>6, <2>1 DEF None
  <2>3. InRegs(w.register_nr, x.newer)
    BY DEF InRegs, Empty
  <2> QED BY <2>2, <2>3 DEF Ready
<1>9. Len(ir.bbs) <= Len(w.bbs)
  <2>1. Len(ir.bbs) \in Nat
    BY NestedNow
  <2> QED BY <1>1, <1>6, <2>1
<1> QED BY <1>4, <1>6, <1>7, <1>8, <1>9, BeginTypes

LEMMA IfTypes ==
  ASSUME EndsInv, TypesInv, NEW e \in Conds, If(e)
  PROVE  TypesInv'
<1>1. WellFormed(e)
  BY ExpressionsAssumption
<1>2. PICK i : i = Compile(ir, scopes, e)
  OBVIOUS
<1>3. Reads(ir, i) /\ Met(ir, i, scopes)
  BY <1>1, <1>2, NestedNow, CompileReads, CompileMet
<1>4. Good(i) /\ i.current_bb \in Open(i) /\ Len(ir.bbs) <= Len(i.bbs) /\ Len(i.bbs) \in Nat
  BY <1>3, SeqShape DEF Reads, Good
<1>5. PICK j : j = Extended(i, i.current_bb)
  OBVIOUS
<1>6. PICK x : x = [Construct("then", i.current_bb, i.reg, e) EXCEPT !.body_start = Newest(j)]
  OBVIOUS
<1>7. /\ x.reg = i.reg /\ x.cond_start = None /\ x.body_start = Newest(j)
      /\ x.then_bb = None /\ x.newer = Empty
  BY <1>6 DEF Construct
<1>8. Begin(When(j, scopes, Newest(j), e, TRUE), Newest(j), x)
  BY <1>2, <1>5, <1>6 DEF If
<1>9. x.cond_start \in 0 .. Len(i.bbs)
  BY <1>4, <1>7 DEF None
<1> QED BY <1>3, <1>4, <1>5, <1>7, <1>8, <1>9, BodyTypes

LEMMA WhileTypes ==
  ASSUME EndsInv, TypesInv, NEW e \in Conds, While(e)
  PROVE  TypesInv'
<1>1. Nested(ir, open) /\ Good(ir) /\ ir.current_bb \in Open(ir) /\ Len(ir.bbs) \in Nat
      /\ Open(ir) \subseteq 1 .. Len(ir.bbs) /\ Typed(ir)
  BY NestedIs, NestedNow DEF EndsInv
<1>2. PICK start : start = CondStart(ir)
  OBVIOUS
<1>3. PICK c : c = Len(ir.bbs) + 1
  OBVIOUS
<1>4. Good(start) /\ Len(start.bbs) = c /\ Newest(start) = c /\ Open(start) = Open(ir) \cup {c}
      /\ start.current_bb = ir.current_bb /\ Kept(ir, start)
  <2>1. 0 \in 0 .. Len(ir.bbs) /\ start = Extended(ir, 0)
    BY <1>1, <1>2 DEF CondStart, None
  <2> QED BY <1>1, <1>3, <2>1, ExtendedIs, ExtendedKept
<1>5. PICK b : b = J(start, ir.current_bb, c)
  OBVIOUS
<1>6. Good(b) /\ Len(b.bbs) = c /\ Open(b) = Open(start) \ {ir.current_bb} /\ Kept(ir, b)
  <2>1. ir.current_bb \in Open(start) /\ c # None /\ c \in 0 .. Len(start.bbs)
    BY <1>1, <1>3, <1>4 DEF None
  <2>2. Less(start, b, ir.current_bb)
    BY <1>4, <1>5, <2>1, JLess
  <2>3. Kept(start, b)
    BY <1>4, <1>5, <2>1, JKept DEF Kept
  <2> QED BY <1>4, <2>2, <2>3, KeptKept DEF Less
<1>7. PICK d : d = [b EXCEPT !.current_bb = c]
  OBVIOUS
<1>8. Good(d) /\ Len(d.bbs) = c /\ Open(d) = Open(start) \ {ir.current_bb} /\ d.current_bb = c /\ Kept(ir, d)
  <2>1. Kept(b, d)
    BY <1>6, <1>7, CurrentKept DEF Kept
  <2> QED BY <1>6, <1>7, <2>1, CurrentIs, KeptKept
<1>9. Reads(ir, d) /\ d.current_bb \in Open(d)
  BY <1>1, <1>3, <1>4, <1>8 DEF Reads
<1>10. PICK i : i = Compile(d, scopes, e)
  OBVIOUS
<1>11. WellFormed(e)
  BY ExpressionsAssumption
<1>12. Reads(d, i)
  BY <1>8, <1>9, <1>10, <1>11, CompileReads
<1>13. Met(ir, i, scopes)
  <2>1. Typed(d) /\ d.register_nr = ir.register_nr
    BY <1>8 DEF Kept
  <2>2. Scoped(scopes, d.register_nr)
    BY <2>1, NestedNow
  <2>3. Met(d, i, scopes)
    BY <1>8, <1>9, <1>10, <1>11, <2>1, <2>2, CompileMet
  <2>4. Met(ir, d, scopes)
    BY <1>1, <1>8, KeptGiven, GivenMet
  <2> QED BY <1>1, <2>3, <2>4, MetMet
<1>14. Good(i) /\ i.current_bb \in Open(i) /\ c <= Len(i.bbs) /\ Len(i.bbs) \in Nat
  BY <1>8, <1>12, SeqShape DEF Reads, Good
<1>15. PICK j : j = Extended(i, i.current_bb)
  OBVIOUS
<1>16. PICK x : x = [Construct("while", i.current_bb, i.reg, e)
                       EXCEPT !.cond_start = c, !.body_start = Newest(j)]
  OBVIOUS
<1>17. /\ x.reg = i.reg /\ x.cond_start = c /\ x.body_start = Newest(j)
       /\ x.then_bb = None /\ x.newer = Empty
  BY <1>16 DEF Construct
<1>18. Begin(When(j, scopes, Newest(j), e, TRUE), Newest(j), x)
  BY <1>2, <1>4, <1>5, <1>7, <1>10, <1>15, <1>16 DEF While
<1>19. x.cond_start \in 0 .. Len(i.bbs) /\ Len(ir.bbs) <= Len(i.bbs)
  BY <1>1, <1>3, <1>14, <1>17
<1> QED BY <1>13, <1>14, <1>15, <1>17, <1>18, <1>19, BodyTypes

(* It ends.                                                                  *)
LEMMA FinishTypes ==
  ASSUME EndsInv, TypesInv, open # <<>>, NEW i, Good(i), Kept(ir, i), Len(ir.bbs) <= Len(i.bbs), NEW bb,
         NEW ss, Scoped(ss, ir.register_nr), Tied(ss), Grown(Tail(scopes), ss), Finish(i, bb, ss)
  PROVE  TypesInv'
<1>1. PICK j : j = [i EXCEPT !.current_bb = bb]
  OBVIOUS
<1>2. Typed(i) /\ i.register_nr = ir.register_nr /\ i.captured = ir.captured
  BY DEF Kept
<1>3. Kept(i, j) /\ Len(j.bbs) = Len(i.bbs)
  BY <1>1, <1>2, CurrentKept, CurrentIs
<1>4. PICK os : os = Tail(open)
  OBVIOUS
<1>5. ir' = j /\ scopes' = ss /\ open' = Parsed(os)
  BY <1>1, <1>4 DEF Finish
<1>6. PICK tail : tail = Tail(scopes)
  OBVIOUS
<1>7. IsSeq(open) /\ Constructs(open) /\ Len(ir.bbs) \in Nat /\ Len(i.bbs) \in Nat /\ ir.register_nr \in Nat
  BY SeqShape DEF EndsInv, Nested, Good, TypesInv, Shape, Typed
<1>8. Len(scopes) > 1 /\ Opened(os, tail, ir.register_nr, Len(ir.bbs))
  BY <1>4, <1>6, <1>7, OpenedTail DEF TypesInv, Shape
<1>9. IsSeq(os) /\ Constructs(os)
  <2>1. /\ Len(open) \in Nat \ {0} /\ IsSeq(os) /\ Len(os) = Len(open) - 1
        /\ \A k \in 1 .. Len(open) - 1 : os[k] = open[k + 1]
    BY <1>4, <1>7, PoppedIs
  <2>2. ASSUME NEW k \in 1 .. Len(os) PROVE IsConstruct(os[k])
    <3>1. k + 1 \in 1 .. Len(open) /\ os[k] = open[k + 1]
      BY <2>1
    <3> QED BY <1>7, <3>1 DEF Constructs
  <2> QED BY <2>1, <2>2 DEF Constructs
<1>10. Scoped(tail, ir.register_nr) /\ Based(ir, tail)
  BY <1>6, <1>8, TailTied, BasedTail DEF TypesInv, Shape
<1>11. Opened(os, ss, ir.register_nr, Len(i.bbs))
  <2>1. IsSeq(tail) /\ Grown(tail, ss)
    BY <1>6, <1>10 DEF Scoped
  <2>2. ir.register_nr <= ir.register_nr
    BY <1>7
  <2> QED BY <1>7, <1>8, <1>9, <2>1, <2>2, OpenedMore
<1>12. Opened(Parsed(os), ss, ir.register_nr, Len(i.bbs))
  BY <1>9, <1>11, OpenedParsed
<1>13. Based(j, ss)
  BY <1>2, <1>3, <1>6, <1>10, BasedGrown DEF Kept
<1>14. Shape(j, ss, Parsed(os))
  BY <1>2, <1>3, <1>12, <1>13 DEF Shape, Kept
<1> QED BY <1>5, <1>14 DEF TypesInv

LEMMA OuterNow ==
  ASSUME EndsInv, TypesInv, open # <<>>
  PROVE  /\ Len(scopes) > 1 /\ Scoped(scopes, ir.register_nr) /\ Tied(scopes) /\ Head(scopes) = scopes[1]
         /\ Ready(open[1], ir.register_nr, Len(ir.bbs))
         /\ \A n \in DOMAIN open[1].newer : Beyond(Tail(scopes), 0, n)
<1>1. IsSeq(open) /\ Opened(open, scopes, ir.register_nr, Len(ir.bbs)) /\ Scoped(scopes, ir.register_nr) /\ Tied(scopes)
  BY DEF EndsInv, Nested, TypesInv, Shape
<1>2. Len(scopes) > 1
  BY <1>1, OpenedTail
<1>3. 1 \in 1 .. Len(open)
  BY <1>1, PoppedIs
<1>4. Ready(open[1], ir.register_nr, Len(ir.bbs)) /\ \A n \in DOMAIN open[1].newer : Beyond(scopes, 1, n)
  BY <1>1, <1>3 DEF Opened
<1>5. Head(scopes) = scopes[1]
  BY <1>1, <1>2, TailIs
<1>6. ASSUME NEW n \in DOMAIN open[1].newer PROVE Beyond(Tail(scopes), 0, n)
  <2>1. PICK zero : zero = 0 /\ zero \in Nat /\ zero + 1 = 1
    OBVIOUS
  <2>2. IsSeq(scopes) /\ Beyond(scopes, zero + 1, n)
    BY <1>1, <1>4, <1>6, <2>1 DEF Scoped
  <2>3. Beyond(Tail(scopes), zero, n)
    BY <1>2, <2>1, <2>2, TailBeyond
  <2> QED BY <2>1, <2>3
<1> QED BY <1>1, <1>2, <1>4, <1>5, <1>6

LEMMA CloseBlockTypes ==
  ASSUME EndsInv, TypesInv, CloseBlock
  PROVE  TypesInv'
<1>1. open # <<>>
  BY DEF CloseBlock, Ending
<1>2. PICK ss : ss = Join(scopes)
  OBVIOUS
<1>3. Scoped(ss, ir.register_nr) /\ Tied(ss) /\ Grown(Tail(scopes), ss)
  BY <1>1, <1>2, OuterNow, JoinTied
<1>4. Good(ir) /\ Kept(ir, ir) /\ Len(ir.bbs) <= Len(ir.bbs)
  BY NestedNow DEF Kept
<1>5. Finish(ir, ir.current_bb, ss)
  BY <1>2 DEF CloseBlock
<1> QED BY <1>1, <1>3, <1>4, <1>5, FinishTypes

------------------------------------------------------------------------------

LEMMA ElseStartKept ==
  ASSUME EndsInv, TypesInv, open # <<>>, open[1].kind = "then"
  PROVE  Kept(ir, ElseStart)
<1>1. Nested(ir, open) /\ Good(ir) /\ Typed(ir) /\ Open(ir) \subseteq 1 .. Len(ir.bbs)
      /\ ir.register_nr \in Nat /\ Len(ir.bbs) \in Nat
  BY NestedIs, NestedNow DEF EndsInv
<1>2. PICK N : N = Len(ir.bbs)
  OBVIOUS
<1>3. PICK start : start = open[1].start
  OBVIOUS
<1>4. start \in Open(ir) /\ start \in 0 .. N
  <2>1. Pending(open[1]) = start
    BY <1>3 DEF Pending
  <2> QED BY <1>1, <1>2, <1>3, <2>1, NestedHead
<1>5. PICK i : i = Extended(ir, start)
  OBVIOUS
<1>6. Good(i) /\ Len(i.bbs) = N + 1 /\ Newest(i) = N + 1 /\ Open(i) = Open(ir) \cup {N + 1} /\ Kept(ir, i)
  BY <1>1, <1>2, <1>4, <1>5, ExtendedIs, ExtendedKept
<1>7. Ready(open[1], ir.register_nr, N)
  BY <1>2, OuterNow
<1>8. PICK b : b = Br(i, start, open[1].reg, open[1].body_start, N + 1)
  OBVIOUS
<1>9. Good(b) /\ Kept(ir, b)
  <2>1. start \in Open(i) /\ N + 1 # None /\ N + 1 \in 0 .. Len(i.bbs) /\ open[1].body_start \in 0 .. Len(i.bbs)
    BY <1>1, <1>2, <1>4, <1>6, <1>7 DEF None, Ready
  <2>2. Typed(i) /\ open[1].reg \in 0 .. i.register_nr
    BY <1>6, <1>7 DEF Kept, Ready
  <2>3. Less(i, b, start)
    BY <1>6, <1>8, <2>1, BrLess
  <2>4. Kept(i, b)
    BY <1>6, <1>8, <2>1, <2>2, BrKept
  <2> QED BY <1>6, <2>3, <2>4, KeptKept DEF Less
<1>10. PICK w : w = When(b, Tail(scopes), N + 1, open[1].expr, FALSE)
  OBVIOUS
<1>11. Kept(b, w)
  <2>1. Typed(b)
    BY <1>9 DEF Kept
  <2> QED BY <1>9, <1>10, <2>1, WhenKept
<1>12. ElseStart = w
  BY <1>3, <1>5, <1>6, <1>8, <1>10 DEF ElseStart
<1> QED BY <1>9, <1>11, <1>12, KeptKept

LEMMA EndIfTypes ==
  ASSUME EndsInv, TypesInv, open # <<>>,
         NEW i, Good(i), Kept(ir, i), Len(ir.bbs) <= Len(i.bbs),
         NEW then_bb \in Open(i), NEW else_bb \in Open(i), then_bb # else_bb,
         NEW ss, Scoped(ss, ir.register_nr), Tied(ss), Grown(Tail(scopes), ss), EndIf(i, then_bb, else_bb, ss)
  PROVE  TypesInv'
<1>1. Nested(ir, open) /\ Len(ir.bbs) \in Nat
  BY NestedIs DEF EndsInv
<1>2. Len(i.bbs) \in Nat /\ Open(i) \subseteq 1 .. Len(i.bbs)
  BY SeqShape DEF Good, Open
<1>3. PICK N : N = Len(i.bbs)
  OBVIOUS
<1>4. PICK if_end : if_end = Extended(i, open[1].start)
  OBVIOUS
<1>5. Good(if_end) /\ Len(if_end.bbs) = N + 1 /\ Newest(if_end) = N + 1 /\ Open(if_end) = Open(i) \cup {N + 1}
      /\ Kept(ir, if_end)
  <2>1. open[1].start \in 0 .. Len(ir.bbs)
    BY <1>1, NestedHead
  <2>2. open[1].start \in 0 .. Len(i.bbs)
    BY <1>1, <1>2, <2>1
  <2>3. Kept(i, if_end)
    BY <1>4, ExtendedKept DEF Kept
  <2> QED BY <1>3, <1>4, <2>2, <2>3, ExtendedIs, KeptKept
<1>6. N + 1 # None /\ N + 1 \in 0 .. N + 1
  BY <1>2, <1>3 DEF None
<1>7. PICK a : a = J(if_end, then_bb, N + 1)
  OBVIOUS
<1>8. Good(a) /\ Len(a.bbs) = N + 1 /\ Open(a) = Open(if_end) \ {then_bb} /\ Kept(ir, a)
  <2>1. then_bb \in Open(if_end)
    BY <1>5
  <2>2. Less(if_end, a, then_bb)
    BY <1>5, <1>6, <1>7, <2>1, JLess
  <2>3. Kept(if_end, a)
    BY <1>5, <1>6, <1>7, <2>1, JKept DEF Kept
  <2> QED BY <1>5, <2>2, <2>3, KeptKept DEF Less
<1>9. PICK b : b = J(a, else_bb, N + 1)
  OBVIOUS
<1>10. Good(b) /\ Len(b.bbs) = N + 1 /\ Kept(ir, b)
  <2>1. else_bb \in Open(a)
    BY <1>5, <1>8
  <2>2. Less(a, b, else_bb)
    BY <1>6, <1>8, <1>9, <2>1, JLess
  <2>3. Kept(a, b)
    BY <1>6, <1>8, <1>9, <2>1, JKept DEF Kept
  <2> QED BY <1>8, <2>2, <2>3, KeptKept DEF Less
<1>11. Finish(b, N + 1, ss)
  BY <1>4, <1>5, <1>7, <1>9 DEF EndIf
<1>12. Len(ir.bbs) <= Len(b.bbs)
  BY <1>1, <1>2, <1>3, <1>10
<1> QED BY <1>10, <1>11, <1>12, FinishTypes

(* And is none of those that parse.c gets wrong.                             *)
LEMMA DoubtfulSame ==
  ASSUME NEW i, IsBuilder(i), NEW bb, NEW x
  PROVE  /\ IsBuilder(J(i, bb, x)) /\ J(i, bb, x).doubtful = i.doubtful
         /\ IsBuilder(Extended(i, x)) /\ Extended(i, x).doubtful = i.doubtful
<1>1. PICK n : n = NotEnd(i, bb)
  OBVIOUS
<1>2. IsBuilder(n) /\ n.doubtful = i.doubtful
  BY <1>1 DEF NotEnd, IsBuilder
<1>3. PICK b : b = [n.bbs EXCEPT ![bb].br_reg = 0, ![bb].else_bb = x]
  OBVIOUS
<1>4. J(i, bb, x) = [n EXCEPT !.bbs = b]
  <2>1. J(i, bb, x) = [n EXCEPT !.bbs[bb].br_reg = 0, !.bbs[bb].else_bb = x]
    BY <1>1 DEF J
  <2>2. [n EXCEPT !.bbs[bb].br_reg = 0, !.bbs[bb].else_bb = x] = [n EXCEPT !.bbs = b]
    BY <1>2, <1>3 DEF IsBuilder
  <2> QED BY <2>1, <2>2
<1>5. IsBuilder(J(i, bb, x)) /\ J(i, bb, x).doubtful = i.doubtful
  BY <1>2, <1>4 DEF IsBuilder
<1>6. PICK e : e = Append(i.bbs, NewBlock(x))
  OBVIOUS
<1>7. Extended(i, x) = [i EXCEPT !.bbs = e]
  BY <1>6 DEF Extended
<1>8. IsBuilder(Extended(i, x)) /\ Extended(i, x).doubtful = i.doubtful
  BY <1>7 DEF IsBuilder
<1> QED BY <1>5, <1>8

LEMMA EndIfSound ==
  ASSUME Careful, NEW i, IsBuilder(i), NEW cond \in BOOLEAN, NEW then_bb, NEW else_bb, NEW ss,
         EndIf(Doubt(i, cond), then_bb, else_bb, ss)
  PROVE  ~cond
<1>1. PICK d : d = Doubt(i, cond)
  OBVIOUS
<1>2. IsBuilder(d) /\ (d.doubtful <=> (i.doubtful \/ cond))
  BY <1>1 DEF Doubt, IsBuilder
<1>3. PICK if_end : if_end = Extended(d, open[1].start)
  OBVIOUS
<1>4. PICK new : new = Newest(if_end)
  OBVIOUS
<1>5. PICK a : a = J(if_end, then_bb, new)
  OBVIOUS
<1>6. PICK b : b = J(a, else_bb, new)
  OBVIOUS
<1>7. IsBuilder(b) /\ b.doubtful = d.doubtful
  BY <1>2, <1>3, <1>5, <1>6, DoubtfulSame
<1>8. Finish(b, new, ss)
  BY <1>1, <1>3, <1>4, <1>5, <1>6 DEF EndIf
<1>9. ir' = [b EXCEPT !.current_bb = new] /\ ~ir'.doubtful
  BY <1>8 DEF Finish, Admit
<1>10. ir'.doubtful = b.doubtful
  BY <1>7, <1>9 DEF IsBuilder
<1> QED BY <1>2, <1>7, <1>9, <1>10

(* The registers of names before a branch or a body.                         *)
LEMMA OldRegisters ==
  ASSUME EndsInv, TypesInv, open # <<>>, NEW n \in DOMAIN scopes[1].upper_table
  PROVE  /\ scopes[1].upper_table[n] \in 1 .. ir.register_nr
         /\ Exists(Tail(scopes), n) /\ Lookup(Tail(scopes), n) \in 1 .. ir.register_nr
BY OuterNow, UpperIs

LEMMA GrownLookup ==
  ASSUME NEW ss, NEW tt, Grown(ss, tt), IsSeq(ss), NEW nr, Scoped(tt, nr), NEW n, Beyond(ss, 0, n)
  PROVE  Lookup(tt, n) \in 1 .. nr
<1>1. PICK m \in 0 + 1 .. Len(ss) : n \in DOMAIN ss[m].symbol_table
  BY DEF Beyond
<1>2. m \in 1 .. Len(ss) /\ Len(tt) = Len(ss)
  BY <1>1, SeqShape DEF Grown
<1>3. n \in DOMAIN tt[m].symbol_table
  BY <1>1, <1>2 DEF Grown
<1>4. Exists(tt, n)
  BY <1>2, <1>3, ExistsIs DEF Scoped
<1> QED BY <1>4, LookupIs

LEMMA EndThenTypes ==
  ASSUME EndsInv, TypesInv, NEW order \in Orders, EndThen(order)
  PROVE  TypesInv'
<1>1. open # <<>> /\ open[1].kind = "then" /\ ~ended
  BY DEF EndThen, Ending
<1>2. Nested(ir, open) /\ Good(ir) /\ Len(ir.bbs) \in Nat /\ Open(ir) \subseteq 1 .. Len(ir.bbs)
      /\ ir.current_bb \in Open(ir) /\ ir.register_nr \in Nat
  BY NestedIs, NestedNow DEF EndsInv
<1>3. PICK E : E = ElseStart
  OBVIOUS
<1>4. PICK N : N = Len(ir.bbs)
  OBVIOUS
<1>5. /\ Good(E) /\ Len(E.bbs) = N + 1 /\ Newest(E) = N + 1
      /\ Open(E) = (Open(ir) \cup {N + 1}) \ {open[1].start} /\ Kept(ir, E)
  BY <1>1, <1>2, <1>3, <1>4, ElseStartIs, ElseStartKept
<1>6. open[1].start \in Open(ir) /\ open[1].start # ir.current_bb
  <2>1. Pending(open[1]) = open[1].start
    BY <1>1 DEF Pending
  <2> QED BY <1>1, <1>2, <2>1, NestedHead
<1>7. Len(order) \in Nat
  BY OrdersAre
<1>8. PICK newer : newer = scopes[1].upper_table
  OBVIOUS
<1>9. PICK original : original = Registers(Tail(scopes), DOMAIN newer)
  OBVIOUS
<1>10. PICK changed : changed = {n \in DOMAIN newer : newer[n] # original[n]}
  OBVIOUS
<1>11. PICK moved : moved = Moves(E, order, changed, N + 1, newer, original)
  OBVIOUS
<1>12. Like(E, moved) /\ Kept(ir, moved)
  <2>1. N + 1 \in Open(E)
    BY <1>2, <1>4, <1>5, <1>6
  <2>2. Typed(E) /\ E.register_nr = ir.register_nr
    BY <1>5 DEF Kept
  <2>3. ASSUME NEW n \in changed PROVE newer[n] \in 1 .. E.register_nr /\ original[n] \in 0 .. E.register_nr
    <3>1. n \in DOMAIN newer /\ n \in DOMAIN scopes[1].upper_table
      BY <1>8, <1>10
    <3>2. original[n] = Lookup(Tail(scopes), n)
      BY <1>9, <3>1 DEF Registers
    <3>3. newer[n] \in 1 .. ir.register_nr /\ original[n] \in 1 .. ir.register_nr
      BY <1>1, <1>8, <3>1, <3>2, OldRegisters
    <3> QED BY <1>2, <2>2, <3>3
  <2>4. Like(E, moved)
    BY <1>5, <1>7, <1>11, <2>1, MovesLike
  <2>5. Kept(E, moved)
    BY <1>5, <1>7, <1>11, <2>1, <2>2, <2>3, MovesKept
  <2> QED BY <1>5, <2>4, <2>5, KeptKept
<1>13. PICK d : d = Doubt(moved, AnyStale(Tail(scopes), DOMAIN newer))
  OBVIOUS
<1>14. Like(E, d) /\ Kept(ir, d)
  <2>1. Good(moved) /\ Typed(moved)
    BY <1>12 DEF Like, Kept
  <2>2. Like(moved, d) /\ Kept(moved, d)
    BY <1>13, <2>1, DoubtLike, DoubtKept
  <2> QED BY <1>12, <2>2, LikeLike, KeptKept
<1>15. Good(d) /\ Len(d.bbs) = N + 1 /\ Open(d) = (Open(ir) \cup {N + 1}) \ {open[1].start}
  BY <1>5, <1>14 DEF Like
<1>16. PICK ss : ss = Join(scopes)
  OBVIOUS
<1>17. Scoped(ss, ir.register_nr) /\ Tied(ss) /\ Grown(Tail(scopes), ss)
  BY <1>1, <1>16, OuterNow, JoinTied
<1>18. EndIf(d, ir.current_bb, N + 1, ss)
  <2>1. newer = Head(scopes).upper_table
    BY <1>1, <1>8, OuterNow
  <2> QED BY <1>3, <1>5, <1>9, <1>10, <1>11, <1>13, <1>16, <2>1 DEF EndThen
<1>19. ir.current_bb \in Open(d) /\ N + 1 \in Open(d) /\ ir.current_bb # N + 1 /\ Len(ir.bbs) <= Len(d.bbs)
  BY <1>2, <1>4, <1>6, <1>15
<1> QED BY <1>1, <1>14, <1>15, <1>17, <1>18, <1>19, EndIfTypes

LEMMA ElseTypes ==
  ASSUME EndsInv, TypesInv, Else
  PROVE  TypesInv'
<1>1. open # <<>> /\ open[1].kind = "then" /\ ~ended
  BY DEF Else, Ending
<1>2. Nested(ir, open) /\ Good(ir) /\ Len(ir.bbs) \in Nat /\ Open(ir) \subseteq 1 .. Len(ir.bbs)
      /\ ir.current_bb \in Open(ir) /\ ir.register_nr \in Nat /\ IsSeq(open)
  BY NestedIs, NestedNow DEF EndsInv
<1>3. PICK E : E = ElseStart
  OBVIOUS
<1>4. PICK N : N = Len(ir.bbs)
  OBVIOUS
<1>5. Good(E) /\ Len(E.bbs) = N + 1 /\ Newest(E) = N + 1 /\ Kept(ir, E)
  BY <1>1, <1>2, <1>3, <1>4, ElseStartIs, ElseStartKept
<1>6. PICK j : j = [E EXCEPT !.current_bb = N + 1]
  OBVIOUS
<1>7. Kept(ir, j) /\ Len(j.bbs) = N + 1
  <2>1. Typed(E)
    BY <1>5 DEF Kept
  <2> QED BY <1>5, <1>6, <2>1, CurrentIs, CurrentKept, KeptKept
<1>8. PICK newer : newer = Head(scopes).upper_table
  OBVIOUS
<1>9. PICK y : y = [Construct("else", open[1].start, open[1].reg, open[1].expr)
                       EXCEPT !.newer = newer, !.then_bb = ir.current_bb]
  OBVIOUS
<1>10. /\ y.reg = open[1].reg /\ y.cond_start = None /\ y.body_start = None
       /\ y.then_bb = ir.current_bb /\ y.newer = newer
  BY <1>9 DEF Construct
<1>11. newer = scopes[1].upper_table /\ Len(scopes) > 1 /\ Scoped(scopes, ir.register_nr) /\ Tied(scopes)
  BY <1>1, <1>8, OuterNow
<1>12. Ready(y, ir.register_nr, N + 1)
  <2>1. open[1].reg \in 0 .. ir.register_nr
    BY <1>1, OuterNow DEF Ready
  <2>2. None \in 0 .. N + 1 /\ ir.current_bb \in 0 .. N + 1
    BY <1>2, <1>4 DEF None
  <2>3. InRegs(ir.register_nr, newer)
    BY <1>1, <1>11, OldRegisters DEF InRegs
  <2> QED BY <1>10, <2>1, <2>2, <2>3 DEF Ready
<1>13. PICK tail : tail = Tail(scopes)
  OBVIOUS
<1>14. PICK joined : joined = Join(scopes)
  OBVIOUS
<1>15. Scoped(joined, ir.register_nr) /\ Tied(joined) /\ Grown(tail, joined)
  BY <1>11, <1>13, <1>14, JoinTied
<1>16. PICK stale : stale = {n \in DOMAIN newer : newer[n] # Lookup(Tail(scopes), n)}
  OBVIOUS
<1>17. PICK s : s = [NewScope EXCEPT !.stale = stale]
  OBVIOUS
<1>18. IsScope(s) /\ s.symbol_table = Empty /\ s.upper_table = Empty
  BY <1>17 DEF NewScope, IsScope
<1>19. PICK pushed : pushed = Push(joined)
  OBVIOUS
<1>20. PICK ss : ss = [pushed EXCEPT ![1].stale = stale]
  OBVIOUS
<1>21. Top(ss, s, joined)
  <2>1. IsSeq(joined) /\ Len(joined) \in Nat
    BY <1>15, SeqShape DEF Scoped
  <2>2. Top(pushed, NewScope, joined)
    BY <1>19, <2>1, TopPushed DEF Push
  <2>3. ss = [pushed EXCEPT ![1] = s]
    <3>1. 1 \in DOMAIN pushed /\ pushed[1] = NewScope
      BY <2>1, <2>2, SeqShape DEF Top
    <3> QED BY <1>17, <1>20, <3>1
  <2>4. Replaces(ss, pushed, 1, s) /\ IsSeq(pushed)
    BY <2>2, <2>3 DEF Replaces, Top
  <2>5. IsSeq(ss) /\ Len(ss) = Len(pushed) /\ \A k \in 1 .. Len(pushed) : ss[k] = IF k = 1 THEN s ELSE pushed[k]
    BY <2>4, ReplacedIs
  <2>6. ss[1] = s
    BY <2>1, <2>2, <2>5 DEF Top
  <2>7. ASSUME NEW k \in 1 .. Len(joined) PROVE ss[k + 1] = joined[k]
    <3>1. k + 1 \in 1 .. Len(pushed) /\ k + 1 # 1
      BY <2>1, <2>2 DEF Top
    <3> QED BY <2>2, <2>5, <3>1 DEF Top
  <2> QED BY <2>1, <2>2, <2>5, <2>6, <2>7 DEF Top
<1>22. /\ Scoped(ss, ir.register_nr) /\ Tied(ss) /\ Len(ss) = Len(joined) + 1 /\ ss[Len(ss)] = joined[Len(joined)]
       /\ \A k \in Nat : \A n : Beyond(joined, k, n) => Beyond(ss, k + 1, n)
  BY <1>15, <1>18, <1>21, PushTied
<1>23. PICK os : os = Tail(open)
  OBVIOUS
<1>24. IsSeq(os) /\ Opened(os, tail, ir.register_nr, N) /\ IsSeq(tail) /\ Based(ir, tail)
       /\ Scoped(tail, ir.register_nr)
  <2>1. IsSeq(os)
    BY <1>1, <1>2, <1>23, PoppedIs
  <2>2. Opened(os, tail, ir.register_nr, N)
    BY <1>1, <1>2, <1>4, <1>13, <1>23, OpenedTail DEF TypesInv, Shape
  <2>3. Scoped(tail, ir.register_nr) /\ Based(ir, tail)
    BY <1>11, <1>13, TailTied, BasedTail DEF TypesInv, Shape
  <2> QED BY <2>1, <2>2, <2>3 DEF Scoped
<1>25. Opened(os, joined, ir.register_nr, N + 1)
  <2>1. N \in Nat /\ N + 1 \in Nat /\ N <= N + 1 /\ ir.register_nr <= ir.register_nr
    BY <1>2, <1>4
  <2> QED BY <1>2, <1>15, <1>24, <2>1, OpenedMore
<1>26. ASSUME NEW n \in DOMAIN y.newer PROVE Beyond(ss, 1, n)
  <2>1. n \in DOMAIN scopes[1].upper_table
    BY <1>10, <1>11
  <2>2. Beyond(scopes, 1, n)
    BY <1>11, <2>1, UpperIs
  <2>3. PICK zero : zero = 0 /\ zero \in Nat /\ zero + 1 = 1
    OBVIOUS
  <2>4. Beyond(tail, zero, n)
    <3>1. IsSeq(scopes) /\ Beyond(scopes, zero + 1, n)
      BY <1>11, <2>2, <2>3 DEF Scoped
    <3> QED BY <1>11, <1>13, <2>3, <3>1, TailBeyond
  <2>5. Beyond(joined, zero, n)
    BY <1>15, <1>24, <2>3, <2>4, BeyondGrown
  <2>6. Beyond(ss, zero + 1, n)
    BY <1>22, <2>3, <2>5
  <2> QED BY <2>3, <2>6
<1>27. PICK new : new = [open EXCEPT ![1] = y]
  OBVIOUS
<1>28. Opened(new, ss, ir.register_nr, N + 1)
  <2>1. Top(new, y, os)
    BY <1>1, <1>2, <1>23, <1>27, TopPopped
  <2> QED BY <1>12, <1>22, <1>25, <1>26, <2>1, OpenedPush
<1>29. Based(j, ss)
  <2>1. Based(j, joined)
    BY <1>7, <1>15, <1>24, BasedGrown DEF Kept
  <2> QED BY <1>22, <2>1 DEF Based
<1>30. Shape(j, ss, new)
  BY <1>7, <1>22, <1>28, <1>29 DEF Shape, Kept
<1>31. ir' = j
  BY <1>3, <1>5, <1>6 DEF Else
<1>32. scopes' = ss
  BY <1>8, <1>14, <1>16, <1>19, <1>20 DEF Else
<1>33. open' = new
  <2>1. open' = [open EXCEPT ![1] = [Construct("else", @.start, @.reg, @.expr)
                                       EXCEPT !.newer = newer, !.then_bb = ir.current_bb]]
    BY <1>8 DEF Else
  <2> QED BY <1>9, <1>27, <2>1
<1> QED BY <1>30, <1>31, <1>32, <1>33 DEF TypesInv

------------------------------------------------------------------------------

LEMMA EndElseTypes ==
  ASSUME Careful, EndsInv, TypesInv, NEW order \in Orders, NEW later \in Orders, EndElse(order, later)
  PROVE  TypesInv'
<1>1. open # <<>> /\ open[1].kind = "else" /\ ~ended
  BY DEF EndElse, Ending
<1>2. Nested(ir, open) /\ Good(ir) /\ Len(ir.bbs) \in Nat /\ ir.current_bb \in Open(ir)
      /\ Typed(ir) /\ ir.register_nr \in Nat
  BY NestedIs, NestedNow DEF EndsInv
<1>3. PICK bb : bb = open[1].then_bb
  OBVIOUS
<1>4. bb \in Open(ir) /\ bb # ir.current_bb
  <2>1. Pending(open[1]) = bb
    BY <1>1, <1>3 DEF Pending
  <2> QED BY <1>1, <1>2, <2>1, NestedHead
<1>5. Len(order) \in Nat /\ Len(later) \in Nat
  BY OrdersAre
<1>6. PICK newer, upper, base : newer = open[1].newer /\ upper = Head(scopes).upper_table /\ base = Tail(scopes)
  OBVIOUS
<1>7. PICK only, both, left : /\ only = DOMAIN upper \ DOMAIN newer /\ both = DOMAIN upper \cap DOMAIN newer
                              /\ left = DOMAIN newer \ DOMAIN upper
  OBVIOUS
<1>8. PICK old : old = Registers(base, only)
  OBVIOUS
<1>9. PICK merged : merged = [base EXCEPT ![1].upper_table = Over([n \in only |-> upper[n]], @)]
  OBVIOUS
<1>10. PICK cond \in BOOLEAN :
         cond = (\/ left \cap Head(scopes).stale # {}
                 \/ {n \in only \cap DOMAIN base[1].symbol_table : upper[n] # old[n]} # {}
                 \/ AnyStale(base, only))
  OBVIOUS
<1>11. PICK a : a = Moves(ir, order, only, bb, upper, old)
  OBVIOUS
<1>12. PICK b : b = Moves(a, order, both, ir.current_bb, newer, upper)
  OBVIOUS
<1>13. PICK from : from = Registers(merged, left)
  OBVIOUS
<1>14. PICK c : c = Moves(b, later, left, ir.current_bb, newer, from)
  OBVIOUS
<1>15. PICK d : d = Doubt(c, cond)
  OBVIOUS
<1>16. EndIf(d, bb, ir.current_bb, merged)
  BY <1>3, <1>6, <1>7, <1>8, <1>9, <1>10, <1>11, <1>12, <1>13, <1>14, <1>15, ZenonT(30)
     DEF EndElse
(* The registers of each table exist.                                        *)
<1>17. upper = scopes[1].upper_table /\ Len(scopes) > 1 /\ Scoped(scopes, ir.register_nr) /\ Tied(scopes)
       /\ InRegs(ir.register_nr, newer) /\ \A n \in DOMAIN newer : Beyond(base, 0, n)
  BY <1>1, <1>6, OuterNow DEF Ready
<1>18. ASSUME NEW n \in DOMAIN upper PROVE upper[n] \in 1 .. ir.register_nr /\ upper[n] \in 0 .. ir.register_nr
  <2>1. upper[n] \in 1 .. ir.register_nr
    BY <1>1, <1>17, OldRegisters
  <2> QED BY <1>2, <2>1
<1>19. ASSUME NEW n \in only PROVE old[n] \in 0 .. ir.register_nr /\ old[n] = Lookup(base, n)
  <2>1. n \in DOMAIN scopes[1].upper_table
    BY <1>7, <1>17
  <2>2. old[n] = Lookup(base, n)
    BY <1>8 DEF Registers
  <2>3. Lookup(base, n) \in 1 .. ir.register_nr
    BY <1>1, <1>6, <2>1, OldRegisters
  <2> QED BY <1>2, <2>2, <2>3
<1>20. ASSUME NEW n \in DOMAIN newer PROVE newer[n] \in 1 .. ir.register_nr
  BY <1>17 DEF InRegs
(* Careful excludes the registers that would be shared.                      *)
<1>21. Kept(ir, a) /\ Like(ir, a)
  <2>1. \A n \in only : upper[n] \in 1 .. ir.register_nr /\ old[n] \in 0 .. ir.register_nr
    BY <1>7, <1>18, <1>19
  <2> QED BY <1>2, <1>4, <1>5, <1>11, <2>1, MovesKept, MovesLike
<1>22. Kept(ir, b) /\ Like(ir, b)
  <2>1. Good(a) /\ ir.current_bb \in Open(a) /\ Typed(a) /\ a.register_nr = ir.register_nr
    BY <1>2, <1>21 DEF Like, Kept
  <2>2. \A n \in both : newer[n] \in 1 .. a.register_nr /\ upper[n] \in 0 .. a.register_nr
    BY <1>7, <1>18, <1>20, <2>1
  <2>3. Kept(a, b) /\ Like(a, b)
    BY <1>5, <1>12, <2>1, <2>2, MovesKept, MovesLike
  <2> QED BY <1>21, <2>3, KeptKept, LikeLike
<1>23. Like(ir, c)
  <2>1. Good(b) /\ ir.current_bb \in Open(b)
    BY <1>2, <1>22 DEF Like
  <2>2. Like(b, c)
    BY <1>5, <1>14, <2>1, MovesLike
  <2> QED BY <1>22, <2>2, LikeLike
<1>24. ~cond
  <2>1. IsBuilder(c)
    BY <1>23 DEF Like, Good
  <2> QED BY <1>15, <1>16, <2>1, EndIfSound
<1>25. base[1] = scopes[2]
  BY <1>6, <1>17, TailIs
<1>26. ASSUME NEW n \in only, n \in DOMAIN scopes[2].symbol_table
       PROVE  scopes[1].upper_table[n] = Lookup(Tail(scopes), n)
  <2>1. n \notin {m \in only \cap DOMAIN base[1].symbol_table : upper[m] # old[m]}
    BY <1>10, <1>24
  <2>2. upper[n] = old[n]
    BY <1>25, <1>26, <2>1
  <2> QED BY <1>6, <1>17, <1>19, <2>2
<1>27. merged = [Tail(scopes) EXCEPT ![1].upper_table = Over(Handed(scopes, only), @)]
  <2>1. [n \in only |-> upper[n]] = Handed(scopes, only)
    BY <1>17 DEF Handed
  <2> QED BY <1>6, <1>9, <2>1
<1>28. Scoped(merged, ir.register_nr) /\ Tied(merged) /\ Grown(base, merged)
  <2>1. only \in SUBSET DOMAIN scopes[1].upper_table
    BY <1>7, <1>17
  <2> QED BY <1>6, <1>17, <1>26, <1>27, <2>1, MergedTied
<1>29. ASSUME NEW n \in left PROVE from[n] \in 0 .. ir.register_nr
  <2>1. Beyond(base, 0, n) /\ from[n] = Lookup(merged, n)
    BY <1>7, <1>13, <1>17 DEF Registers
  <2>2. IsSeq(base)
    BY <1>6, <1>17, TailIs
  <2>3. Lookup(merged, n) \in 1 .. ir.register_nr
    BY <1>28, <2>1, <2>2, GrownLookup
  <2> QED BY <1>2, <2>1, <2>3
<1>30. Kept(ir, c)
  <2>1. Good(b) /\ ir.current_bb \in Open(b) /\ Typed(b) /\ b.register_nr = ir.register_nr
    BY <1>2, <1>22 DEF Like, Kept
  <2>2. \A n \in left : newer[n] \in 1 .. b.register_nr /\ from[n] \in 0 .. b.register_nr
    BY <1>7, <1>20, <1>29, <2>1
  <2>3. Kept(b, c)
    BY <1>5, <1>14, <2>1, <2>2, MovesKept
  <2> QED BY <1>22, <2>3, KeptKept
<1>31. Kept(ir, d) /\ Like(ir, d)
  <2>1. Good(c) /\ Typed(c)
    BY <1>23, <1>30 DEF Like, Kept
  <2>2. Kept(c, d) /\ Like(c, d)
    BY <1>15, <2>1, DoubtKept, DoubtLike
  <2> QED BY <1>23, <1>30, <2>2, KeptKept, LikeLike
<1>32. Good(d) /\ Len(ir.bbs) <= Len(d.bbs) /\ ir.current_bb \in Open(d) /\ bb \in Open(d)
  BY <1>2, <1>4, <1>31 DEF Like
<1>33. Grown(Tail(scopes), merged)
  BY <1>6, <1>28
<1> QED BY <1>1, <1>4, <1>16, <1>28, <1>31, <1>32, <1>33, EndIfTypes

LEMMA EndWhileTypes ==
  ASSUME EndsInv, TypesInv, NEW order \in Orders, NEW later \in Orders, EndWhile(order, later)
  PROVE  TypesInv'
<1>1. open # <<>> /\ open[1].kind = "while" /\ ~ended
  BY DEF EndWhile, Ending
<1>2. Nested(ir, open) /\ Good(ir) /\ Len(ir.bbs) \in Nat /\ Open(ir) \subseteq 1 .. Len(ir.bbs)
      /\ ir.current_bb \in Open(ir) /\ Typed(ir) /\ ir.register_nr \in Nat
  BY NestedIs, NestedNow DEF EndsInv
<1>3. PICK body_end : body_end = ir.current_bb
  OBVIOUS
<1>4. PICK start : start = open[1].start
  OBVIOUS
<1>5. PICK cond_start : cond_start = open[1].cond_start
  OBVIOUS
<1>6. PICK N : N = Len(ir.bbs)
  OBVIOUS
<1>7. /\ start \in Open(ir) /\ start # body_end /\ start \in 0 .. N /\ cond_start # None
      /\ cond_start \in 0 .. N + 1 /\ open[1].body_start \in 0 .. N + 1 /\ open[1].reg \in 0 .. ir.register_nr
  <2>1. Pending(open[1]) = start
    BY <1>1, <1>4 DEF Pending
  <2>2. IsConstruct(open[1])
    BY <1>1, <1>2, NestedHead
  <2>3. cond_start # None
    BY <1>1, <1>5, <2>2 DEF IsConstruct
  <2>4. Ready(open[1], ir.register_nr, N)
    BY <1>1, <1>6, OuterNow
  <2>5. cond_start \in 0 .. N + 1 /\ open[1].body_start \in 0 .. N + 1 /\ open[1].reg \in 0 .. ir.register_nr
    BY <1>2, <1>5, <1>6, <2>4 DEF Ready
  <2> QED BY <1>1, <1>2, <1>3, <1>4, <1>6, <2>1, <2>3, <2>5, NestedHead
<1>8. Len(order) \in Nat /\ Len(later) \in Nat
  BY OrdersAre
<1>9. PICK end : end = Extended(ir, start)
  OBVIOUS
<1>10. Good(end) /\ Len(end.bbs) = N + 1 /\ Newest(end) = N + 1 /\ Open(end) = Open(ir) \cup {N + 1} /\ Kept(ir, end)
  BY <1>2, <1>6, <1>7, <1>9, ExtendedIs, ExtendedKept
<1>11. PICK upper : upper = Head(scopes).upper_table
  OBVIOUS
<1>12. PICK base : base = Tail(scopes)
  OBVIOUS
<1>13. PICK old : old = Registers(base, DOMAIN upper)
  OBVIOUS
<1>14. PICK joined : joined = Join(scopes)
  OBVIOUS
<1>15. PICK after : after = Registers(joined, DOMAIN upper)
  OBVIOUS
<1>16. PICK claim, reg : claim = open[1].expr /\ reg = open[1].reg
  OBVIOUS
<1>17. PICK cond : cond = ((\E k \in 2 .. Len(open), n \in DOMAIN upper :
                              /\ open[k].kind \in {"then", "else"}
                              /\ Holder(ir, open[k].start, "numeric_value", old[n]) # None)
                           \/ AnyStale(base, DOMAIN upper))
  OBVIOUS
<1>18. PICK a : a = Moves(end, order, DOMAIN upper, body_end, old, upper)
  OBVIOUS
<1>19. PICK b : b = When(a, base, N + 1, claim, FALSE)
  OBVIOUS
<1>20. PICK c : c = Moves(b, later, DOMAIN upper, N + 1, after, old)
  OBVIOUS
<1>21. PICK d : d = Br(c, start, reg, open[1].body_start, N + 1)
  OBVIOUS
<1>22. PICK f : f = J(d, body_end, cond_start)
  OBVIOUS
<1>23. PICK g : g = Doubt(f, cond)
  OBVIOUS
<1>24. Finish(g, N + 1, joined)
  BY <1>3, <1>4, <1>5, <1>9, <1>10, <1>11, <1>12, <1>13, <1>14, <1>15, <1>16, <1>17, <1>18,
     <1>19, <1>20, <1>21, <1>22, <1>23
     DEF EndWhile
(* The registers of each table exist.                                        *)
<1>25. upper = scopes[1].upper_table /\ Len(scopes) > 1 /\ Scoped(scopes, ir.register_nr) /\ Tied(scopes)
  BY <1>1, <1>11, OuterNow
<1>26. Scoped(joined, ir.register_nr) /\ Tied(joined) /\ Grown(base, joined)
  BY <1>12, <1>14, <1>25, JoinTied
<1>27. ASSUME NEW n \in DOMAIN upper
       PROVE  /\ upper[n] \in 0 .. ir.register_nr /\ old[n] \in 1 .. ir.register_nr
              /\ old[n] \in 0 .. ir.register_nr /\ after[n] \in 1 .. ir.register_nr
  <2>1. n \in DOMAIN scopes[1].upper_table
    BY <1>25
  <2>2. upper[n] \in 1 .. ir.register_nr /\ Lookup(base, n) \in 1 .. ir.register_nr
    BY <1>1, <1>12, <1>25, <2>1, OldRegisters
  <2>3. old[n] = Lookup(base, n) /\ after[n] = Lookup(joined, n)
    BY <1>13, <1>15 DEF Registers
  <2>4. Beyond(base, 0, n)
    <3>1. PICK zero : zero = 0 /\ zero \in Nat /\ zero + 1 = 1
      OBVIOUS
    <3>2. IsSeq(scopes) /\ Beyond(scopes, zero + 1, n)
      BY <1>25, <2>1, <3>1, UpperIs DEF Scoped
    <3>3. Beyond(base, zero, n)
      BY <1>12, <1>25, <3>1, <3>2, TailBeyond
    <3> QED BY <3>1, <3>3
  <2>5. IsSeq(base)
    BY <1>12, <1>25, TailIs
  <2>6. Lookup(joined, n) \in 1 .. ir.register_nr
    BY <1>26, <2>4, <2>5, GrownLookup
  <2> QED BY <1>2, <2>2, <2>3, <2>6
<1>28. Like(end, a) /\ Kept(ir, a)
  <2>1. body_end \in Open(end) /\ Typed(end) /\ end.register_nr = ir.register_nr
    BY <1>2, <1>3, <1>10 DEF Kept
  <2>2. Like(end, a)
    BY <1>8, <1>10, <1>18, <2>1, MovesLike
  <2>3. \A n \in DOMAIN upper : old[n] \in 1 .. end.register_nr /\ upper[n] \in 0 .. end.register_nr
    BY <1>27, <2>1
  <2>4. Kept(end, a)
    BY <1>8, <1>10, <1>18, <2>1, <2>3, MovesKept
  <2> QED BY <1>10, <2>2, <2>4, KeptKept
<1>29. Like(end, b) /\ Kept(ir, b)
  <2>1. Good(a) /\ Typed(a)
    BY <1>28 DEF Like, Kept
  <2>2. Like(a, b) /\ Kept(a, b)
    BY <1>19, <2>1, WhenLike, WhenKept
  <2> QED BY <1>28, <2>2, LikeLike, KeptKept
<1>30. Like(end, c) /\ Kept(ir, c)
  <2>1. N + 1 \in Open(b) /\ Good(b) /\ Typed(b) /\ b.register_nr = ir.register_nr
    BY <1>10, <1>29 DEF Like, Kept
  <2>2. \A n \in DOMAIN upper : after[n] \in 1 .. b.register_nr /\ old[n] \in 0 .. b.register_nr
    BY <1>27, <2>1
  <2>3. Like(b, c)
    BY <1>8, <1>20, <2>1, MovesLike
  <2>4. Kept(b, c)
    BY <1>8, <1>20, <2>1, <2>2, MovesKept
  <2> QED BY <1>29, <2>3, <2>4, LikeLike, KeptKept
<1>31. Good(c) /\ Len(c.bbs) = N + 1 /\ Open(c) = Open(ir) \cup {N + 1}
  BY <1>10, <1>30 DEF Like
<1>32. Good(d) /\ Len(d.bbs) = N + 1 /\ Open(d) = (Open(ir) \cup {N + 1}) \ {start} /\ Kept(ir, d)
  <2>1. start \in Open(c) /\ N + 1 # None
    BY <1>2, <1>6, <1>7, <1>31 DEF None
  <2>2. Less(c, d, start)
    BY <1>21, <1>31, <2>1, BrLess
  <2>3. Typed(c) /\ reg \in 0 .. c.register_nr
    BY <1>7, <1>16, <1>30 DEF Kept
  <2>4. open[1].body_start \in 0 .. Len(c.bbs) /\ N + 1 \in 0 .. Len(c.bbs)
    BY <1>2, <1>6, <1>7, <1>31
  <2>5. Kept(c, d)
    BY <1>21, <1>31, <2>1, <2>3, <2>4, BrKept
  <2> QED BY <1>30, <1>31, <2>2, <2>5, KeptKept DEF Less
<1>33. Good(f) /\ Len(f.bbs) = N + 1 /\ Kept(ir, f)
  <2>1. body_end \in Open(d)
    BY <1>2, <1>3, <1>7, <1>32
  <2>2. Less(d, f, body_end)
    BY <1>7, <1>22, <1>32, <2>1, JLess
  <2>3. Typed(d) /\ cond_start \in 0 .. Len(d.bbs)
    BY <1>7, <1>32 DEF Kept
  <2>4. Kept(d, f)
    BY <1>22, <1>32, <2>1, <2>3, JKept
  <2> QED BY <1>32, <2>2, <2>4, KeptKept DEF Less
<1>34. Good(g) /\ Len(g.bbs) = N + 1 /\ Kept(ir, g)
  <2>1. Typed(f)
    BY <1>33 DEF Kept
  <2>2. Like(f, g) /\ Kept(f, g)
    BY <1>23, <1>33, <2>1, DoubtLike, DoubtKept
  <2> QED BY <1>33, <2>2, KeptKept DEF Like
<1>35. Len(ir.bbs) <= Len(g.bbs)
  BY <1>2, <1>6, <1>34
<1>36. Grown(Tail(scopes), joined)
  BY <1>12, <1>26
<1> QED BY <1>1, <1>24, <1>26, <1>34, <1>35, <1>36, FinishTypes

LEMMA EndFunctionTypes ==
  ASSUME EndsInv, TypesInv, EndFunction
  PROVE  TypesInv'
<1>1. Good(ir) /\ ir.current_bb \in Open(ir) /\ Typed(ir) /\ Scoped(scopes, ir.register_nr)
      /\ ir.register_nr \in Nat /\ Len(ir.bbs) \in Nat
  BY NestedNow
<1>2. PICK d : d = ClaimAll(ir, scopes)
  OBVIOUS
<1>3. Like(ir, d) /\ Kept(ir, d)
  BY <1>1, <1>2, ClaimAllLike, ClaimAllKept
<1>4. PICK inst : inst = Inst("UNDEFINED", 0, 0, 0)
  OBVIOUS
<1>5. inst.type = "UNDEFINED" /\ "rd" \in DOMAIN inst
  BY <1>4 DEF Inst
<1>6. Operates(d.register_nr, inst)
  BY <1>5 DEF Operates, Ops
<1>7. PICK undefined : undefined = Fresh(d, ir.current_bb, inst)
  OBVIOUS
<1>8. Good(d) /\ ir.current_bb \in Open(d) /\ Typed(d)
  BY <1>1, <1>3 DEF Like, Kept
<1>9. Like(ir, undefined) /\ Given(d, undefined) /\ undefined.register_nr = ir.register_nr + 1
  <2>1. Like(d, undefined)
    BY <1>7, <1>8, FreshLike
  <2>2. Given(d, undefined) /\ undefined.register_nr = d.register_nr + 1
    BY <1>6, <1>7, <1>8, FreshGiven
  <2>3. d.register_nr = ir.register_nr
    BY <1>3 DEF Kept
  <2> QED BY <1>3, <2>1, <2>2, <2>3, LikeLike
<1>10. PICK ret : ret = Inst("RET", undefined.reg, 0, 0)
  OBVIOUS
<1>11. ret.type = "RET"
  BY <1>10 DEF Inst
<1>12. Fits(undefined.register_nr, ret)
  BY <1>11 DEF Fits, Ops
<1>13. PICK j : j = Emit(undefined, ir.current_bb, ret)
  OBVIOUS
<1>14. Good(undefined) /\ ir.current_bb \in Open(undefined) /\ Typed(undefined)
  BY <1>1, <1>9 DEF Like, Given
<1>15. Like(undefined, j) /\ Kept(undefined, j)
  BY <1>12, <1>13, <1>14, EmitLike, EmitKept
<1>16. ir' = j
  BY <1>2, <1>4, <1>7, <1>10, <1>13 DEF EndFunction
<1>17. scopes' = scopes /\ open' = open
  BY DEF EndFunction
<1>18. /\ Typed(j) /\ j.register_nr = ir.register_nr + 1 /\ j.captured = ir.captured
       /\ Len(j.bbs) = Len(ir.bbs)
  BY <1>3, <1>9, <1>15 DEF Kept, Given, Like
<1>19. IsSeq(scopes) /\ IsSeq(open)
  BY <1>1 DEF Scoped, EndsInv, Nested
<1>20. Opened(open, scopes, j.register_nr, Len(j.bbs))
  <2>1. Grown(scopes, scopes)
    BY <1>19 DEF Grown
  <2>2. ir.register_nr + 1 \in Nat /\ ir.register_nr <= ir.register_nr + 1 /\ Len(ir.bbs) <= Len(ir.bbs)
    BY <1>1
  <2> QED BY <1>1, <1>18, <1>19, <2>1, <2>2, OpenedMore DEF TypesInv, Shape
<1>21. Scoped(scopes, j.register_nr)
  <2>1. ir.register_nr <= j.register_nr
    BY <1>1, <1>18
  <2> QED BY <1>1, <1>18, <2>1, ScopesMore
<1>22. Based(j, scopes) /\ Tied(scopes)
  BY <1>18 DEF TypesInv, Shape, Based
<1>23. Shape(j, scopes, open)
  BY <1>18, <1>20, <1>21, <1>22 DEF Shape
<1> QED BY <1>16, <1>17, <1>23 DEF TypesInv

------------------------------------------------------------------------------

LEMMA TypesInit == CallInit => TypesInv
<1> SUFFICES ASSUME CallInit PROVE TypesInv
  OBVIOUS
<1>1. Len(Params) \in Nat /\ DOMAIN Params = 1 .. Len(Params)
  BY NamesAssumption
<1>2. PICK L : L = 1 + Len(Params) /\ L \in Nat \ {0}
  BY <1>1
<1>3. ir = [Builder EXCEPT !.register_nr = L] /\ open = <<>>
  BY <1>2 DEF CallInit, Init
<1>4. PICK b : b = NewBlock(None)
  OBVIOUS
<1>5. ir.bbs = <<b>> /\ ir.register_nr = L /\ ir.reg = 0 /\ ir.captured = Empty
  BY <1>3, <1>4 DEF Builder
<1>6. PICK zeros : zeros = With(Empty, 0, 0)
  OBVIOUS
<1>7. DOMAIN zeros = {0} /\ zeros[0] = 0
  BY <1>6 DEF With, Empty
<1>8. /\ b.insts = <<>> /\ b.br_reg = 0 /\ b.then_bb = 0 /\ b.else_bb = 0
      /\ b.constant_table = zeros /\ b.numeric_value = zeros
  BY <1>4, <1>6 DEF NewBlock, None
<1>9. FitsBlock(L, 1, b)
  <2>1. IsSeq(<<>>) /\ Len(<<>>) = 0
    BY DEF IsSeq
  <2>2. \A k \in 1 .. Len(b.insts) : Fits(L, b.insts[k])
    BY <1>8, <2>1
  <2> QED BY <1>2, <1>7, <1>8, <2>1, <2>2 DEF FitsBlock
<1>10. Len(<<b>>) = 1 /\ <<b>>[1] = b
  OBVIOUS
<1>11. Typed(ir)
  <2>1. \A k \in 1 .. Len(ir.bbs) : FitsBlock(L, Len(ir.bbs), ir.bbs[k])
    BY <1>5, <1>9, <1>10
  <2> QED BY <1>2, <1>5, <2>1 DEF Typed, Empty
<1>12. PICK nr : nr = [n \in Range(Params) |-> CHOOSE k \in DOMAIN Params : Params[k] = n]
  OBVIOUS
<1>13. PICK names : names = [n \in Range(Params) |-> 1 + nr[n]]
  OBVIOUS
<1>14. PICK table : table = With(names, "this", 1)
  OBVIOUS
<1>15. InRegs(L, table)
  <2>1. ASSUME NEW n \in Range(Params) PROVE names[n] \in 1 .. L
    <3>1. \E k \in DOMAIN Params : Params[k] = n
      BY <2>1 DEF Range
    <3>2. nr[n] \in DOMAIN Params
      BY <1>12, <2>1, <3>1
    <3> QED BY <1>1, <1>2, <1>13, <2>1, <3>2
  <2>2. DOMAIN table = Range(Params) \cup {"this"}
        /\ \A n \in DOMAIN table : table[n] = IF n = "this" THEN 1 ELSE names[n]
    BY <1>13, <1>14 DEF With
  <2>3. 1 \in 1 .. L
    BY <1>2
  <2> QED BY <2>1, <2>2, <2>3 DEF InRegs
<1>16. PICK variable : variable = Over(nr, [n \in DOMAIN Enclosing |-> -Enclosing[n]])
  OBVIOUS
<1>17. PICK s : s = [NewScope EXCEPT !.symbol_table = table, !.variable = variable]
  OBVIOUS
<1>18. scopes = <<s>>
  BY <1>12, <1>13, <1>14, <1>16, <1>17 DEF CallInit, Init
<1>19. IsScope(s) /\ s.symbol_table = table /\ s.upper_table = Empty
  BY <1>17 DEF NewScope, IsScope
<1>20. IsSeq(<<s>>) /\ Len(<<s>>) = 1 /\ <<s>>[1] = s
  BY DEF IsSeq
<1>21. Scoped(scopes, L)
  <2>1. InRegs(L, Empty)
    BY DEF InRegs, Empty
  <2> QED BY <1>15, <1>18, <1>19, <1>20, <2>1 DEF Scoped
<1>22. Tied(scopes)
  BY <1>18, <1>19, <1>20 DEF Tied, Empty
<1>23. Based(ir, scopes)
  BY <1>5 DEF Based, Empty
<1>24. Opened(open, scopes, L, Len(ir.bbs))
  BY <1>3, <1>18, <1>20 DEF Opened
<1> QED BY <1>5, <1>11, <1>21, <1>22, <1>23, <1>24 DEF TypesInv, Shape

LEMMA TypesNext ==
  ASSUME Careful, EndsInv, TypesInv, [CallNext]_allVars
  PROVE  TypesInv'
<1>1. CASE UNCHANGED <<ir, scopes, open>>
  <2>1. TypesInv' <=> TypesInv
    BY <1>1, Zenon DEF TypesInv
  <2> QED BY <2>1
<1>2. CASE Run
  <2>1. UNCHANGED vars
    BY <1>2 DEF Run, Call, RunBlock
  <2> QED BY <1>1, <2>1 DEF vars
<1>3. CASE UNCHANGED allVars
  BY <1>1, <1>3 DEF allVars, vars
<1>4. CASE EndFunction
  BY <1>4, EndFunctionTypes
<1>5. CASE ParseStatement
  <2>1. ASSUME NEW n \in Names, NEW e \in Values, Let(n, e) PROVE TypesInv'
    BY <2>1, LetTypes
  <2>2. ASSUME NEW n \in Names, NEW e \in Values, Assign(n, e) PROVE TypesInv'
    BY <2>2, AssignTypes
  <2>3. ASSUME NEW n \in Names, Declare(n) PROVE TypesInv'
    BY <2>3, DeclareTypes
  <2>4. ASSUME NEW e \in Results, Return(e) PROVE TypesInv'
    BY <2>4, ReturnTypes
  <2>13. CASE ReturnNothing
    BY <2>13, ReturnNothingTypes
  <2>5. CASE OpenBlock
    BY <2>5, OpenBlockTypes
  <2>6. CASE CloseBlock
    BY <2>6, CloseBlockTypes
  <2>7. ASSUME NEW e \in Conds, If(e) PROVE TypesInv'
    BY <2>7, IfTypes
  <2>8. ASSUME NEW e \in Conds, While(e) PROVE TypesInv'
    BY <2>8, WhileTypes
  <2>9. CASE Else
    BY <2>9, ElseTypes
  <2>10. ASSUME NEW order \in Orders, EndThen(order) PROVE TypesInv'
    BY <2>10, EndThenTypes
  <2>11. ASSUME NEW order \in Orders, NEW later \in Orders, EndElse(order, later) PROVE TypesInv'
    BY <2>11, EndElseTypes
  <2>12. ASSUME NEW order \in Orders, NEW later \in Orders, EndWhile(order, later) PROVE TypesInv'
    BY <2>12, EndWhileTypes
  <2> QED BY <1>5, <2>1, <2>2, <2>3, <2>4, <2>5, <2>6, <2>7, <2>8, <2>9, <2>10, <2>11, <2>12, <2>13
       DEF ParseStatement
<1> QED BY <1>2, <1>3, <1>4, <1>5 DEF CallNext, Parse

LEMMA TypesGive ==
  ASSUME EndsInv, TypesInv
  PROVE  TypeOK
<1>1. Good(ir) /\ ir.current_bb \in Open(ir) /\ Typed(ir) /\ Scoped(scopes, ir.register_nr) /\ ir.register_nr \in Nat
  BY NestedNow
<1>2. PICK nr : nr = ir.register_nr /\ nr \in Nat
  BY <1>1
<1>3. PICK N : N = Len(ir.bbs) /\ N \in Nat /\ DOMAIN ir.bbs = 1 .. N
  BY <1>1, SeqShape DEF Good
<1>4. ir.current_bb \in DOMAIN ir.bbs
  BY <1>1, <1>3 DEF Open
<1>5. ASSUME NEW b \in DOMAIN ir.bbs
      PROVE  LET bb == ir.bbs[b] IN
             /\ bb.dominator \in 0 .. b - 1
             /\ bb.br_reg \in 0 .. nr /\ {bb.then_bb, bb.else_bb} \subseteq {None} \cup DOMAIN ir.bbs
             /\ Range(bb.constant_table) \subseteq 0 .. nr /\ DOMAIN bb.numeric_value \subseteq 0 .. nr
             /\ \A i \in Range(bb.insts) :
                  /\ i.type \in Ops \cup {"MOV", "LNOT"} => i.rd \in (0 .. nr) \ {0} /\ {i.rs, i.rt} \subseteq 0 .. nr
                  /\ i.type \in {"IS", "MOV"} => i.rs \in 0 .. nr
  <2>1. PICK bb : bb = ir.bbs[b]
    OBVIOUS
  <2>2. FitsBlock(nr, N, bb) /\ bb.dominator \in 0 .. b - 1
    BY <1>1, <1>2, <1>3, <2>1 DEF Typed, Good
  <2>3. {bb.then_bb, bb.else_bb} \subseteq {None} \cup DOMAIN ir.bbs
    BY <1>3, <2>2 DEF FitsBlock, None
  <2>4. Range(bb.constant_table) \subseteq 0 .. nr /\ DOMAIN bb.numeric_value \subseteq 0 .. nr
    BY <2>2 DEF FitsBlock, Range
  <2>5. ASSUME NEW i \in Range(bb.insts)
        PROVE  /\ i.type \in Ops \cup {"MOV", "LNOT"} => i.rd \in (0 .. nr) \ {0} /\ {i.rs, i.rt} \subseteq 0 .. nr
               /\ i.type \in {"IS", "MOV"} => i.rs \in 0 .. nr
    <3>1. PICK k \in DOMAIN bb.insts : i = bb.insts[k]
      BY <2>5 DEF Range
    <3>2. k \in 1 .. Len(bb.insts)
      BY <2>2, <3>1, SeqShape DEF FitsBlock
    <3>3. Fits(nr, i)
      BY <2>2, <3>1, <3>2 DEF FitsBlock
    <3> QED BY <1>2, <3>3 DEF Fits
  <2>6. bb.br_reg \in 0 .. nr
    BY <2>2 DEF FitsBlock
  <2> QED BY <2>1, <2>2, <2>3, <2>4, <2>5, <2>6
<1>6. ASSUME NEW s \in Range(scopes) PROVE Range(s.symbol_table) \cup Range(s.upper_table) \subseteq 0 .. nr
  <2>1. PICK k \in DOMAIN scopes : s = scopes[k]
    BY <1>6 DEF Range
  <2>2. k \in 1 .. Len(scopes)
    BY <1>1, <2>1, SeqShape DEF Scoped
  <2>3. InRegs(nr, s.symbol_table) /\ InRegs(nr, s.upper_table)
    BY <1>1, <1>2, <2>1, <2>2 DEF Scoped
  <2> QED BY <1>2, <2>3 DEF InRegs, Range
<1> QED BY <1>2, <1>4, <1>5, <1>6, Zenon DEF TypeOK

(* Of a program that parse.c gets right, every register and every block that *)
(* an instruction, a branch or a table names exists, and no instruction      *)
(* writes register 0 (ir_builder.c; the tables of scopes, parse.c).          *)
THEOREM TypesHold == ASSUME Careful PROVE CallSpec => []TypeOK
<1>1. EndsInv /\ TypesInv => TypeOK
  BY TypesGive
<1>2. CallInit => EndsInv /\ TypesInv
  BY EndsInit, TypesInit
<1>3. EndsInv /\ TypesInv /\ [CallNext]_allVars => (EndsInv /\ TypesInv)'
  BY EndsNext, TypesNext
<1> QED BY <1>1, <1>2, <1>3, PTL DEF CallSpec
==============================================================================
