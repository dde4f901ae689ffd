--------------------------- MODULE LinkedListProofs ---------------------------
(***************************************************************************)
(* Proofs about LinkedList, for any number of lists and nodes.             *)
(***************************************************************************)
EXTENDS LinkedList, SequenceTheorems, TLAPS

(* What a list looks like in memory: a location that holds each node, which *)
(* is what the node points back at, and one at the end that holds NULL.     *)
Loc(l, s, i) == IF i = 0 THEN HeadOf(l) ELSE NextOf(s[i])
Chain(m, l, s) ==
  /\ s \in Seq(Node)
  /\ \A i, j \in 1 .. Len(s) : s[i] = s[j] => i = j
  /\ m.size[l] = Len(s)
  /\ \A i \in 1 .. Len(s) : m.list[s[i]] = l /\ m.prev[s[i]] = Loc(l, s, i - 1)
  /\ \A i \in 0 .. Len(s) : m.cell[Loc(l, s, i)] = IF i = Len(s) THEN NULL ELSE s[i + 1]
  /\ m.tail[l] = Loc(l, s, Len(s))

Holds(m, ord, gone) ==
  /\ m \in Memory /\ ord \in [List -> Seq(Node)] /\ gone \subseteq Node
  /\ \A l \in List : Chain(m, l, ord[l])
  /\ \A n \in gone : m.list[n] # NULL
  /\ \A l \in List : \A i \in 1 .. Len(ord[l]) : ord[l][i] \notin gone
  /\ \A n \in Node \ gone : \A l \in List :
       m.list[n] = l => \E i \in 1 .. Len(ord[l]) : ord[l][i] = n

IInv ==
  /\ Holds(memory, order, lost)
  /\ moving = NULL \/ (moving \in List \X List /\ moving[1] # moving[2])

(***************************************************************************)
(* Sequences with one element more or less.                                *)
(***************************************************************************)
LEMMA InsertAtProperties ==
  ASSUME NEW s \in Seq(Node), NEW i \in 1 .. Len(s) + 1, NEW n \in Node
  PROVE  /\ InsertAt(s, i, n) \in Seq(Node) /\ Len(InsertAt(s, i, n)) = Len(s) + 1
         /\ \A k \in 1 .. Len(s) + 1 :
              InsertAt(s, i, n)[k] = IF k < i THEN s[k] ELSE IF k = i THEN n ELSE s[k - 1]
<1> DEFINE a == SubSeq(s, 1, i - 1)  b == SubSeq(s, i, Len(s))
<1>1. Len(s) \in Nat
  OBVIOUS
<1>2. a \in Seq(Node) /\ Len(a) = i - 1 /\ \A k \in 1 .. i - 1 : a[k] = s[k]
  BY <1>1, SubSeqProperties
<1>3. b \in Seq(Node) /\ Len(b) = Len(s) - i + 1 /\ \A k \in 1 .. Len(s) - i + 1 : b[k] = s[i + k - 1]
  BY <1>1, SubSeqProperties
<1> HIDE DEF a, b
<1>4. PICK c \in Seq(Node) : /\ c = a \o <<n>> /\ Len(c) = i
                             /\ \A k \in 1 .. i : c[k] = IF k < i THEN s[k] ELSE n
  <2>1. /\ (a \o <<n>>) \in Seq(Node) /\ Len(a \o <<n>>) = i
        /\ \A k \in 1 .. i : (a \o <<n>>)[k] = IF k < i THEN s[k] ELSE n
    BY <1>1, <1>2
  <2> QED
    BY <2>1
<1>5. InsertAt(s, i, n) = c \o b
  BY <1>4 DEF InsertAt, a, b
<1>6. /\ c \o b \in Seq(Node) /\ Len(c \o b) = Len(c) + Len(b)
      /\ \A k \in 1 .. Len(c) + Len(b) : (c \o b)[k] = IF k <= Len(c) THEN c[k] ELSE b[k - Len(c)]
  BY <1>3, ConcatProperties
<1>7. Len(c) + Len(b) = Len(s) + 1
  BY <1>1, <1>3, <1>4
<1>8. \A k \in 1 .. Len(s) + 1 : k > i => b[k - i] = s[k - 1]
  BY <1>1, <1>3
<1> QED
  BY <1>1, <1>4, <1>5, <1>6, <1>7, <1>8

LEMMA RemoveAtProperties ==
  ASSUME NEW s \in Seq(Node), NEW i \in 1 .. Len(s)
  PROVE  /\ RemoveAt(s, i) \in Seq(Node) /\ Len(RemoveAt(s, i)) = Len(s) - 1
         /\ \A k \in 1 .. Len(s) - 1 : RemoveAt(s, i)[k] = IF k < i THEN s[k] ELSE s[k + 1]
<1> DEFINE a == SubSeq(s, 1, i - 1)  b == SubSeq(s, i + 1, Len(s))  r == RemoveAt(s, i)
<1>1. Len(s) \in Nat
  OBVIOUS
<1>2. a \in Seq(Node) /\ Len(a) = i - 1 /\ \A k \in 1 .. i - 1 : a[k] = s[k]
  BY <1>1, SubSeqProperties
<1>3. b \in Seq(Node) /\ Len(b) = Len(s) - i /\ \A k \in 1 .. Len(s) - i : b[k] = s[i + k]
  BY <1>1, SubSeqProperties
<1>4. r = a \o b
  BY DEF RemoveAt
<1> HIDE DEF a, b, r
<1>5. /\ r \in Seq(Node) /\ Len(r) = Len(a) + Len(b)
      /\ \A k \in 1 .. Len(a) + Len(b) : r[k] = IF k <= Len(a) THEN a[k] ELSE b[k - Len(a)]
  BY <1>2, <1>3, <1>4, ConcatProperties
<1>6. Len(r) = Len(s) - 1
  BY <1>1, <1>2, <1>3, <1>5
<1>7. ASSUME NEW k \in 1 .. Len(s) - 1
      PROVE  r[k] = IF k < i THEN s[k] ELSE s[k + 1]
  <2>1. CASE k < i
    <3>1. k \in 1 .. Len(a) + Len(b) /\ k <= Len(a) /\ k \in 1 .. i - 1
      BY <2>1, <1>1, <1>2, <1>3
    <3> QED
      BY <2>1, <3>1, <1>2, <1>5
  <2>2. CASE k >= i
    <3>1. /\ k \in 1 .. Len(a) + Len(b) /\ ~(k <= Len(a)) /\ ~(k < i)
          /\ k - Len(a) \in 1 .. Len(s) - i /\ i + (k - Len(a)) = k + 1
      BY <2>2, <1>1, <1>2, <1>3
    <3>2. r[k] = b[k - Len(a)] /\ b[k - Len(a)] = s[i + (k - Len(a))]
      BY <3>1, <1>3, <1>5
    <3> QED
      BY <3>1, <3>2
  <2> QED
    BY <2>1, <2>2, <1>1
<1> QED
  BY <1>5, <1>6, <1>7 DEF r

(***************************************************************************)
(* All four ways to insert put a node behind a location.                   *)
(***************************************************************************)
Spliced(m, l, x, n) ==
  LET next == m.cell[x]
  IN  [cell |-> [m.cell EXCEPT ![NextOf(n)] = next, ![x] = n],
       prev |-> Followed([m.prev EXCEPT ![n] = x], n, next),
       list |-> [m.list EXCEPT ![n] = l],
       tail |-> EndingIn(m.tail, l, n, next),
       size |-> [m.size EXCEPT ![l] = @ + 1]]

LEMMA Locations ==
  /\ \A l, k : HeadOf(l) = HeadOf(k) => l = k
  /\ \A n, o : NextOf(n) = NextOf(o) => n = o
  /\ \A l, n : HeadOf(l) # NextOf(n)
  /\ \A l \in List : HeadOf(l) \in Location
  /\ \A n \in Node : NextOf(n) \in Location
BY DEF HeadOf, NextOf, Location

LEMMA ChainLocations ==
  ASSUME NEW m \in Memory, NEW l \in List, NEW s, Chain(m, l, s)
  PROVE  /\ \A i \in 0 .. Len(s) : Loc(l, s, i) \in Location
         /\ \A i, j \in 0 .. Len(s) : Loc(l, s, i) = Loc(l, s, j) => i = j
         /\ \A i \in 1 .. Len(s) : s[i] \in Node
         /\ Len(s) \in Nat
         /\ \A k \in List : \A t : k # l /\ Chain(m, k, t) =>
              \A i \in 0 .. Len(s), j \in 0 .. Len(t) : Loc(l, s, i) # Loc(k, t, j)
<1>1. s \in Seq(Node) /\ Len(s) \in Nat /\ \A i \in 1 .. Len(s) : s[i] \in Node
  BY DEF Chain
<1>2. \A i \in 0 .. Len(s) : i # 0 => i \in 1 .. Len(s)
  BY <1>1
<1>3. \A i \in 0 .. Len(s) : Loc(l, s, i) \in Location
  BY <1>1, <1>2, Locations DEF Loc
<1>4. \A i, j \in 0 .. Len(s) : Loc(l, s, i) = Loc(l, s, j) => i = j
  BY <1>1, <1>2, Locations DEF Loc, Chain
<1>5. ASSUME NEW k \in List, NEW t, k # l, Chain(m, k, t),
             NEW i \in 0 .. Len(s), NEW j \in 0 .. Len(t)
      PROVE  Loc(l, s, i) # Loc(k, t, j)
  <2>1. t \in Seq(Node) /\ (j # 0 => j \in 1 .. Len(t))
    BY <1>5 DEF Chain
  <2>2. i # 0 => m.list[s[i]] = l
    BY <1>2 DEF Chain
  <2>3. j # 0 => m.list[t[j]] = k
    BY <1>5, <2>1 DEF Chain
  <2>4. CASE i = 0 \/ j = 0
    BY <2>4, <1>1, <1>5, Locations DEF Loc
  <2>5. CASE i # 0 /\ j # 0
    <3>1. s[i] # t[j] /\ Loc(l, s, i) = NextOf(s[i]) /\ Loc(k, t, j) = NextOf(t[j])
      BY <2>2, <2>3, <2>5, <1>5 DEF Loc
    <3> QED
      BY <3>1, Locations
  <2> QED
    BY <2>4, <2>5
<1> QED
  BY <1>1, <1>3, <1>4, <1>5

LEMMA SplicedMemory ==
  ASSUME NEW m \in Memory, NEW l \in List, NEW x \in Location, NEW n \in Node, m.size[l] \in Nat
  PROVE  /\ Spliced(m, l, x, n) \in Memory
         /\ Spliced(m, l, x, n).list = [m.list EXCEPT ![n] = l]
<1> DEFINE next == m.cell[x]
           c == Spliced(m, l, x, n)
<1>1. /\ m.cell \in [Location -> Node \cup {NULL}] /\ m.prev \in [Node -> Location]
      /\ m.list \in [Node -> List \cup {NULL}] /\ m.tail \in [List -> Location]
      /\ m.size \in [List -> Nat]
  BY DEF Memory
<1>2. NextOf(n) \in Location
  BY Locations
<1>3. c.cell \in [Location -> Node \cup {NULL}]
  BY <1>1, <1>2 DEF Spliced
<1>4. c.prev \in [Node -> Location] /\ c.tail \in [List -> Location]
  BY <1>1, <1>2 DEF Spliced, Followed, EndingIn
<1>5. /\ c.list \in [Node -> List \cup {NULL}] /\ c.size \in [List -> Nat]
      /\ c.list = [m.list EXCEPT ![n] = l]
      /\ c = [cell |-> c.cell, prev |-> c.prev, list |-> c.list, tail |-> c.tail, size |-> c.size]
  BY <1>1 DEF Spliced
<1> HIDE DEF c
<1>6. c \in Memory
  BY <1>3, <1>4, <1>5 DEF Memory
<1> QED
  BY <1>5, <1>6 DEF c

(* The chain of the list that a node is put into. *)
LEMMA SplicedChain ==
  ASSUME Distinct, NEW m \in Memory, NEW l \in List, NEW s, Chain(m, l, s),
         NEW p \in 1 .. Len(s) + 1, NEW n \in Node, m.list[n] = NULL
  PROVE  Chain(Spliced(m, l, Loc(l, s, p - 1), n), l, InsertAt(s, p, n))
<1> DEFINE x == Loc(l, s, p - 1)
           next == m.cell[x]
           c == Spliced(m, l, x, n)
           t == InsertAt(s, p, n)
<1>1. /\ m.cell \in [Location -> Node \cup {NULL}] /\ m.prev \in [Node -> Location]
      /\ m.list \in [Node -> List \cup {NULL}] /\ m.tail \in [List -> Location]
      /\ m.size \in [List -> Nat]
  BY DEF Memory
<1>2. /\ s \in Seq(Node) /\ Len(s) \in Nat /\ m.size[l] = Len(s)
      /\ \A i, j \in 1 .. Len(s) : s[i] = s[j] => i = j
      /\ \A i \in 1 .. Len(s) : m.list[s[i]] = l /\ m.prev[s[i]] = Loc(l, s, i - 1)
      /\ \A i \in 0 .. Len(s) : m.cell[Loc(l, s, i)] = IF i = Len(s) THEN NULL ELSE s[i + 1]
      /\ m.tail[l] = Loc(l, s, Len(s))
  BY DEF Chain
<1>3. /\ \A i \in 0 .. Len(s) : Loc(l, s, i) \in Location
      /\ \A i, j \in 0 .. Len(s) : Loc(l, s, i) = Loc(l, s, j) => i = j
      /\ \A i \in 1 .. Len(s) : s[i] \in Node
  BY ChainLocations
<1>4. \A i \in 1 .. Len(s) : s[i] # n
  BY <1>2 DEF Distinct
<1>5. \A i \in 0 .. Len(s) : Loc(l, s, i) # NextOf(n)
  BY <1>2, <1>4, Locations DEF Loc
<1>6. p - 1 \in 0 .. Len(s) /\ x \in Location /\ NextOf(n) \in Location /\ x # NextOf(n)
      /\ next = IF p = Len(s) + 1 THEN NULL ELSE s[p]
  BY <1>2, <1>3, <1>5, Locations
<1>7. /\ t \in Seq(Node) /\ Len(t) = Len(s) + 1
      /\ \A k \in 1 .. Len(s) + 1 : t[k] = IF k < p THEN s[k] ELSE IF k = p THEN n ELSE s[k - 1]
  BY <1>2, InsertAtProperties
<1>8. /\ c.cell = [m.cell EXCEPT ![NextOf(n)] = next, ![x] = n]
      /\ c.prev = Followed([m.prev EXCEPT ![n] = x], n, next)
      /\ c.list = [m.list EXCEPT ![n] = l]
      /\ c.tail = EndingIn(m.tail, l, n, next)
      /\ c.size = [m.size EXCEPT ![l] = @ + 1]
  BY DEF Spliced
<1> HIDE DEF t, c
<1>9. \A i \in 0 .. Len(t) : Loc(l, t, i) = IF i < p THEN Loc(l, s, i)
                                            ELSE IF i = p THEN NextOf(n) ELSE Loc(l, s, i - 1)
  BY <1>2, <1>7 DEF Loc
<1> HIDE DEF x, next
<1>10. \A i, j \in 1 .. Len(t) : t[i] = t[j] => i = j
  <2>1. ASSUME NEW i \in 1 .. Len(t), i # p
        PROVE  \E k \in 1 .. Len(s) : t[i] = s[k] /\ i = IF k < p THEN k ELSE k + 1
    <3>1. CASE i < p
      BY <3>1, <1>2, <1>7
    <3>2. CASE i > p
      <4>1. i - 1 \in 1 .. Len(s) /\ t[i] = s[i - 1] /\ i = (i - 1) + 1 /\ ~(i - 1 < p)
        BY <3>2, <1>2, <1>7
      <4> QED
        BY <4>1
    <3> QED
      BY <3>1, <3>2, <2>1, <1>2, <1>7
  <2>2. t[p] = n /\ p \in 1 .. Len(t)
    BY <1>2, <1>7
  <2>3. \A k \in 1 .. Len(s) : s[k] # n
    BY <1>4
  <2>4. ASSUME NEW i \in 1 .. Len(t), NEW j \in 1 .. Len(t), t[i] = t[j], i # p, j # p
        PROVE  i = j
    <3>1. PICK k \in 1 .. Len(s) : t[i] = s[k] /\ i = IF k < p THEN k ELSE k + 1
      BY <2>1, <2>4
    <3>2. PICK h \in 1 .. Len(s) : t[j] = s[h] /\ j = IF h < p THEN h ELSE h + 1
      BY <2>1, <2>4
    <3>3. k = h
      BY <3>1, <3>2, <2>4, <1>2
    <3> QED
      BY <3>1, <3>2, <3>3
  <2> QED
    BY <2>1, <2>2, <2>3, <2>4
<1>11. c.size[l] = Len(t)
  BY <1>1, <1>2, <1>7, <1>8
<1>12. \A i \in 1 .. Len(t) : c.list[t[i]] = l
  <2>1. ASSUME NEW i \in 1 .. Len(t)
        PROVE  t[i] = n \/ (t[i] \in Node /\ m.list[t[i]] = l)
    <3>1. t[i] = n \/ \E k \in 1 .. Len(s) : t[i] = s[k]
      BY <1>2, <1>7
    <3> QED
      BY <3>1, <1>2, <1>3
  <2> QED
    BY <2>1, <1>1, <1>8
<1>13. ASSUME NEW i \in 1 .. Len(t)
       PROVE  c.prev[t[i]] = Loc(l, t, i - 1)
  <2>1. CASE i < p
    <3>1. /\ t[i] = s[i] /\ i \in 1 .. Len(s) /\ s[i] # n /\ (next # NULL => s[i] # next)
          /\ Loc(l, t, i - 1) = Loc(l, s, i - 1)
      <4>1. i \in 1 .. Len(s) /\ i - 1 \in 0 .. Len(t) /\ i - 1 < p /\ t[i] = s[i]
        BY <2>1, <1>2, <1>7
      <4>2. next # NULL => next = s[p] /\ p \in 1 .. Len(s)
        BY <1>2, <1>6
      <4> QED
        BY <2>1, <4>1, <4>2, <1>2, <1>4, <1>9
    <3> QED
      BY <2>1, <3>1, <1>1, <1>2, <1>3, <1>4, <1>6, <1>7, <1>8, <1>9 DEF Followed
  <2>2. CASE i = p
    <3>1. t[i] = n /\ Loc(l, t, i - 1) = x /\ n # next
      BY <2>2, <1>2, <1>4, <1>6, <1>7, <1>9 DEF x, Distinct
    <3> QED
      BY <3>1, <1>1, <1>6, <1>8 DEF Followed
  <2>3. CASE i = p + 1
    <3>1. t[i] = s[p] /\ p \in 1 .. Len(s) /\ next = s[p] /\ s[p] \in Node /\ next # NULL
          /\ Loc(l, t, i - 1) = NextOf(n)
      BY <2>3, <1>2, <1>3, <1>6, <1>7, <1>9 DEF Distinct
    <3> QED
      BY <3>1, <1>1, <1>6, <1>8, Locations DEF Followed
  <2>4. CASE i > p + 1
    <3>1. /\ t[i] = s[i - 1] /\ i - 1 \in 1 .. Len(s) /\ s[i - 1] # n
          /\ Loc(l, t, i - 1) = Loc(l, s, i - 2) /\ m.prev[s[i - 1]] = Loc(l, s, i - 2)
          /\ s[i - 1] # next /\ s[i - 1] \in Node
      BY <2>4, <1>2, <1>3, <1>4, <1>6, <1>7, <1>9
    <3> QED
      BY <3>1, <1>1, <1>8 DEF Followed
  <2> QED
    BY <2>1, <2>2, <2>3, <2>4, <1>2, <1>7
<1>14. ASSUME NEW i \in 0 .. Len(t)
       PROVE  c.cell[Loc(l, t, i)] = IF i = Len(t) THEN NULL ELSE t[i + 1]
  <2>1. CASE i < p - 1
    <3>1. /\ Loc(l, t, i) = Loc(l, s, i) /\ i \in 0 .. Len(s) /\ i # Len(s) /\ i # Len(t)
          /\ t[i + 1] = s[i + 1] /\ Loc(l, s, i) # x /\ Loc(l, s, i) # NextOf(n)
      BY <2>1, <1>2, <1>3, <1>5, <1>6, <1>7, <1>9 DEF x
    <3> QED
      BY <3>1, <1>1, <1>2, <1>3, <1>6, <1>8
  <2>2. CASE i = p - 1
    <3>1. Loc(l, t, i) = x /\ i # Len(t) /\ t[i + 1] = n
      BY <2>2, <1>2, <1>6, <1>7, <1>9 DEF x
    <3> QED
      BY <3>1, <1>1, <1>6, <1>8
  <2>3. CASE i = p
    <3>1. Loc(l, t, i) = NextOf(n) /\ next = IF i = Len(t) THEN NULL ELSE t[i + 1]
      BY <2>3, <1>2, <1>6, <1>7, <1>9
    <3> QED
      BY <3>1, <1>1, <1>6, <1>8
  <2>4. CASE i > p
    <3>1. /\ Loc(l, t, i) = Loc(l, s, i - 1) /\ i - 1 \in 0 .. Len(s) /\ i - 1 # p - 1
          /\ m.cell[Loc(l, s, i - 1)] = IF i = Len(t) THEN NULL ELSE s[i]
          /\ i # Len(t) => t[i + 1] = s[i]
      <4>1. /\ i - 1 \in 0 .. Len(s) /\ i - 1 # p - 1 /\ ~(i < p) /\ i # p
            /\ i = Len(t) <=> i - 1 = Len(s)
            /\ i # Len(t) => i + 1 \in 1 .. Len(s) + 1 /\ ~(i + 1 < p) /\ i + 1 # p
            /\ (i - 1) + 1 = i /\ (i + 1) - 1 = i
        <5>1. Len(s) \in Nat /\ Len(t) = Len(s) + 1
          BY <1>2, <1>7
        <5>2. i \in Nat /\ i <= Len(s) + 1 /\ p \in Nat /\ i > p /\ p >= 1
          BY <5>1, <2>4
        <5> QED
          BY <5>1, <5>2
      <4>2. m.cell[Loc(l, s, i - 1)] = IF i = Len(t) THEN NULL ELSE s[i]
        <5>1. m.cell[Loc(l, s, i - 1)] = IF i - 1 = Len(s) THEN NULL ELSE s[(i - 1) + 1]
          BY <4>1, <1>2
        <5> QED
          BY <5>1, <4>1
      <4>3. Loc(l, t, i) = Loc(l, s, i - 1)
        BY <4>1, <1>9
      <4>4. i # Len(t) => t[i + 1] = s[i]
        BY <4>1, <1>7
      <4> QED
        BY <4>1, <4>2, <4>3, <4>4
    <3>2. Loc(l, s, i - 1) # x /\ Loc(l, s, i - 1) # NextOf(n) /\ Loc(l, s, i - 1) \in Location
      BY <3>1, <1>3, <1>5, <1>6 DEF x
    <3> QED
      BY <3>1, <3>2, <1>1, <1>8
  <2> QED
    BY <2>1, <2>2, <2>3, <2>4, <1>2, <1>7
<1>15. c.tail[l] = Loc(l, t, Len(t))
  <2>1. CASE p = Len(s) + 1
    <3>1. next = NULL /\ Loc(l, t, Len(t)) = NextOf(n)
      BY <2>1, <1>2, <1>6, <1>7, <1>9
    <3> QED
      BY <3>1, <1>1, <1>8 DEF EndingIn
  <2>2. CASE p # Len(s) + 1
    <3>1. next = s[p] /\ p \in 1 .. Len(s) /\ next # NULL /\ Loc(l, t, Len(t)) = Loc(l, s, Len(s))
      BY <2>2, <1>2, <1>3, <1>6, <1>7, <1>9 DEF Distinct
    <3> QED
      BY <3>1, <1>2, <1>8 DEF EndingIn
  <2> QED
    BY <2>1, <2>2
<1>16. Chain(c, l, t)
  BY <1>7, <1>10, <1>11, <1>12, <1>13, <1>14, <1>15 DEF Chain
<1> QED
  BY <1>16 DEF c, t, x

(* No other chain notices. *)
LEMMA SplicedOthers ==
  ASSUME Distinct, NEW m \in Memory, NEW l \in List, NEW s, Chain(m, l, s),
         NEW p \in 1 .. Len(s) + 1, NEW n \in Node, m.list[n] = NULL,
         NEW k \in List, k # l, NEW t, Chain(m, k, t)
  PROVE  Chain(Spliced(m, l, Loc(l, s, p - 1), n), k, t)
<1> DEFINE x == Loc(l, s, p - 1)
           next == m.cell[x]
           c == Spliced(m, l, x, n)
<1>1. /\ m.cell \in [Location -> Node \cup {NULL}] /\ m.prev \in [Node -> Location]
      /\ m.list \in [Node -> List \cup {NULL}] /\ m.tail \in [List -> Location]
      /\ m.size \in [List -> Nat]
  BY DEF Memory
<1>2. /\ p - 1 \in 0 .. Len(s) /\ x \in Location
      /\ next = NULL \/ (next \in Node /\ m.list[next] = l)
  <2>1. Len(s) \in Nat /\ p - 1 \in 0 .. Len(s)
    BY DEF Chain
  <2>2. next = NULL \/ (p \in 1 .. Len(s) /\ next = s[p])
    <3>1. \A i \in 0 .. Len(s) : m.cell[Loc(l, s, i)] = IF i = Len(s) THEN NULL ELSE s[i + 1]
      BY DEF Chain
    <3>2. next = IF p - 1 = Len(s) THEN NULL ELSE s[(p - 1) + 1]
      BY <2>1, <3>1
    <3>3. (p - 1) + 1 = p
      OBVIOUS
    <3> QED
      BY <3>2, <3>3, <2>1
  <2>3. x \in Location /\ \A i \in 1 .. Len(s) : s[i] \in Node /\ m.list[s[i]] = l
    BY <2>1, ChainLocations DEF Chain
  <2> QED
    BY <2>1, <2>2, <2>3
<1>3. /\ \A i \in 0 .. Len(t) : Loc(k, t, i) \in Location /\ Loc(k, t, i) # x
      /\ \A i \in 1 .. Len(t) : t[i] \in Node /\ m.list[t[i]] = k
      /\ t \in Seq(Node)
  <2>1. \A i \in 0 .. Len(t) : Loc(k, t, i) \in Location
    BY ChainLocations
  <2>2. \A i \in 0 .. Len(t) : Loc(k, t, i) # Loc(l, s, p - 1)
    BY <1>2, ChainLocations
  <2>3. t \in Seq(Node) /\ \A i \in 1 .. Len(t) : t[i] \in Node /\ m.list[t[i]] = k
    BY DEF Chain
  <2> QED
    BY <2>1, <2>2, <2>3
<1>4. \A i \in 1 .. Len(t) : t[i] # n /\ (next # NULL => t[i] # next)
  BY <1>2, <1>3 DEF Distinct
<1>5. \A i \in 0 .. Len(t) : Loc(k, t, i) # NextOf(n)
  BY <1>3, <1>4, Locations DEF Loc
<1>6. /\ c.cell = [m.cell EXCEPT ![NextOf(n)] = next, ![x] = n]
      /\ c.prev = Followed([m.prev EXCEPT ![n] = x], n, next)
      /\ c.list = [m.list EXCEPT ![n] = l]
      /\ c.tail = EndingIn(m.tail, l, n, next)
      /\ c.size = [m.size EXCEPT ![l] = @ + 1]
  BY DEF Spliced
<1> HIDE DEF x, next, c
<1>7. /\ \A i \in 0 .. Len(t) : c.cell[Loc(k, t, i)] = m.cell[Loc(k, t, i)]
      /\ \A i \in 1 .. Len(t) : c.list[t[i]] = m.list[t[i]]
      /\ c.size[k] = m.size[k]
  BY <1>1, <1>3, <1>4, <1>5, <1>6
<1>8. \A i \in 1 .. Len(t) : c.prev[t[i]] = m.prev[t[i]]
  BY <1>1, <1>3, <1>4, <1>6 DEF Followed
<1>9. c.tail[k] = m.tail[k]
  BY <1>1, <1>6 DEF EndingIn
<1>10. Chain(c, k, t)
  BY <1>7, <1>8, <1>9 DEF Chain
<1> QED
  BY <1>10 DEF c, x

(***************************************************************************)
(* Unlinking takes the node behind a location out.                         *)
(***************************************************************************)
LEMMA UnlinkedMemory ==
  ASSUME NEW m \in Memory, NEW l \in List, NEW n \in Node, m.list[n] = l, m.size[l] \in Nat \ {0}
  PROVE  /\ Unlinked(m, n) \in Memory
         /\ Unlinked(m, n).list = [m.list EXCEPT ![n] = NULL]
<1> DEFINE c == Unlinked(m, n)
<1>1. /\ m.cell \in [Location -> Node \cup {NULL}] /\ m.prev \in [Node -> Location]
      /\ m.list \in [Node -> List \cup {NULL}] /\ m.tail \in [List -> Location]
      /\ m.size \in [List -> Nat]
  BY DEF Memory
<1>2. NextOf(n) \in Location /\ m.prev[n] \in Location
  BY <1>1, Locations
<1>3. /\ c.cell \in [Location -> Node \cup {NULL}]
      /\ c.prev \in [Node -> Location] /\ c.tail \in [List -> Location]
  BY <1>1, <1>2 DEF Unlinked
<1>4. /\ c.list \in [Node -> List \cup {NULL}]
      /\ c.list = [m.list EXCEPT ![n] = NULL]
      /\ c = [cell |-> c.cell, prev |-> c.prev, list |-> c.list, tail |-> c.tail, size |-> c.size]
  BY <1>1 DEF Unlinked
<1>5. c.size \in [List -> Nat]
  BY <1>1 DEF Unlinked
<1> HIDE DEF c
<1>6. c \in Memory
  BY <1>3, <1>4, <1>5 DEF Memory
<1> QED
  BY <1>4, <1>6 DEF c

LEMMA UnlinkedChain ==
  ASSUME Distinct, NEW m \in Memory, NEW l \in List, NEW s, Chain(m, l, s),
         NEW p \in 1 .. Len(s)
  PROVE  Chain(Unlinked(m, s[p]), l, RemoveAt(s, p))
<1> DEFINE n == s[p]
           x == m.prev[n]
           next == m.cell[NextOf(n)]
           c == Unlinked(m, n)
           t == RemoveAt(s, p)
<1>1. /\ m.cell \in [Location -> Node \cup {NULL}] /\ m.prev \in [Node -> Location]
      /\ m.list \in [Node -> List \cup {NULL}] /\ m.tail \in [List -> Location]
      /\ m.size \in [List -> Nat]
  BY DEF Memory
<1>2. /\ s \in Seq(Node) /\ Len(s) \in Nat /\ m.size[l] = Len(s)
      /\ \A i, j \in 1 .. Len(s) : s[i] = s[j] => i = j
      /\ \A i \in 1 .. Len(s) : m.list[s[i]] = l /\ m.prev[s[i]] = Loc(l, s, i - 1)
      /\ \A i \in 0 .. Len(s) : m.cell[Loc(l, s, i)] = IF i = Len(s) THEN NULL ELSE s[i + 1]
      /\ m.tail[l] = Loc(l, s, Len(s))
  BY DEF Chain
<1>3. /\ \A i \in 0 .. Len(s) : Loc(l, s, i) \in Location
      /\ \A i, j \in 0 .. Len(s) : Loc(l, s, i) = Loc(l, s, j) => i = j
      /\ \A i \in 1 .. Len(s) : s[i] \in Node
  BY ChainLocations
<1>4. NextOf(n) = Loc(l, s, p) /\ p \in 0 .. Len(s) /\ p - 1 \in 0 .. Len(s) /\ x = Loc(l, s, p - 1)
  BY <1>2 DEF Loc
<1>5. next = IF p = Len(s) THEN NULL ELSE s[p + 1]
  BY <1>2, <1>4
<1>6. /\ t \in Seq(Node) /\ Len(t) = Len(s) - 1
      /\ \A k \in 1 .. Len(s) - 1 : t[k] = IF k < p THEN s[k] ELSE s[k + 1]
  BY <1>2, RemoveAtProperties
<1>7. /\ c.cell = [m.cell EXCEPT ![x] = next]
      /\ c.prev = IF next = NULL THEN m.prev ELSE [m.prev EXCEPT ![next] = x]
      /\ c.list = [m.list EXCEPT ![n] = NULL]
      /\ c.tail = IF next = NULL THEN [m.tail EXCEPT ![l] = x] ELSE m.tail
      /\ c.size = [m.size EXCEPT ![l] = @ - 1]
  BY <1>2 DEF Unlinked
<1> HIDE DEF t, c, x, next, n
<1>8. \A i \in 0 .. Len(t) : Loc(l, t, i) = IF i < p THEN Loc(l, s, i) ELSE Loc(l, s, i + 1)
  <2>1. ASSUME NEW i \in 0 .. Len(t)
        PROVE  Loc(l, t, i) = IF i < p THEN Loc(l, s, i) ELSE Loc(l, s, i + 1)
    <3>1. i = 0 \/ i \in 1 .. Len(s) - 1
      BY <1>2, <1>6
    <3> QED
      BY <3>1, <1>6 DEF Loc
  <2> QED
    BY <2>1
<1>9. ASSUME NEW i \in 1 .. Len(t)
      PROVE  \E k \in 1 .. Len(s) : /\ t[i] = s[k] /\ k # p /\ t[i] # n /\ t[i] \in Node
                                    /\ k = IF i < p THEN i ELSE i + 1
  <2>1. CASE i < p
    BY <2>1, <1>2, <1>3, <1>6 DEF n
  <2>2. CASE i >= p
    <3>1. i + 1 \in 1 .. Len(s) /\ t[i] = s[i + 1] /\ i + 1 # p
      BY <2>2, <1>2, <1>6
    <3> QED
      BY <2>2, <3>1, <1>2, <1>3 DEF n
  <2> QED
    BY <2>1, <2>2
<1>10. \A i, j \in 1 .. Len(t) : t[i] = t[j] => i = j
  BY <1>2, <1>9
<1>11. c.size[l] = Len(t)
  BY <1>1, <1>2, <1>6, <1>7
<1>12. \A i \in 1 .. Len(t) : c.list[t[i]] = l
  <2>1. \A i \in 1 .. Len(t) : t[i] # n /\ t[i] \in Node /\ m.list[t[i]] = l
    BY <1>2, <1>9
  <2> QED
    BY <2>1, <1>1, <1>7
<1>13. ASSUME NEW i \in 1 .. Len(t)
       PROVE  c.prev[t[i]] = Loc(l, t, i - 1)
  <2>1. CASE i < p
    <3>1. /\ t[i] = s[i] /\ i \in 1 .. Len(s) /\ i - 1 \in 0 .. Len(t) /\ i - 1 < p
          /\ next # NULL => next = s[p + 1] /\ p + 1 \in 1 .. Len(s) /\ i # p + 1
      <4>1. t[i] = s[i] /\ i \in 1 .. Len(s) /\ i - 1 \in 0 .. Len(t) /\ i - 1 < p
        BY <2>1, <1>2, <1>6
      <4>2. next # NULL => next = s[p + 1] /\ p + 1 \in 1 .. Len(s)
        BY <1>2, <1>5
      <4> QED
        BY <4>1, <4>2, <2>1
    <3>2. m.prev[s[i]] = Loc(l, s, i - 1) /\ s[i] \in Node /\ Loc(l, t, i - 1) = Loc(l, s, i - 1)
      BY <3>1, <1>2, <1>3, <1>8
    <3>3. next # NULL => next # s[i]
      BY <3>1, <1>2
    <3> QED
      BY <3>1, <3>2, <3>3, <1>1, <1>7
  <2>2. CASE i = p
    <3>1. t[i] = s[p + 1] /\ p + 1 \in 1 .. Len(s) /\ next = t[i] /\ next # NULL /\ t[i] \in Node
      BY <2>2, <1>2, <1>3, <1>5, <1>6 DEF Distinct
    <3>2. Loc(l, t, i - 1) = x
      BY <2>2, <1>4, <1>6, <1>8
    <3> QED
      BY <3>1, <3>2, <1>1, <1>7
  <2>3. CASE i > p
    <3>1. /\ t[i] = s[i + 1] /\ i + 1 \in 1 .. Len(s) /\ i - 1 \in 0 .. Len(t) /\ ~(i - 1 < p)
          /\ (i - 1) + 1 = i /\ (i + 1) - 1 = i
          /\ next # NULL => next = s[p + 1] /\ p + 1 \in 1 .. Len(s) /\ i + 1 # p + 1
      <4>1. Len(s) \in Nat /\ Len(t) = Len(s) - 1
        BY <1>2, <1>6
      <4>2. /\ i \in 1 .. Len(s) - 1 /\ ~(i < p) /\ i + 1 \in 1 .. Len(s) /\ i - 1 \in 0 .. Len(t)
            /\ ~(i - 1 < p) /\ (i - 1) + 1 = i /\ (i + 1) - 1 = i /\ i + 1 # p + 1
        BY <4>1, <2>3
      <4>3. t[i] = s[i + 1]
        BY <4>2, <1>6
      <4>4. next # NULL => next = s[p + 1] /\ p + 1 \in 1 .. Len(s)
        BY <1>2, <1>5
      <4> QED
        BY <4>2, <4>3, <4>4
    <3>2. Loc(l, t, i - 1) = Loc(l, s, i) /\ m.prev[t[i]] = Loc(l, s, i) /\ t[i] \in Node
      BY <3>1, <1>2, <1>3, <1>8
    <3>3. next # NULL => next # t[i]
      BY <3>1, <1>2
    <3> QED
      BY <3>2, <3>3, <1>1, <1>7
  <2> QED
    BY <2>1, <2>2, <2>3, <1>2, <1>6
<1>14. ASSUME NEW i \in 0 .. Len(t)
       PROVE  c.cell[Loc(l, t, i)] = IF i = Len(t) THEN NULL ELSE t[i + 1]
  <2>1. CASE i < p - 1
    <3>1. /\ Loc(l, t, i) = Loc(l, s, i) /\ i \in 0 .. Len(s) /\ i # Len(s) /\ i # Len(t)
          /\ t[i + 1] = s[i + 1] /\ i # p - 1
      BY <2>1, <1>2, <1>6, <1>8
    <3> QED
      BY <3>1, <1>1, <1>2, <1>3, <1>4, <1>7
  <2>2. CASE i = p - 1
    <3>1. Loc(l, t, i) = x /\ next = IF i = Len(t) THEN NULL ELSE t[i + 1]
      BY <2>2, <1>2, <1>4, <1>5, <1>6, <1>8
    <3> QED
      BY <3>1, <1>1, <1>3, <1>4, <1>7
  <2>3. CASE i > p - 1
    <3>1. /\ Loc(l, t, i) = Loc(l, s, i + 1) /\ i + 1 \in 0 .. Len(s) /\ i + 1 # p - 1
          /\ m.cell[Loc(l, s, i + 1)] = IF i = Len(t) THEN NULL ELSE s[(i + 1) + 1]
          /\ i # Len(t) => t[i + 1] = s[(i + 1) + 1]
      BY <2>3, <1>2, <1>6, <1>8
    <3> QED
      BY <3>1, <1>1, <1>3, <1>4, <1>7
  <2>4. i < p - 1 \/ i = p - 1 \/ i > p - 1
    <3>1. Len(t) \in Nat /\ Len(s) \in Nat
      BY <1>2, <1>6
    <3> QED
      BY <3>1
  <2> QED
    BY <2>1, <2>2, <2>3, <2>4
<1>15. c.tail[l] = Loc(l, t, Len(t))
  <2>1. CASE p = Len(s)
    <3>1. next = NULL /\ Loc(l, t, Len(t)) = x
      BY <2>1, <1>2, <1>4, <1>5, <1>6, <1>8
    <3> QED
      BY <3>1, <1>1, <1>7
  <2>2. CASE p # Len(s)
    <3>1. /\ next = s[p + 1] /\ p + 1 \in 1 .. Len(s) /\ next # NULL
          /\ Len(t) + 1 = Len(s) /\ ~(Len(t) < p) /\ Len(t) \in 0 .. Len(t)
      BY <2>2, <1>2, <1>3, <1>5, <1>6 DEF Distinct
    <3> QED
      BY <3>1, <1>2, <1>7, <1>8
  <2> QED
    BY <2>1, <2>2
<1>16. Chain(c, l, t)
  BY <1>6, <1>10, <1>11, <1>12, <1>13, <1>14, <1>15 DEF Chain
<1> QED
  BY <1>16 DEF c, t, n

LEMMA UnlinkedOthers ==
  ASSUME Distinct, NEW m \in Memory, NEW l \in List, NEW s, Chain(m, l, s),
         NEW p \in 1 .. Len(s), NEW k \in List, k # l, NEW t, Chain(m, k, t)
  PROVE  Chain(Unlinked(m, s[p]), k, t)
<1> DEFINE n == s[p]
           x == m.prev[n]
           next == m.cell[NextOf(n)]
           c == Unlinked(m, n)
<1>1. /\ m.cell \in [Location -> Node \cup {NULL}] /\ m.prev \in [Node -> Location]
      /\ m.list \in [Node -> List \cup {NULL}] /\ m.tail \in [List -> Location]
      /\ m.size \in [List -> Nat]
  BY DEF Memory
<1>2. /\ m.list[n] = l /\ x = Loc(l, s, p - 1) /\ p - 1 \in 0 .. Len(s) /\ x \in Location
      /\ next = NULL \/ (next \in Node /\ m.list[next] = l)
  <2>1. /\ Len(s) \in Nat /\ p - 1 \in 0 .. Len(s) /\ p \in 0 .. Len(s)
        /\ NextOf(n) = Loc(l, s, p)
        /\ m.list[n] = l /\ x = Loc(l, s, p - 1)
    BY DEF Chain, Loc
  <2>2. next = NULL \/ (p + 1 \in 1 .. Len(s) /\ next = s[p + 1])
    BY <2>1 DEF Chain
  <2>3. x \in Location /\ \A i \in 1 .. Len(s) : s[i] \in Node /\ m.list[s[i]] = l
    BY <2>1, ChainLocations DEF Chain
  <2> QED
    BY <2>1, <2>2, <2>3
<1>3. /\ \A i \in 0 .. Len(t) : Loc(k, t, i) \in Location /\ Loc(k, t, i) # x
      /\ \A i \in 1 .. Len(t) : t[i] \in Node /\ m.list[t[i]] = k
  <2>1. \A i \in 0 .. Len(t) : Loc(k, t, i) \in Location
    BY ChainLocations
  <2>2. \A i \in 0 .. Len(t) : Loc(k, t, i) # Loc(l, s, p - 1)
    BY <1>2, ChainLocations
  <2>3. \A i \in 1 .. Len(t) : t[i] \in Node /\ m.list[t[i]] = k
    BY DEF Chain
  <2> QED
    BY <1>2, <2>1, <2>2, <2>3
<1>4. \A i \in 1 .. Len(t) : t[i] # n /\ (next # NULL => t[i] # next)
  BY <1>2, <1>3
<1>5. /\ c.cell = [m.cell EXCEPT ![x] = next]
      /\ c.prev = IF next = NULL THEN m.prev ELSE [m.prev EXCEPT ![next] = x]
      /\ c.list = [m.list EXCEPT ![n] = NULL]
      /\ c.tail = IF next = NULL THEN [m.tail EXCEPT ![l] = x] ELSE m.tail
      /\ c.size = [m.size EXCEPT ![l] = @ - 1]
  BY <1>2 DEF Unlinked
<1> HIDE DEF x, next, n, c
<1>6. /\ \A i \in 0 .. Len(t) : c.cell[Loc(k, t, i)] = m.cell[Loc(k, t, i)]
      /\ \A i \in 1 .. Len(t) : c.list[t[i]] = m.list[t[i]] /\ c.prev[t[i]] = m.prev[t[i]]
      /\ c.size[k] = m.size[k] /\ c.tail[k] = m.tail[k]
  BY <1>1, <1>3, <1>4, <1>5
<1>7. Chain(c, k, t)
  BY <1>6 DEF Chain
<1> QED
  BY <1>7 DEF c, n

(***************************************************************************)
(* All lists at once.                                                      *)
(***************************************************************************)
LEMMA InsertHolds ==
  ASSUME Distinct, NEW m, NEW ord, NEW gone, Holds(m, ord, gone),
         NEW l \in List, NEW p \in 1 .. Len(ord[l]) + 1, NEW n \in Node, m.list[n] = NULL
  PROVE  Holds(Spliced(m, l, Loc(l, ord[l], p - 1), n),
               [ord EXCEPT ![l] = InsertAt(@, p, n)], gone)
<1> DEFINE s == ord[l]
           t == InsertAt(s, p, n)
           c == Spliced(m, l, Loc(l, s, p - 1), n)
           after == [ord EXCEPT ![l] = InsertAt(@, p, n)]
<1>1. /\ m \in Memory /\ ord \in [List -> Seq(Node)] /\ gone \subseteq Node
      /\ \A k \in List : Chain(m, k, ord[k])
      /\ \A o \in gone : m.list[o] # NULL
      /\ \A k \in List : \A i \in 1 .. Len(ord[k]) : ord[k][i] \notin gone
      /\ \A o \in Node \ gone : \A k \in List :
           m.list[o] = k => \E i \in 1 .. Len(ord[k]) : ord[k][i] = o
      /\ s \in Seq(Node) /\ Len(s) \in Nat
  BY DEF Holds
<1>2. /\ t \in Seq(Node) /\ Len(t) = Len(s) + 1
      /\ \A k \in 1 .. Len(s) + 1 : t[k] = IF k < p THEN s[k] ELSE IF k = p THEN n ELSE s[k - 1]
  BY <1>1, InsertAtProperties
<1>3. Loc(l, s, p - 1) \in Location /\ m.size[l] \in Nat
  <2>1. p - 1 \in 0 .. Len(s)
    BY <1>1
  <2> QED
    BY <2>1, <1>1, ChainLocations DEF Chain
<1>4. c \in Memory /\ c.list = [m.list EXCEPT ![n] = l]
  BY <1>1, <1>3, SplicedMemory
<1>5. \A k \in List : after[k] = IF k = l THEN t ELSE ord[k]
  BY <1>1
<1>6. \A k \in List : Chain(c, k, after[k])
  <2>1. Chain(c, l, t)
    BY <1>1, SplicedChain
  <2>2. \A k \in List : k # l => Chain(c, k, ord[k])
    BY <1>1, SplicedOthers
  <2> QED
    BY <2>1, <2>2, <1>5
<1>7. after \in [List -> Seq(Node)]
  BY <1>1, <1>2
<1> HIDE DEF t, c, after
<1>8. n \notin gone /\ m.list \in [Node -> List \cup {NULL}]
  BY <1>1 DEF Memory
<1>9. \A i \in 1 .. Len(t) : t[i] = n \/ \E k \in 1 .. Len(s) : t[i] = s[k]
  BY <1>1, <1>2
<1>10. \A i \in 1 .. Len(s) : \E k \in 1 .. Len(t) : t[k] = s[i]
  <2>1. ASSUME NEW i \in 1 .. Len(s)
        PROVE  \E k \in 1 .. Len(t) : t[k] = s[i]
    <3>1. CASE i < p
      BY <3>1, <1>1, <1>2
    <3>2. CASE i >= p
      <4>1. i + 1 \in 1 .. Len(s) + 1 /\ t[i + 1] = s[(i + 1) - 1] /\ (i + 1) - 1 = i
        BY <3>2, <1>1, <1>2
      <4> QED
        BY <4>1, <1>2
    <3> QED
      BY <3>1, <3>2
  <2> QED
    BY <2>1
<1>11. \A o \in gone : c.list[o] # NULL
  BY <1>1, <1>4, <1>8
<1>12. \A k \in List : \A i \in 1 .. Len(after[k]) : after[k][i] \notin gone
  <2>1. \A i \in 1 .. Len(t) : t[i] \notin gone
    BY <1>1, <1>8, <1>9
  <2> QED
    BY <2>1, <1>1, <1>5
<1>13. ASSUME NEW o \in Node \ gone, NEW k \in List, c.list[o] = k
       PROVE  \E i \in 1 .. Len(after[k]) : after[k][i] = o
  <2>1. CASE o = n
    <3>1. k = l /\ t[p] = n /\ p \in 1 .. Len(t)
      BY <2>1, <1>1, <1>2, <1>4, <1>8, <1>13
    <3> QED
      BY <2>1, <3>1, <1>5
  <2>2. CASE o # n
    <3>1. m.list[o] = k
      BY <2>2, <1>4, <1>8, <1>13
    <3>2. \E i \in 1 .. Len(ord[k]) : ord[k][i] = o
      BY <3>1, <1>1
    <3> QED
      BY <3>2, <1>5, <1>10
  <2> QED
    BY <2>1, <2>2
<1>14. Holds(c, after, gone)
  BY <1>1, <1>4, <1>6, <1>7, <1>11, <1>12, <1>13 DEF Holds
<1> QED
  BY <1>14 DEF c, after

LEMMA UnlinkHolds ==
  ASSUME Distinct, NEW m, NEW ord, NEW gone, Holds(m, ord, gone),
         NEW l \in List, NEW p \in 1 .. Len(ord[l])
  PROVE  /\ Holds(Unlinked(m, ord[l][p]), [ord EXCEPT ![l] = RemoveAt(@, p)], gone)
         /\ Unlinked(m, ord[l][p]).list[ord[l][p]] = NULL
<1> DEFINE s == ord[l]
           n == s[p]
           t == RemoveAt(s, p)
           c == Unlinked(m, n)
           after == [ord EXCEPT ![l] = RemoveAt(@, p)]
<1>1. /\ m \in Memory /\ ord \in [List -> Seq(Node)] /\ gone \subseteq Node
      /\ \A k \in List : Chain(m, k, ord[k])
      /\ \A o \in gone : m.list[o] # NULL
      /\ \A k \in List : \A i \in 1 .. Len(ord[k]) : ord[k][i] \notin gone
      /\ \A o \in Node \ gone : \A k \in List :
           m.list[o] = k => \E i \in 1 .. Len(ord[k]) : ord[k][i] = o
      /\ s \in Seq(Node) /\ Len(s) \in Nat
  BY DEF Holds
<1>2. /\ t \in Seq(Node) /\ Len(t) = Len(s) - 1
      /\ \A k \in 1 .. Len(s) - 1 : t[k] = IF k < p THEN s[k] ELSE s[k + 1]
  BY <1>1, RemoveAtProperties
<1>3. n \in Node /\ m.list[n] = l /\ m.size[l] \in Nat \ {0} /\ n \notin gone
  BY <1>1 DEF Chain
<1>4. c \in Memory /\ c.list = [m.list EXCEPT ![n] = NULL]
  BY <1>1, <1>3, UnlinkedMemory
<1>5. \A k \in List : after[k] = IF k = l THEN t ELSE ord[k]
  BY <1>1
<1>6. \A k \in List : Chain(c, k, after[k])
  <2>1. Chain(c, l, t)
    BY <1>1, UnlinkedChain
  <2>2. \A k \in List : k # l => Chain(c, k, ord[k])
    BY <1>1, UnlinkedOthers
  <2> QED
    BY <2>1, <2>2, <1>5
<1>7. after \in [List -> Seq(Node)]
  BY <1>1, <1>2
<1> HIDE DEF t, c, after
<1>8. m.list \in [Node -> List \cup {NULL}]
  BY <1>1 DEF Memory
<1>9. \A i \in 1 .. Len(t) : \E k \in 1 .. Len(s) : t[i] = s[k]
  BY <1>1, <1>2
<1>10. \A i \in 1 .. Len(s) : i # p => \E k \in 1 .. Len(t) : t[k] = s[i]
  <2>1. ASSUME NEW i \in 1 .. Len(s), i # p
        PROVE  \E k \in 1 .. Len(t) : t[k] = s[i]
    <3>1. CASE i < p
      <4>1. i \in 1 .. Len(s) - 1 /\ i \in 1 .. Len(t)
        BY <3>1, <1>1, <1>2
      <4> QED
        BY <3>1, <4>1, <1>2
    <3>2. CASE i > p
      <4>1. i - 1 \in 1 .. Len(s) - 1 /\ t[i - 1] = s[(i - 1) + 1] /\ (i - 1) + 1 = i
        BY <3>2, <1>1, <1>2
      <4> QED
        BY <4>1, <1>2
    <3> QED
      BY <3>1, <3>2, <2>1
  <2> QED
    BY <2>1
<1>11. \A o \in gone : c.list[o] # NULL
  BY <1>1, <1>3, <1>4, <1>8
<1>12. \A k \in List : \A i \in 1 .. Len(after[k]) : after[k][i] \notin gone
  <2>1. \A i \in 1 .. Len(t) : t[i] \notin gone
    BY <1>1, <1>9
  <2> QED
    BY <2>1, <1>1, <1>5
<1>13. ASSUME NEW o \in Node \ gone, NEW k \in List, c.list[o] = k
       PROVE  \E i \in 1 .. Len(after[k]) : after[k][i] = o
  <2>1. o # n /\ m.list[o] = k
    BY <1>3, <1>4, <1>8, <1>13 DEF Distinct
  <2>2. \E i \in 1 .. Len(ord[k]) : ord[k][i] = o
    BY <2>1, <1>1
  <2> QED
    BY <2>1, <2>2, <1>5, <1>10
<1>14. Holds(c, after, gone)
  BY <1>1, <1>4, <1>6, <1>7, <1>11, <1>12, <1>13 DEF Holds
<1>15. c.list[n] = NULL
  BY <1>3, <1>4, <1>8
<1> QED
  BY <1>14, <1>15 DEF c, after

(* What the inserting functions have in common. *)
LEMMA InsertingIsSplicing ==
  ASSUME Distinct, NEW m \in Memory, NEW l \in List, NEW s, Chain(m, l, s),
         NEW n \in Node, m.list[n] = NULL
  PROVE  /\ Len(s) \in Nat
         /\ Appended(m, l, n) = Spliced(m, l, Loc(l, s, (Len(s) + 1) - 1), n)
         /\ Prepended(m, l, n) = Spliced(m, l, Loc(l, s, 1 - 1), n)
         /\ \A p \in 1 .. Len(s) :
              /\ Before(m, s[p], n) = Spliced(m, l, Loc(l, s, p - 1), n)
              /\ After(m, s[p], n) = Spliced(m, l, Loc(l, s, (p + 1) - 1), n)
<1>1. /\ s \in Seq(Node) /\ Len(s) \in Nat
      /\ \A i \in 1 .. Len(s) : m.list[s[i]] = l /\ m.prev[s[i]] = Loc(l, s, i - 1)
      /\ \A i \in 0 .. Len(s) : m.cell[Loc(l, s, i)] = IF i = Len(s) THEN NULL ELSE s[i + 1]
      /\ m.tail[l] = Loc(l, s, Len(s))
  BY DEF Chain
<1>2. Appended(m, l, n) = Spliced(m, l, Loc(l, s, (Len(s) + 1) - 1), n)
  <2>1. (Len(s) + 1) - 1 = Len(s) /\ m.cell[Loc(l, s, Len(s))] = NULL
    BY <1>1
  <2> QED
    BY <2>1, <1>1 DEF Appended, Spliced, Followed, EndingIn
<1>3. Prepended(m, l, n) = Spliced(m, l, Loc(l, s, 1 - 1), n)
  BY DEF Prepended, Spliced, Loc
<1>4. ASSUME NEW p \in 1 .. Len(s)
      PROVE  Before(m, s[p], n) = Spliced(m, l, Loc(l, s, p - 1), n)
  <2> DEFINE x == Loc(l, s, p - 1)
             old == s[p]
  <2>1. /\ m.list[old] = l /\ m.prev[old] = x /\ m.cell[x] = old /\ old # NULL
    <3>1. p - 1 \in 0 .. Len(s) /\ p - 1 # Len(s) /\ (p - 1) + 1 = p
      BY <1>1
    <3> QED
      BY <3>1, <1>1, ChainLocations DEF Distinct
  <2>2. x # NextOf(n)
    <3>1. \A i \in 1 .. Len(s) : s[i] # n
      BY <1>1 DEF Distinct
    <3>2. p - 1 = 0 \/ p - 1 \in 1 .. Len(s)
      BY <1>1
    <3> QED
      BY <3>1, <3>2, Locations DEF Loc
  <2> HIDE DEF x, old
  <2>3. [m.cell EXCEPT ![x] = n, ![NextOf(n)] = old] = [m.cell EXCEPT ![NextOf(n)] = old, ![x] = n]
    BY <2>2 DEF Memory
  <2>4. Before(m, old, n) = Spliced(m, l, x, n)
    BY <2>1, <2>3 DEF Before, Spliced, Followed, EndingIn
  <2> QED
    BY <2>4 DEF x, old
<1>5. ASSUME NEW p \in 1 .. Len(s)
      PROVE  After(m, s[p], n) = Spliced(m, l, Loc(l, s, (p + 1) - 1), n)
  <2>1. (p + 1) - 1 = p /\ p # 0 /\ m.list[s[p]] = l
    BY <1>1
  <2> QED
    BY <2>1 DEF After, Spliced, Loc
<1> QED
  BY <1>1, <1>2, <1>3, <1>4, <1>5

(* list_init of a list with nodes in it: they are gone, the rest stays. *)
LEMMA InitializedHolds ==
  ASSUME Distinct, NEW m, NEW ord, NEW gone, Holds(m, ord, gone), NEW l \in List
  PROVE  Holds(Initialized(m, l), [ord EXCEPT ![l] = << >>], gone \cup ToSet(ord[l]))
<1> DEFINE c == Initialized(m, l)
           after == [ord EXCEPT ![l] = << >>]
           more == gone \cup ToSet(ord[l])
<1>1. /\ m \in Memory /\ ord \in [List -> Seq(Node)] /\ gone \subseteq Node
      /\ \A k \in List : Chain(m, k, ord[k])
      /\ \A o \in gone : m.list[o] # NULL
      /\ \A k \in List : \A i \in 1 .. Len(ord[k]) : ord[k][i] \notin gone
      /\ \A o \in Node \ gone : \A k \in List :
           m.list[o] = k => \E i \in 1 .. Len(ord[k]) : ord[k][i] = o
  BY DEF Holds
<1>2. /\ m.cell \in [Location -> Node \cup {NULL}] /\ m.prev \in [Node -> Location]
      /\ m.list \in [Node -> List \cup {NULL}] /\ m.tail \in [List -> Location]
      /\ m.size \in [List -> Nat]
  BY <1>1 DEF Memory
<1>3. c = [cell |-> [m.cell EXCEPT ![HeadOf(l)] = NULL], prev |-> m.prev, list |-> m.list,
           tail |-> [m.tail EXCEPT ![l] = HeadOf(l)], size |-> [m.size EXCEPT ![l] = 0]]
  BY DEF Initialized
<1> HIDE DEF c
<1>4. /\ c.cell = [m.cell EXCEPT ![HeadOf(l)] = NULL] /\ c.prev = m.prev /\ c.list = m.list
      /\ c.tail = [m.tail EXCEPT ![l] = HeadOf(l)] /\ c.size = [m.size EXCEPT ![l] = 0]
  BY <1>3
<1>5. c \in Memory
  BY <1>2, <1>3, Locations DEF Memory
<1>6. more \subseteq Node /\ \A o \in more : o \in gone \/ \E i \in 1 .. Len(ord[l]) : o = ord[l][i]
  BY <1>1 DEF ToSet
<1>7. \A i \in 1 .. Len(ord[l]) : ord[l][i] \in more
  BY DEF ToSet
<1> HIDE DEF more
<1>8. after \in [List -> Seq(Node)] /\ \A k \in List : after[k] = IF k = l THEN << >> ELSE ord[k]
  BY <1>1
<1> HIDE DEF after
<1>9. Chain(c, l, << >>)
  BY <1>2, <1>4, Locations DEF Chain, Loc
<1>10. ASSUME NEW k \in List, k # l
       PROVE  Chain(c, k, ord[k])
  <2> DEFINE s == ord[k]
  <2>1. Chain(m, k, s) /\ Chain(m, l, ord[l])
    BY <1>1
  <2>2. \A i \in 0 .. Len(s) : Loc(k, s, i) # HeadOf(l) /\ Loc(k, s, i) \in Location
    <3>1. \A i \in 0 .. Len(s), j \in 0 .. Len(ord[l]) : Loc(k, s, i) # Loc(l, ord[l], j)
      BY <1>1, <1>10, <2>1, ChainLocations
    <3>2. 0 \in 0 .. Len(ord[l]) /\ Loc(l, ord[l], 0) = HeadOf(l)
      BY <1>1 DEF Loc
    <3> QED
      BY <3>1, <3>2, <1>1, <2>1, ChainLocations
  <2> HIDE DEF s
  <2>3. /\ \A i \in 0 .. Len(s) : c.cell[Loc(k, s, i)] = m.cell[Loc(k, s, i)]
        /\ c.tail[k] = m.tail[k] /\ c.size[k] = m.size[k]
    BY <1>2, <1>4, <1>10, <2>2
  <2>4. Chain(c, k, s)
    BY <2>1, <2>3, <1>4 DEF Chain
  <2> QED
    BY <2>4 DEF s
<1>11. \A k \in List : Chain(c, k, after[k])
  BY <1>8, <1>9, <1>10
<1>12. \A o \in more : c.list[o] # NULL
  BY <1>1, <1>4, <1>6 DEF Chain, Distinct
<1>13. \A k \in List : \A i \in 1 .. Len(after[k]) : after[k][i] \notin more
  <2>1. ASSUME NEW k \in List, NEW i \in 1 .. Len(after[k]), after[k][i] \in more
        PROVE  FALSE
    <3>1. k # l
      BY <2>1, <1>8
    <3>2. after[k] = ord[k] /\ m.list[ord[k][i]] = k /\ ord[k][i] \notin gone
      BY <2>1, <3>1, <1>1, <1>8 DEF Chain
    <3>3. PICK j \in 1 .. Len(ord[l]) : ord[k][i] = ord[l][j]
      BY <2>1, <3>2, <1>6
    <3>4. m.list[ord[l][j]] = l
      BY <1>1 DEF Chain
    <3> QED
      BY <3>1, <3>2, <3>3, <3>4
  <2> QED
    BY <2>1
<1>14. ASSUME NEW o \in Node \ more, NEW k \in List, c.list[o] = k
       PROVE  \E i \in 1 .. Len(after[k]) : after[k][i] = o
  <2>1. o \in Node \ gone /\ m.list[o] = k
    BY <1>4, <1>14 DEF more
  <2>2. \E i \in 1 .. Len(ord[k]) : ord[k][i] = o
    BY <2>1, <1>1
  <2>3. k # l
    BY <2>2, <1>7
  <2> QED
    BY <2>2, <2>3, <1>8
<1>15. Holds(c, after, more)
  BY <1>5, <1>6, <1>8, <1>11, <1>12, <1>13, <1>14 DEF Holds
<1> QED
  BY <1>15 DEF c, after, more

(***************************************************************************)
(* The invariant.                                                          *)
(***************************************************************************)
LEMMA InitInv == ASSUME Distinct, Init PROVE IInv
<1>1. PICK held \in [Node -> Node \cup {NULL}], prev \in [Node -> Location] :
        memory = [cell |-> [x \in Location |-> IF x[1] = "head" THEN NULL ELSE held[x[2]]],
                  prev |-> prev,
                  list |-> [n \in Node |-> NULL],
                  tail |-> [l \in List |-> HeadOf(l)],
                  size |-> [l \in List |-> 0]]
  BY DEF Init
<1>2. ASSUME NEW x \in Location
      PROVE  /\ (IF x[1] = "head" THEN NULL ELSE held[x[2]]) \in Node \cup {NULL}
  <2>1. CASE \E l \in List : x = HeadOf(l)
    BY <2>1 DEF HeadOf
  <2>2. CASE \E n \in Node : x = NextOf(n)
    BY <2>2 DEF NextOf
  <2> QED
    BY <2>1, <2>2 DEF Location
<1>3. \A l \in List : memory.cell[HeadOf(l)] = NULL
  BY <1>1, Locations DEF HeadOf
<1>4. memory \in Memory
  BY <1>1, <1>2, Locations DEF Memory
<1>5. /\ \A l \in List : memory.tail[l] = HeadOf(l) /\ memory.size[l] = 0
      /\ \A n \in Node : memory.list[n] = NULL
  BY <1>1
<1>6. \A l \in List : Chain(memory, l, << >>)
  BY <1>3, <1>5 DEF Chain, Loc
<1>7. order \in [List -> Seq(Node)] /\ \A l \in List : order[l] = << >>
  BY DEF Init
<1>8. Holds(memory, order, {})
  BY <1>4, <1>5, <1>6, <1>7 DEF Holds, Distinct
<1> QED
  BY <1>8 DEF IInv, Init

(* Which node is where. *)
LEMMA LinkedIndex ==
  ASSUME Distinct, IInv, NEW n \in Node, Linked(n)
  PROVE  /\ memory.list[n] \in List
         /\ IndexIn(order[memory.list[n]], n) \in 1 .. Len(order[memory.list[n]])
         /\ order[memory.list[n]][IndexIn(order[memory.list[n]], n)] = n
<1>1. memory.list[n] \in List
  BY DEF IInv, Holds, Memory, Linked, Free
<1>2. \E i \in 1 .. Len(order[memory.list[n]]) : order[memory.list[n]][i] = n
  BY <1>1 DEF IInv, Holds, Linked
<1> QED
  BY <1>1, <1>2 DEF IndexIn

LEMMA NextKeepsInv == ASSUME Distinct, IInv, [Next]_vars PROVE IInv'
<1>0. \A l \in List : Chain(memory, l, order[l]) /\ order[l] \in Seq(Node) /\ Len(order[l]) \in Nat
  BY DEF IInv, Holds
<1>1. memory \in Memory /\ order \in [List -> Seq(Node)]
  BY DEF IInv, Holds
<1>2. ASSUME NEW l \in List, NEW n \in Node, list_append(l, n) PROVE IInv'
  <2>1. Holds(memory', order', lost)
    <3>1. /\ memory' = Appended(memory, l, n)
          /\ order' = [order EXCEPT ![l] = InsertAt(@, Len(order[l]) + 1, n)]
          /\ memory.list[n] = NULL /\ Holds(memory, order, lost)
      BY <1>2 DEF list_append, Insert, Free, IInv
    <3>2. memory' = Spliced(memory, l, Loc(l, order[l], (Len(order[l]) + 1) - 1), n)
      BY <3>1, <1>0, <1>1, InsertingIsSplicing
    <3>3. Len(order[l]) + 1 \in 1 .. Len(order[l]) + 1
      BY <1>0
    <3> QED
      BY <3>1, <3>2, <3>3, InsertHolds
  <2> QED
    BY <2>1, <1>2 DEF IInv, list_append, Insert
<1>3. ASSUME NEW l \in List, NEW n \in Node, list_prepend(l, n) PROVE IInv'
  <2>1. Holds(memory', order', lost)
    <3>1. /\ memory' = Prepended(memory, l, n)
          /\ order' = [order EXCEPT ![l] = InsertAt(@, 1, n)]
          /\ memory.list[n] = NULL /\ Holds(memory, order, lost)
      BY <1>3 DEF list_prepend, Insert, Free, IInv
    <3>2. memory' = Spliced(memory, l, Loc(l, order[l], 1 - 1), n)
      BY <3>1, <1>0, <1>1, InsertingIsSplicing
    <3>3. 1 \in 1 .. Len(order[l]) + 1
      BY <1>0
    <3> QED
      BY <3>1, <3>2, <3>3, InsertHolds
  <2> QED
    BY <2>1, <1>3 DEF IInv, list_prepend, Insert
<1>4. ASSUME NEW old \in Node, NEW n \in Node, list_before(old, n) \/ list_after(old, n) PROVE IInv'
  <2> DEFINE l == memory.list[old]
             p == IndexIn(order[l], old)
  <2>1. l \in List /\ p \in 1 .. Len(order[l]) /\ order[l][p] = old
    BY <1>4, LinkedIndex DEF list_before, list_after
  <2>2. memory.list[n] = NULL
    BY <1>4 DEF list_before, list_after, Free
  <2>3. /\ Before(memory, old, n) = Spliced(memory, l, Loc(l, order[l], p - 1), n)
        /\ After(memory, old, n) = Spliced(memory, l, Loc(l, order[l], (p + 1) - 1), n)
    BY <1>0, <1>1, <2>1, <2>2, InsertingIsSplicing
  <2>4. Holds(memory', order', lost)
    <3>1. p \in 1 .. Len(order[l]) + 1 /\ p + 1 \in 1 .. Len(order[l]) + 1
      BY <1>0, <2>1
    <3>2. Holds(memory, order, lost)
      BY DEF IInv
    <3>3. \/ /\ memory' = Spliced(memory, l, Loc(l, order[l], p - 1), n)
             /\ order' = [order EXCEPT ![l] = InsertAt(@, p, n)]
          \/ /\ memory' = Spliced(memory, l, Loc(l, order[l], (p + 1) - 1), n)
             /\ order' = [order EXCEPT ![l] = InsertAt(@, p + 1, n)]
      BY <1>4, <2>3 DEF list_before, list_after, Insert
    <3> HIDE DEF l, p
    <3> QED
      BY <2>1, <2>2, <3>1, <3>2, <3>3, InsertHolds
  <2> QED
    BY <2>4, <1>4 DEF IInv, list_before, list_after, Insert
<1>5. ASSUME NEW n \in Node, list_unlink(n) PROVE IInv'
  <2> DEFINE l == memory.list[n]
             p == IndexIn(order[l], n)
  <2>1. l \in List /\ p \in 1 .. Len(order[l]) /\ order[l][p] = n
    BY <1>5, LinkedIndex DEF list_unlink
  <2>2. memory' = Unlinked(memory, n) /\ order' = [order EXCEPT ![l] = RemoveAt(@, p)]
    BY <1>1, <2>1, <1>5 DEF list_unlink
  <2>3. Holds(memory, order, lost)
    BY DEF IInv
  <2> HIDE DEF l, p
  <2>4. Holds(memory', order', lost)
    BY <2>1, <2>2, <2>3, UnlinkHolds
  <2> QED
    BY <2>4, <1>5 DEF IInv, list_unlink
<1>6. ASSUME NEW dst \in List, NEW src \in List, list_move(dst, src) PROVE IInv'
  <2>1. Holds(memory', order', lost')
    BY <1>6, InitializedHolds DEF IInv, list_move
  <2> QED
    BY <2>1, <1>6 DEF IInv, list_move
<1>7. ASSUME NEW dst \in List, NEW src \in List, ImportFunctions(dst, src) PROVE IInv'
  BY <1>7 DEF IInv, ImportFunctions
<1>8. CASE MoveHead
  <2> DEFINE dst == moving[1]
             src == moving[2]
             n == list_head(src)
             mid == Unlinked(memory, n)
             ord == [order EXCEPT ![src] = RemoveAt(@, 1)]
  <2>1. dst \in List /\ src \in List /\ dst # src /\ Holds(memory, order, lost)
    BY <1>8 DEF MoveHead, IInv
  <2>2. 1 \in 1 .. Len(order[src]) /\ n = order[src][1] /\ n \in Node
    <3>1. Len(order[src]) > 0 /\ Len(order[src]) \in Nat /\ order[src] \in Seq(Node)
      BY <1>0, <1>8, <2>1 DEF MoveHead, Chain
    <3>2. 0 \in 0 .. Len(order[src]) /\ Loc(src, order[src], 0) = HeadOf(src)
      BY <3>1 DEF Loc
    <3>3. memory.cell[HeadOf(src)] = order[src][0 + 1]
      BY <1>0, <2>1, <3>1, <3>2 DEF Chain
    <3> QED
      BY <3>1, <3>3 DEF list_head
  <2>3. Holds(mid, ord, lost) /\ mid.list[n] = NULL
    BY <2>1, <2>2, UnlinkHolds
  <2>4. ord[dst] = order[dst] /\ order' = [ord EXCEPT ![dst] = InsertAt(@, Len(@) + 1, n)]
        /\ memory' = Appended(mid, dst, n)
    BY <1>1, <1>8, <2>1 DEF MoveHead
  <2> HIDE DEF dst, src, n, mid, ord
  <2>5. mid \in Memory /\ Chain(mid, dst, ord[dst])
    BY <2>1, <2>3 DEF Holds
  <2>6. Len(ord[dst]) \in Nat
        /\ Appended(mid, dst, n) = Spliced(mid, dst, Loc(dst, ord[dst], (Len(ord[dst]) + 1) - 1), n)
    BY <2>1, <2>2, <2>3, <2>5, InsertingIsSplicing
  <2>7. Len(ord[dst]) + 1 \in 1 .. Len(ord[dst]) + 1
    BY <2>6
  <2>8. Holds(Spliced(mid, dst, Loc(dst, ord[dst], (Len(ord[dst]) + 1) - 1), n),
              [ord EXCEPT ![dst] = InsertAt(@, Len(ord[dst]) + 1, n)], lost)
    BY <2>1, <2>2, <2>3, <2>7, InsertHolds
  <2>9. Holds(memory', order', lost)
    BY <2>4, <2>6, <2>8
  <2> QED
    BY <2>9, <1>8 DEF IInv, MoveHead
<1>9. CASE MoveDone
  BY <1>9 DEF IInv, MoveDone
<1>10. CASE UNCHANGED vars
  BY <1>10 DEF IInv, vars
<1> QED
  BY <1>2, <1>3, <1>4, <1>5, <1>6, <1>7, <1>8, <1>9, <1>10 DEF Next

LEMMA Invariance == ASSUME Distinct PROVE Spec => []IInv
<1>1. Init => IInv
  BY InitInv
<1>2. IInv /\ [Next]_vars => IInv'
  BY NextKeepsInv
<1> QED
  BY <1>1, <1>2, PTL DEF Spec

(* The fields of list.h hold nodes and locations, and sizes never wrap.      *)
THEOREM TypeCorrect == Distinct => (Spec => []TypeOK)
<1> SUFFICES ASSUME Distinct PROVE Spec => []TypeOK
  OBVIOUS
<1>1. IInv => TypeOK
  BY DEF IInv, Holds, TypeOK
<1> QED
  BY <1>1, Invariance, PTL

(* list_head, list_tail, list_next, list_prev and list_size read each list   *)
(* as its users ordered it, also between the steps of list_move.             *)
THEOREM ListsReadAsOrdered == Distinct => (Spec => []ReadsAsOrdered)
<1> SUFFICES ASSUME Distinct PROVE Spec => []ReadsAsOrdered
  OBVIOUS
<1>1. ASSUME IInv PROVE ReadsAsOrdered
  <2> SUFFICES ASSUME NEW l \in List
               PROVE  LET s == order[l]
                      IN  /\ memory.size[l] = Len(s)
                          /\ list_head(l) = IF s = << >> THEN NULL ELSE s[1]
                          /\ s # << >> => list_tail(l) = s[Len(s)]
                          /\ \A i \in 1 .. Len(s) :
                               /\ list_next(s[i]) = IF i = Len(s) THEN NULL ELSE s[i + 1]
                               /\ list_prev(s[i]) = IF i = 1 THEN NULL ELSE s[i - 1]
    BY DEF ReadsAsOrdered
  <2> DEFINE s == order[l]
  <2>1. s \in Seq(Node) /\ Len(s) \in Nat /\ (s = << >> <=> Len(s) = 0)
    BY <1>1 DEF IInv, Holds
  <2>2. /\ memory.size[l] = Len(s)
        /\ \A i \in 1 .. Len(s) : memory.list[s[i]] = l /\ memory.prev[s[i]] = Loc(l, s, i - 1)
        /\ \A i \in 0 .. Len(s) : memory.cell[Loc(l, s, i)] = IF i = Len(s) THEN NULL ELSE s[i + 1]
        /\ memory.tail[l] = Loc(l, s, Len(s))
    BY <1>1 DEF IInv, Holds, Chain
  <2> HIDE DEF s
  <2>3. list_head(l) = IF s = << >> THEN NULL ELSE s[1]
    <3>1. 0 \in 0 .. Len(s) /\ Loc(l, s, 0) = HeadOf(l) /\ 0 + 1 = 1
      BY <2>1 DEF Loc
    <3> QED
      BY <3>1, <2>1, <2>2 DEF list_head
  <2>4. \A n : ContainerOf(NextOf(n)) = n
    BY DEF ContainerOf, NextOf
  <2>5. s # << >> => list_tail(l) = s[Len(s)]
    BY <2>1, <2>2, <2>4 DEF list_tail, Loc
  <2>6. ASSUME NEW i \in 1 .. Len(s)
        PROVE  /\ list_next(s[i]) = IF i = Len(s) THEN NULL ELSE s[i + 1]
               /\ list_prev(s[i]) = IF i = 1 THEN NULL ELSE s[i - 1]
    <3>1. i \in 0 .. Len(s) /\ Loc(l, s, i) = NextOf(s[i])
      BY <2>1 DEF Loc
    <3>2. Loc(l, s, i - 1) = IF i = 1 THEN HeadOf(l) ELSE NextOf(s[i - 1])
      BY <2>1 DEF Loc
    <3> QED
      BY <3>1, <3>2, <2>2, <2>4, Locations DEF list_next, list_prev
  <2> QED
    BY <2>2, <2>3, <2>5, <2>6 DEF s
<1>2. IInv => ReadsAsOrdered
  BY <1>1
<1> QED
  BY <1>2, Invariance, PTL

(* A node is in the list it names, once, unless that was initialized again,  *)
(* as the page that string_pool.c makes for an expanded table.               *)
THEOREM NodesStayInOneList == Distinct => (Spec => []NodesInOneList)
<1> SUFFICES ASSUME Distinct PROVE Spec => []NodesInOneList
  OBVIOUS
<1>1. ASSUME IInv PROVE NodesInOneList
  <2>1. ASSUME NEW l \in List
        PROVE  /\ order[l] \in [1 .. Len(order[l]) -> Node] /\ order[l] \in Seq(Node)
               /\ \A i, j \in 1 .. Len(order[l]) : order[l][i] = order[l][j] => i = j
               /\ \A i \in 1 .. Len(order[l]) : order[l][i] \notin lost /\ memory.list[order[l][i]] = l
               /\ ToSet(order[l]) = {order[l][i] : i \in 1 .. Len(order[l])}
    BY <1>1 DEF IInv, Holds, Chain, ToSet
  <2>2. ASSUME NEW l \in List PROVE IsInjective(order[l])
    <3>1. DOMAIN order[l] = 1 .. Len(order[l])
      BY <2>1
    <3> QED
      BY <3>1, <2>1 DEF IsInjective
  <2>3. ASSUME NEW l \in List PROVE ToSet(order[l]) \cap lost = {}
    <3>1. \A i \in 1 .. Len(order[l]) : order[l][i] \notin lost
      BY <2>1
    <3>2. ToSet(order[l]) = {order[l][i] : i \in 1 .. Len(order[l])}
      BY <2>1
    <3> QED
      BY <3>1, <3>2, Zenon
  <2>4. ASSUME NEW n \in Node \ lost, NEW l \in List
        PROVE  memory.list[n] = l <=> n \in ToSet(order[l])
    <3>1. memory.list[n] = l => \E i \in 1 .. Len(order[l]) : order[l][i] = n
      BY <1>1 DEF IInv, Holds
    <3>2. n \in ToSet(order[l]) <=> \E i \in 1 .. Len(order[l]) : order[l][i] = n
      <4>1. ToSet(order[l]) = {order[l][i] : i \in 1 .. Len(order[l])}
        BY <2>1
      <4> QED
        BY <4>1, Zenon
    <3>3. \A i \in 1 .. Len(order[l]) : memory.list[order[l][i]] = l
      BY <2>1
    <3> QED
      BY <3>1, <3>2, <3>3
  <2> QED
    BY <2>2, <2>3, <2>4 DEF NodesInOneList
<1>2. IInv => NodesInOneList
  BY <1>1
<1> QED
  BY <1>2, Invariance, PTL

(* list_move leaves its nodes in the order they were in. *)
THEOREM MovesKeepOrder == Distinct => (Spec => MoveKeepsOrder)
<1> SUFFICES ASSUME Distinct PROVE Spec => MoveKeepsOrder
  OBVIOUS
<1> DEFINE Kept == moving # NULL => LET dst == moving[1]  src == moving[2]
                                    IN  order'[dst] \o order'[src] = order[dst] \o order[src]
<1>1. ASSUME IInv, Next PROVE Kept
  <2>1. CASE moving = NULL
    BY <2>1
  <2>2. CASE moving # NULL
    <3> DEFINE dst == moving[1]
               src == moving[2]
               n == list_head(src)
               s == order[src]
               d == order[dst]
    <3>1. MoveHead \/ MoveDone
      BY <1>1, <2>2 DEF Next, list_append, list_prepend, list_before, list_after, list_unlink,
         list_move, ImportFunctions
    <3>2. CASE MoveDone
      BY <3>2 DEF MoveDone
    <3>3. CASE MoveHead
      <4>1. dst \in List /\ src \in List /\ dst # src /\ s \in Seq(Node) /\ d \in Seq(Node)
            /\ Len(s) \in Nat /\ Len(d) \in Nat /\ order \in [List -> Seq(Node)]
        BY <1>1, <2>2 DEF IInv, Holds
      <4>2. order'[dst] = InsertAt(d, Len(d) + 1, n) /\ order'[src] = RemoveAt(s, 1)
        BY <3>3, <4>1 DEF MoveHead
      <4>3. Len(s) > 0 /\ n = s[1] /\ n \in Node
        <5>1. Len(s) > 0 /\ Chain(memory, src, s)
          BY <1>1, <3>3, <4>1 DEF MoveHead, IInv, Holds, Chain
        <5>2. memory.cell[Loc(src, s, 0)] = s[0 + 1]
          BY <5>1, <4>1 DEF Chain
        <5> QED
          BY <5>1, <5>2, <4>1 DEF list_head, Loc
      <4> HIDE DEF dst, src, n, s, d
      <4> DEFINE a == InsertAt(d, Len(d) + 1, n)
                 b == RemoveAt(s, 1)
      <4>4. /\ a \in Seq(Node) /\ Len(a) = Len(d) + 1
            /\ \A k \in 1 .. Len(d) : a[k] = d[k]
            /\ a[Len(d) + 1] = n
        <5>1. Len(d) + 1 \in 1 .. Len(d) + 1
          BY <4>1
        <5>2. ASSUME NEW p \in 1 .. Len(d) + 1
              PROVE  /\ InsertAt(d, p, n) \in Seq(Node) /\ Len(InsertAt(d, p, n)) = Len(d) + 1
                     /\ \A k \in 1 .. Len(d) + 1 :
                          InsertAt(d, p, n)[k] =
                            IF k < p THEN d[k] ELSE IF k = p THEN n ELSE d[k - 1]
          <6>1. d \in Seq(Node) /\ n \in Node
            BY <4>1, <4>3
          <6> QED
            BY <6>1, InsertAtProperties
        <5>3. /\ a \in Seq(Node) /\ Len(a) = Len(d) + 1
              /\ \A k \in 1 .. Len(d) + 1 :
                   a[k] = IF k < Len(d) + 1 THEN d[k] ELSE IF k = Len(d) + 1 THEN n ELSE d[k - 1]
          BY <5>1, <5>2
        <5> HIDE DEF a
        <5>4. \A k \in 1 .. Len(d) : k \in 1 .. Len(d) + 1 /\ k < Len(d) + 1
          BY <4>1
        <5> QED
          BY <5>1, <5>3, <5>4, <4>1
      <4>5. /\ b \in Seq(Node) /\ Len(b) = Len(s) - 1
            /\ \A k \in 1 .. Len(s) - 1 : b[k] = s[k + 1]
        <5>1. 1 \in 1 .. Len(s)
          BY <4>1, <4>3
        <5>2. /\ b \in Seq(Node) /\ Len(b) = Len(s) - 1
              /\ \A k \in 1 .. Len(s) - 1 : b[k] = IF k < 1 THEN s[k] ELSE s[k + 1]
          BY <5>1, <4>1, RemoveAtProperties
        <5> HIDE DEF b
        <5>3. \A k \in 1 .. Len(s) - 1 : ~(k < 1)
          BY <4>1
        <5> QED
          BY <5>2, <5>3
      <4> HIDE DEF a, b
      <4> DEFINE c == a \o b
                 e == d \o s
      <4>6. /\ c \in Seq(Node) /\ Len(c) = Len(a) + Len(b)
            /\ \A i \in 1 .. Len(a) + Len(b) : c[i] = IF i <= Len(a) THEN a[i] ELSE b[i - Len(a)]
        BY <4>4, <4>5, ConcatProperties
      <4>7. /\ e \in Seq(Node) /\ Len(e) = Len(d) + Len(s)
            /\ \A i \in 1 .. Len(d) + Len(s) : e[i] = IF i <= Len(d) THEN d[i] ELSE s[i - Len(d)]
        BY <4>1, ConcatProperties
      <4> HIDE DEF c, e
      <4>8. Len(a) + Len(b) = Len(d) + Len(s) /\ Len(c) = Len(e)
        BY <4>1, <4>3, <4>4, <4>5, <4>6, <4>7
      <4>9. ASSUME NEW i \in 1 .. Len(c)
            PROVE  c[i] = e[i]
        <5>1. i \in 1 .. Len(a) + Len(b) /\ i \in 1 .. Len(d) + Len(s)
          BY <4>6, <4>8
        <5>2. CASE i <= Len(d)
          <6>1. i \in 1 .. Len(d) /\ i <= Len(a)
            BY <5>2, <4>1, <4>4
          <6>2. c[i] = a[i] /\ e[i] = d[i]
            BY <5>1, <5>2, <6>1, <4>6, <4>7
          <6> QED
            BY <6>1, <6>2, <4>4
        <5>3. CASE i = Len(d) + 1
          <6>1. i <= Len(a) /\ ~(i <= Len(d)) /\ i - Len(d) = 1
            BY <5>3, <4>1, <4>4
          <6>2. c[i] = a[i] /\ e[i] = s[1]
            BY <5>1, <6>1, <4>6, <4>7
          <6> QED
            BY <6>2, <5>3, <4>3, <4>4
        <5>4. CASE i > Len(d) + 1
          <6>1. /\ ~(i <= Len(a)) /\ ~(i <= Len(d))
                /\ i - Len(a) \in 1 .. Len(s) - 1 /\ (i - Len(a)) + 1 = i - Len(d)
            BY <5>1, <5>4, <4>1, <4>3, <4>4, <4>5
          <6>2. c[i] = b[i - Len(a)] /\ e[i] = s[i - Len(d)]
            BY <5>1, <6>1, <4>6, <4>7
          <6> QED
            BY <6>1, <6>2, <4>5
        <5> QED
          BY <5>1, <5>2, <5>3, <5>4, <4>1
      <4>10. c = e
        BY <4>6, <4>7, <4>8, <4>9, SeqEqual
      <4>11. order'[dst] \o order'[src] = order[dst] \o order[src]
        BY <4>2, <4>10 DEF dst, src, s, d, a, b, c, e
      <4> QED
        BY <4>11 DEF dst, src
    <3> QED
      BY <3>1, <3>2, <3>3
  <2> QED
    BY <2>1, <2>2
<1>2. IInv /\ [Next]_vars => [Kept]_vars
  BY <1>1
<1> QED
  BY <1>2, Invariance, PTL DEF Spec, MoveKeepsOrder
===============================================================================
