--------------------------- MODULE StringPoolProofs ---------------------------
(***************************************************************************)
(* What StringPool promises, for all texts, hashes and sizes.              *)
(*                                                                         *)
(* The table first, for every call: its searches visit every slot, and     *)
(* GrowthInv keeps slots free, so every search ends.  The recursive        *)
(* functions of the model (Visited, Rehashed) are shown to exist, and what *)
(* they compute to have the properties wanted, by induction on how far     *)
(* they are defined.  Then the strings, for calls that do not fit a string *)
(* exactly: StringsInv keeps them apart and inside of their pages, and one *)
(* node for each, so the pool implements Interner.                         *)
(***************************************************************************)
EXTENDS StringPool, WellFoundedInduction, FiniteSetTheorems, SequenceTheorems, TLAPS

------------------------------------------------------------------------------
(* What recursive functions and probe sequences need of the natural numbers.   *)

(* A set of naturals that is not empty has a least element: the intervals up *)
(* to its members are finite sets, and finite sets are well-founded under    *)
(* strict inclusion.                                                         *)
LEMMA NatMin ==
  ASSUME NEW T \in SUBSET Nat, T # {}
  PROVE  \E m \in T : \A k \in T : m <= k
<1> DEFINE F == {0 .. k : k \in T}
<1>0. \A k \in T : k \in Nat /\ 0 .. k \in SUBSET Nat /\ IsFiniteSet(0 .. k)
  BY FS_Interval
<1>1. F \subseteq FiniteSubsetsOf(Nat) /\ F # {}
  BY <1>0, Zenon DEF FiniteSubsetsOf
<1>2. PICK X \in F : \A Y \in F : <<Y, X>> \notin StrictSubsetOrdering(Nat)
  <2> HIDE DEF F
  <2>1. IsWellFoundedOn(StrictSubsetOrdering(Nat), FiniteSubsetsOf(Nat))
    BY FS_StrictSubsetOrderingWellFounded, Zenon
  <2> QED BY <1>1, <2>1, WFMin, Zenon
<1>3. PICK m \in T : X = 0 .. m
  OBVIOUS
<1>4. ASSUME NEW k \in T PROVE m <= k
  <2>1. <<0 .. k, 0 .. m>> \notin StrictSubsetOrdering(Nat)
    BY <1>2, <1>3
  <2>2. ~(0 .. k \subseteq 0 .. m /\ 0 .. k # 0 .. m)
    BY <2>1, <1>0, Zenon DEF StrictSubsetOrdering
  <2>3. SUFFICES ASSUME k < m PROVE FALSE
    BY <1>0
  <2> QED BY <2>2, <2>3, <1>0
<1> QED BY <1>4

(* Induction, for a set instead of a predicate: what holds of 0 and passes   *)
(* on to the next number is the set of all naturals.                         *)
LEMMA NatInd ==
  ASSUME NEW S, 0 \in S, \A n \in Nat : n \in S => n + 1 \in S
  PROVE  Nat \subseteq S
<1>1. SUFFICES ASSUME Nat \ S # {} PROVE FALSE
  OBVIOUS
<1>2. PICK m \in Nat \ S : \A k \in Nat \ S : m <= k
  BY <1>1, NatMin
<1>3. m # 0 /\ m - 1 \in Nat
  BY <1>2
<1> QED BY <1>2, <1>3

(* Quotient and remainder. *)
LEMMA Division ==
  ASSUME NEW x \in Nat, NEW m \in Nat \ {0}
  PROVE  /\ x \div m \in Nat /\ x % m \in 0 .. m - 1
         /\ x = m * (x \div m) + (x % m)
OBVIOUS

(* The remainder is what is left of a multiple. *)
LEMMA Remainder ==
  ASSUME NEW m \in Nat \ {0}, NEW q \in Nat, NEW r \in 0 .. m - 1
  PROVE  (m * q + r) % m = r
OBVIOUS

(* A multiple of m added changes no remainder. *)
LEMMA RemainderShift ==
  ASSUME NEW m \in Nat \ {0}, NEW q \in Nat, NEW y \in Nat
  PROVE  (m * q + y) % m = y % m
<1>1. PICK d \in Nat, r \in 0 .. m - 1 : y = m * d + r
  BY Division
<1>2. m * q + y = m * (q + d) + r /\ q + d \in Nat
  BY <1>1
<1>3. (m * (q + d) + r) % m = r /\ (m * d + r) % m = r
  BY <1>2, Remainder
<1> QED BY <1>1, <1>2, <1>3

(* Products of naturals, in the form the next lemmas need. *)
LEMMA Distribute ==
  ASSUME NEW a \in Nat, NEW b \in Nat, NEW c \in Nat
  PROVE  a * (b + c) = a * b + a * c /\ a * (b * c) = b * (a * c) /\ a * b \in Nat
OBVIOUS

(* A remainder may be taken before a linear map as well as after it. *)
LEMMA RemainderLinear ==
  ASSUME NEW m \in Nat \ {0}, NEW a \in Nat, NEW b \in Nat, NEW x \in Nat
  PROVE  (a * (x % m) + b) % m = (a * x + b) % m
<1>1. PICK d \in Nat, r \in 0 .. m - 1 : x = m * d + r /\ r = x % m
  BY Division
<1>2. a * x + b = m * (a * d) + (a * r + b) /\ a * d \in Nat /\ a * r + b \in Nat
  <2>1. m * d \in Nat /\ a * d \in Nat /\ a * r \in Nat /\ m * (a * d) \in Nat
    BY <1>1
  <2>2. a * x = a * (m * d) + a * r
    BY <1>1, <2>1, Distribute
  <2>3. a * (m * d) = m * (a * d)
    BY <1>1, Distribute
  <2> QED BY <2>1, <2>2, <2>3
<1>3. (m * (a * d) + (a * r + b)) % m = (a * r + b) % m
  BY <1>2, RemainderShift
<1> QED BY <1>1, <1>2, <1>3

(* Taking the remainder by a multiple of m first changes nothing. *)
LEMMA RemainderOfRemainder ==
  ASSUME NEW m \in Nat \ {0}, NEW d \in Nat \ {0}, NEW x \in Nat
  PROVE  (x % (m * d)) % m = x % m
<1>0. m * d \in Nat \ {0}
  OBVIOUS
<1>1. PICK q \in Nat, r \in 0 .. m * d - 1 : x = (m * d) * q + r /\ r = x % (m * d)
  BY Division, <1>0
<1>2. x = m * (d * q) + r /\ d * q \in Nat /\ r \in Nat
  BY <1>0, <1>1
<1>3. (m * (d * q) + r) % m = r % m
  BY <1>2, RemainderShift
<1> QED BY <1>1, <1>2, <1>3

(* The smallest set that has 1 and with every number its double. *)
PowersOfTwo ==
  {n \in Nat : \A S \in SUBSET Nat : 1 \in S /\ (\A p \in S : 2 * p \in S) => n \in S}

(* The powers of two are closed under doubling. *)
LEMMA TwiceAPower ==
  1 \in PowersOfTwo /\ \A p \in PowersOfTwo : 2 * p \in PowersOfTwo
BY DEF PowersOfTwo

(* Twice the leap over p steps is a leap over 2p steps of the same form. *)
LEMMA Squared ==
  ASSUME NEW p \in Nat, NEW k \in Nat, NEW j \in Nat, NEW x \in Nat
  PROVE  (4 * p * k + 1) * (x * (4 * p * k + 1) + p * (2 * j + 1)) + p * (2 * j + 1)
           = x * (4 * (2 * p) * (k + 2 * p * k * k) + 1)
             + (2 * p) * (2 * (2 * p * k * j + p * k + j) + 1)
OBVIOUS

(* Two linear steps in a row, with the remainders taken at the end. *)
LEMMA Twice ==
  ASSUME NEW m \in Nat \ {0}, NEW a \in Nat, NEW c \in Nat, NEW x \in Nat
  PROVE  (((x * a + c) % m) * a + c) % m = (a * (x * a + c) + c) % m
<1>1. x * a \in Nat /\ x * a + c \in Nat
  OBVIOUS
<1>2. PICK y \in Nat : y = x * a + c
  BY <1>1
<1>3. y % m \in Nat /\ (y % m) * a = a * (y % m)
  BY <1>2, Division
<1>4. (a * (y % m) + c) % m = (a * y + c) % m
  BY <1>2, RemainderLinear
<1> QED BY <1>2, <1>3, <1>4

(* A leap over p steps is a multiple of 2p away from adding p. *)
LEMMA Halfway ==
  ASSUME NEW p \in Nat, NEW k \in Nat, NEW j \in Nat, NEW x \in Nat
  PROVE  x * (4 * p * k + 1) + p * (2 * j + 1) = (2 * p) * (2 * k * x + j) + (x + p)
OBVIOUS

(* Where p steps of the orbit lead. *)
Divides(t, m) == \E d \in Nat \ {0} : m = t * d
Leap(p, k, j, x) == x * (4 * p * k + 1) + p * (2 * j + 1)

(* A leap over p steps takes the orbit to the other half modulo 2p. *)
LEMMA Crossing ==
  ASSUME NEW p \in Nat \ {0}, NEW k \in Nat, NEW j \in Nat, NEW x \in Nat,
         NEW t, NEW m, t = 2 * p, Divides(t, m)
  PROVE  (Leap(p, k, j, x) % m) % t = (x + p) % t
<1>1. PICK d \in Nat \ {0} : m = t * d
  BY DEF Divides
<1>2. 2 * k * x + j \in Nat /\ x + p \in Nat /\ t \in Nat \ {0} /\ Leap(p, k, j, x) \in Nat
  BY DEF Leap
<1>3. PICK q \in Nat, z \in Nat : q = 2 * k * x + j /\ z = Leap(p, k, j, x)
  BY <1>2
<1>4. z = t * q + (x + p)
  BY Halfway, <1>3 DEF Leap
<1>6. (z % (t * d)) % t = z % t
  BY <1>2, RemainderOfRemainder
<1>7. (t * q + (x + p)) % t = (x + p) % t
  BY <1>2, RemainderShift
<1> QED BY <1>1, <1>3, <1>4, <1>6, <1>7

(* A natural is even or odd. *)
LEMMA EvenOrOdd == \A q \in Nat : \E e \in Nat : q = 2 * e \/ q = 2 * e + 1
<1> SUFFICES ASSUME NEW q \in Nat PROVE \E e \in Nat : q = 2 * e \/ q = 2 * e + 1
  OBVIOUS
<1>1. q = 2 * (q \div 2) + (q % 2) /\ q % 2 \in 0 .. 1 /\ q \div 2 \in Nat
  OBVIOUS
<1> QED BY <1>1

(* Of a number and that number plus p, each remainder modulo 2p that         *)
(* continues a remainder modulo p is the one of exactly one.                 *)
LEMMA Halves ==
  ASSUME NEW p \in Nat \ {0}, NEW x \in Nat, NEW s \in 0 .. p - 1, x % p = s
  PROVE  \/ x % (2 * p) = s /\ (x + p) % (2 * p) = s + p
         \/ x % (2 * p) = s + p /\ (x + p) % (2 * p) = s
<1>1. PICK t \in Nat \ {0} : t = 2 * p
  OBVIOUS
<1>2. s \in 0 .. t - 1 /\ s + p \in 0 .. t - 1
  BY <1>1
<1>3. PICK q \in Nat : x = p * q + s
  <2>1. x \div p \in Nat /\ x = p * (x \div p) + (x % p)
    BY Division
  <2> QED BY <2>1
<1>4. PICK e \in Nat : q = 2 * e \/ q = 2 * e + 1
  BY EvenOrOdd
<1>5. CASE q = 2 * e
  <2>1. x = t * e + s /\ x + p = t * e + (s + p)
    BY <1>1, <1>2, <1>3, <1>5
  <2>2. (t * e + s) % t = s /\ (t * e + (s + p)) % t = s + p
    BY <1>2, Remainder
  <2> QED BY <1>1, <2>1, <2>2
<1>6. CASE q = 2 * e + 1
  <2>0. e + 1 \in Nat /\ t * (e + 1) = t * e + t /\ p * q = t * e + p /\ t * e \in Nat
    BY <1>1, <1>6
  <2>1. x = t * e + (s + p) /\ x + p = t * (e + 1) + s
    BY <1>1, <1>2, <1>3, <2>0
  <2>2. (t * e + (s + p)) % t = s + p /\ (t * (e + 1) + s) % t = s
    BY <1>2, <2>0, Remainder
  <2> QED BY <1>1, <2>1, <2>2
<1> QED BY <1>4, <1>5, <1>6

(* v is the sequence of x -> a x + c modulo m. *)
Orbit(v, m, a, c) ==
  /\ v \in [0 .. m -> 0 .. m - 1]
  /\ \A n \in 0 .. m - 1 : v[n + 1] = (v[n] * a + c) % m

(* The sequence has full period. For a power of two p that divides m, p      *)
(* steps lead to x + p modulo 2p (Leaps), so if the first p members have all *)
(* remainders modulo p (Covers), the first 2p have all modulo 2p.            *)
LEMMA FullPeriod ==
  ASSUME NEW m \in PowersOfTwo, NEW a0 \in Nat, NEW c0 \in Nat, NEW v,
         a0 % 4 = 1, c0 % 2 = 1, Orbit(v, m, a0, c0)
  PROVE  \A r \in 0 .. m - 1 : \E n \in 0 .. m - 1 : v[n] = r
<1> DEFINE Leaps(p) ==
             \E k \in Nat, j \in Nat : \A n \in 0 .. m - p :
               v[n + p] = (v[n] * (4 * p * k + 1) + p * (2 * j + 1)) % m
           Covers(p) == \A r \in 0 .. p - 1 : \E n \in 0 .. p - 1 : v[n] % p = r
           Good == {p \in Nat \ {0} : Divides(p, m) => Leaps(p) /\ Covers(p)}
<1>0. m \in Nat \ {0}
  <2>1. Nat \ {0} \in SUBSET Nat /\ 1 \in Nat \ {0} /\ \A p \in Nat \ {0} : 2 * p \in Nat \ {0}
    OBVIOUS
  <2> QED BY <2>1, Zenon DEF PowersOfTwo
<1>a. \A n \in 0 .. m : v[n] \in Nat /\ v[n] \in 0 .. m - 1
  <2>1. v \in [0 .. m -> 0 .. m - 1]
    BY DEF Orbit
  <2> QED BY <1>0, <2>1
<1>1. 1 \in Good
  <2>1. Leaps(1)
    <3>1. PICK k0 \in Nat, j0 \in Nat : a0 = 4 * 1 * k0 + 1 /\ c0 = 1 * (2 * j0 + 1)
      <4>1. a0 = 4 * (a0 \div 4) + 1 /\ a0 \div 4 \in Nat
        OBVIOUS
      <4>2. c0 = 2 * (c0 \div 2) + 1 /\ c0 \div 2 \in Nat
        OBVIOUS
      <4> QED BY <4>1, <4>2
    <3>2. \A n \in 0 .. m - 1 : v[n + 1] = (v[n] * a0 + c0) % m
      BY DEF Orbit
    <3> HIDE DEF Good, Covers
    <3> QED BY <3>1, <3>2
  <2>2. Covers(1)
    <3>1. v[0] \in Nat
      BY <1>0, <1>a
    <3>2. v[0] % 1 = 0
      BY <3>1
    <3> QED BY <3>2
  <2>3. 1 \in Nat \ {0}
    OBVIOUS
  <2> HIDE DEF Leaps, Covers
  <2> QED BY <2>1, <2>2, <2>3
<1>2. ASSUME NEW p \in Good PROVE 2 * p \in Good
  <2>0. p \in Nat \ {0} /\ 2 * p \in Nat \ {0}
    OBVIOUS
  <2> SUFFICES ASSUME Divides(2 * p, m) PROVE Leaps(2 * p) /\ Covers(2 * p)
    BY <2>0
  <2>1. PICK d \in Nat \ {0} : m = (2 * p) * d
    BY DEF Divides
  <2>2. m = p * (2 * d) /\ 2 * d \in Nat \ {0}
    <3>1. (2 * p) * d = p * (2 * d)
      BY <2>0
    <3> QED BY <2>1, <3>1
  <2>9. 2 * p <= m
    BY <2>0, <2>1
  <2>3. Leaps(p) /\ Covers(p)
    BY <2>2 DEF Divides
  <2> HIDE DEF Leaps, Covers, Good
  <2>4. PICK k \in Nat, j \in Nat : \A n \in 0 .. m - p :
               v[n + p] = (v[n] * (4 * p * k + 1) + p * (2 * j + 1)) % m
    BY <2>3 DEF Leaps
  <2>5. PICK a \in Nat, c \in Nat : a = 4 * p * k + 1 /\ c = p * (2 * j + 1)
    BY <2>0
  <2>6. PICK kk \in Nat, jj \in Nat : kk = k + 2 * p * k * k /\ jj = 2 * p * k * j + p * k + j
    BY <2>0
  <2>7. ASSUME NEW n \in 0 .. m - 2 * p
        PROVE  v[n + 2 * p] = (v[n] * (4 * (2 * p) * kk + 1) + (2 * p) * (2 * jj + 1)) % m
    <3>1. n \in 0 .. m - p /\ n + p \in 0 .. m - p /\ n \in 0 .. m /\ (n + p) + p = n + 2 * p
      BY <1>0, <2>0, <2>9
    <3>2. PICK x \in Nat : x = v[n]
      BY <1>a, <3>1
    <3>3. v[n + p] = (x * a + c) % m /\ v[n + 2 * p] = (v[n + p] * a + c) % m
      BY <2>4, <2>5, <3>1, <3>2
    <3>4. v[n + 2 * p] = (a * (x * a + c) + c) % m
      <4>1. (((x * a + c) % m) * a + c) % m = (a * (x * a + c) + c) % m
        BY <1>0, Twice
      <4> QED BY <3>3, <4>1
    <3>5. a * (x * a + c) + c = x * (4 * (2 * p) * kk + 1) + (2 * p) * (2 * jj + 1)
      BY <2>0, <2>5, <2>6, Squared
    <3> QED BY <3>2, <3>4, <3>5
  <2>10. Leaps(2 * p)
    BY <2>7 DEF Leaps
  <2>8. ASSUME NEW r \in 0 .. 2 * p - 1
        PROVE  \E n \in 0 .. 2 * p - 1 : v[n] % (2 * p) = r
    <3>1. PICK s \in 0 .. p - 1 : r = s \/ r = s + p
      <4>1. CASE r < p
        BY <2>0, <4>1
      <4>2. CASE r >= p
        <5>1. r - p \in 0 .. p - 1 /\ r = (r - p) + p
          BY <2>0, <4>2
        <5> QED BY <5>1
      <4> QED BY <2>0, <4>1, <4>2
    <3>2. PICK n \in 0 .. p - 1 : v[n] % p = s
      BY <2>3, <3>1 DEF Covers
    <3>3. /\ n \in 0 .. m - p /\ n \in 0 .. m
          /\ n \in 0 .. 2 * p - 1 /\ n + p \in 0 .. 2 * p - 1
      BY <1>0, <2>0, <2>9
    <3>4. PICK x \in Nat : x = v[n]
      BY <1>a, <3>3
    <3>5. v[n + p] % (2 * p) = (x + p) % (2 * p)
      <4>1. PICK t : t = 2 * p
        OBVIOUS
      <4>2. Divides(t, m)
        BY <4>1
      <4>3. v[n + p] = Leap(p, k, j, x) % m
        BY <2>4, <3>3, <3>4 DEF Leap
      <4>4. (Leap(p, k, j, x) % m) % t = (x + p) % t
        BY <2>0, <4>1, <4>2, Crossing
      <4> QED BY <4>1, <4>3, <4>4
    <3>6. \/ x % (2 * p) = s /\ (x + p) % (2 * p) = s + p
          \/ x % (2 * p) = s + p /\ (x + p) % (2 * p) = s
      <4>1. x % p = s
        BY <3>2, <3>4
      <4> QED BY <2>0, <4>1, Halves, Zenon
    <3> QED BY <3>1, <3>3, <3>4, <3>5, <3>6
  <2> QED BY <2>8, <2>10 DEF Covers
<1>3. m \in Good
  <2>1. Good \in SUBSET Nat
    OBVIOUS
  <2> HIDE DEF Good
  <2> QED BY <1>1, <1>2, <2>1, Zenon DEF PowersOfTwo
<1>4. Covers(m)
  <2>1. m = m * 1 /\ 1 \in Nat \ {0}
    BY <1>0
  <2> QED BY <1>3, <2>1 DEF Divides
<1>5. ASSUME NEW n \in 0 .. m - 1 PROVE v[n] % m = v[n]
  <2>1. n \in 0 .. m
    BY <1>0
  <2>2. PICK x \in 0 .. m - 1 : x = v[n]
    BY <1>a, <2>1
  <2>3. m * 0 + x = x /\ (m * 0 + x) % m = x
    BY <1>0, Remainder
  <2> QED BY <2>2, <2>3
<1> QED BY <1>4, <1>5

------------------------------------------------------------------------------
(* The table of strings.                                                       *)

(* No power of two is 0. *)
LEMMA PowerNotZero == \A c \in PowersOfTwo : c \in Nat \ {0}
<1>1. Nat \ {0} \in SUBSET Nat /\ 1 \in Nat \ {0} /\ \A p \in Nat \ {0} : 2 * p \in Nat \ {0}
  OBVIOUS
<1> QED BY <1>1, Zenon DEF PowersOfTwo

(* The null pointer is no address. *)
LEMMA NoneNoAddress == None \notin Addresses
BY DEF None, Addresses

(* _next_index computes a slot. *)
LEMMA NextIndexType ==
  ASSUME NEW c \in Nat \ {0}, NEW i \in Nat
  PROVE  NextIndex(i, c) \in 0 .. c - 1
<1>1. PICK x \in Nat : x = i * 40389 + 403
  OBVIOUS
<1> QED BY <1>1, Division DEF NextIndex

(* The recursive function of a search exists, by induction on its domain. *)
LEMMA VisitedExists ==
  ASSUME NEW c \in Nat \ {0}, NEW h \in Nat
  PROVE  Visited(c, h) = [n \in 0 .. c |-> IF n = 0 THEN h % c
                                           ELSE NextIndex(Visited(c, h)[n - 1], c)]
<1> DEFINE Is(f, m) == f = [n \in 0 .. m |-> IF n = 0 THEN h % c ELSE NextIndex(f[n - 1], c)]
           S == {m \in Nat : \E f : Is(f, m)}
<1>1. 0 \in S
  <2> DEFINE f == [n \in 0 .. 0 |-> h % c]
  <2>1. Is(f, 0)
    OBVIOUS
  <2> QED BY <2>1
<1>2. ASSUME NEW m \in Nat, m \in S PROVE m + 1 \in S
  <2>1. PICK f : Is(f, m)
    BY <1>2
  <2> DEFINE g == [n \in 0 .. m + 1 |-> IF n <= m THEN f[n] ELSE NextIndex(f[m], c)]
  <2>2. ASSUME NEW n \in 0 .. m + 1
        PROVE  g[n] = IF n = 0 THEN h % c ELSE NextIndex(g[n - 1], c)
    <3>1. CASE n = 0
      BY <2>1, <3>1
    <3>2. CASE n \in 1 .. m
      <4>1. f[n] = NextIndex(f[n - 1], c)
        BY <2>1, <3>2
      <4> QED BY <3>2, <4>1
    <3>3. CASE n = m + 1
      BY <3>3
    <3> QED BY <3>1, <3>2, <3>3
  <2>3. Is(g, m + 1)
    BY <2>2
  <2> HIDE DEF g, Is
  <2> QED BY <2>3
<1>3. c \in S
  <2> HIDE DEF S
  <2> QED BY <1>1, <1>2, NatInd
<1>4. PICK f : Is(f, c)
  BY <1>3
<1>5. Visited(c, h) = CHOOSE slot : Is(slot, c)
  BY DEF Visited
<1>6. Is(CHOOSE slot : Is(slot, c), c)
  <2> HIDE DEF Is
  <2> QED BY <1>4
<1> QED BY <1>5, <1>6

(* A search starts at the slot of its hash, goes on with _next_index and     *)
(* stays in the table.                                                       *)
LEMMA VisitedIs ==
  ASSUME NEW c \in Nat \ {0}, NEW h \in Nat
  PROVE  /\ Visited(c, h) \in [0 .. c -> 0 .. c - 1]
         /\ Visited(c, h)[0] = h % c
         /\ \A n \in 0 .. c - 1 : Visited(c, h)[n + 1] = NextIndex(Visited(c, h)[n], c)
<1> DEFINE v == Visited(c, h)
           S == {n \in Nat : n \in 0 .. c => v[n] \in 0 .. c - 1}
<1>1. v = [n \in 0 .. c |-> IF n = 0 THEN h % c ELSE NextIndex(v[n - 1], c)]
  BY VisitedExists
<1> HIDE DEF v
<1>2. v[0] = h % c /\ \A n \in 0 .. c - 1 : v[n + 1] = NextIndex(v[n], c)
  <2>1. ASSUME NEW n \in 0 .. c - 1 PROVE v[n + 1] = NextIndex(v[n], c)
    <3>1. n + 1 \in 0 .. c /\ n + 1 # 0 /\ (n + 1) - 1 = n
      OBVIOUS
    <3> QED BY <1>1, <3>1
  <2> QED BY <1>1, <2>1
<1>3. 0 \in S
  <2>1. h % c \in 0 .. c - 1
    BY Division
  <2> QED BY <1>2, <2>1
<1>4. ASSUME NEW n \in Nat, n \in S PROVE n + 1 \in S
  <2> SUFFICES ASSUME n + 1 \in 0 .. c PROVE v[n + 1] \in 0 .. c - 1
    OBVIOUS
  <2>1. n \in 0 .. c /\ n \in 0 .. c - 1
    OBVIOUS
  <2>2. v[n] \in Nat
    BY <1>4, <2>1
  <2> QED BY <1>2, <2>1, <2>2, NextIndexType
<1>5. \A n \in 0 .. c : v[n] \in 0 .. c - 1
  <2>1. Nat \subseteq S
    <3> HIDE DEF S
    <3> QED BY <1>3, <1>4, NatInd
  <2> QED BY <2>1
<1>6. v \in [0 .. c -> 0 .. c - 1]
  BY <1>1, <1>5
<1> QED BY <1>2, <1>6 DEF v

(* Every slot is visited within as many steps as the table has slots, from   *)
(* every hash, whatever the capacity, as long as it is a power of two:       *)
(* _next_index (hash_helper.h:9-11) multiplies by 1 modulo 4 and adds an odd *)
(* number. Every loop of string_pool.c and hash.c over a probe chain relies  *)
(* on it.                                                                    *)
THEOREM EverySlotVisited ==
  ASSUME NEW c \in PowersOfTwo, NEW h \in Nat
  PROVE  \A i \in 0 .. c - 1 : \E n \in 0 .. c - 1 : Visited(c, h)[n] = i
<1>1. c \in Nat \ {0}
  BY PowerNotZero
<1>2. Orbit(Visited(c, h), c, 40389, 403)
  <2> DEFINE v == Visited(c, h)
  <2>1. v \in [0 .. c -> 0 .. c - 1] /\ \A n \in 0 .. c - 1 : v[n + 1] = NextIndex(v[n], c)
    BY <1>1, VisitedIs, Zenon
  <2> HIDE DEF v
  <2>2. \A n \in 0 .. c - 1 : v[n + 1] = (v[n] * 40389 + 403) % c
    <3> SUFFICES ASSUME NEW n \in 0 .. c - 1 PROVE v[n + 1] = (v[n] * 40389 + 403) % c
      OBVIOUS
    <3>1. NextIndex(v[n], c) = (v[n] * 40389 + 403) % c
      BY DEF NextIndex
    <3> QED BY <2>1, <3>1
  <2>3. Orbit(v, c, 40389, 403)
    BY <2>1, <2>2 DEF Orbit
  <2> QED BY <2>3 DEF v
<1>3. 40389 % 4 = 1 /\ 403 % 2 = 1
  OBVIOUS
<1> QED BY <1>2, <1>3, FullPeriod

------------------------------------------------------------------------------
(* Tables: what a node is, the slots with a node, and the nodes. *)
NodeType == [key : Nat, string : {None} \cup Addresses]
IsTable(t) == t \in [capacity : PowersOfTwo, size : Nat, content : [Slots(t) -> NodeType]]
Used(t) == Slots(t) \ Free(t)
Nodes(t) == {t.content[i] : i \in Used(t)}
(* The search for hash h comes to slot i before it comes to a free slot. *)
Reaches(t, h, i) ==
  \E n \in 0 .. t.capacity :
    /\ Visited(t.capacity, h)[n] = i
    /\ \A m \in 0 .. n - 1 : Visited(t.capacity, h)[m] \in Used(t)
Chained(t) == \A i \in Used(t) : Reaches(t, t.content[i].key, i)

(* A search that has a slot to stop at stops, at the first such slot it      *)
(* visits.                                                                   *)
LEMMA FirstVisitedIs ==
  ASSUME NEW c \in PowersOfTwo, NEW h \in Nat, NEW stops, stops \cap (0 .. c - 1) # {}
  PROVE  \E n \in 0 .. c :
           /\ Visited(c, h)[n] = FirstVisited(c, h, stops)
           /\ FirstVisited(c, h, stops) \in stops \cap (0 .. c - 1)
           /\ \A m \in 0 .. n - 1 : Visited(c, h)[m] \notin stops
<1> DEFINE v == Visited(c, h)
           T == {n \in 0 .. c : v[n] \in stops}
<1>1. c \in Nat \ {0}
  BY PowerNotZero
<1>2. v \in [0 .. c -> 0 .. c - 1]
  BY <1>1, VisitedIs
<1>3. FirstVisited(c, h, stops) = v[Min(T)]
  BY DEF FirstVisited
<1>4. PICK i \in 0 .. c - 1 : i \in stops
  OBVIOUS
<1>5. PICK n \in 0 .. c - 1 : v[n] = i
  BY EverySlotVisited
<1> HIDE DEF v
<1>6. n \in T /\ T \in SUBSET Nat
  BY <1>1, <1>4, <1>5
<1>7. \E m \in T : \A k \in T : m <= k
  BY <1>6, NatMin
<1>8. Min(T) \in T /\ \A k \in T : Min(T) <= k
  <2>1. Min(T) = CHOOSE x \in T : \A y \in T : x <= y
    BY DEF Min
  <2> QED BY <1>7, <2>1, Zenon
<1>9. ASSUME NEW m \in 0 .. Min(T) - 1 PROVE v[m] \notin stops
  BY <1>1, <1>8
<1> QED BY <1>2, <1>3, <1>8, <1>9 DEF v

(* _string_hash_insert writes to the first free slot on the way from the     *)
(* hash.                                                                     *)
LEMMA PutIs ==
  ASSUME NEW t, NEW h \in Nat, NEW a \in Addresses, IsTable(t), Free(t) # {}
  PROVE  \E f \in Free(t) :
           /\ Reaches(t, h, f)
           /\ Put(t, h, a) = [t EXCEPT !.content = [@ EXCEPT ![f] = [key |-> h, string |-> a]]]
<1>1. t.capacity \in PowersOfTwo /\ Free(t) \cap Slots(t) # {} /\ Slots(t) = 0 .. t.capacity - 1
  BY DEF IsTable, Free, Slots
<1>2. PICK n \in 0 .. t.capacity :
           /\ Visited(t.capacity, h)[n] = FirstVisited(t.capacity, h, Free(t))
           /\ FirstVisited(t.capacity, h, Free(t)) \in Free(t) \cap Slots(t)
           /\ \A m \in 0 .. n - 1 : Visited(t.capacity, h)[m] \notin Free(t)
  BY <1>1, FirstVisitedIs
<1>3. \A m \in 0 .. n - 1 : Visited(t.capacity, h)[m] \in Slots(t)
  <2>1. t.capacity \in Nat \ {0}
    BY <1>1, PowerNotZero
  <2>2. Visited(t.capacity, h) \in [0 .. t.capacity -> 0 .. t.capacity - 1]
    BY <2>1, VisitedIs
  <2>3. \A m \in 0 .. n - 1 : m \in 0 .. t.capacity
    BY <2>1
  <2> QED BY <1>1, <2>2, <2>3
<1>4. Reaches(t, h, FirstVisited(t.capacity, h, Free(t)))
  BY <1>2, <1>3 DEF Reaches, Used
<1> QED BY <1>2, <1>4 DEF Put

(* The table keeps its nodes and chains, and has one node more and one free  *)
(* slot less.                                                                *)
LEMMA PutKeeps ==
  ASSUME NEW t, NEW h \in Nat, NEW a \in Addresses, IsTable(t), Chained(t), Free(t) # {}
  PROVE  /\ IsTable(Put(t, h, a)) /\ Chained(Put(t, h, a))
         /\ Put(t, h, a).capacity = t.capacity /\ Put(t, h, a).size = t.size
         /\ Nodes(Put(t, h, a)) = Nodes(t) \cup {[key |-> h, string |-> a]}
         /\ IsFiniteSet(Free(Put(t, h, a)))
         /\ Cardinality(Free(Put(t, h, a))) = Cardinality(Free(t)) - 1
<1>1. PICK f \in Free(t) :
           /\ Reaches(t, h, f)
           /\ Put(t, h, a) = [t EXCEPT !.content = [@ EXCEPT ![f] = [key |-> h, string |-> a]]]
  BY PutIs
<1> DEFINE u == Put(t, h, a)
           node == [key |-> h, string |-> a]
<1>2. /\ t = [capacity |-> t.capacity, size |-> t.size, content |-> t.content]
      /\ t.content \in [Slots(t) -> NodeType] /\ f \in Slots(t)
      /\ t.capacity \in PowersOfTwo /\ t.size \in Nat
  BY DEF IsTable, Free
<1>3. u.capacity = t.capacity /\ u.size = t.size /\ u.content = [t.content EXCEPT ![f] = node]
      /\ u = [capacity |-> u.capacity, size |-> u.size, content |-> u.content]
  BY <1>1, <1>2
<1>4. Slots(u) = Slots(t)
  BY <1>3 DEF Slots
<1>5. node \in NodeType /\ node.string # None /\ node.key = h /\ node.string = a
  BY NoneNoAddress DEF NodeType
<1> HIDE DEF u, node
<1>6. u.content[f] = node /\ \A i \in Slots(t) \ {f} : u.content[i] = t.content[i]
  BY <1>2, <1>3
<1>7. Free(u) = Free(t) \ {f}
  BY <1>1, <1>4, <1>5, <1>6 DEF Free
<1>8. Used(u) = Used(t) \cup {f} /\ f \notin Used(t)
  BY <1>2, <1>4, <1>7 DEF Used
<1>9. IsTable(u)
  BY <1>2, <1>3, <1>4, <1>5 DEF IsTable
<1>10. Nodes(u) = Nodes(t) \cup {node}
  <2>1. \A i \in Used(t) : u.content[i] = t.content[i]
    BY <1>6, <1>8 DEF Used
  <2> QED BY <1>6, <1>8, <2>1 DEF Nodes
<1>11. Chained(u)
  <2> SUFFICES ASSUME NEW i \in Used(u) PROVE Reaches(u, u.content[i].key, i)
    BY DEF Chained
  <2>1. Reaches(t, u.content[i].key, i)
    <3>1. CASE i = f
      BY <1>1, <1>5, <1>6, <3>1
    <3>2. CASE i # f
      BY <1>6, <1>8, <3>2 DEF Chained, Used
    <3> QED BY <3>1, <3>2
  <2> QED BY <1>3, <1>8, <2>1 DEF Reaches
<1>12. IsFiniteSet(Free(t))
  <2>1. IsFiniteSet(Slots(t)) /\ Free(t) \subseteq Slots(t)
    <3>1. t.capacity - 1 \in Int /\ 0 \in Int
      BY <1>2, PowerNotZero
    <3>2. IsFiniteSet(0 .. t.capacity - 1)
      BY <3>1, FS_Interval, Zenon
    <3> QED BY <3>2 DEF Slots, Free
  <2> QED BY <2>1, FS_Subset
<1>13. IsFiniteSet(Free(u)) /\ Cardinality(Free(u)) = Cardinality(Free(t)) - 1
  BY <1>1, <1>7, <1>12, FS_RemoveElement
<1> QED BY <1>3, <1>9, <1>10, <1>11, <1>13 DEF u, node

(* What is not free is used: the two counts make up the capacity. *)
LEMMA SlotsAreFinite ==
  ASSUME NEW t, IsTable(t)
  PROVE  /\ IsFiniteSet(Slots(t)) /\ Cardinality(Slots(t)) = t.capacity
         /\ IsFiniteSet(Free(t)) /\ IsFiniteSet(Used(t))
         /\ Cardinality(Free(t)) \in Nat /\ Cardinality(Used(t)) \in Nat
         /\ Cardinality(Used(t)) = t.capacity - Cardinality(Free(t))
<1>1. t.capacity \in Nat \ {0}
  BY PowerNotZero DEF IsTable
<1>2. IsFiniteSet(Slots(t)) /\ Cardinality(Slots(t)) = t.capacity
  <2>1. 0 \in Int /\ t.capacity - 1 \in Int
    BY <1>1
  <2>2. IsFiniteSet(0 .. t.capacity - 1)
    BY <2>1, FS_Interval, Zenon
  <2>3. Cardinality(0 .. t.capacity - 1) = IF 0 > t.capacity - 1 THEN 0 ELSE (t.capacity - 1) - 0 + 1
    BY <2>1, FS_Interval, Zenon
  <2> QED BY <1>1, <2>2, <2>3 DEF Slots
<1>3. Free(t) \subseteq Slots(t)
  BY DEF Free
<1>4. IsFiniteSet(Free(t)) /\ Cardinality(Free(t)) \in Nat
  BY <1>2, <1>3, FS_Subset, FS_CardinalityType
<1>5. IsFiniteSet(Used(t)) /\ Cardinality(Used(t)) = Cardinality(Slots(t)) - Cardinality(Slots(t) \cap Free(t))
  BY <1>2, FS_Difference DEF Used
<1>6. Slots(t) \cap Free(t) = Free(t)
  BY <1>3
<1>7. Cardinality(Used(t)) \in Nat
  BY <1>5, FS_CardinalityType
<1> QED BY <1>2, <1>4, <1>5, <1>6, <1>7

(* A new table is all free. *)
LEMMA NewTableIs ==
  ASSUME NEW c \in PowersOfTwo
  PROVE  /\ IsTable(NewTable(c)) /\ Chained(NewTable(c)) /\ Nodes(NewTable(c)) = {}
         /\ NewTable(c).capacity = c /\ NewTable(c).size = 0
         /\ IsFiniteSet(Free(NewTable(c))) /\ Cardinality(Free(NewTable(c))) = c
<1> DEFINE t == NewTable(c)
<1>1. t.capacity = c /\ t.size = 0 /\ t.content = [i \in 0 .. c - 1 |-> Empty]
  BY DEF NewTable
<1>2. Slots(t) = 0 .. c - 1
  BY <1>1 DEF Slots
<1>3. IsTable(t)
  <2>1. Empty \in NodeType
    BY DEF Empty, NodeType
  <2>2. [i \in 0 .. c - 1 |-> Empty] \in [0 .. c - 1 -> NodeType]
    BY <2>1
  <2> QED BY <1>2, <2>2 DEF IsTable, NewTable
<1>4. Free(t) = Slots(t) /\ Used(t) = {}
  BY <1>1, <1>2 DEF Free, Used, Empty
<1>5. IsFiniteSet(Free(t)) /\ Cardinality(Free(t)) = c
  BY <1>1, <1>3, <1>4, SlotsAreFinite
<1> QED BY <1>1, <1>3, <1>4, <1>5 DEF Chained, Nodes

(* _string_expand_pool, the iterations of its loop given names. *)
Copy(t, u, i) ==
  IF t.content[i].string = None THEN u
  ELSE Put(u, t.content[i].key, t.content[i].string)
UpTo(t) ==
  CHOOSE upTo : upTo = [n \in 0 .. t.capacity |->
                          IF n = 0 THEN NewTable(2 * t.capacity) ELSE Copy(t, upTo[n - 1], n - 1)]

(* The recursive function of an expansion exists, by induction on its        *)
(* domain.                                                                   *)
LEMMA UpToIs ==
  ASSUME NEW t, t.capacity \in Nat
  PROVE  /\ UpTo(t)[0] = NewTable(2 * t.capacity)
         /\ \A n \in 0 .. t.capacity - 1 : UpTo(t)[n + 1] = Copy(t, UpTo(t)[n], n)
<1> DEFINE first == NewTable(2 * t.capacity)
           Is(f, m) == f = [n \in 0 .. m |-> IF n = 0 THEN first ELSE Copy(t, f[n - 1], n - 1)]
           S == {m \in Nat : \E f : Is(f, m)}
<1> HIDE DEF first
<1>1. 0 \in S
  <2> DEFINE f == [n \in 0 .. 0 |-> first]
  <2>1. Is(f, 0)
    OBVIOUS
  <2> QED BY <2>1
<1>2. ASSUME NEW m \in Nat, m \in S PROVE m + 1 \in S
  <2>1. PICK f : Is(f, m)
    BY <1>2
  <2> DEFINE g == [n \in 0 .. m + 1 |-> IF n <= m THEN f[n] ELSE Copy(t, f[m], m)]
  <2>2. ASSUME NEW n \in 0 .. m + 1
        PROVE  g[n] = IF n = 0 THEN first ELSE Copy(t, g[n - 1], n - 1)
    <3>1. CASE n = 0
      BY <2>1, <3>1
    <3>2. CASE n \in 1 .. m
      <4>1. f[n] = Copy(t, f[n - 1], n - 1)
        BY <2>1, <3>2
      <4> QED BY <3>2, <4>1
    <3>3. CASE n = m + 1
      BY <3>3
    <3> QED BY <3>1, <3>2, <3>3
  <2>3. Is(g, m + 1)
    BY <2>2
  <2> HIDE DEF g, Is
  <2> QED BY <2>3
<1>3. t.capacity \in S
  <2> HIDE DEF S
  <2> QED BY <1>1, <1>2, NatInd
<1>4. PICK f : Is(f, t.capacity)
  BY <1>3
<1>5. UpTo(t) = CHOOSE e : Is(e, t.capacity)
  BY DEF UpTo, first
<1>6. Is(UpTo(t), t.capacity)
  <2> HIDE DEF Is
  <2> QED BY <1>4, <1>5, Zenon
<1>7. ASSUME NEW n \in 0 .. t.capacity - 1 PROVE UpTo(t)[n + 1] = Copy(t, UpTo(t)[n], n)
  <2>1. n + 1 \in 0 .. t.capacity /\ n + 1 # 0 /\ (n + 1) - 1 = n
    OBVIOUS
  <2> QED BY <1>6, <2>1
<1>8. UpTo(t)[0] = first
  BY <1>6
<1> QED BY <1>7, <1>8 DEF first

(* _string_expand_pool keeps the nodes, and at least as many slots of the    *)
(* new table are free as the old table has slots and free slots together.    *)
LEMMA RehashedIs ==
  ASSUME NEW t, IsTable(t)
  PROVE  /\ IsTable(Rehashed(t)) /\ Chained(Rehashed(t)) /\ Nodes(Rehashed(t)) = Nodes(t)
         /\ Rehashed(t).capacity = 2 * t.capacity /\ Rehashed(t).size = 0
         /\ IsFiniteSet(Free(Rehashed(t)))
         /\ Cardinality(Free(Rehashed(t))) >= t.capacity + Cardinality(Free(t))
<1> DEFINE Before(n) == {i \in Used(t) : i < n}
           upTo == UpTo(t)
           Good(n) == LET u == upTo[n] IN
             /\ IsTable(u) /\ Chained(u)
             /\ u.capacity = 2 * t.capacity /\ u.size = 0
             /\ Nodes(u) = {t.content[i] : i \in Before(n)}
             /\ IsFiniteSet(Free(u))
             /\ Cardinality(Free(u)) >= 2 * t.capacity - Cardinality(Before(n))
           S == {n \in Nat : n \in 0 .. t.capacity => Good(n)}
<1>1. /\ t.capacity \in PowersOfTwo /\ t.capacity \in Nat \ {0} /\ 2 * t.capacity \in PowersOfTwo
      /\ t.content \in [Slots(t) -> NodeType]
  BY PowerNotZero, TwiceAPower DEF IsTable
<1>2. Rehashed(t) = upTo[t.capacity]
  BY DEF Rehashed, UpTo, Copy
<1>3. upTo[0] = NewTable(2 * t.capacity) /\ \A n \in 0 .. t.capacity - 1 : upTo[n + 1] = Copy(t, upTo[n], n)
  BY <1>1, UpToIs
<1> HIDE DEF upTo
<1>4. \A n \in Nat : /\ IsFiniteSet(Before(n)) /\ Cardinality(Before(n)) \in Nat
                     /\ Cardinality(Before(n)) <= t.capacity
  <2> SUFFICES ASSUME NEW n \in Nat
               PROVE  /\ IsFiniteSet(Before(n)) /\ Cardinality(Before(n)) \in Nat
                      /\ Cardinality(Before(n)) <= t.capacity
    OBVIOUS
  <2>1. IsFiniteSet(Slots(t)) /\ Cardinality(Slots(t)) = t.capacity
    BY SlotsAreFinite
  <2>2. Before(n) \in SUBSET Slots(t)
    BY DEF Used
  <2> HIDE DEF Before
  <2> QED BY <2>1, <2>2, FS_Subset, FS_CardinalityType
<1>5. 0 \in S
  <2>1. Before(0) = {} 
    BY <1>1 DEF Used, Slots
  <2>2. Cardinality(Before(0)) = 0
    BY <2>1, FS_EmptySet
  <2>3. {t.content[i] : i \in Before(0)} = {}
    BY <2>1
  <2> HIDE DEF Before
  <2> QED BY <1>1, <1>3, <2>2, <2>3, NewTableIs
<1>6. ASSUME NEW n \in Nat, n \in S PROVE n + 1 \in S
  <2> SUFFICES ASSUME n + 1 \in 0 .. t.capacity PROVE Good(n + 1)
    OBVIOUS
  <2>1. n \in 0 .. t.capacity - 1 /\ n \in 0 .. t.capacity /\ n \in Slots(t)
    BY <1>1 DEF Slots
  <2> DEFINE u == upTo[n]
             w == upTo[n + 1]
  <2>2. /\ IsTable(u) /\ Chained(u)
        /\ u.capacity = 2 * t.capacity /\ u.size = 0
        /\ Nodes(u) = {t.content[i] : i \in Before(n)}
        /\ IsFiniteSet(Free(u))
        /\ Cardinality(Free(u)) >= 2 * t.capacity - Cardinality(Before(n))
    BY <1>6, <2>1
  <2>3. w = Copy(t, u, n)
    BY <1>3, <2>1
  <2> HIDE DEF u, w
  <2>4. CASE t.content[n].string = None
    <3>1. w = u
      BY <2>3, <2>4 DEF Copy
    <3>2. Before(n + 1) = Before(n)
      BY <2>1, <2>4 DEF Used, Free, Slots
    <3> HIDE DEF Before
    <3> QED BY <2>2, <3>1, <3>2 DEF u, w
  <2>5. CASE t.content[n].string # None
    <3> DEFINE h == t.content[n].key
               a == t.content[n].string
    <3>1. w = Put(u, h, a)
      BY <2>3, <2>5 DEF Copy
    <3>2. h \in Nat /\ a \in Addresses /\ t.content[n] = [key |-> h, string |-> a]
      BY <1>1, <2>1, <2>5 DEF NodeType
    <3>3. Before(n + 1) = Before(n) \cup {n} /\ n \notin Before(n)
      BY <2>1, <2>5 DEF Used, Free, Slots
    <3>4. /\ Cardinality(Before(n + 1)) = Cardinality(Before(n)) + 1
          /\ {t.content[i] : i \in Before(n + 1)} = {t.content[i] : i \in Before(n)} \cup {t.content[n]}
      <4> HIDE DEF Before
      <4>1. IsFiniteSet(Before(n))
        BY <1>4
      <4>2. Cardinality(Before(n) \cup {n}) = Cardinality(Before(n)) + 1
        BY <3>3, <4>1, FS_AddElement
      <4> QED BY <3>3, <4>2
    <3> HIDE DEF h, a, Before
    <3>5. Free(u) # {}
      <4>1. Cardinality(Free(u)) # 0
        BY <1>1, <1>4, <2>2
      <4> QED BY <4>1, FS_EmptySet
    <3>6. /\ IsTable(w) /\ Chained(w) /\ w.capacity = u.capacity /\ w.size = u.size
          /\ Nodes(w) = Nodes(u) \cup {t.content[n]}
          /\ IsFiniteSet(Free(w)) /\ Cardinality(Free(w)) = Cardinality(Free(u)) - 1
      BY <2>2, <3>1, <3>2, <3>5, PutKeeps
    <3>7. Cardinality(Free(w)) >= 2 * t.capacity - Cardinality(Before(n + 1))
      <4>1. Cardinality(Free(u)) \in Nat /\ Cardinality(Before(n)) \in Nat
        BY <1>4, <2>2, FS_CardinalityType
      <4> QED BY <1>1, <2>2, <3>4, <3>6, <4>1
    <3> QED BY <2>2, <3>4, <3>6, <3>7 DEF w
  <2> QED BY <2>4, <2>5
<1>7. Good(t.capacity)
  <2>1. Nat \subseteq S
    <3> HIDE DEF S
    <3> QED BY <1>5, <1>6, NatInd
  <2> HIDE DEF Good
  <2> QED BY <1>1, <2>1
<1>8. Before(t.capacity) = Used(t)
  BY <1>1 DEF Used, Slots
<1>9. Cardinality(Used(t)) = t.capacity - Cardinality(Free(t)) /\ Cardinality(Free(t)) \in Nat
  BY SlotsAreFinite
<1>10. {t.content[i] : i \in Before(t.capacity)} = Nodes(t)
  BY <1>8 DEF Nodes
<1> HIDE DEF Before
<1>11. Cardinality(Free(Rehashed(t))) >= t.capacity + Cardinality(Free(t))
  <2>1. Cardinality(Free(Rehashed(t))) \in Nat
    BY <1>2, <1>7, FS_CardinalityType
  <2> QED BY <1>1, <1>2, <1>7, <1>8, <1>9, <2>1
<1> QED BY <1>2, <1>7, <1>10, <1>11

(* The size of a table is no part of what a search sees. *)
LEMMA ResizedIs ==
  ASSUME NEW t, NEW n \in Nat, IsTable(t), Chained(t)
  PROVE  LET u == [t EXCEPT !.size = n]
         IN  /\ IsTable(u) /\ Chained(u) /\ Nodes(u) = Nodes(t) /\ Free(u) = Free(t)
             /\ u.capacity = t.capacity /\ u.size = n
<1> DEFINE u == [t EXCEPT !.size = n]
<1>1. /\ t = [capacity |-> t.capacity, size |-> t.size, content |-> t.content]
      /\ t.capacity \in PowersOfTwo /\ t.content \in [Slots(t) -> NodeType]
  BY DEF IsTable
<1>2. /\ u = [capacity |-> t.capacity, size |-> n, content |-> t.content]
      /\ u.capacity = t.capacity /\ u.content = t.content /\ u.size = n
  BY <1>1
<1> HIDE DEF u
<1>3. Slots(u) = Slots(t)
  BY <1>2 DEF Slots
<1>4. Free(u) = Free(t)
  BY <1>2, <1>3 DEF Free
<1>5. Used(u) = Used(t)
  BY <1>3, <1>4 DEF Used
<1>6. IsTable(u)
  BY <1>1, <1>2, <1>3 DEF IsTable
<1>7. Chained(u)
  BY <1>2, <1>5 DEF Chained, Reaches
<1>8. Nodes(u) = Nodes(t)
  BY <1>2, <1>5 DEF Nodes
<1> QED BY <1>2, <1>4, <1>6, <1>7, <1>8 DEF u

------------------------------------------------------------------------------
(* The invariant of the table.  size forgets nodes at an expansion, and the *)
(* free slots are counted against it.                                       *)
Addressed == pages \in Seq(Nat) /\ pages # <<>>
TableInv ==
  /\ IsTable(table) /\ Chained(table)
  /\ \E half \in Nat : table.capacity = 2 * half
  /\ 2 * table.size <= table.capacity
  /\ 2 * Cardinality(Free(table)) + 2 * table.size >= table.capacity + DefaultCapacity

(* STRING_POOL_DEFAULT_CAPACITY is an even power of two. *)
LEMMA DefaultCapacityIs ==
  DefaultCapacity \in PowersOfTwo /\ \E half \in Nat \ {0} : DefaultCapacity = 2 * half
<1>1. {1, 2, 4, 8, 16, 32, 64} \subseteq PowersOfTwo
  <2> DEFINE P == PowersOfTwo
  <2>1. 1 \in P /\ \A p \in P : 2 * p \in P
    BY TwiceAPower
  <2> HIDE DEF P
  <2>2. 2 * 1 \in P
    BY <2>1
  <2>3. 2 * 2 \in P
    BY <2>1, <2>2
  <2>4. 2 * 4 \in P
    BY <2>1, <2>3
  <2>5. 2 * 8 \in P
    BY <2>1, <2>4
  <2>6. 2 * 16 \in P
    BY <2>1, <2>5
  <2>7. 2 * 32 \in P
    BY <2>1, <2>6
  <2> QED BY <2>1, <2>2, <2>3, <2>4, <2>5, <2>6, <2>7 DEF P
<1>2. DefaultCapacity \in {2, 4, 8, 16, 32, 64}
  BY PoolAssumption
<1>3. \E half \in {1, 2, 4, 8, 16, 32} : DefaultCapacity = 2 * half
  BY <1>2
<1> QED BY <1>1, <1>2, <1>3

(* The invariant leaves at least DefaultCapacity / 2 slots free. *)
LEMMA TableHasRoom ==
  ASSUME TableInv
  PROVE  IsFiniteSet(Free(table)) /\ Cardinality(Free(table)) \in Nat \ {0} /\ Free(table) # {}
<1>1. /\ IsTable(table) /\ table.capacity \in Nat \ {0} /\ table.size \in Nat
      /\ DefaultCapacity \in Nat \ {0}
  BY PowerNotZero, DefaultCapacityIs DEF TableInv, IsTable
<1>2. IsFiniteSet(Free(table)) /\ Cardinality(Free(table)) \in Nat
  BY <1>1, SlotsAreFinite
<1>3. Cardinality(Free(table)) # 0
  BY <1>1, <1>2 DEF TableInv
<1> QED BY <1>2, <1>3, FS_EmptySet

(* What an insertion does to the table keeps that, with an expansion and     *)
(* without: an expansion takes the size back to 1, but it doubles the slots. *)
LEMMA Stored ==
  ASSUME TableInv, NEW x \in Text, NEW a \in Addresses,
         table' = [Put(IF NeedExpand(table.size + 1, table.capacity) THEN Rehashed(table) ELSE table,
                       Hash[x], a) EXCEPT !.size = @ + 1]
  PROVE  TableInv' /\ Nodes(table') = Nodes(table) \cup {[key |-> Hash[x], string |-> a]}
<1> DEFINE t == IF NeedExpand(table.size + 1, table.capacity) THEN Rehashed(table) ELSE table
           u == Put(t, Hash[x], a)
<1>1. /\ IsTable(table) /\ Chained(table) /\ table.capacity \in Nat \ {0} /\ table.size \in Nat
      /\ DefaultCapacity \in Nat \ {0} /\ Hash[x] \in Nat
  BY PowerNotZero, DefaultCapacityIs, PoolAssumption DEF TableInv, IsTable
<1>2. IsFiniteSet(Free(table)) /\ Cardinality(Free(table)) \in Nat \ {0} /\ Free(table) # {}
  BY TableHasRoom
<1>3. PICK half \in Nat : table.capacity = 2 * half
  BY DEF TableInv
<1>4. /\ 2 * table.size <= table.capacity
      /\ 2 * Cardinality(Free(table)) + 2 * table.size >= table.capacity + DefaultCapacity
  BY DEF TableInv
<1>5. /\ IsTable(t) /\ Chained(t) /\ Nodes(t) = Nodes(table)
      /\ IsFiniteSet(Free(t)) /\ Cardinality(Free(t)) \in Nat \ {0}
      /\ t.size \in Nat /\ t.capacity \in Nat
      /\ \E q \in Nat : t.capacity = 2 * q
      /\ 2 * (t.size + 1) <= t.capacity
      /\ 2 * Cardinality(Free(t)) + 2 * t.size >= t.capacity + DefaultCapacity
  <2>1. CASE NeedExpand(table.size + 1, table.capacity)
    <3>1. t = Rehashed(table)
      BY <2>1
    <3> HIDE DEF t
    <3>2. /\ IsTable(t) /\ Chained(t) /\ Nodes(t) = Nodes(table)
          /\ t.capacity = 2 * table.capacity /\ t.size = 0 /\ IsFiniteSet(Free(t))
          /\ Cardinality(Free(t)) >= table.capacity + Cardinality(Free(table))
      BY <1>1, <3>1, RehashedIs
    <3>3. Cardinality(Free(t)) \in Nat
      BY <3>2, FS_CardinalityType
    <3>4. t.capacity = 2 * table.capacity /\ table.capacity \in Nat
      BY <1>1, <3>2
    <3>5. Cardinality(Free(t)) \in Nat \ {0} /\ 2 * (t.size + 1) <= t.capacity
      BY <1>1, <1>2, <3>2, <3>3
    <3>6. 2 * Cardinality(Free(t)) + 2 * t.size >= t.capacity + DefaultCapacity
      BY <1>1, <1>2, <1>4, <3>2, <3>3
    <3> QED BY <3>2, <3>4, <3>5, <3>6
  <2>2. CASE ~NeedExpand(table.size + 1, table.capacity)
    <3>1. t = table
      BY <2>2
    <3>2. table.capacity \div 2 = half
      BY <1>3
    <3>3. table.size + 1 <= half
      <4>1. ~(table.size + 1 > table.capacity - half)
        BY <2>2, <3>2 DEF NeedExpand
      <4> QED BY <1>1, <1>3, <4>1
    <3> QED BY <1>1, <1>2, <1>3, <1>4, <3>1, <3>3
  <2> QED BY <2>1, <2>2
<1> HIDE DEF t
<1>6. Free(t) # {}
  BY <1>5, FS_EmptySet
<1>7. /\ IsTable(u) /\ Chained(u) /\ u.capacity = t.capacity /\ u.size = t.size
      /\ Nodes(u) = Nodes(t) \cup {[key |-> Hash[x], string |-> a]}
      /\ Cardinality(Free(u)) = Cardinality(Free(t)) - 1
  BY <1>1, <1>5, <1>6, PutKeeps
<1>8. table' = [u EXCEPT !.size = u.size + 1]
  BY DEF t
<1> HIDE DEF u
<1>9. /\ IsTable(table') /\ Chained(table') /\ Nodes(table') = Nodes(u) /\ Free(table') = Free(u)
      /\ table'.capacity = u.capacity /\ table'.size = u.size + 1
  <2>1. PICK n \in Nat : n = u.size + 1
    BY <1>5, <1>7
  <2>2. table' = [u EXCEPT !.size = n]
    BY <1>8, <2>1
  <2>3. LET w == [u EXCEPT !.size = n]
        IN  /\ IsTable(w) /\ Chained(w) /\ Nodes(w) = Nodes(u) /\ Free(w) = Free(u)
            /\ w.capacity = u.capacity /\ w.size = n
    BY <1>7, ResizedIs
  <2> QED BY <2>1, <2>2, <2>3
<1>10. /\ 2 * table'.size <= table'.capacity
       /\ 2 * Cardinality(Free(table')) + 2 * table'.size >= table'.capacity + DefaultCapacity
  BY <1>1, <1>5, <1>7, <1>9
<1>11. \E q \in Nat : table'.capacity = 2 * q
  BY <1>5, <1>7, <1>9
<1>12. TableInv'
  <2>1. IsTable(table)' /\ Chained(table)' /\ Free(table)' = Free(table')
    BY <1>9 DEF IsTable, Chained, Free, Slots, Used, Reaches
  <2> QED BY <1>10, <1>11, <2>1 DEF TableInv
<1> QED BY <1>5, <1>7, <1>9, <1>12

(* What holds after every call, of any strings. *)
GrowthInv == TableInv /\ Addressed

(* A string takes a multiple of the word, more than it needs by at most a    *)
(* word.                                                                     *)
LEMMA TakenIs ==
  ASSUME NEW x \in Text
  PROVE  /\ Length[x] \in Nat /\ Word \in Nat \ {0} /\ Taken(x) \in Nat
         /\ \E q \in Nat : Taken(x) = Word * q
         /\ Length[x] + 1 + Word < Taken(x) /\ Taken(x) <= Length[x] + 1 + Word + Word
<1>1. Length[x] \in Nat /\ Word \in Nat \ {0}
  BY PoolAssumption
<1>2. PICK n \in Nat : n = Length[x] + 1 + Word + Word
  BY <1>1
<1>3. PICK q \in Nat, r \in 0 .. Word - 1 : n = Word * q + r /\ q = n \div Word
  BY <1>1, Division
<1>4. Taken(x) = q * Word
  BY <1>2, <1>3 DEF Taken
<1>5. PICK m \in Nat : m = Word * q
  BY <1>1
<1>6. Taken(x) = m /\ n = m + r
  <2>1. q * Word = Word * q
    BY <1>1
  <2> QED BY <1>3, <1>4, <1>5, <2>1
<1>7. Length[x] + 1 + Word < m /\ m <= Length[x] + 1 + Word + Word
  BY <1>1, <1>2, <1>6
<1> QED BY <1>1, <1>5, <1>6, <1>7

(* A page put in front of the list. *)
LEMMA HeadOf ==
  ASSUME NEW S, NEW s \in Seq(S), NEW e \in S, s # <<>>
  PROVE  /\ Len(s) \in Nat \ {0} /\ Head(s) \in S
         /\ <<e>> \o s \in Seq(S) /\ <<e>> \o s # <<>>
         /\ Len(<<e>> \o s) = Len(s) + 1 /\ Head(<<e>> \o s) = e
<1>1. Len(s) \in Nat \ {0} /\ Head(s) \in S
  BY EmptySeq, HeadTailProperties
<1>2. <<e>> \in Seq(S) /\ Len(<<e>>) = 1 /\ <<e>>[1] = e
  OBVIOUS
<1>3. <<e>> \o s \in Seq(S) /\ Len(<<e>> \o s) = 1 + Len(s) /\ (<<e>> \o s)[1] = e
  BY <1>2
<1> QED BY <1>1, <1>3

(* A page of the list, the head, written to. *)
LEMMA ReplacedHead ==
  ASSUME NEW S, NEW s \in Seq(S), NEW T, NEW e \in T, S \subseteq T, s # <<>>
  PROVE  LET r == [s EXCEPT ![1] = e]
         IN  r \in Seq(T) /\ r # <<>> /\ Len(r) = Len(s) /\ Head(r) = e
<1> DEFINE r == [s EXCEPT ![1] = e]
<1>1. Len(s) \in Nat \ {0} /\ s \in [1 .. Len(s) -> S]
  BY EmptySeq, LenProperties
<1>2. r \in [1 .. Len(s) -> T] /\ r[1] = e
  BY <1>1
<1> HIDE DEF r
<1>3. r \in Seq(T) /\ Len(r) = Len(s)
  BY <1>1, <1>2, SeqDef, LenProperties
<1> QED BY <1>1, <1>2, <1>3

(* An insertion adds one node to the table, whatever the pages hold. *)
LEMMA GrowthStep ==
  ASSUME GrowthInv, NEW x \in Text, Insert(x)
  PROVE  /\ GrowthInv'
         /\ \E a \in Addresses :
              /\ result' = a
              /\ Nodes(table') = Nodes(table) \cup {[key |-> Hash[x], string |-> a]}
<1> DEFINE list == IF NeedPage(x) THEN <<NewPage>> \o pages ELSE pages
           a == <<Len(list), Head(list)>>
<1>1. /\ pages' = [list EXCEPT ![1] = @ + Taken(x)]
      /\ table' = [Put(IF NeedExpand(table.size + 1, table.capacity) THEN Rehashed(table) ELSE table,
                       Hash[x], a) EXCEPT !.size = @ + 1]
      /\ result' = a
  BY DEF Insert
<1>2. NewPage \in Nat
  BY PoolAssumption DEF NewPage
<1>3. list \in Seq(Nat) /\ list # <<>> /\ Len(list) \in Nat \ {0} /\ Head(list) \in Nat
  BY <1>2, HeadOf DEF GrowthInv, Addressed
<1>4. a \in Addresses
  BY <1>3 DEF Addresses
<1> HIDE DEF list
<1>5. Addressed'
  <2>1. list[1] = Head(list)
    BY <1>3
  <2>2. PICK e \in Nat : e = list[1] + Taken(x)
    BY <1>3, <2>1, TakenIs
  <2>3. pages' = [list EXCEPT ![1] = e]
    BY <1>1, <2>2
  <2> QED BY <1>3, <2>3, ReplacedHead DEF Addressed
<1> HIDE DEF a
<1>6. TableInv' /\ Nodes(table') = Nodes(table) \cup {[key |-> Hash[x], string |-> a]}
  BY <1>1, <1>4, Stored DEF GrowthInv
<1> QED BY <1>1, <1>4, <1>5, <1>6 DEF GrowthInv

(* A new pool has room. *)
LEMMA GrowthInit == Init => GrowthInv
<1> SUFFICES ASSUME Init PROVE GrowthInv
  OBVIOUS
<1>1. table = NewTable(DefaultCapacity) /\ pages = <<NewPage>>
  BY DEF Init
<1>2. /\ IsTable(table) /\ Chained(table) /\ table.capacity = DefaultCapacity /\ table.size = 0
      /\ Cardinality(Free(table)) = DefaultCapacity
  BY <1>1, NewTableIs, DefaultCapacityIs
<1>3. DefaultCapacity \in Nat /\ \E half \in Nat : DefaultCapacity = 2 * half
  BY DefaultCapacityIs, PowerNotZero
<1>4. TableInv
  BY <1>2, <1>3 DEF TableInv
<1>5. NewPage \in Nat
  BY PoolAssumption DEF NewPage
<1>6. <<NewPage>> \in Seq(Nat) /\ <<NewPage>> # <<>>
  BY <1>5
<1> QED BY <1>1, <1>4, <1>6 DEF GrowthInv, Addressed

(* Searching changes nothing. *)
LEMMA GrowthKept ==
  ASSUME GrowthInv, table' = table, pages' = pages
  PROVE  GrowthInv'
<1>1. IsTable(table)' /\ Free(table)' = Free(table)
  BY DEF GrowthInv, TableInv, IsTable, Free, Slots
<1>2. Chained(table) = Chained(table)'
  BY DEF Chained, Reaches, Used, Free, Slots
<1> QED BY <1>1, <1>2 DEF GrowthInv, TableInv, Addressed

(* Every call leaves a free slot and unbroken chains. *)
LEMMA GrowthNext == GrowthInv /\ [Next]_vars => GrowthInv'
<1> SUFFICES ASSUME GrowthInv, [Next]_vars PROVE GrowthInv'
  OBVIOUS
<1>1. ASSUME NEW x \in Text, Find(x) PROVE GrowthInv'
  BY <1>1, GrowthKept DEF Find
<1>2. ASSUME NEW x \in Text, Insert(x) PROVE GrowthInv'
  BY <1>2, GrowthStep
<1>3. CASE UNCHANGED vars
  BY <1>3, GrowthKept DEF vars
<1> QED BY <1>1, <1>2, <1>3 DEF Next

(* The table always has free slots and unbroken chains:                      *)
(* string_pool_insert_vec expands in time although an expansion forgets how  *)
(* many nodes there are.                                                     *)
THEOREM Growth == Spec => []GrowthInv
BY GrowthInit, GrowthNext, PTL DEF Spec

(* Every search of the pool ends (_string_pool_find_hash and                 *)
(* _string_hash_insert, string_pool.c:76, 149), for every number of texts,   *)
(* every hash and every default capacity.                                    *)
THEOREM SearchesEnd == Spec => []SearchEnds
<1>1. GrowthInv => SearchEnds
  <2> SUFFICES ASSUME GrowthInv, NEW h \in Slots(table)
               PROVE  \E n \in Slots(table) : Visited(table.capacity, h)[n] \in Free(table)
    BY DEF SearchEnds
  <2>1. /\ table.capacity \in PowersOfTwo /\ table.capacity \in Nat \ {0}
        /\ Slots(table) = 0 .. table.capacity - 1
    BY PowerNotZero DEF GrowthInv, TableInv, IsTable, Slots
  <2>2. PICK i \in Free(table) : i \in Slots(table)
    BY TableHasRoom DEF GrowthInv, Free
  <2>3. h \in Nat
    BY <2>1
  <2>4. \E n \in 0 .. table.capacity - 1 : Visited(table.capacity, h)[n] = i
    BY <2>1, <2>2, <2>3, EverySlotVisited
  <2> QED BY <2>1, <2>2, <2>4
<1> QED BY <1>1, Growth, PTL

------------------------------------------------------------------------------
(* What a search answers, in table t with the strings ss: Found, for any    *)
(* table and strings.                                                       *)
Holds(ss, node, x) == node.key = Hash[x] /\ node.string \in DOMAIN ss /\ ss[node.string] = x
Answer(t, ss, x) ==
  t.content[FirstVisited(t.capacity, Hash[x],
                         Free(t) \cup {i \in Slots(t) : Holds(ss, t.content[i], x)})].string
(* StringsIntact, and no text in two nodes. *)
Intact(t, ss) == \A n \in Nodes(t) : n.string \in DOMAIN ss /\ n.key = Hash[ss[n.string]]
OneEach(t, ss) == \A m, n \in Nodes(t) : ss[m.string] = ss[n.string] => m.string = n.string

(* _string_pool_find_hash answers the one node that has the text, and NULL   *)
(* only when there is none.                                                  *)
LEMMA AnswerIs ==
  ASSUME NEW t, NEW ss, NEW x \in Text, IsTable(t), Chained(t), Free(t) # {},
         Intact(t, ss), OneEach(t, ss)
  PROVE  /\ \/ Answer(t, ss, x) = None
            \/ \E n \in Nodes(t) : n.string = Answer(t, ss, x) /\ ss[n.string] = x
         /\ \A n \in Nodes(t) : ss[n.string] = x => Answer(t, ss, x) = n.string
<1> DEFINE stops == Free(t) \cup {i \in Slots(t) : Holds(ss, t.content[i], x)}
           c == t.capacity
           f == FirstVisited(c, Hash[x], stops)
           v == Visited(c, Hash[x])
<1>1. c \in PowersOfTwo /\ c \in Nat \ {0} /\ Hash[x] \in Nat /\ Slots(t) = 0 .. c - 1
  BY PowerNotZero, PoolAssumption DEF IsTable, Slots
<1>2. stops \cap (0 .. c - 1) # {}
  BY <1>1 DEF Free
<1> HIDE DEF stops
<1>3. PICK k \in 0 .. c : v[k] = f /\ f \in stops \cap (0 .. c - 1)
                          /\ \A m \in 0 .. k - 1 : v[m] \notin stops
  BY <1>1, <1>2, FirstVisitedIs
<1>4. Answer(t, ss, x) = t.content[f].string
  BY DEF Answer, stops
<1> HIDE DEF f, v, c
<1>5. f \in Free(t) \/ (f \in Used(t) /\ Holds(ss, t.content[f], x))
  BY <1>1, <1>3 DEF stops, Used
<1>6. ASSUME f \in Free(t) PROVE Answer(t, ss, x) = None
  BY <1>4, <1>6 DEF Free
<1>7. ASSUME f \in Used(t), Holds(ss, t.content[f], x)
      PROVE  \E n \in Nodes(t) : n.string = Answer(t, ss, x) /\ ss[n.string] = x
  BY <1>4, <1>7 DEF Nodes, Holds
<1>8. ASSUME NEW n \in Nodes(t), ss[n.string] = x PROVE Answer(t, ss, x) = n.string
  <2>1. PICK i \in Used(t) : n = t.content[i]
    BY DEF Nodes
  <2>2. Holds(ss, n, x)
    BY <1>8 DEF Intact, Holds
  <2>3. PICK m \in 0 .. c : v[m] = i /\ \A q \in 0 .. m - 1 : v[q] \in Used(t)
    <3>1. Reaches(t, Hash[x], i)
      BY <2>1, <2>2 DEF Chained, Holds
    <3> QED BY <3>1 DEF Reaches, v, c
  <2>4. i \in stops
    BY <2>1, <2>2 DEF stops, Used
  <2>5. k <= m
    BY <1>1, <1>3, <2>3, <2>4
  <2>6. CASE k = m
    BY <1>3, <1>4, <2>1, <2>3, <2>6
  <2>7. CASE k < m
    <3>1. k \in 0 .. m - 1
      BY <1>1, <2>7
    <3>2. f \in Used(t)
      BY <1>3, <2>3, <3>1
    <3>3. Holds(ss, t.content[f], x)
      BY <1>5, <3>2 DEF Used
    <3>4. t.content[f] \in Nodes(t) /\ ss[t.content[f].string] = x
      BY <3>2, <3>3 DEF Nodes, Holds
    <3> QED BY <1>4, <1>8, <3>4 DEF OneEach
  <2> QED BY <1>1, <2>5, <2>6, <2>7
<1> QED BY <1>5, <1>6, <1>7, <1>8

(* Found, before and after a step. *)
LEMMA FoundIsAnswer ==
  ASSUME NEW x \in Text
  PROVE  Found(table, x) = Answer(table, strings, x) /\ Found(table, x)' = Answer(table', strings', x)
BY DEF Found, Answer, Holds, Same, Free, Slots

------------------------------------------------------------------------------
(* The invariant of the strings, as long as none fits exactly: every string *)
(* is inside of its page and, on the page that is being filled, before what *)
(* is still free.                                                           *)
End(ss, b) == b[2] + Word + Length[ss[b]]
Placed(pp, ss) ==
  /\ pp \in Seq(PageHeader .. PageSize) /\ pp # <<>>
  /\ \E q \in Nat : Head(pp) = Word * q
  /\ DOMAIN ss \subseteq Addresses /\ ss \in [DOMAIN ss -> Text]
  /\ \A b \in DOMAIN ss : /\ b[1] \in 1 .. Len(pp) /\ End(ss, b) < PageSize
                          /\ b[1] = Len(pp) => End(ss, b) < Head(pp)
StringsInv ==
  /\ Placed(pages, strings) /\ Intact(table, strings) /\ OneEach(table, strings)
  /\ result \in {None} \cup Addresses

(* Pages and their headers are whole words, and every string fits into a new *)
(* page with a word to spare.                                                *)
LEMMA PageSizes ==
  /\ Word \in Nat \ {0} /\ PageSize \in Nat \ {0} /\ PageHeader \in Nat \ {0} /\ PageSize < SizeLimit
  /\ SizeLimit \in Nat
  /\ \E q \in Nat : PageSize = Word * q
  /\ \E q \in Nat : PageHeader = Word * q
  /\ \A x \in Text : Length[x] \in Nat /\ PageHeader + Length[x] + 1 + Word + Word <= PageSize
<1>1. /\ Word \in Nat \ {0} /\ PageSize \in Nat \ {0} /\ PageHeader \in Nat \ {0}
      /\ SizeLimit \in Nat /\ 2 * PageSize < SizeLimit
      /\ PageSize % Word = 0 /\ PageHeader % Word = 0
  BY PoolAssumption
<1>2. ASSUME NEW n \in Nat, n % Word = 0 PROVE \E q \in Nat : n = Word * q
  <2>1. n \div Word \in Nat /\ n = Word * (n \div Word) + (n % Word)
    BY <1>1, Division
  <2>2. PICK q \in Nat : n = Word * q + 0
    BY <1>2, <2>1
  <2> QED BY <1>1, <2>2
<1>3. \A x \in Text : Length[x] \in Nat /\ PageHeader + Length[x] + 1 + Word + Word <= PageSize
  <2> SUFFICES ASSUME NEW x \in Text
               PROVE  Length[x] \in Nat /\ PageHeader + Length[x] + 1 + Word + Word <= PageSize
    OBVIOUS
  <2>1. Length[x] \in Nat /\ PageHeader + Length[x] + 1 + 2 * Word <= PageSize
    BY PoolAssumption
  <2> QED BY <1>1, <2>1
<1>4. PageSize < SizeLimit
  BY <1>1
<1>5. \E q \in Nat : PageSize = Word * q
  BY <1>1, <1>2
<1>6. \E q \in Nat : PageHeader = Word * q
  BY <1>1, <1>2
<1> QED BY <1>1, <1>3, <1>4, <1>5, <1>6, Zenon

(* A multiple of the word that exceeds a length holds the length rounded up. *)
LEMMA Fits ==
  ASSUME NEW w \in Nat \ {0}, NEW k \in Nat, NEW q \in Nat, NEW n \in Nat,
         n < w * k, w * q <= n + w
  PROVE  w * q <= w * k
<1> SUFFICES ASSUME q > k PROVE FALSE
  OBVIOUS
<1>1. w * q >= w * (k + 1) /\ w * (k + 1) = w * k + w /\ w * k \in Nat /\ w * q \in Nat
  OBVIOUS
<1> QED BY <1>1

(* Sums and differences of multiples. *)
LEMMA Multiples ==
  ASSUME NEW w \in Nat \ {0}, NEW k \in Nat, NEW q \in Nat
  PROVE  /\ w * k \in Nat /\ w * k + w * q = w * (k + q)
         /\ w * k <= w * q => k <= q /\ w * q - w * k = w * (q - k)
OBVIOUS

(* The pages when x is allocated. *)
PagesFor(x) == IF NeedPage(x) THEN <<NewPage>> \o pages ELSE pages

(* Unless the string fits exactly, the page it goes to has room for what it  *)
(* takes, behind every string that is there.                                 *)
LEMMA Allocated ==
  ASSUME Placed(pages, strings), NEW x \in Text, Room # Length[x] + 1 + Word, NEW list,
         list = PagesFor(x)
  PROVE  /\ list \in Seq(PageHeader .. PageSize) /\ list # <<>>
         /\ Len(list) \in Nat \ {0} /\ Head(list) \in Nat
         /\ Head(list) + Taken(x) \in PageHeader .. PageSize
         /\ \E q \in Nat : Head(list) + Taken(x) = Word * q
         /\ Head(list) + Word + Length[x] < Head(list) + Taken(x)
         /\ \A b \in DOMAIN strings : /\ b[1] \in 1 .. Len(list)
                                      /\ b[1] = Len(list) => End(strings, b) < Head(list)
<1>1. /\ Word \in Nat \ {0} /\ PageSize \in Nat \ {0} /\ PageHeader \in Nat \ {0}
      /\ PageSize < SizeLimit /\ SizeLimit \in Nat
      /\ Length[x] \in Nat /\ PageHeader + Length[x] + 1 + Word + Word <= PageSize
  BY PageSizes
<1>2. PICK t \in Nat, m \in Nat : /\ t = Taken(x) /\ t = Word * m
                                  /\ Length[x] + 1 + Word < t /\ t <= Length[x] + 1 + Word + Word
  BY TakenIs
<1>3. /\ pages \in Seq(PageHeader .. PageSize) /\ pages # <<>>
      /\ \A b \in DOMAIN strings : b[1] \in 1 .. Len(pages) /\ (b[1] = Len(pages) => End(strings, b) < Head(pages))
  BY DEF Placed
<1>4. NewPage = PageHeader /\ NewPage \in PageHeader .. PageSize
  BY <1>1 DEF NewPage
<1>5. /\ Len(pages) \in Nat \ {0} /\ Head(pages) \in PageHeader .. PageSize
      /\ <<NewPage>> \o pages \in Seq(PageHeader .. PageSize) /\ <<NewPage>> \o pages # <<>>
      /\ Len(<<NewPage>> \o pages) = Len(pages) + 1 /\ Head(<<NewPage>> \o pages) = PageHeader
  <2>1. PICK S : S = PageHeader .. PageSize
    OBVIOUS
  <2>2. /\ Len(pages) \in Nat \ {0} /\ Head(pages) \in S
        /\ <<NewPage>> \o pages \in Seq(S) /\ <<NewPage>> \o pages # <<>>
        /\ Len(<<NewPage>> \o pages) = Len(pages) + 1 /\ Head(<<NewPage>> \o pages) = NewPage
    <3>1. pages \in Seq(S) /\ pages # <<>> /\ NewPage \in S
      BY <1>3, <1>4, <2>1
    <3> QED BY <3>1, HeadOf, Zenon
  <2> QED BY <1>4, <2>1, <2>2, Zenon
<1>6. PICK qh \in Nat, qs \in Nat, qp \in Nat :
        Head(pages) = Word * qh /\ PageSize = Word * qs /\ PageHeader = Word * qp
  BY PageSizes DEF Placed
<1>7. CASE NeedPage(x)
  <2>1. list = <<NewPage>> \o pages
    BY <1>7 DEF PagesFor
  <2>2. PageHeader + t \in PageHeader .. PageSize
    BY <1>1, <1>2
  <2>3. PageHeader + t = Word * (qp + m) /\ qp + m \in Nat
    BY <1>1, <1>2, <1>6, Multiples
  <2>4. \A b \in DOMAIN strings : b[1] \in 1 .. Len(list) /\ b[1] # Len(list)
    BY <1>3, <1>5, <2>1
  <2>5. PageHeader + Word + Length[x] < PageHeader + t
    BY <1>1, <1>2
  <2>6. Len(list) \in Nat \ {0} /\ Head(list) = PageHeader
    BY <1>5, <2>1
  <2> QED BY <1>1, <1>2, <1>5, <2>1, <2>2, <2>3, <2>4, <2>5, <2>6
<1>8. CASE ~NeedPage(x)
  <2>1. list = pages
    BY <1>8 DEF PagesFor
  <2>2. PICK h \in Nat : h = Head(pages) /\ PageHeader <= h /\ h <= PageSize
    BY <1>1, <1>5
  <2>3. Room = PageSize - h
    <3>1. PICK r \in 0 .. SizeLimit - 1 : r = PageSize - h
      BY <1>1, <2>2
    <3>2. SizeLimit \in Nat \ {0} /\ SizeLimit * 0 + r = r
      BY <1>1
    <3>3. (SizeLimit * 0 + r) % SizeLimit = r
      BY <3>2, Remainder
    <3> QED BY <2>2, <3>1, <3>2, <3>3 DEF Room
  <2>4. ~(PageSize - h < Length[x] + 1 + Word)
    BY <1>8, <2>3 DEF NeedPage
  <2>5. Length[x] + 1 + Word < PageSize - h
    <3>1. PageSize - h # Length[x] + 1 + Word
      BY <2>3
    <3> QED BY <1>1, <2>2, <2>4, <3>1
  <2>6. t <= PageSize - h
    <3>1. qs - qh \in Nat /\ PageSize - h = Word * (qs - qh)
      <4>1. Word * qh <= Word * qs
        BY <1>6, <2>2
      <4>2. qh <= qs /\ Word * qs - Word * qh = Word * (qs - qh)
        BY <1>1, <4>1, Multiples
      <4> QED BY <1>6, <2>2, <4>2
    <3>2. PICK k \in Nat : PageSize - h = Word * k
      BY <3>1
    <3>3. PICK n \in Nat : n = Length[x] + 1 + Word
      BY <1>1
    <3>4. n < Word * k /\ Word * m <= n + Word
      BY <1>2, <2>5, <3>2, <3>3
    <3>5. Word * m <= Word * k
      BY <1>1, <3>4, Fits
    <3> QED BY <1>2, <3>2, <3>5
  <2>7. h + t \in PageHeader .. PageSize
    <3>1. h + t \in Nat /\ PageHeader <= h + t /\ h + t <= PageSize
      BY <1>1, <2>2, <2>6
    <3> QED BY <1>1, <3>1
  <2>8. h + t = Word * (qh + m) /\ qh + m \in Nat
    BY <1>1, <1>2, <1>6, <2>2, Multiples
  <2>9. h + Word + Length[x] < h + t
    BY <1>1, <1>2, <2>2
  <2>10. h \in Nat
    BY <1>1, <2>2
  <2> QED BY <1>2, <1>3, <1>5, <2>1, <2>2, <2>7, <2>8, <2>9, <2>10
<1> QED BY <1>7, <1>8

(* A node of the table has an address. *)
LEMMA NodesAreTyped ==
  ASSUME NEW t, IsTable(t), NEW n \in Nodes(t)
  PROVE  n.string \in Addresses /\ n.key \in Nat /\ n = [key |-> n.key, string |-> n.string]
<1>1. PICK i \in Used(t) : n = t.content[i]
  BY DEF Nodes
<1>2. t.content[i] \in NodeType /\ t.content[i].string # None
  BY DEF IsTable, Used, Free
<1> QED BY <1>1, <1>2 DEF NodeType

(* Such an insertion touches no other string, and makes a node for its text, *)
(* which had none.                                                           *)
LEMMA StringsStep ==
  ASSUME GrowthInv, StringsInv, NEW x \in Text, Insert(x), Room # Length[x] + 1 + Word
  PROVE  /\ StringsInv'
         /\ \E a \in Addresses \ DOMAIN strings :
              /\ result' = a
              /\ strings' = [b \in DOMAIN strings \cup {a} |-> IF b = a THEN x ELSE strings[b]]
              /\ Nodes(table') = Nodes(table) \cup {[key |-> Hash[x], string |-> a]}
<1> DEFINE list == PagesFor(x)
           a == <<Len(list), Head(list)>>
<1>1. PICK harmed \in SUBSET Outside :
        /\ pages' = [list EXCEPT ![1] = @ + Taken(x)]
        /\ result' = a
        /\ strings' = [b \in {b \in DOMAIN strings \ harmed : ~Overlap(a, x, b, strings[b])} \cup {a} |->
                         IF b = a THEN x ELSE strings[b]]
  BY DEF Insert, PagesFor
<1>2. /\ list \in Seq(PageHeader .. PageSize) /\ list # <<>>
      /\ Len(list) \in Nat \ {0} /\ Head(list) \in Nat
      /\ Head(list) + Taken(x) \in PageHeader .. PageSize
      /\ \E q \in Nat : Head(list) + Taken(x) = Word * q
      /\ Head(list) + Word + Length[x] < Head(list) + Taken(x)
      /\ \A b \in DOMAIN strings : /\ b[1] \in 1 .. Len(list)
                                   /\ b[1] = Len(list) => End(strings, b) < Head(list)
  BY Allocated DEF StringsInv
<1>3. /\ Word \in Nat \ {0} /\ PageSize \in Nat \ {0} /\ PageHeader \in Nat \ {0}
      /\ \A y \in Text : Length[y] \in Nat
  BY PageSizes
<1>4. /\ DOMAIN strings \subseteq Addresses /\ strings \in [DOMAIN strings -> Text]
      /\ \A b \in DOMAIN strings : End(strings, b) < PageSize
  BY DEF StringsInv, Placed
<1>5. harmed = {}
  <2>1. ASSUME NEW b \in Outside PROVE FALSE
    <3>1. b \in DOMAIN strings /\ End(strings, b) >= PageSize
      BY DEF Outside, End
    <3>2. End(strings, b) \in Nat
      BY <1>3, <1>4, <3>1 DEF End, Addresses
    <3> QED BY <1>3, <1>4, <3>1, <3>2
  <2> QED BY <2>1
<1> HIDE DEF list
<1>6. PICK len \in Nat \ {0}, h \in Nat : len = Len(list) /\ h = Head(list)
  BY <1>2
<1>7. a = <<len, h>> /\ a \in Addresses /\ a[1] = len /\ a[2] = h
  BY <1>6 DEF Addresses
<1> HIDE DEF a
<1>8. ASSUME NEW b \in DOMAIN strings
      PROVE  b # a /\ ~Overlap(a, x, b, strings[b])
  <2>1. /\ b[1] \in Nat /\ b[2] \in Nat /\ strings[b] \in Text /\ Length[strings[b]] \in Nat
        /\ Length[x] \in Nat
    BY <1>3, <1>4 DEF Addresses
  <2>2. b[1] = len => b[2] + Word + Length[strings[b]] < h
    BY <1>2, <1>6 DEF End
  <2>3. b # a
    BY <1>3, <1>7, <2>1, <2>2
  <2>4. ASSUME Overlap(a, x, b, strings[b]) PROVE FALSE
    <3>1. b[1] = len
      BY <1>7, <2>4 DEF Overlap
    <3>2. PICK k : k \in a[2] .. a[2] + Word + Length[x] /\ k \in b[2] .. b[2] + Word + Length[strings[b]]
      BY <2>4 DEF Overlap, Span
    <3> QED BY <1>3, <1>7, <2>1, <2>2, <3>1, <3>2
  <2> QED BY <2>3, <2>4
<1>9. strings' = [b \in DOMAIN strings \cup {a} |-> IF b = a THEN x ELSE strings[b]]
  <2>1. {b \in DOMAIN strings \ harmed : ~Overlap(a, x, b, strings[b])} = DOMAIN strings
    BY <1>5, <1>8
  <2> QED BY <1>1, <2>1
<1>10. /\ DOMAIN strings' = DOMAIN strings \cup {a}
       /\ strings'[a] = x /\ \A b \in DOMAIN strings : strings'[b] = strings[b]
  BY <1>8, <1>9
<1>11. TableInv' /\ Nodes(table') = Nodes(table) \cup {[key |-> Hash[x], string |-> a]}
  BY <1>1, GrowthStep DEF GrowthInv
<1>12. Placed(pages', strings')
  <2>1. list[1] = h
    BY <1>2, <1>6
  <2>2. PICK e \in PageHeader .. PageSize : e = h + Taken(x)
    BY <1>2, <1>6
  <2>3. pages' = [list EXCEPT ![1] = e]
    BY <1>1, <2>1, <2>2
  <2>4. pages' \in Seq(PageHeader .. PageSize) /\ pages' # <<>> /\ Len(pages') = len /\ Head(pages') = e
    BY <1>2, <1>6, <2>3, ReplacedHead
  <2>5. (\E q \in Nat : Head(pages') = Word * q) /\ h + Word + Length[x] < e /\ e \in Nat /\ e <= PageSize
    <3>1. \E q \in Nat : Head(pages') = Word * q
      BY <1>2, <1>6, <2>2, <2>4
    <3>2. h + Word + Length[x] < e
      BY <1>2, <1>6, <2>2
    <3>3. e \in Nat /\ e <= PageSize
      BY <1>3, <2>2
    <3> QED BY <3>1, <3>2, <3>3
  <2>6. DOMAIN strings' \subseteq Addresses /\ strings' \in [DOMAIN strings' -> Text]
    BY <1>4, <1>7, <1>9, <1>10
  <2>7. ASSUME NEW b \in DOMAIN strings'
        PROVE  /\ b[1] \in 1 .. Len(pages') /\ End(strings', b) < PageSize
               /\ b[1] = Len(pages') => End(strings', b) < Head(pages')
    <3>1. CASE b = a
      <4>1. End(strings', b) = h + Word + Length[x]
        BY <1>7, <1>10, <3>1 DEF End
      <4>2. PICK n \in Nat : n = h + Word + Length[x]
        BY <1>3
      <4>3. n < e /\ n < PageSize
        BY <1>3, <2>5, <4>2
      <4>4. b[1] = len /\ len \in 1 .. len
        BY <1>7, <3>1
      <4> QED BY <2>4, <4>1, <4>2, <4>3, <4>4
    <3>2. CASE b \in DOMAIN strings
      <4>1. End(strings', b) = End(strings, b) /\ End(strings, b) < PageSize /\ End(strings, b) \in Nat
        BY <1>3, <1>4, <1>10, <3>2 DEF End, Addresses
      <4>2. b[1] \in 1 .. len /\ (b[1] = len => End(strings, b) < h)
        BY <1>2, <1>6, <3>2
      <4>3. h < e
        BY <1>3, <2>5
      <4> QED BY <2>4, <2>5, <4>1, <4>2, <4>3
    <3> QED BY <1>10, <3>1, <3>2
  <2> QED BY <2>4, <2>5, <2>6, <2>7 DEF Placed
<1>13. \A n \in Nodes(table) : n.string \in DOMAIN strings /\ n.key = Hash[strings[n.string]]
  BY DEF StringsInv, Intact
<1>14. \A n \in Nodes(table) : strings[n.string] # x
  <2>1. Found(table, x) = None
    BY DEF Insert
  <2>2. Answer(table, strings, x) = None
    BY <2>1, FoundIsAnswer
  <2>3. /\ IsTable(table) /\ Chained(table) /\ Free(table) # {}
        /\ Intact(table, strings) /\ OneEach(table, strings)
    BY TableHasRoom DEF GrowthInv, TableInv, StringsInv
  <2>4. \A n \in Nodes(table) : strings[n.string] = x => None = n.string
    BY <2>2, <2>3, AnswerIs
  <2> QED BY <2>3, <2>4, NodesAreTyped, NoneNoAddress
<1>15. Intact(table', strings')
  BY <1>10, <1>11, <1>13 DEF Intact
<1>16. OneEach(table', strings')
  <2>1. OneEach(table, strings)
    BY DEF StringsInv
  <2> SUFFICES ASSUME NEW m \in Nodes(table'), NEW n \in Nodes(table'),
                      strings'[m.string] = strings'[n.string]
               PROVE  m.string = n.string
    BY DEF OneEach
  <2>2. \A k \in Nodes(table') : k.string = a \/ (k \in Nodes(table) /\ strings'[k.string] = strings[k.string])
    BY <1>10, <1>11, <1>13
  <2> QED BY <1>10, <1>14, <2>1, <2>2 DEF OneEach
<1>17. StringsInv'
  <2>1. Placed(pages, strings)' /\ Intact(table, strings)' /\ OneEach(table, strings)'
    BY <1>12, <1>15, <1>16 DEF Placed, End, Intact, OneEach, Nodes, Used, Free, Slots
  <2> QED BY <1>1, <1>7, <2>1 DEF StringsInv
<1> QED BY <1>1, <1>7, <1>8, <1>9, <1>11, <1>17

(* A new pool has no strings. *)
LEMMA StringsInit == Init => StringsInv
<1> SUFFICES ASSUME Init PROVE StringsInv
  OBVIOUS
<1>1. /\ table = NewTable(DefaultCapacity) /\ pages = <<PageHeader>>
      /\ DOMAIN strings = {} /\ strings \in [DOMAIN strings -> Text] /\ result = None
  BY DEF Init, NewPage
<1>2. PageHeader \in PageHeader .. PageSize
  <2>1. PICK x \in Nat : x = PageHeader
    BY PageSizes
  <2>2. PageHeader <= PageSize
    BY PoolAssumption
  <2> QED BY <2>1, <2>2, PageSizes
<1>3. <<PageHeader>> \in Seq(PageHeader .. PageSize) /\ <<PageHeader>> # <<>> /\ Head(<<PageHeader>>) = PageHeader
  BY <1>2
<1>4. Placed(pages, strings)
  BY <1>1, <1>3, PageSizes DEF Placed
<1>5. Nodes(table) = {}
  BY <1>1, NewTableIs, DefaultCapacityIs
<1> QED BY <1>1, <1>4, <1>5 DEF StringsInv, Intact, OneEach

(* Searching harms no string. *)
LEMMA StringsKept ==
  ASSUME StringsInv, table' = table, pages' = pages, strings' = strings, result' \in {None} \cup Addresses
  PROVE  StringsInv'
<1>1. Placed(pages, strings)'
  BY DEF StringsInv, Placed, End
<1>2. Intact(table, strings)' /\ OneEach(table, strings)'
  BY DEF StringsInv, Intact, OneEach, Nodes, Used, Free, Slots
<1> QED BY <1>1, <1>2 DEF StringsInv

(* What AnswerIs needs of the table. *)
LEMMA TableReady == GrowthInv => IsTable(table) /\ Chained(table) /\ Free(table) # {}
BY TableHasRoom DEF GrowthInv, TableInv

(* A search answers an address or NULL. *)
LEMMA FindStep ==
  ASSUME GrowthInv, StringsInv, NEW x \in Text
  PROVE  Found(table, x) \in {None} \cup Addresses
<1>1. /\ IsTable(table) /\ Chained(table) /\ Free(table) # {}
      /\ Intact(table, strings) /\ OneEach(table, strings)
  BY TableHasRoom DEF GrowthInv, TableInv, StringsInv
<1>2. \/ Answer(table, strings, x) = None
      \/ \E n \in Nodes(table) : n.string = Answer(table, strings, x)
  BY <1>1, AnswerIs
<1> QED BY <1>1, <1>2, FoundIsAnswer, NodesAreTyped

(* A call that does not fit a string exactly keeps all strings. *)
LEMMA StringsNext == GrowthInv /\ StringsInv /\ [Next]_vars /\ [~FitsExactly]_vars => StringsInv'
<1> SUFFICES ASSUME GrowthInv, StringsInv, [Next]_vars, [~FitsExactly]_vars PROVE StringsInv'
  OBVIOUS
<1>1. ASSUME NEW x \in Text, Find(x) PROVE StringsInv'
  BY <1>1, FindStep, StringsKept DEF Find
<1>2. ASSUME NEW x \in Text, Insert(x), ~FitsExactly PROVE StringsInv'
  <2>1. Room # Length[x] + 1 + Word
    BY <1>2 DEF FitsExactly
  <2> QED BY <1>2, <2>1, StringsStep
<1>3. CASE UNCHANGED vars
  <2>1. table' = table /\ pages' = pages /\ strings' = strings /\ result' = result
    BY <1>3 DEF vars
  <2>2. result' \in {None} \cup Addresses
    BY <2>1 DEF StringsInv
  <2> QED BY <2>1, <2>2, StringsKept
<1> QED BY <1>1, <1>2, <1>3 DEF Next

(* The invariant of the strings, up to the first insertion that finds room   *)
(* for its string and not a byte more (string_pool.c:169-174).               *)
THEOREM StringsStay == Spec /\ [][~FitsExactly]_vars => [](GrowthInv /\ StringsInv)
<1>1. Init => GrowthInv /\ StringsInv
  BY GrowthInit, StringsInit
<1>2. GrowthInv /\ StringsInv /\ [Next]_vars /\ [~FitsExactly]_vars => (GrowthInv /\ StringsInv)'
  BY GrowthNext, StringsNext
<1> QED BY <1>1, <1>2, PTL DEF Spec

(* Up to such an insertion no page is filled beyond its end                  *)
(* (string_pool.c:169-174).                                                  *)
THEOREM TypeCorrect == Spec /\ [][~FitsExactly]_vars => []TypeOK
<1>1. GrowthInv /\ StringsInv => TypeOK
  <2> SUFFICES ASSUME GrowthInv, StringsInv PROVE TypeOK
    OBVIOUS
  <2>1. /\ table.capacity \in Nat \ {0} /\ table.size \in Nat
        /\ table.content \in [Slots(table) -> NodeType]
    BY PowerNotZero DEF GrowthInv, TableInv, IsTable
  <2>2. /\ pages \in Seq(PageHeader .. PageSize) /\ DOMAIN strings \subseteq Addresses
        /\ strings \in [DOMAIN strings -> Text] /\ result \in {None} \cup Addresses
    BY DEF StringsInv, Placed
  <2> QED BY <2>1, <2>2 DEF TypeOK, NodeType
<1> QED BY <1>1, StringsStay, PTL

(* Up to such an insertion every node of the table has the hash of the       *)
(* characters at its address: no string is written into another.             *)
THEOREM StringsStayIntact == Spec /\ [][~FitsExactly]_vars => []StringsIntact
<1>1. StringsInv => StringsIntact
  BY DEF StringsInv, Intact, Nodes, Used, StringsIntact
<1> QED BY <1>1, StringsStay, PTL

------------------------------------------------------------------------------
(* The refinement mapping. *)
interned == [x \in Text |-> Found(table, x)]

(* No text of a new pool has an address. *)
LEMMA InternerInits == Init => Promise!InternerInit
<1> SUFFICES ASSUME Init PROVE Promise!InternerInit
  OBVIOUS
<1>1. GrowthInv /\ StringsInv
  BY GrowthInit, StringsInit
<1>2. Nodes(table) = {} /\ result = None
  BY NewTableIs, DefaultCapacityIs DEF Init
<1>3. ASSUME NEW x \in Text PROVE Found(table, x) = None
  <2>1. /\ IsTable(table) /\ Chained(table) /\ Free(table) # {}
        /\ Intact(table, strings) /\ OneEach(table, strings)
    BY <1>1, TableHasRoom DEF GrowthInv, TableInv, StringsInv
  <2>2. \/ Answer(table, strings, x) = None
        \/ \E n \in Nodes(table) : n.string = Answer(table, strings, x)
    BY <2>1, AnswerIs
  <2> QED BY <1>2, <2>2, FoundIsAnswer
<1> QED BY <1>2, <1>3 DEF Promise!InternerInit

(* An insertion gives its text a new address and takes none away. *)
LEMMA InsertInterns ==
  ASSUME GrowthInv, StringsInv, NEW x \in Text, Insert(x), Room # Length[x] + 1 + Word
  PROVE  Promise!Intern(x)
<1>1. StringsInv' /\ GrowthInv'
  BY StringsStep, GrowthStep
<1>2. PICK a \in Addresses \ DOMAIN strings :
              /\ result' = a
              /\ strings' = [b \in DOMAIN strings \cup {a} |-> IF b = a THEN x ELSE strings[b]]
              /\ Nodes(table') = Nodes(table) \cup {[key |-> Hash[x], string |-> a]}
  BY StringsStep
<1>3. /\ IsTable(table) /\ Chained(table) /\ Free(table) # {}
      /\ Intact(table, strings) /\ OneEach(table, strings)
  BY TableHasRoom DEF GrowthInv, TableInv, StringsInv
<1>4. /\ IsTable(table') /\ Chained(table') /\ Free(table') # {}
      /\ Intact(table', strings') /\ OneEach(table', strings')
  <2>1. GrowthInv' => (IsTable(table) /\ Chained(table) /\ Free(table) # {})'
    BY TableReady, PTL
  <2>2. IsTable(table)' => IsTable(table')
    BY DEF IsTable, Slots
  <2>3. Chained(table)' => Chained(table')
    BY DEF Chained, Used, Reaches, Free, Slots
  <2>4. Free(table)' = Free(table')
    BY DEF Free, Slots
  <2>5. StringsInv' => Intact(table', strings') /\ OneEach(table', strings')
    BY DEF StringsInv, Intact, OneEach, Nodes, Used, Free, Slots
  <2> QED BY <1>1, <2>1, <2>2, <2>3, <2>4, <2>5
<1>5. \A n \in Nodes(table) : /\ n \in Nodes(table') /\ n.string \in DOMAIN strings
                              /\ n.string # a /\ strings'[n.string] = strings[n.string]
  BY <1>2, <1>3 DEF Intact
<1>6. Found(table, x) = None
  BY DEF Insert
<1>7. ASSUME NEW y \in Text, y # x PROVE Answer(table', strings', y) = Answer(table, strings, y)
  <2>1. /\ \/ Answer(table, strings, y) = None
           \/ \E n \in Nodes(table) : n.string = Answer(table, strings, y) /\ strings[n.string] = y
        /\ \A n \in Nodes(table) : strings[n.string] = y => Answer(table, strings, y) = n.string
    BY <1>3, AnswerIs
  <2>2. /\ \/ Answer(table', strings', y) = None
           \/ \E n \in Nodes(table') : n.string = Answer(table', strings', y) /\ strings'[n.string] = y
        /\ \A n \in Nodes(table') : strings'[n.string] = y => Answer(table', strings', y) = n.string
    BY <1>4, AnswerIs
  <2>3. ASSUME NEW n \in Nodes(table'), strings'[n.string] = y
        PROVE  n \in Nodes(table) /\ strings[n.string] = y
    <3>1. strings'[a] = x
      BY <1>2
    <3>2. n \in Nodes(table) \/ n.string = a
      BY <1>2
    <3> QED BY <1>5, <1>7, <2>3, <3>1, <3>2
  <2>4. CASE Answer(table', strings', y) = None
    <3>1. \A n \in Nodes(table) : strings[n.string] # y
      BY <1>3, <1>5, <2>2, <2>4, NodesAreTyped, NoneNoAddress
    <3> QED BY <2>1, <2>4, <3>1
  <2>5. CASE \E n \in Nodes(table') : n.string = Answer(table', strings', y) /\ strings'[n.string] = y
    BY <2>1, <2>3, <2>5
  <2> QED BY <2>2, <2>4, <2>5
<1>8. Answer(table', strings', x) = a
  <2>1. \A n \in Nodes(table') : strings'[n.string] = x => Answer(table', strings', x) = n.string
    BY <1>4, AnswerIs
  <2>2. [key |-> Hash[x], string |-> a] \in Nodes(table') /\ strings'[a] = x
    BY <1>2
  <2> QED BY <2>1, <2>2
<1>9. interned' = [interned EXCEPT ![x] = a]
  BY <1>7, <1>8, FoundIsAnswer DEF interned
<1>10. \A y \in Text : Found(table, y) # a
  <2> SUFFICES ASSUME NEW y \in Text PROVE Answer(table, strings, y) # a
    BY FoundIsAnswer
  <2>1. \/ Answer(table, strings, y) = None
        \/ \E n \in Nodes(table) : n.string = Answer(table, strings, y)
    BY <1>3, AnswerIs
  <2> QED BY <1>5, <2>1, NoneNoAddress
<1> QED BY <1>2, <1>6, <1>9, <1>10 DEF Promise!Intern, interned

(* A search changes no address. *)
LEMMA FindLooksUp ==
  ASSUME NEW x \in Text, Find(x)
  PROVE  Promise!Lookup(x)
<1>1. table' = table /\ strings' = strings /\ result' = Found(table, x)
  BY DEF Find
<1>2. \A y \in Text : Found(table, y)' = Found(table, y)
  BY <1>1, FoundIsAnswer
<1>3. interned' = interned
  BY <1>2 DEF interned
<1> QED BY <1>1, <1>3 DEF Promise!Lookup, interned

(* Up to such an insertion the pool implements Interner: a text has one      *)
(* address for ever, and no other text gets it (string_pool_find_vec and     *)
(* string_pool_insert_vec).                                                  *)
THEOREM PoolInterns == Spec /\ [][~FitsExactly]_vars => Interns
<1>1. Init => Promise!InternerInit
  BY InternerInits
<1>2. GrowthInv /\ StringsInv /\ [Next]_vars /\ [~FitsExactly]_vars
        => [Promise!InternerNext]_(Promise!internerVars)
  <2> SUFFICES ASSUME GrowthInv, StringsInv, [Next]_vars, [~FitsExactly]_vars
               PROVE  Promise!InternerNext \/ UNCHANGED Promise!internerVars
    BY DEF Promise!internerVars
  <2>1. ASSUME NEW x \in Text, Find(x) PROVE Promise!InternerNext
    BY <2>1, FindLooksUp DEF Promise!InternerNext
  <2>2. ASSUME NEW x \in Text, Insert(x), ~FitsExactly PROVE Promise!InternerNext
    <3>1. Room # Length[x] + 1 + Word
      BY <2>2 DEF FitsExactly
    <3> QED BY <2>2, <3>1, InsertInterns DEF Promise!InternerNext
  <2>3. CASE UNCHANGED vars
    <3>1. table' = table /\ strings' = strings /\ result' = result
      BY <2>3 DEF vars
    <3>2. \A y \in Text : Found(table, y)' = Found(table, y)
      BY <3>1, FoundIsAnswer
    <3> QED BY <3>1, <3>2 DEF Promise!internerVars
  <2> QED BY <2>1, <2>2, <2>3 DEF Next
<1> QED BY <1>1, <1>2, StringsStay, PTL DEF Spec, Interns, Promise!InternerSpec
===============================================================================
