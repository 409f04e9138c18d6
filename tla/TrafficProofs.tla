---------------------------- MODULE TrafficProofs ----------------------------
(***************************************************************************)
(* Theorems about TrafficControl, for any limits, devices, hashes and      *)
(* ranges: a clean plan leaves every limit its class, meter and filters,   *)
(* and planning the same limits again changes nothing.                     *)
(*                                                                         *)
(* What a plan is (FlattenSeq, Probe, Allocate, planOneTC, Numbered,       *)
(* PlanDevice) comes first, what its commands leave in the kernel last.    *)
(***************************************************************************)
EXTENDS TrafficControl, FiniteSetTheorems, SequenceTheorems, WellFoundedInduction, TLAPS

-----------------------------------------------------------------------------
(* Flattening                                                                *)

\* A set of numbers has a least one.
LEMMA LeastNumber ==
  ASSUME NEW S \in SUBSET Nat, S # {}
  PROVE  \E m \in S : \A k \in S : m <= k
<1> DEFINE Below == {p \in Nat \X Nat : p[1] < p[2]}
<1>1. IsWellFoundedOn(Below, Nat)
  BY NatLessThanWellFounded DEF OpToRel
<1>2. PICK m \in S : \A k \in S : ~(<<k, m>> \in Below)
  BY <1>1, WFMin
<1>3. ASSUME NEW k \in S PROVE m <= k
  <2>1. m \in Nat /\ k \in Nat /\ (k < m => <<k, m>> \in Below)
    OBVIOUS
  <2> QED BY <1>2, <2>1
<1> QED BY <1>2, <1>3

\* F lists what is in the first n of ss, one after the other: at tells where from.
Lists(F, ss, n, at) ==
  /\ at \in [DOMAIN F -> Nat \X Nat]
  /\ \A p \in DOMAIN F : /\ at[p][1] \in 1..n /\ at[p][2] \in DOMAIN ss[at[p][1]]
                         /\ F[p] = ss[at[p][1]][at[p][2]]
  /\ \A p, q \in DOMAIN F : p < q => \/ at[p][1] < at[q][1]
                                     \/ at[p][1] = at[q][1] /\ at[p][2] < at[q][2]
  /\ \A i \in 1..n : \A k \in DOMAIN ss[i] : \E p \in DOMAIN F : at[p] = <<i, k>>

\* What FlattenSeq defines by recursion is defined.
Flattens(f, ss, n) == f = [i \in 1..n |-> IF i = 1 THEN ss[i] ELSE f[i - 1] \o ss[i]]

LEMMA FlattenDefined ==
  ASSUME NEW ss, NEW n \in Nat
  PROVE  \E f : Flattens(f, ss, n)
<1> DEFINE Bad == {m \in Nat : ~\E f : Flattens(f, ss, m)}
<1>1. SUFFICES ASSUME Bad # {} PROVE FALSE
  OBVIOUS
<1>2. PICK m \in Bad : \A k \in Bad : m <= k
  BY <1>1, LeastNumber
<1>3. m \in Nat /\ ~\E f : Flattens(f, ss, m)
  OBVIOUS
<1>4. CASE m = 0
  <2>1. Flattens(<<>>, ss, 0)
    BY DEF Flattens
  <2> QED BY <1>3, <1>4, <2>1
<1>5. CASE m # 0
  <2>1. m - 1 \in Nat /\ ~(m <= m - 1)
    BY <1>3, <1>5
  <2>2. m - 1 \notin Bad
    BY <1>2, <2>1
  <2>3. PICK g : Flattens(g, ss, m - 1)
    BY <2>1, <2>2
  <2> DEFINE h == [i \in 1..m |-> IF i = 1 THEN ss[i] ELSE g[i - 1] \o ss[i]]
  <2> HIDE DEF Bad
  <2>4. ASSUME NEW i \in 1..m, i # 1 PROVE h[i - 1] = g[i - 1]
    <3>1. i - 1 \in 1..(m - 1) /\ i - 1 \in 1..m
      BY <1>3, <2>4
    <3>2. g[i - 1] = IF i - 1 = 1 THEN ss[i - 1] ELSE g[(i - 1) - 1] \o ss[i - 1]
      BY <2>3, <3>1 DEF Flattens
    <3> QED BY <3>1, <3>2
  <2>5. h = [i \in 1..m |-> IF i = 1 THEN ss[i] ELSE h[i - 1] \o ss[i]]
    <3> DEFINE e == [i \in 1..m |-> IF i = 1 THEN ss[i] ELSE h[i - 1] \o ss[i]]
    <3>1. \A i \in 1..m : h[i] = e[i]
      BY <2>4
    <3> HIDE DEF e
    <3>2. h = [i \in 1..m |-> h[i]]
      OBVIOUS
    <3>3. e = [i \in 1..m |-> e[i]]
      BY DEF e
    <3> QED BY <3>1, <3>2, <3>3 DEF e
  <2> HIDE DEF h
  <2>6. Flattens(h, ss, m)
    BY <2>5 DEF Flattens
  <2> QED BY <1>3, <2>6
<1> QED BY <1>4, <1>5

\* One more sequence.
LEMMA ListMore ==
  ASSUME NEW T, NEW ss \in Seq(Seq(T)), NEW n \in Nat, n + 1 <= Len(ss),
         NEW F \in Seq(T), NEW at, Lists(F, ss, n, at)
  PROVE  /\ F \o ss[n + 1] \in Seq(T)
         /\ \E to : Lists(F \o ss[n + 1], ss, n + 1, to)
<1> DEFINE s == ss[n + 1]
           G == F \o s
           a == Len(F)
           to == [p \in DOMAIN G |-> IF p <= a THEN at[p] ELSE <<n + 1, p - a>>]
<1>1. s \in Seq(T)
  OBVIOUS
<1> HIDE DEF s
<1>2. /\ a \in Nat /\ Len(s) \in Nat /\ DOMAIN F = 1..a /\ DOMAIN s = 1..Len(s)
      /\ G \in Seq(T) /\ DOMAIN G = 1..(a + Len(s))
      /\ \A p \in 1..a : G[p] = F[p]
      /\ \A k \in 1..Len(s) : G[a + k] = s[k]
  BY <1>1
<1> HIDE DEF G, a
<1>3. ASSUME NEW p \in DOMAIN G, p <= a
      PROVE  to[p] = at[p] /\ p \in DOMAIN F /\ G[p] = F[p] /\ at[p] \in Nat \X Nat
             /\ at[p][1] \in 1..n
  BY <1>2, <1>3 DEF Lists
<1>4. ASSUME NEW p \in DOMAIN G, ~(p <= a)
      PROVE  to[p] = <<n + 1, p - a>> /\ p - a \in DOMAIN s /\ G[p] = s[p - a] /\ p - a \in Nat
  <2>1. p - a \in 1..Len(s) /\ a + (p - a) = p
    BY <1>2, <1>4
  <2> QED BY <1>2, <1>4, <2>1
<1> HIDE DEF to
<1>5. to \in [DOMAIN G -> Nat \X Nat]
  <2>1. to = [p \in DOMAIN G |-> to[p]]
    BY DEF to
  <2>2. ASSUME NEW p \in DOMAIN G PROVE to[p] \in Nat \X Nat
    <3>1. CASE p <= a
      BY <1>3, <3>1
    <3>2. CASE ~(p <= a)
      <4>1. to[p] = <<n + 1, p - a>> /\ p - a \in Nat /\ n + 1 \in Nat
        BY <1>4, <3>2
      <4> QED BY <4>1
    <3> QED BY <3>1, <3>2
  <2> HIDE DEF G
  <2>3. [p \in DOMAIN G |-> to[p]] \in [DOMAIN G -> Nat \X Nat]
    BY <2>2
  <2> QED BY <2>1, <2>3
<1>6. ASSUME NEW p \in DOMAIN G
      PROVE  /\ to[p][1] \in 1..(n + 1) /\ to[p][2] \in DOMAIN ss[to[p][1]]
             /\ G[p] = ss[to[p][1]][to[p][2]]
  <2>1. CASE p <= a
    <3>1. /\ p \in DOMAIN F /\ to[p] = at[p] /\ G[p] = F[p]
      BY <1>3, <2>1
    <3>2. /\ at[p][1] \in 1..n /\ at[p][2] \in DOMAIN ss[at[p][1]]
          /\ F[p] = ss[at[p][1]][at[p][2]]
      BY <3>1 DEF Lists
    <3>3. \A i \in 1..n : i \in 1..(n + 1)
      OBVIOUS
    <3> QED BY ONLY <3>1, <3>2, <3>3
  <2>2. CASE ~(p <= a)
    BY <1>4, <2>2 DEF s
  <2> QED BY <2>1, <2>2
<1>7. ASSUME NEW p \in DOMAIN G, NEW q \in DOMAIN G, p < q
      PROVE  to[p][1] < to[q][1] \/ (to[p][1] = to[q][1] /\ to[p][2] < to[q][2])
  <2>0. p \in Nat /\ q \in Nat /\ a \in Nat
    BY <1>2
  <2>1. CASE q <= a
    <3>1. p <= a
      BY <2>0, <2>1, <1>7
    <3> QED BY <1>3, <1>7, <2>1, <3>1 DEF Lists
  <2>2. CASE p <= a /\ ~(q <= a)
    BY <1>3, <1>4, <2>2
  <2>3. CASE ~(p <= a) /\ ~(q <= a)
    <3>1. p - a < q - a
      BY <1>7, <2>0
    <3> QED BY <1>4, <2>3, <3>1
  <2> QED BY <2>0, <2>1, <2>2, <2>3
<1>8. ASSUME NEW i \in 1..(n + 1), NEW k \in DOMAIN ss[i]
      PROVE  \E p \in DOMAIN G : to[p] = <<i, k>>
  <2>1. CASE i = n + 1
    <3>1. k \in 1..Len(s)
      BY <1>2, <1>8, <2>1 DEF s
    <3>2. a + k \in DOMAIN G /\ ~(a + k <= a) /\ (a + k) - a = k
      BY <1>2, <3>1
    <3> QED BY <1>4, <2>1, <3>2
  <2>2. CASE i # n + 1
    <3>1. i \in 1..n
      BY <2>2
    <3>2. PICK p \in DOMAIN F : at[p] = <<i, k>>
      BY <1>8, <3>1 DEF Lists
    <3>3. p \in DOMAIN G /\ p <= a
      BY <1>2
    <3> QED BY <1>3, <3>2, <3>3
  <2> QED BY <2>1, <2>2
<1>9. Lists(G, ss, n + 1, to)
  BY <1>5, <1>6, <1>7, <1>8 DEF Lists
<1> QED BY <1>2, <1>9 DEF G, s

\* FlattenSeq lists all that is in its argument.
LEMMA Flattened ==
  ASSUME NEW T, NEW ss \in Seq(Seq(T))
  PROVE  /\ FlattenSeq(ss) \in Seq(T)
         /\ \E at : Lists(FlattenSeq(ss), ss, Len(ss), at)
<1> DEFINE N == Len(ss)
<1>1. N \in Nat /\ DOMAIN ss = 1..N /\ \A i \in 1..N : ss[i] \in Seq(T)
  OBVIOUS
<1>2. CASE N = 0
  <2>1. FlattenSeq(ss) = ss /\ ss = <<>>
    BY <1>2 DEF FlattenSeq
  <2>2. Lists(<<>>, ss, 0, <<>>)
    BY DEF Lists
  <2> QED BY <1>2, <2>1, <2>2
<1>3. CASE N # 0
  <2> DEFINE f == CHOOSE f : f = [i \in 1..N |-> IF i = 1 THEN ss[i] ELSE f[i - 1] \o ss[i]]
  <2>1. f = [i \in 1..N |-> IF i = 1 THEN ss[i] ELSE f[i - 1] \o ss[i]]
    <3>1. \E g : g = [i \in 1..N |-> IF i = 1 THEN ss[i] ELSE g[i - 1] \o ss[i]]
      BY <1>1, FlattenDefined DEF Flattens
    <3> QED BY <3>1
  <2>2. FlattenSeq(ss) = f[N]
    BY <1>3 DEF FlattenSeq
  <2> HIDE DEF f
  <2> DEFINE Bad == {m \in Nat : m \in 1..N /\ ~(f[m] \in Seq(T) /\ \E at : Lists(f[m], ss, m, at))}
  <2>3. Bad = {}
    <3>1. SUFFICES ASSUME Bad # {} PROVE FALSE
      OBVIOUS
    <3>2. PICK m \in Bad : \A k \in Bad : m <= k
      BY <3>1, LeastNumber
    <3>3. m \in 1..N /\ ~(f[m] \in Seq(T) /\ \E at : Lists(f[m], ss, m, at))
      OBVIOUS
    <3>4. CASE m = 1
      <4>1. f[1] = ss[1] /\ ss[1] \in Seq(T)
        BY <1>1, <1>3, <2>1
      <4>2. <<>> \in Seq(T) /\ Lists(<<>>, ss, 0, <<>>) /\ <<>> \o ss[1] = ss[1]
        BY <4>1 DEF Lists
      <4>3. \E at : Lists(ss[1], ss, 1, at)
        <5>1. 0 + 1 <= Len(ss) /\ 0 + 1 = 1
          BY <1>1, <1>3
        <5>2. \E at : Lists(<<>> \o ss[0 + 1], ss, 0 + 1, at)
          BY <4>2, <5>1, ListMore
        <5> QED BY <4>2, <5>1, <5>2
      <4> QED BY <3>3, <3>4, <4>1, <4>3
    <3>5. CASE m # 1
      <4> DEFINE k == m - 1
      <4>1. k \in 1..N /\ k \in Nat /\ k + 1 = m /\ ~(m <= k) /\ k + 1 <= Len(ss)
        BY <1>1, <3>3, <3>5
      <4>2. k \notin Bad
        BY <3>2, <4>1
      <4>3. f[k] \in Seq(T) /\ \E at : Lists(f[k], ss, k, at)
        BY <4>1, <4>2
      <4>4. f[m] = f[k] \o ss[m]
        BY <2>1, <3>3, <3>5
      <4> HIDE DEF k, Bad
      <4>5. PICK at : Lists(f[k], ss, k, at)
        BY <4>3
      <4>6. f[k] \o ss[k + 1] \in Seq(T) /\ \E to : Lists(f[k] \o ss[k + 1], ss, k + 1, to)
        BY <4>1, <4>3, <4>5, ListMore
      <4> QED BY <3>3, <4>1, <4>4, <4>6
    <3> QED BY <3>4, <3>5
  <2>4. N \in Nat /\ N \in 1..N
    BY <1>1, <1>3
  <2> QED BY <2>2, <2>3, <2>4
<1> QED BY <1>2, <1>3

-----------------------------------------------------------------------------
(* Arithmetic of the ids                                                     *)

\* A positive multiple is at least that number.
LEMMA Times ==
  ASSUME NEW n \in Nat \ {0}, NEW d \in Int, n * d > 0
  PROVE  n * d >= n
<1>1. d > 0
  <2>1. d <= 0 => n * d <= 0
    OBVIOUS
  <2> QED BY <2>1
<1> QED BY <1>1

\* Quotient and rest.
LEMMA DivMod ==
  ASSUME NEW n \in Nat \ {0}, NEW a \in Nat
  PROVE  a % n \in 0..(n - 1) /\ a \div n \in Nat /\ a = n * (a \div n) + (a % n)
OBVIOUS

\* Numbers less than n apart differ modulo n.
LEMMA ModDiffer ==
  ASSUME NEW n \in Nat \ {0}, NEW a \in Nat, NEW b \in Nat, a < b, b < a + n
  PROVE  a % n # b % n
<1>1. SUFFICES ASSUME a % n = b % n PROVE FALSE
  OBVIOUS
<1>2. /\ a = n * (a \div n) + (a % n) /\ a \div n \in Nat /\ a % n \in 0..(n - 1)
      /\ b = n * (b \div n) + (b % n) /\ b \div n \in Nat /\ b % n \in 0..(n - 1)
  BY DivMod
<1> DEFINE d == (b \div n) - (a \div n)
<1>3. b - a = n * (b \div n) - n * (a \div n) /\ d \in Int
  BY <1>1, <1>2
<1>4. n * (b \div n) - n * (a \div n) = n * d
  BY <1>2
<1>5. n * d > 0 /\ n * d < n
  BY <1>3, <1>4
<1> HIDE DEF d
<1> QED BY <1>3, <1>5, Times

\* What a number of one turn, or of the next, is modulo n.
LEMMA ModSmall ==
  ASSUME NEW n \in Nat \ {0}, NEW a \in Nat, a < n
  PROVE  a % n = a /\ (a + n) % n = a
<1>1. a % n = a
  <2>1. a = n * (a \div n) + (a % n) /\ a \div n \in Nat /\ a % n \in 0..(n - 1)
    BY DivMod
  <2>2. n * (a \div n) > 0 => n * (a \div n) >= n
    BY <2>1, Times
  <2>3. n * (a \div n) \in Nat
    BY <2>1
  <2> QED BY <2>1, <2>2, <2>3
<1>2. (a + n) % n = a
  <2> DEFINE b == a + n
             q == b \div n
             d == q - 1
  <2>0. b \in Nat
    OBVIOUS
  <2> HIDE DEF b
  <2>1. b = n * q + (b % n) /\ q \in Nat /\ b % n \in 0..(n - 1) /\ b \in Nat
    BY <2>0, DivMod
  <2>2. d \in Int /\ n * q = n * d + n
    BY <2>1
  <2>3. n * d \in Int /\ a = n * d + (b % n)
    BY <2>1, <2>2 DEF b
  <2>4. n * d > 0 => n * d >= n
    BY <2>2, Times
  <2>5. n * d < 0 => n * d <= 0 - n
    <3>1. n * (0 - d) = 0 - n * d
      BY <2>2
    <3>2. n * (0 - d) > 0 => n * (0 - d) >= n
      BY <2>2, Times
    <3> QED BY <2>3, <3>1, <3>2
  <2> HIDE DEF d, q, b
  <2>6. n * d = 0
    BY <2>1, <2>3, <2>4, <2>5
  <2>7. b % n = a
    BY <2>1, <2>3, <2>6
  <2> QED BY <2>7 DEF b
<1> QED BY <1>1, <1>2

-----------------------------------------------------------------------------
(* Ids that are handed out                                                   *)

\* The number a probe looks at in its k-th attempt.
Tried(base, lo, n, k) == lo + (((base + k) % Width) % n)

\* Numbers that are all tried and differ, more than are taken: one is free.
LEMMA OneIsFree ==
  ASSUME NEW base, NEW lo, NEW n, NEW taken, IsFiniteSet(taken),
         NEW a \in Nat, NEW b \in Nat, Cardinality(taken) < b - a,
         \A k, l \in a..(b - 1) : k < l => Tried(base, lo, n, k) # Tried(base, lo, n, l)
  PROVE  \E k \in a..(b - 1) : Tried(base, lo, n, k) \notin taken
<1> DEFINE at(k) == Tried(base, lo, n, k)
           K == a..(b - 1)
           f == [k \in K |-> at(k)]
<1>1. SUFFICES ASSUME \A k \in K : at(k) \in taken PROVE FALSE
  OBVIOUS
<1>2. Cardinality(taken) \in Nat
  BY FS_CardinalityType
<1>3. IsFiniteSet(K) /\ Cardinality(K) = b - a
  <2>1. a \in Int /\ b - 1 \in Int /\ a <= b - 1 /\ (b - 1) - a + 1 = b - a
    BY <1>2
  <2>2. IsFiniteSet(a..(b - 1)) /\ Cardinality(a..(b - 1)) = (b - 1) - a + 1
    BY ONLY <2>1, FS_Interval
  <2> QED BY <2>1, <2>2
<1> HIDE DEF at
<1>4. f \in [K -> taken]
  BY <1>1
<1> HIDE DEF f
<1>5. PICK k \in K, l \in K : k # l /\ f[k] = f[l]
  BY <1>3, <1>4, FS_PigeonHole
<1>6. at(k) = at(l)
  BY <1>5 DEF f
<1>7. k < l \/ l < k
  BY <1>5
<1> QED BY <1>6, <1>7 DEF at

\* With twice as many numbers as are taken, a free one is found.
LEMMA Probed ==
  ASSUME NEW n \in Nat \ {0}, n <= Width, NEW lo \in Nat, NEW base \in 0..(Width - 1),
         NEW taken, IsFiniteSet(taken), 2 * Cardinality(taken) < n
  PROVE  Probe(base, lo, n, taken) \in lo..(lo + n - 1) \ taken
<1> DEFINE at(k) == Tried(base, lo, n, k)
           free == {k \in 0..(n - 1) : at(k) \notin taken}
           t == Width - base
           c == Cardinality(taken)
<1>0. Width \in Nat \ {0} /\ t \in Nat \ {0} /\ c \in Nat
  BY RangesAssumption, FS_CardinalityType
<1>1. ASSUME NEW k \in 0..(n - 1), k < t PROVE (base + k) % Width = base + k
  <2>1. base + k \in Nat /\ base + k < Width
    BY <1>0, <1>1
  <2> QED BY <1>0, <2>1, ModSmall
<1>2. ASSUME NEW k \in 0..(n - 1), ~(k < t) PROVE (base + k) % Width = k - t /\ k - t \in Nat
  <2>1. k - t \in Nat /\ k - t < Width /\ base + k = (k - t) + Width
    BY <1>0, <1>2
  <2> QED BY <1>0, <2>1, ModSmall
<1>3. ASSUME NEW a \in Nat, NEW b \in Nat, c < b - a, b <= n, b <= t \/ t <= a
      PROVE  \E k \in a..(b - 1) : at(k) \notin taken
  <2>1. ASSUME NEW k \in a..(b - 1), NEW l \in a..(b - 1), k < l PROVE at(k) # at(l)
    <3>1. k \in 0..(n - 1) /\ l \in 0..(n - 1)
      BY <1>3
    <3> DEFINE u == (base + k) % Width
               v == (base + l) % Width
    <3>2. u \in Nat /\ v \in Nat /\ u < v /\ v < u + n
      <4>1. CASE b <= t
        <5>1. k < t /\ l < t
          BY <1>0, <1>3, <4>1
        <5>2. u = base + k /\ v = base + l
          BY <1>1, <3>1, <5>1
        <5> QED BY <1>0, <2>1, <3>1, <5>2
      <4>2. CASE t <= a
        <5>1. ~(k < t) /\ ~(l < t)
          BY <1>0, <1>3, <4>2
        <5>2. u = k - t /\ v = l - t /\ k - t \in Nat /\ l - t \in Nat
          BY <1>2, <3>1, <5>1
        <5> HIDE DEF u, v, t
        <5> QED BY <1>0, <2>1, <3>1, <5>2
      <4> QED BY <1>3, <4>1, <4>2
    <3> HIDE DEF u, v
    <3>3. u % n # v % n
      BY <3>2, ModDiffer
    <3>4. u % n \in 0..(n - 1) /\ v % n \in 0..(n - 1)
      BY <3>2, DivMod
    <3>5. lo + (u % n) # lo + (v % n)
      <4> DEFINE x == u % n
                 y == v % n
      <4>1. x # y /\ x \in Nat /\ y \in Nat
        BY <3>3, <3>4
      <4> HIDE DEF x, y
      <4>2. lo + x # lo + y
        BY <4>1
      <4> QED BY <4>2 DEF x, y
    <3> QED BY <3>5 DEF u, v, Tried
  <2> QED BY <1>3, <2>1, OneIsFree
<1>4. free # {}
  <2> DEFINE half == IF t >= n THEN 0 ELSE IF 2 * t >= n THEN 0 ELSE t
             end  == IF t >= n THEN n ELSE IF 2 * t >= n THEN t ELSE n
  <2>1. half \in Nat /\ end \in Nat /\ c < end - half /\ end <= n /\ (end <= t \/ t <= half)
    BY <1>0
  <2> HIDE DEF half, end, at
  <2>2. PICK k \in half..(end - 1) : at(k) \notin taken
    BY <1>3, <2>1
  <2>3. k \in 0..(n - 1)
    BY <2>1
  <2> QED BY <2>2, <2>3
<1>5. PICK k \in free : \A l \in free : k <= l
  <2>1. free \in SUBSET Nat
    OBVIOUS
  <2> HIDE DEF free
  <2> QED BY <1>4, <2>1, LeastNumber
<1> DEFINE best == CHOOSE m \in free : \A l \in free : m <= l
<1>6. best \in free
  BY <1>5
<1>7. Probe(base, lo, n, taken) = at(best)
  BY <1>4 DEF Probe, Tried
<1>8. at(best) \in lo..(lo + n - 1)
  <2> DEFINE w == (base + best) % Width
             r == w % n
  <2>1. base + best \in Nat
    BY <1>6
  <2>2. w \in Nat
    BY <1>0, <2>1, DivMod
  <2>3. r \in 0..(n - 1)
    BY <2>2, DivMod
  <2> HIDE DEF r
  <2>4. lo + r \in lo..(lo + n - 1)
    BY <2>3
  <2> QED BY <2>4 DEF r, Tried
<1> QED BY <1>6, <1>7, <1>8
\* id[i] is the one that is probed for i.
Probes(id, bases, lo, n, rivals, N) ==
  \A i \in 1..N : id[i] = Probe(bases[i], lo, n, {id[j] : j \in rivals[i]})

\* The function that Allocate defines by recursion is defined.
LEMMA AllocateDefined ==
  ASSUME NEW bases, NEW lo, NEW n, NEW rivals, NEW N \in Nat, DOMAIN bases = 1..N,
         \A i \in 1..N : rivals[i] \in SUBSET (1..(i - 1)),
         NEW id, id = Allocate(bases, lo, n, rivals)
  PROVE  DOMAIN id = 1..N /\ Probes(id, bases, lo, n, rivals, N)
<1> DEFINE Of(f, m) == f = [i \in 1..m |-> Probe(bases[i], lo, n, {f[j] : j \in rivals[i]})]
           Bad == {m \in Nat : m <= N /\ ~\E f : Of(f, m)}
<1>1. Bad = {}
  <2>1. SUFFICES ASSUME Bad # {} PROVE FALSE
    OBVIOUS
  <2>2. PICK m \in Bad : \A k \in Bad : m <= k
    BY <2>1, LeastNumber
  <2>3. m \in Nat /\ m <= N /\ ~\E f : Of(f, m)
    OBVIOUS
  <2>4. CASE m = 0
    <3>1. Of(<<>>, 0)
      OBVIOUS
    <3> QED BY <2>3, <2>4, <3>1
  <2>5. CASE m # 0
    <3>1. m - 1 \in Nat /\ m - 1 <= N /\ ~(m <= m - 1)
      BY <2>3, <2>5
    <3>2. m - 1 \notin Bad
      BY <2>2, <3>1
    <3>3. PICK g : Of(g, m - 1)
      BY <3>1, <3>2
    <3> DEFINE h == [i \in 1..m |-> Probe(bases[i], lo, n, {g[j] : j \in rivals[i]})]
    <3> HIDE DEF Bad
    <3>4. ASSUME NEW i \in 1..m PROVE {g[j] : j \in rivals[i]} = {h[j] : j \in rivals[i]}
      <4>1. ASSUME NEW j \in rivals[i] PROVE g[j] = h[j]
        <5>1. rivals[i] \in SUBSET (1..(i - 1))
          BY <2>3
        <5>2. j \in 1..(m - 1) /\ j \in 1..m
          BY <2>3, <5>1
        <5> QED BY <3>3, <5>2
      <4> QED BY <4>1
    <3>5. Of(h, m)
      <4> DEFINE e == [i \in 1..m |-> Probe(bases[i], lo, n, {h[j] : j \in rivals[i]})]
      <4>1. \A i \in 1..m : h[i] = e[i]
        BY <3>4
      <4> HIDE DEF e
      <4>2. h = [i \in 1..m |-> h[i]]
        OBVIOUS
      <4>3. e = [i \in 1..m |-> e[i]]
        BY DEF e
      <4> QED BY <4>1, <4>2, <4>3 DEF e
    <3> HIDE DEF h, Of
    <3> QED BY <2>3, <3>5
  <2> QED BY <2>4, <2>5
<1>2. N \notin Bad /\ N \in Nat /\ N <= N
  <2> HIDE DEF Bad
  <2> QED BY <1>1
<1>3. PICK f : Of(f, N)
  <2> HIDE DEF Of
  <2> QED BY <1>2
<1> DEFINE h == CHOOSE h : h = [i \in DOMAIN bases |-> Probe(bases[i], lo, n, {h[j] : j \in rivals[i]})]
<1>4. h = [i \in DOMAIN bases |-> Probe(bases[i], lo, n, {h[j] : j \in rivals[i]})]
  BY <1>3
<1>5. id = h
  BY DEF Allocate
<1> HIDE DEF h
<1> QED BY <1>4, <1>5 DEF Probes

\* Every id is new to its rivals, if they are fewer than half of the ids.
LEMMA Allocated ==
  ASSUME NEW bases, NEW lo \in Nat, NEW n \in Nat \ {0}, n <= Width, NEW rivals, NEW N \in Nat,
         DOMAIN bases = 1..N, \A i \in 1..N : bases[i] \in 0..(Width - 1),
         \A i \in 1..N : rivals[i] \in SUBSET (1..(i - 1)),
         NEW i \in 1..N, IsFiniteSet(rivals[i]), 2 * Cardinality(rivals[i]) < n,
         NEW id, id = Allocate(bases, lo, n, rivals)
  PROVE  /\ id[i] \in lo..(lo + n - 1)
         /\ \A j \in rivals[i] : id[i] # id[j]
<1>0. Probes(id, bases, lo, n, rivals, N)
  BY AllocateDefined
<1> DEFINE R == rivals[i]
           taken == {id[j] : j \in R}
           f == [j \in R |-> id[j]]
<1>1. id[i] = Probe(bases[i], lo, n, taken)
  BY <1>0 DEF Probes
<1>2. IsFiniteSet(taken) /\ Cardinality(taken) <= Cardinality(R)
  <2>1. f \in Surjection(R, taken)
    BY DEF Surjection
  <2> HIDE DEF f, taken
  <2> QED BY <2>1, FS_Surjection
<1>3. 2 * Cardinality(taken) < n
  <2>1. Cardinality(taken) \in Nat /\ Cardinality(R) \in Nat
    BY <1>2, FS_CardinalityType
  <2> QED BY <1>2, <2>1
<1>4. id[i] \in lo..(lo + n - 1) \ taken
  <2>1. /\ bases[i] \in 0..(Width - 1) /\ n \in Nat \ {0} /\ n <= Width /\ lo \in Nat
        /\ IsFiniteSet(taken) /\ 2 * Cardinality(taken) < n
    BY <1>2, <1>3
  <2> HIDE DEF taken
  <2>2. Probe(bases[i], lo, n, taken) \in lo..(lo + n - 1) \ taken
    BY ONLY <2>1, Probed
  <2> QED BY ONLY <1>1, <2>2
<1> QED BY <1>4
-----------------------------------------------------------------------------
(* The commands of one limit                                                 *)

Parents == {"root", "ingress"}
IsCommand(c) == DOMAIN c = {"op", "dev", "what", "node"}

\* The command that makes the limit's class, and that of its a-th address for a parent.
IsClass(c, x, minor) ==
  x.tx > 0 /\ c.op = "class" /\ c.dev = x.dev /\ c.what.minor = minor /\ c.what.rate = x.tx
IsFilter(c, x, minor, parent, a) ==
  /\ c.op = "filter" /\ c.dev = x.dev
  /\ c.what.parent = parent /\ c.what.seed = <<x.id, a>> /\ c.what.kind = x.kind
  /\ c.what.match = Matches(x)[a] /\ c.what.to = minor
  /\ c.what.rate = IF parent = "root" THEN x.tx ELSE x.rx

\* s has them, once each, and no others.
Serves(s, x, minor) ==
  /\ \A k \in DOMAIN s : IsCommand(s[k]) /\ (s[k].op = "filter" => s[k].what.rate > 0)
  /\ \A k \in DOMAIN s :
       \/ IsClass(s[k], x, minor)
       \/ \E parent \in Parents : \E a \in DOMAIN Matches(x) : IsFilter(s[k], x, minor, parent, a)
  /\ x.tx > 0 => /\ \E k \in DOMAIN s : IsClass(s[k], x, minor)
                 /\ \A a \in DOMAIN Matches(x) :
                      \E k \in DOMAIN s : IsFilter(s[k], x, minor, "root", a)
  /\ x.rx > 0 => \A a \in DOMAIN Matches(x) :
                   \E k \in DOMAIN s : IsFilter(s[k], x, minor, "ingress", a)
  /\ \A k, l \in DOMAIN s : IsClass(s[k], x, minor) /\ IsClass(s[l], x, minor) => k = l
  /\ \A k, l \in DOMAIN s : \A parent \in Parents : \A a \in DOMAIN Matches(x) :
       IsFilter(s[k], x, minor, parent, a) /\ IsFilter(s[l], x, minor, parent, a) => k = l

\* s has the filters of the limit for one parent, and no others.
FiltersFor(s, x, minor, parent) ==
  /\ s \in Seq({s[a] : a \in 1..Len(Matches(x))}) /\ Len(s) = Len(Matches(x))
  /\ \A a \in 1..Len(Matches(x)) : IsFilter(s[a], x, minor, parent, a) /\ IsCommand(s[a])

\* What a limit matches is a sequence.
LEMMA MatchesOne ==
  ASSUME NEW x \in Limit
  PROVE  Len(Matches(x)) \in Nat /\ DOMAIN Matches(x) = 1..Len(Matches(x))
<1> DEFINE s == Matches(x)
<1>1. s \in Seq(Addrs \cup {Everyone})
  <2>1. x.values \in Seq(Addrs)
    BY DEF Limit
  <2>2. x.values \in Seq(Addrs \cup {Everyone}) /\ <<Everyone>> \in Seq(Addrs \cup {Everyone})
    BY <2>1
  <2>3. s = <<Everyone>> \/ s = x.values
    BY DEF Matches
  <2> HIDE DEF s
  <2> QED BY <2>2, <2>3
<1> HIDE DEF s
<1>2. Len(s) \in Nat /\ DOMAIN s = 1..Len(s)
  BY <1>1
<1> QED BY <1>2 DEF s

\* filterCmd makes a filter for each address.
LEMMA FiltersOfOne ==
  ASSUME NEW x \in Limit, NEW parent, NEW pref, NEW minor,
         NEW rate, rate = IF parent = "root" THEN x.tx ELSE x.rx
  PROVE  FiltersFor(filterCmd(x, parent, pref, minor, rate), x, minor, parent)
<1> DEFINE s == filterCmd(x, parent, pref, minor, rate)
           n == Len(Matches(x))
<1>2. n \in Nat /\ DOMAIN Matches(x) = 1..n
  BY MatchesOne
<1> HIDE DEF n
<1>3. DOMAIN s = 1..n
  BY <1>2 DEF filterCmd
<1>4. ASSUME NEW a \in 1..n PROVE IsFilter(s[a], x, minor, parent, a) /\ IsCommand(s[a])
  BY <1>2 DEF filterCmd, IsFilter, Command, IsCommand
<1>5. s = [a \in 1..n |-> s[a]]
  BY <1>2 DEF filterCmd
<1> HIDE DEF s
<1>6. s \in Seq({s[a] : a \in 1..n}) /\ Len(s) = n
  BY <1>2, <1>5
<1> QED BY <1>2, <1>4, <1>6 DEF n, s, FiltersFor

\* One sequence after the other.
LEMMA Joined ==
  ASSUME NEW T, NEW u \in Seq(T), NEW v \in Seq(T), NEW s, s = u \o v
  PROVE  /\ s \in Seq(T) /\ Len(s) = Len(u) + Len(v) /\ DOMAIN s = 1..(Len(u) + Len(v))
         /\ \A k \in 1..Len(u) : s[k] = u[k]
         /\ \A k \in 1..Len(v) : s[Len(u) + k] = v[k]
OBVIOUS

\* planOneTC serves its limit.
LEMMA OneLimit ==
  ASSUME NEW x \in Limit, NEW minor
  PROVE  /\ \E T : planOneTC(x, minor) \in Seq(T)
         /\ Serves(planOneTC(x, minor), x, minor)
<1> DEFINE s == planOneTC(x, minor)
           n == Len(Matches(x))
           cls == Command("class", x.dev, [minor |-> minor, rate |-> x.tx])
           out == filterCmd(x, "root", Pref(x, minor), minor, x.tx)
           inn == filterCmd(x, "ingress", RxPref(x, minor), minor, x.rx)
           T == {cls} \cup {out[a] : a \in 1..n} \cup {inn[a] : a \in 1..n}
           off == IF x.tx > 0 THEN 1 + n ELSE 0
<1>0. n \in Nat /\ DOMAIN Matches(x) = 1..n
  BY MatchesOne
<1>1. FiltersFor(out, x, minor, "root") /\ FiltersFor(inn, x, minor, "ingress")
  <2>1. /\ x.tx = IF "root" = "root" THEN x.tx ELSE x.rx
        /\ x.rx = IF "ingress" = "root" THEN x.tx ELSE x.rx
    OBVIOUS
  <2> QED BY ONLY <2>1, FiltersOfOne, x \in Limit
<1>3. IsCommand(cls) /\ (x.tx > 0 => IsClass(cls, x, minor))
  BY DEF IsClass, Command, IsCommand
<1>4. s = (IF x.tx > 0 THEN <<cls>> \o out ELSE <<>>) \o (IF x.rx > 0 THEN inn ELSE <<>>)
  BY DEF planOneTC, PoliceIndex
<1>5. x.tx \in Nat /\ x.rx \in Nat
  BY DEF Limit
<1> HIDE DEF s, cls, out, inn
<1>6. /\ out \in Seq({out[a] : a \in 1..n}) /\ Len(out) = n
      /\ \A a \in 1..n : IsFilter(out[a], x, minor, "root", a) /\ IsCommand(out[a])
      /\ inn \in Seq({inn[a] : a \in 1..n}) /\ Len(inn) = n
      /\ \A a \in 1..n : IsFilter(inn[a], x, minor, "ingress", a) /\ IsCommand(inn[a])
  BY <1>1 DEF FiltersFor
<1> HIDE DEF n
<1>7. out \in Seq(T) /\ inn \in Seq(T) /\ <<cls>> \in Seq(T) /\ <<>> \in Seq(T)
  BY <1>6
<1> HIDE DEF T
<1> DEFINE first == IF x.tx > 0 THEN <<cls>> \o out ELSE <<>>
           last  == IF x.rx > 0 THEN inn ELSE <<>>
           m     == IF x.rx > 0 THEN n ELSE 0
<1>8. /\ first \in Seq(T) /\ Len(first) = off /\ off \in Nat
      /\ x.tx > 0 => first[1] = cls /\ \A a \in 1..n : first[1 + a] = out[a]
  BY <1>0, <1>6, <1>7
<1>9. last \in Seq(T) /\ Len(last) = m /\ m \in Nat /\ (x.rx > 0 => m = n /\ last = inn)
  BY <1>0, <1>6, <1>7
<1>10. s = first \o last
  BY <1>4
<1> HIDE DEF first, last, off, m
<1>11. /\ s \in Seq(T) /\ DOMAIN s = 1..(off + m)
       /\ \A k \in 1..off : s[k] = first[k]
       /\ \A a \in 1..m : s[off + a] = last[a]
  <2>1. first \in Seq(T) /\ last \in Seq(T) /\ Len(first) = off /\ Len(last) = m
    BY <1>8, <1>9
  <2> QED BY <1>10, <2>1, Joined
<1>12. ASSUME x.tx > 0
       PROVE  /\ off = 1 + n /\ 1 \in DOMAIN s /\ IsClass(s[1], x, minor) /\ IsCommand(s[1])
              /\ \A a \in 1..n : 1 + a \in DOMAIN s /\ IsFilter(s[1 + a], x, minor, "root", a)
                                 /\ IsCommand(s[1 + a])
  <2>1. off = 1 + n
    BY <1>12 DEF off
  <2>2. s[1] = cls /\ 1 \in DOMAIN s
    BY <1>0, <1>8, <1>9, <1>11, <1>12, <2>1
  <2>3. ASSUME NEW a \in 1..n PROVE 1 + a \in DOMAIN s /\ s[1 + a] = out[a]
    BY <1>0, <1>8, <1>9, <1>11, <1>12, <2>1
  <2> QED BY <1>3, <1>6, <1>12, <2>1, <2>2, <2>3
<1>13. ASSUME x.rx > 0
       PROVE  \A a \in 1..n : off + a \in DOMAIN s /\ IsFilter(s[off + a], x, minor, "ingress", a)
                              /\ IsCommand(s[off + a])
  <2>1. m = n /\ last = inn
    BY <1>9, <1>13
  <2>2. ASSUME NEW a \in 1..n PROVE off + a \in DOMAIN s /\ s[off + a] = inn[a]
    BY <1>0, <1>8, <1>11, <2>1
  <2> QED BY <1>6, <2>2
<1>14. ASSUME NEW k \in DOMAIN s
       PROVE  /\ IsCommand(s[k])
              /\ \/ x.tx > 0 /\ k = 1 /\ IsClass(s[k], x, minor)
                 \/ x.tx > 0 /\ k - 1 \in 1..n /\ k <= off /\ IsFilter(s[k], x, minor, "root", k - 1)
                 \/ x.rx > 0 /\ k - off \in 1..n /\ IsFilter(s[k], x, minor, "ingress", k - off)
  <2>1. CASE k <= off
    <3>1. x.tx > 0 /\ (k = 1 \/ k - 1 \in 1..n) /\ k = 1 + (k - 1)
      BY <1>0, <1>5, <1>8, <1>11, <2>1 DEF off
    <3> QED BY <1>12, <2>1, <3>1
  <2>2. CASE ~(k <= off)
    <3>0. k \in 1..(off + m) /\ off \in Nat /\ m \in Nat
      BY <1>8, <1>9, <1>11
    <3>2. x.rx > 0 /\ m = n
      <4>1. m > 0
        BY <2>2, <3>0
      <4> QED BY <4>1 DEF m
    <3>1. x.rx > 0 /\ k - off \in 1..n /\ k = off + (k - off)
      BY <1>0, <2>2, <3>0, <3>2
    <3> QED BY <1>13, <3>1
  <2> QED BY <2>1, <2>2
<1>21. ASSUME NEW k \in DOMAIN s, s[k].op = "filter" PROVE s[k].what.rate > 0
  <2>1. ~IsClass(s[k], x, minor)
    BY <1>21 DEF IsClass
  <2>2. \/ x.tx > 0 /\ IsFilter(s[k], x, minor, "root", k - 1)
        \/ x.rx > 0 /\ IsFilter(s[k], x, minor, "ingress", k - off)
    BY <1>14, <2>1
  <2> QED BY <2>2 DEF IsFilter
<1>15. ASSUME NEW k \in DOMAIN s
       PROVE  \/ IsClass(s[k], x, minor)
              \/ \E parent \in Parents : \E a \in DOMAIN Matches(x) :
                   IsFilter(s[k], x, minor, parent, a)
  BY <1>0, <1>14 DEF Parents
<1>16. x.tx > 0 => /\ \E k \in DOMAIN s : IsClass(s[k], x, minor)
                   /\ \A a \in DOMAIN Matches(x) :
                        \E k \in DOMAIN s : IsFilter(s[k], x, minor, "root", a)
  BY <1>0, <1>12
<1>17. x.rx > 0 => \A a \in DOMAIN Matches(x) :
                     \E k \in DOMAIN s : IsFilter(s[k], x, minor, "ingress", a)
  BY <1>0, <1>13
<1>18. ASSUME NEW k \in DOMAIN s, NEW l \in DOMAIN s, IsClass(s[k], x, minor), IsClass(s[l], x, minor)
       PROVE  k = l
  <2>1. ASSUME NEW j, IsClass(s[j], x, minor), NEW p, NEW a PROVE ~IsFilter(s[j], x, minor, p, a)
    BY <2>1 DEF IsClass, IsFilter
  <2>2. k = 1 /\ l = 1
    BY <1>14, <1>18, <2>1
  <2> QED BY <2>2
<1>19. ASSUME NEW k \in DOMAIN s, NEW l \in DOMAIN s, NEW parent \in Parents, NEW a \in DOMAIN Matches(x),
              IsFilter(s[k], x, minor, parent, a), IsFilter(s[l], x, minor, parent, a)
       PROVE  k = l
  <2>1. ASSUME NEW j, NEW b, NEW p, IsFilter(s[j], x, minor, p, b), IsFilter(s[j], x, minor, parent, a)
        PROVE  p = parent /\ a = b /\ ~IsClass(s[j], x, minor)
    BY <2>1 DEF IsClass, IsFilter
  <2>2. \/ parent = "root" /\ k = 1 + a /\ l = 1 + a
        \/ parent = "ingress" /\ k = off + a /\ l = off + a
    <3>0. ASSUME NEW j \in DOMAIN s, IsFilter(s[j], x, minor, parent, a)
          PROVE  (parent = "root" /\ j - 1 = a) \/ (parent = "ingress" /\ j - off = a)
      <4>1. ~IsClass(s[j], x, minor)
        BY <2>1, <3>0
      <4>2. \/ IsFilter(s[j], x, minor, "root", j - 1)
            \/ IsFilter(s[j], x, minor, "ingress", j - off)
        BY <1>14, <4>1
      <4> QED BY <2>1, <3>0, <4>2
    <3>1. (parent = "root" /\ k - 1 = a) \/ (parent = "ingress" /\ k - off = a)
      BY <1>19, <3>0
    <3>2. (parent = "root" /\ l - 1 = a) \/ (parent = "ingress" /\ l - off = a)
      BY <1>19, <3>0
    <3>3. k \in Nat /\ l \in Nat /\ a \in Nat /\ off \in Nat
      <4>1. off \in Nat /\ m \in Nat /\ k \in 1..(off + m) /\ l \in 1..(off + m)
        BY <1>8, <1>9, <1>11
      <4>2. a \in 1..n /\ n \in Nat
        BY <1>0
      <4> QED BY <4>1, <4>2
    <3> QED BY <3>1, <3>2, <3>3
  <2> QED BY <2>2
<1>20. Serves(s, x, minor)
  BY <1>14, <1>21, <1>15, <1>16, <1>17, <1>18, <1>19 DEF Serves
<1> QED BY <1>11, <1>20 DEF s
-----------------------------------------------------------------------------
(* The order of a device's limits                                            *)

\* Limits that a plan is made of; none, before the first.
Desirable == Pushes \cup {{}}

\* LimitsAssumption, for no limits too.
LEMMA Desired ==
  ASSUME NEW D \in Desirable
  PROVE  /\ D \subseteq Limit /\ IsFiniteSet(D) /\ \A x, y \in D : x # y => x.id # y.id
         /\ \A x \in D : Len(x.values) <= MaxValues /\ (x.kind = "fwmark" => Len(x.values) <= 1)
<1>1. CASE D = {}
  BY <1>1, FS_EmptySet
<1>2. CASE D \in Pushes
  BY <1>2, LimitsAssumption
<1> QED BY <1>1, <1>2 DEF Desirable

\* list has every limit of the device once, by ascending id.
Sorted(list, S) ==
  /\ IsFiniteSet(S) /\ Cardinality(S) \in Nat /\ S \subseteq Limit
  /\ DOMAIN list = 1..Cardinality(S)
  /\ \A i \in DOMAIN list : list[i] \in S
  /\ \A x \in S : \E i \in DOMAIN list : list[i] = x
  /\ \A i, j \in DOMAIN list : i < j => list[i].id < list[j].id
  /\ \A i, j \in DOMAIN list : list[i].id = list[j].id => i = j

\* What planTC's sort makes of the limits of a device.
LEMMA OrdersSort ==
  ASSUME NEW D \in Desirable, NEW dev, NEW list \in Orders(Limiting(D, dev))
  PROVE  Sorted(list, Limiting(D, dev))
<1> DEFINE S == Limiting(D, dev)
           n == Cardinality(S)
<1>1. /\ S \in SUBSET D /\ IsFiniteSet(D) /\ D \subseteq Limit
      /\ \A x, y \in D : x # y => x.id # y.id
  BY Desired DEF Limiting
<1>2. IsFiniteSet(S) /\ n \in Nat /\ S \subseteq Limit
  BY <1>1, FS_Subset, FS_CardinalityType
<1>3. list \in [1..n -> S] /\ (\A i, j \in 1..n : i # j => list[i] # list[j])
      /\ \A i, j \in DOMAIN list : i < j => list[i].id < list[j].id
  BY DEF Orders, SetToSeqs
<1> HIDE DEF S
<1>4. \A x \in S : \E i \in 1..n : list[i] = x
  <2>1. list \in Injection(1..n, S)
    BY <1>3 DEF Injection, IsInjective
  <2>2. IsFiniteSet(1..n) /\ Cardinality(1..n) = n
    <3>1. 1 \in Int /\ n \in Int /\ (IF 1 > n THEN 0 ELSE n - 1 + 1) = n
      BY <1>2
    <3> HIDE DEF n
    <3> QED BY ONLY <3>1, FS_Interval
  <2>3. list \in Surjection(1..n, S)
    BY <1>2, <2>1, <2>2, FS_Injection
  <2> QED BY <2>3 DEF Surjection
<1>5. \A i, j \in 1..n : list[i].id = list[j].id => i = j
  BY <1>1, <1>3
<1> QED BY <1>2, <1>3, <1>4, <1>5 DEF Sorted, S

\* There is one such order.
LEMMA SortedOnce ==
  ASSUME NEW S, NEW p, NEW q, Sorted(p, S), Sorted(q, S), p = [i \in DOMAIN p |-> p[i]],
         q = [i \in DOMAIN q |-> q[i]]
  PROVE  p = q
<1> DEFINE n == Cardinality(S)
<1>0. /\ n \in Nat /\ DOMAIN p = 1..n /\ DOMAIN q = 1..n /\ S \subseteq Limit
      /\ \A i \in 1..n : p[i] \in S /\ q[i] \in S /\ p[i].id \in Nat /\ q[i].id \in Nat
  <2>1. \A x \in Limit : x.id \in Nat
    BY LimitsAssumption DEF Limit
  <2>2. n \in Nat /\ DOMAIN p = 1..n /\ DOMAIN q = 1..n /\ S \subseteq Limit
    BY DEF Sorted
  <2>3. \A i \in 1..n : p[i] \in S /\ q[i] \in S
    BY <2>2 DEF Sorted
  <2> QED BY <2>1, <2>2, <2>3
<1>1. SUFFICES ASSUME NEW k \in 1..n, p[k] # q[k] PROVE FALSE
  BY <1>0
<1> DEFINE Bad == {i \in 1..n : p[i] # q[i]}
<1>2. PICK m \in Bad : \A i \in Bad : m <= i
  <2>1. Bad \in SUBSET Nat /\ Bad # {}
    BY <1>1
  <2> HIDE DEF Bad
  <2> QED BY <2>1, LeastNumber
<1>3. m \in 1..n /\ p[m] # q[m] /\ \A i \in 1..n : i < m => p[i] = q[i]
  BY <1>2
<1> HIDE DEF n, Bad
<1>4. ASSUME NEW a, NEW b, Sorted(a, S), Sorted(b, S), DOMAIN a = 1..n, DOMAIN b = 1..n,
             \A i \in 1..n : a[i] \in S /\ b[i] \in S /\ a[i].id \in Nat /\ b[i].id \in Nat,
             \A i \in 1..n : i < m => a[i] = b[i]
      PROVE  ~(a[m].id < b[m].id)
  <2>1. SUFFICES ASSUME a[m].id < b[m].id PROVE FALSE
    OBVIOUS
  <2>2. PICK i \in 1..n : b[i] = a[m]
    BY <1>3, <1>4 DEF Sorted
  <2>3. CASE i < m
    <3>1. a[i] = a[m]
      BY <1>4, <2>2, <2>3
    <3>2. i = m
      <4>1. i \in DOMAIN a /\ m \in DOMAIN a /\ a[i].id = a[m].id
        BY <1>3, <1>4, <3>1
      <4> QED BY <1>4, <4>1 DEF Sorted
    <3> QED BY <1>3, <2>3, <3>2
  <2>4. CASE i = m
    BY <1>3, <1>4, <2>1, <2>2, <2>4
  <2>5. CASE m < i
    <3>1. b[m].id < b[i].id
      BY <1>3, <1>4, <2>5 DEF Sorted
    <3>2. b[i].id \in Nat /\ b[m].id \in Nat /\ a[m].id = b[i].id
      BY <1>3, <1>4, <2>2
    <3> QED BY <2>1, <3>1, <3>2
  <2> QED BY <1>0, <1>3, <2>3, <2>4, <2>5
<1>5. ~(p[m].id < q[m].id) /\ ~(q[m].id < p[m].id)
  BY <1>0, <1>3, <1>4
<1>6. p[m].id = q[m].id
  BY <1>0, <1>3, <1>5
<1>7. PICK i \in 1..n : q[i] = p[m]
  BY <1>0, <1>3 DEF Sorted
<1>8. i = m
  BY <1>0, <1>3, <1>6, <1>7 DEF Sorted
<1> QED BY <1>3, <1>7, <1>8

-----------------------------------------------------------------------------
(* The classes of a device's limits                                          *)

\* The type of the hashes, which never change.
HashType == minorHash \in [Ids -> Hashes] /\ nodeHash \in [Seeds -> Hashes]

\* Limits get minors of their own.
LEMMA OwnMinors ==
  ASSUME NEW S, NEW list, Sorted(list, S), HashType, 2 * Cardinality(S) <= Minors + 1,
         NEW i \in DOMAIN list, NEW j \in DOMAIN list, i # j
  PROVE  MinorsOf(list)[i] # MinorsOf(list)[j]
<1> DEFINE N == Cardinality(S)
           bases == [k \in DOMAIN list |-> minorHash[list[k].id]]
           rivals == [k \in DOMAIN list |-> 1..(k - 1)]
           minor == Allocate(bases, MinorMin, Minors, rivals)
<1>0. /\ N \in Nat /\ DOMAIN list = 1..N /\ DOMAIN bases = 1..N
      /\ \A k \in 1..N : bases[k] \in 0..(Width - 1)
      /\ \A k \in 1..N : rivals[k] \in SUBSET (1..(k - 1))
      /\ MinorMin \in Nat /\ Minors \in Nat \ {0} /\ Minors <= Width
  <2>1. \A k \in DOMAIN list : list[k].id \in Ids
    BY DEF Sorted, Limit
  <2>2. \A k \in DOMAIN list : minorHash[list[k].id] \in 0..(Width - 1)
    BY <2>1, RangesAssumption DEF HashType
  <2> QED BY <2>2, RangesAssumption DEF Sorted
<1>1. MinorsOf(list) = minor
  BY DEF MinorsOf
<1>2. ASSUME NEW k \in 1..N, NEW l \in 1..N, l < k PROVE minor[k] # minor[l]
  <2>1. rivals[k] = 1..(k - 1) /\ l \in rivals[k]
    BY <1>0, <1>2
  <2>2. IsFiniteSet(rivals[k]) /\ Cardinality(rivals[k]) = k - 1
    <3>1. 1 \in Int /\ k - 1 \in Int /\ (IF 1 > k - 1 THEN 0 ELSE (k - 1) - 1 + 1) = k - 1
      BY <1>0
    <3>2. IsFiniteSet(1..(k - 1)) /\ Cardinality(1..(k - 1)) = IF 1 > k - 1 THEN 0 ELSE (k - 1) - 1 + 1
      BY ONLY <3>1, FS_Interval
    <3> QED BY <2>1, <3>1, <3>2
  <2>3. 2 * Cardinality(rivals[k]) < Minors
    BY <1>0, <2>2
  <2> HIDE DEF N, bases, rivals
  <2> QED BY <1>0, <2>1, <2>2, <2>3, Allocated
<1> HIDE DEF minor
<1>3. i < j \/ j < i
  BY <1>0
<1> QED BY <1>0, <1>1, <1>2, <1>3
-----------------------------------------------------------------------------
(* The filters of a device                                                   *)

\* The filters that get a node id, and those that had theirs before at the same priority.
U32(cmds) == {i \in DOMAIN cmds : cmds[i].op = "filter" /\ cmds[i].what.kind # "fwmark"}
Rivals(cmds, i) == {j \in U32(cmds) : /\ j < i /\ i \in U32(cmds)
                                      /\ cmds[j].what.parent = cmds[i].what.parent
                                      /\ cmds[j].what.prio = cmds[i].what.prio}

\* Numbering changes nothing else.
LEMMA NumberedKeeps ==
  ASSUME NEW cmds, NEW i \in DOMAIN cmds, IsCommand(cmds[i]), NEW s, s = Numbered(cmds)
  PROVE  /\ IsCommand(s[i]) /\ s[i].op = cmds[i].op /\ s[i].dev = cmds[i].dev
         /\ s[i].what = cmds[i].what /\ (i \notin U32(cmds) => s[i].node = 0)
BY DEF Numbered, IsCommand, U32

\* Numbering makes as many commands as it was given.
LEMMA NumberedDomain ==
  ASSUME NEW cmds, NEW n \in Nat, DOMAIN cmds = 1..n
  PROVE  /\ DOMAIN Numbered(cmds) = 1..n
         /\ \E T : Numbered(cmds) \in Seq(T)
<1> DEFINE s == Numbered(cmds)
<1>1. DOMAIN s = 1..n /\ s = [i \in 1..n |-> s[i]]
  BY DEF Numbered
<1> HIDE DEF s
<1>2. s \in Seq({s[i] : i \in 1..n})
  BY <1>1
<1> QED BY <1>1, <1>2 DEF s

\* A filter's node id is not that of a rival, if there are at most half as many.
LEMMA NumberedDiffer ==
  ASSUME NEW cmds, NEW n \in Nat, DOMAIN cmds = 1..n, HashType,
         \A i \in U32(cmds) : cmds[i].what.seed \in Seeds, \A i \in 1..n : IsCommand(cmds[i]),
         NEW i \in U32(cmds), IsFiniteSet(Rivals(cmds, i)), 2 * Cardinality(Rivals(cmds, i)) < Nodes,
         NEW s, s = Numbered(cmds)
  PROVE  s[i].node # 0 /\ \A j \in Rivals(cmds, i) : s[i].node # s[j].node
<1> DEFINE u == U32(cmds)
           bases == [k \in DOMAIN cmds |-> IF k \in u THEN nodeHash[cmds[k].what.seed] ELSE 0]
           rivals == [k \in DOMAIN cmds |->
                        {j \in u : /\ j < k /\ k \in u
                                   /\ cmds[j].what.parent = cmds[k].what.parent
                                   /\ cmds[j].what.prio = cmds[k].what.prio}]
           node == Allocate(bases, 1, Nodes, rivals)
<1>1. s = [k \in DOMAIN cmds |-> [cmds[k] EXCEPT !.node = IF k \in u THEN node[k] ELSE 0]]
  BY DEF Numbered, U32
<1>2. u \subseteq 1..n
  BY DEF U32
<1>3. DOMAIN bases = 1..n /\ \A k \in 1..n : bases[k] \in 0..(Width - 1)
  <2>1. ASSUME NEW k \in u PROVE nodeHash[cmds[k].what.seed] \in 0..(Width - 1)
    BY RangesAssumption DEF HashType
  <2>2. 0 \in 0..(Width - 1)
    BY RangesAssumption
  <2> QED BY <2>1, <2>2
<1>4. \A k \in 1..n : rivals[k] \in SUBSET (1..(k - 1))
  BY <1>2
<1>5. rivals[i] = Rivals(cmds, i) /\ i \in 1..n
  BY <1>2 DEF Rivals
<1>6. 1 \in Nat /\ Nodes \in Nat \ {0} /\ Nodes <= Width
  BY RangesAssumption
<1> HIDE DEF bases, rivals
<1>7. node[i] \in 1..(1 + Nodes - 1) /\ \A j \in rivals[i] : node[i] # node[j]
  <2> HIDE DEF node
  <2> QED BY <1>3, <1>4, <1>5, <1>6, Allocated DEF node
<1> HIDE DEF node, u
<1>8. ASSUME NEW k \in u PROVE s[k].node = node[k]
  BY <1>1, <1>2, <1>8 DEF IsCommand
<1>9. \A j \in rivals[i] : j \in u
  BY <1>5 DEF Rivals, u
<1>10. s[i].node = node[i] /\ \A j \in rivals[i] : s[j].node = node[j]
  BY <1>8, <1>9 DEF u
<1>11. node[i] # 0
  BY <1>6, <1>7
<1> QED BY ONLY <1>5, <1>7, <1>10, <1>11
\* A sequence of any elements is one of elements it has.
LEMMA SameType ==
  ASSUME NEW T, NEW s \in Seq(T), NEW U, \A k \in DOMAIN s : s[k] \in U
  PROVE  s \in Seq(U)
OBVIOUS

\* Whatever is in the sequences.
LEMMA FlattenAny ==
  ASSUME NEW n \in Nat, NEW ss, DOMAIN ss = 1..n, ss = [i \in 1..n |-> ss[i]],
         \A i \in 1..n : \E T : ss[i] \in Seq(T)
  PROVE  /\ \E T : FlattenSeq(ss) \in Seq(T)
         /\ \E at : Lists(FlattenSeq(ss), ss, n, at)
<1> DEFINE U == UNION {{ss[i][k] : k \in DOMAIN ss[i]} : i \in 1..n}
<1>1. ASSUME NEW i \in 1..n PROVE ss[i] \in Seq(U)
  <2>1. PICK T : ss[i] \in Seq(T)
    OBVIOUS
  <2>2. \A k \in DOMAIN ss[i] : ss[i][k] \in U
    OBVIOUS
  <2> HIDE DEF U
  <2> QED BY <2>1, <2>2, SameType
<1> HIDE DEF U
<1>2. ss \in Seq(Seq(U)) /\ Len(ss) = n
  BY <1>1
<1> QED BY <1>2, Flattened

-----------------------------------------------------------------------------
(* The commands of a device                                                  *)

\* s has the commands of a limit.
Served(s, x, minor) ==
  /\ x.tx > 0 => /\ \E p \in DOMAIN s : IsClass(s[p], x, minor)
                 /\ \A a \in DOMAIN Matches(x) :
                      \E p \in DOMAIN s : IsFilter(s[p], x, minor, "root", a)
  /\ x.rx > 0 => \A a \in DOMAIN Matches(x) :
                   \E p \in DOMAIN s : IsFilter(s[p], x, minor, "ingress", a)

\* s has the commands of all limits of list; of[p] is whose the p-th is.
Body(s, list, minor, of) ==
  /\ \A p \in DOMAIN s :
       /\ IsCommand(s[p]) /\ of[p] \in DOMAIN list
       /\ s[p].op = "filter" => s[p].what.rate > 0
       /\ \/ IsClass(s[p], list[of[p]], minor[of[p]])
          \/ \E parent \in Parents : \E a \in DOMAIN Matches(list[of[p]]) :
               IsFilter(s[p], list[of[p]], minor[of[p]], parent, a)
  /\ \A p, q \in DOMAIN s : of[p] = of[q] =>
       /\ IsClass(s[p], list[of[p]], minor[of[p]]) /\ IsClass(s[q], list[of[p]], minor[of[p]]) => p = q
       /\ \A parent \in Parents : \A a \in DOMAIN Matches(list[of[p]]) :
            IsFilter(s[p], list[of[p]], minor[of[p]], parent, a)
              /\ IsFilter(s[q], list[of[p]], minor[of[p]], parent, a) => p = q
  /\ \A i \in DOMAIN list : Served(s, list[i], minor[i])

\* The commands of a device's limits, before they are numbered.
RawOf(list) == LET minor == MinorsOf(list)
               IN  FlattenSeq([i \in DOMAIN list |-> planOneTC(list[i], minor[i])])

\* The limits of a device, one after the other, make a body.
LEMMA RawBody ==
  ASSUME NEW S, NEW list, Sorted(list, S)
  PROVE  /\ \E T : RawOf(list) \in Seq(T)
         /\ \E of : Body(RawOf(list), list, MinorsOf(list), of)
<1> DEFINE n == Cardinality(S)
           minor == MinorsOf(list)
           ss == [i \in DOMAIN list |-> planOneTC(list[i], minor[i])]
           F == FlattenSeq(ss)
<1>1. n \in Nat /\ DOMAIN list = 1..n /\ \A i \in 1..n : list[i] \in Limit
  BY DEF Sorted
<1> HIDE DEF n, minor
<1>2. \A i \in 1..n : (\E T : ss[i] \in Seq(T)) /\ Serves(ss[i], list[i], minor[i])
  BY <1>1, OneLimit
<1>3. DOMAIN ss = 1..n /\ ss = [i \in 1..n |-> ss[i]]
  BY <1>1
<1>4. F = RawOf(list)
  BY DEF RawOf, minor
<1> HIDE DEF ss
<1>5. (\E T : F \in Seq(T)) /\ \E at : Lists(F, ss, n, at)
  BY <1>1, <1>2, <1>3, FlattenAny
<1> HIDE DEF F
<1>6. PICK at : Lists(F, ss, n, at)
  BY <1>5
<1> DEFINE of == [p \in DOMAIN F |-> at[p][1]]
           k(p) == at[p][2]
<1>7. ASSUME NEW p \in DOMAIN F
      PROVE  of[p] \in 1..n /\ k(p) \in DOMAIN ss[of[p]] /\ F[p] = ss[of[p]][k(p)]
             /\ Serves(ss[of[p]], list[of[p]], minor[of[p]])
  <2>1. at[p][1] \in 1..n /\ at[p][2] \in DOMAIN ss[at[p][1]] /\ F[p] = ss[at[p][1]][at[p][2]]
    BY <1>6 DEF Lists
  <2> QED BY <1>2, <2>1
<1>8. ASSUME NEW p \in DOMAIN F, NEW q \in DOMAIN F, of[p] = of[q], k(p) = k(q) PROVE p = q
  <2>1. at[p][1] = at[q][1] /\ at[p][2] = at[q][2] /\ at[p][1] \in Nat /\ at[p][2] \in Nat
    BY <1>6, <1>8 DEF Lists
  <2>2. p \in Nat /\ q \in Nat
    <3>1. PICK T : F \in Seq(T)
      BY <1>5
    <3> QED BY <3>1
  <2>3. ~(p < q) /\ ~(q < p)
    BY <1>6, <2>1 DEF Lists
  <2> QED BY <2>2, <2>3
<1> HIDE DEF k
<1>9. ASSUME NEW i \in 1..n, NEW m \in DOMAIN ss[i]
      PROVE  \E p \in DOMAIN F : of[p] = i /\ F[p] = ss[i][m]
  <2>1. PICK p \in DOMAIN F : at[p] = <<i, m>>
    BY <1>6, <1>9 DEF Lists
  <2>2. of[p] = i /\ k(p) = m
    BY <2>1 DEF k
  <2> QED BY <1>7, <2>2
<1> HIDE DEF of
<1>10. ASSUME NEW p \in DOMAIN F
       PROVE  /\ IsCommand(F[p]) /\ of[p] \in DOMAIN list
              /\ F[p].op = "filter" => F[p].what.rate > 0
              /\ \/ IsClass(F[p], list[of[p]], minor[of[p]])
                 \/ \E parent \in Parents : \E a \in DOMAIN Matches(list[of[p]]) :
                      IsFilter(F[p], list[of[p]], minor[of[p]], parent, a)
  BY <1>1, <1>7 DEF Serves
<1>11. ASSUME NEW p \in DOMAIN F, NEW q \in DOMAIN F, of[p] = of[q],
              IsClass(F[p], list[of[p]], minor[of[p]]), IsClass(F[q], list[of[p]], minor[of[p]])
       PROVE  p = q
  <2>1. k(p) = k(q)
    BY <1>7, <1>11 DEF Serves
  <2> QED BY <1>8, <1>11, <2>1
<1>12. ASSUME NEW p \in DOMAIN F, NEW q \in DOMAIN F, of[p] = of[q],
              NEW parent \in Parents, NEW a \in DOMAIN Matches(list[of[p]]),
              IsFilter(F[p], list[of[p]], minor[of[p]], parent, a),
              IsFilter(F[q], list[of[p]], minor[of[p]], parent, a)
       PROVE  p = q
  <2> DEFINE x == list[of[p]]
             t == ss[of[p]]
  <2>1. k(p) = k(q)
    <3>1. /\ k(p) \in DOMAIN t /\ F[p] = t[k(p)] /\ Serves(t, x, minor[of[p]])
          /\ k(q) \in DOMAIN t /\ F[q] = t[k(q)]
      BY <1>7, <1>12
    <3>2. IsFilter(t[k(p)], x, minor[of[p]], parent, a) /\ IsFilter(t[k(q)], x, minor[of[p]], parent, a)
      BY <1>12, <3>1
    <3> HIDE DEF t
    <3> QED BY <3>1, <3>2 DEF Serves
  <2> QED BY <1>8, <1>12, <2>1
<1>13. ASSUME NEW i \in DOMAIN list
       PROVE  Served(F, list[i], minor[i])
  <2>1. i \in 1..n /\ Serves(ss[i], list[i], minor[i])
    BY <1>1, <1>2
  <2>2. \A m \in DOMAIN ss[i] : \E p \in DOMAIN F : F[p] = ss[i][m]
    BY <1>9, <2>1
  <2> QED BY <2>1, <2>2 DEF Serves, Served
<1>14. Body(F, list, minor, of)
  BY <1>10, <1>11, <1>12, <1>13 DEF Body
<1> QED BY <1>4, <1>5, <1>14 DEF minor

\* Whether a command is one of a limit does not depend on its node id.
LEMMA SameWants ==
  ASSUME NEW c, NEW d, c.op = d.op, c.dev = d.dev, c.what = d.what, NEW x, NEW m
  PROVE  /\ IsClass(c, x, m) <=> IsClass(d, x, m)
         /\ \A parent, a : IsFilter(c, x, m, parent, a) <=> IsFilter(d, x, m, parent, a)
BY DEF IsClass, IsFilter

\* It stays one when filters get their node ids.
LEMMA NumberedBody ==
  ASSUME NEW cmds, NEW list, NEW minor, NEW of, Body(cmds, list, minor, of),
         NEW s, s = Numbered(cmds), DOMAIN s = DOMAIN cmds
  PROVE  Body(s, list, minor, of)
<1>1. ASSUME NEW p \in DOMAIN s
      PROVE  /\ IsCommand(s[p]) /\ s[p].op = cmds[p].op /\ s[p].dev = cmds[p].dev
             /\ s[p].what = cmds[p].what
  <2>1. IsCommand(cmds[p])
    BY DEF Body
  <2> QED BY <2>1, NumberedKeeps
<1>2. \A p \in DOMAIN s : \A x, m, parent, a :
        /\ IsClass(s[p], x, m) <=> IsClass(cmds[p], x, m)
        /\ IsFilter(s[p], x, m, parent, a) <=> IsFilter(cmds[p], x, m, parent, a)
  BY <1>1, SameWants
<1>3. \A p \in DOMAIN s :
        /\ IsCommand(s[p]) /\ of[p] \in DOMAIN list
        /\ s[p].op = "filter" => s[p].what.rate > 0
        /\ \/ IsClass(s[p], list[of[p]], minor[of[p]])
           \/ \E parent \in Parents : \E a \in DOMAIN Matches(list[of[p]]) :
                IsFilter(s[p], list[of[p]], minor[of[p]], parent, a)
  BY <1>1, <1>2 DEF Body
<1>4. \A p, q \in DOMAIN s : of[p] = of[q] =>
        /\ IsClass(s[p], list[of[p]], minor[of[p]]) /\ IsClass(s[q], list[of[p]], minor[of[p]]) => p = q
        /\ \A parent \in Parents : \A a \in DOMAIN Matches(list[of[p]]) :
             IsFilter(s[p], list[of[p]], minor[of[p]], parent, a)
               /\ IsFilter(s[q], list[of[p]], minor[of[p]], parent, a) => p = q
  BY <1>2 DEF Body
<1>5. ASSUME NEW i \in DOMAIN list
      PROVE  Served(s, list[i], minor[i])
  <2>1. Served(cmds, list[i], minor[i])
    BY DEF Body
  <2> QED BY <1>2, <2>1 DEF Served
<1> QED BY <1>3, <1>4, <1>5 DEF Body
\* A limit of a push has few addresses.
LEMMA FewMatches ==
  ASSUME NEW D \in Desirable, NEW x \in D
  PROVE  /\ x \in Limit /\ x.id \in Ids
         /\ \A a \in DOMAIN Matches(x) : a \in 1..MaxValues
         /\ x.kind = "fwmark" =>
              /\ Matches(x) = x.values /\ x.values \in Seq(Addrs)
              /\ \A a \in DOMAIN x.values : a = 1 /\ x.values = <<x.values[1]>>
<1>1. x \in Limit /\ Len(x.values) <= MaxValues /\ (x.kind = "fwmark" => Len(x.values) <= 1)
  BY Desired
<1>2. x.values \in Seq(Addrs) /\ x.id \in Ids
  BY <1>1 DEF Limit
<1>3. ASSUME NEW a \in DOMAIN Matches(x) PROVE a \in 1..MaxValues
  <2>1. CASE x.kind = "any"
    <3>1. Matches(x) = <<Everyone>> /\ a = 1
      BY <2>1 DEF Matches
    <3> QED BY <3>1, RangesAssumption
  <2>2. CASE x.kind # "any"
    <3>1. a \in 1..Len(x.values)
      BY <1>2, <2>2 DEF Matches
    <3> QED BY <1>1, <1>2, <3>1, RangesAssumption
  <2> QED BY <2>1, <2>2
<1>4. ASSUME x.kind = "fwmark", NEW a \in DOMAIN x.values PROVE a = 1 /\ x.values = <<x.values[1]>>
  <2> DEFINE n == Len(x.values)
  <2>0. a \in 1..n /\ n \in Nat /\ n <= 1
    BY <1>1, <1>2, <1>4
  <2> HIDE DEF n
  <2>1. n = 1 /\ a = 1
    BY <2>0
  <2> QED BY <1>2, <2>1 DEF n
<1> QED BY <1>1, <1>2, <1>3, <1>4 DEF Matches

\* The limits of a device with their addresses.
PairsOf(S) == UNION {{x} \X DOMAIN Matches(x) : x \in S}

\* These are finitely many.
LEMMA PairsFinite ==
  ASSUME NEW D \in Desirable, NEW dev
  PROVE  IsFiniteSet(PairsOf(Limiting(D, dev)))
<1> DEFINE S == Limiting(D, dev)
<1>1. S \in SUBSET D /\ IsFiniteSet(D)
  BY Desired DEF Limiting
<1>2. IsFiniteSet(S)
  BY <1>1, FS_Subset
<1>3. \A x \in S : \A a \in DOMAIN Matches(x) : a \in 1..MaxValues
  BY <1>1, FewMatches
<1>4. PairsOf(S) \in SUBSET (S \X (1..MaxValues))
  BY <1>3 DEF PairsOf
<1>5. IsFiniteSet(1..MaxValues)
  <2>1. 1 \in Int /\ MaxValues \in Int
    BY RangesAssumption
  <2> QED BY ONLY <2>1, FS_Interval
<1> HIDE DEF S
<1>6. IsFiniteSet(S \X (1..MaxValues))
  BY <1>2, <1>5, FS_Product
<1> QED BY <1>4, <1>6, FS_Subset DEF S

\* Each filter is for another address of another limit: there are enough ids.
LEMMA FewRivals ==
  ASSUME NEW D \in Desirable, NEW dev \in Devices, NEW list, Sorted(list, Limiting(D, dev)), Roomy(D),
         NEW cmds, NEW n \in Nat, DOMAIN cmds = 1..n, NEW minor, NEW of, Body(cmds, list, minor, of),
         NEW i \in U32(cmds)
  PROVE  /\ IsFiniteSet(Rivals(cmds, i)) /\ 2 * Cardinality(Rivals(cmds, i)) < Nodes
         /\ cmds[i].what.seed \in Seeds
<1> DEFINE S == Limiting(D, dev)
           R == Rivals(cmds, i) \cup {i}
           f == [p \in R |-> <<list[of[p]], cmds[p].what.seed[2]>>]
<1>1. /\ i \in DOMAIN cmds /\ i \notin Rivals(cmds, i) /\ R \subseteq U32(cmds)
      /\ U32(cmds) \subseteq DOMAIN cmds
      /\ \A p \in R : cmds[p].what.parent = cmds[i].what.parent
  BY DEF U32, Rivals
<1>2. ASSUME NEW p \in U32(cmds)
      PROVE  /\ p \in DOMAIN cmds /\ of[p] \in DOMAIN list /\ list[of[p]] \in S
             /\ \E a \in DOMAIN Matches(list[of[p]]) :
                  /\ IsFilter(cmds[p], list[of[p]], minor[of[p]], cmds[p].what.parent, a)
                  /\ cmds[p].what.seed = <<list[of[p]].id, a>>
                  /\ cmds[p].what.parent \in Parents
  <2>1. p \in DOMAIN cmds /\ of[p] \in DOMAIN list /\ list[of[p]] \in S
    BY DEF U32, Body, Sorted
  <2>2. ~IsClass(cmds[p], list[of[p]], minor[of[p]])
    BY DEF U32, IsClass
  <2>3. PICK parent \in Parents : \E a \in DOMAIN Matches(list[of[p]]) :
          IsFilter(cmds[p], list[of[p]], minor[of[p]], parent, a)
    BY <2>1, <2>2 DEF Body
  <2>4. PICK a \in DOMAIN Matches(list[of[p]]) : IsFilter(cmds[p], list[of[p]], minor[of[p]], parent, a)
    BY <2>3
  <2>5. cmds[p].what.parent = parent /\ cmds[p].what.seed = <<list[of[p]].id, a>>
    BY <2>4 DEF IsFilter
  <2> QED BY <2>1, <2>4, <2>5
<1>3. f \in [R -> PairsOf(S)]
  <2>1. ASSUME NEW p \in R PROVE <<list[of[p]], cmds[p].what.seed[2]>> \in PairsOf(S)
    <3>1. p \in U32(cmds)
      BY <1>1
    <3>2. PICK a \in DOMAIN Matches(list[of[p]]) : cmds[p].what.seed = <<list[of[p]].id, a>>
      BY <1>2, <3>1
    <3>3. list[of[p]] \in S
      BY <1>2, <3>1
    <3> HIDE DEF S
    <3> QED BY <3>2, <3>3 DEF PairsOf
  <2> QED BY <2>1
<1>4. ASSUME NEW p \in R, NEW q \in R, f[p] = f[q] PROVE p = q
  <2>1. p \in U32(cmds) /\ q \in U32(cmds)
    BY <1>1
  <2>2. PICK a \in DOMAIN Matches(list[of[p]]) :
          /\ IsFilter(cmds[p], list[of[p]], minor[of[p]], cmds[p].what.parent, a)
          /\ cmds[p].what.seed = <<list[of[p]].id, a>> /\ cmds[p].what.parent \in Parents
    BY <1>2, <2>1
  <2>3. PICK b \in DOMAIN Matches(list[of[q]]) :
          /\ IsFilter(cmds[q], list[of[q]], minor[of[q]], cmds[q].what.parent, b)
          /\ cmds[q].what.seed = <<list[of[q]].id, b>>
    BY <1>2, <2>1
  <2>4. list[of[p]] = list[of[q]] /\ a = b
    BY <1>4, <2>2, <2>3
  <2>5. of[p] = of[q]
    BY <1>2, <2>1, <2>4 DEF Sorted
  <2>6. cmds[p].what.parent = cmds[q].what.parent
    BY <1>1
  <2>7. p \in DOMAIN cmds /\ q \in DOMAIN cmds
    BY <1>2, <2>1
  <2> QED BY <2>2, <2>3, <2>4, <2>5, <2>6, <2>7 DEF Body
<1>5. f \in Injection(R, PairsOf(S))
  BY <1>3, <1>4 DEF Injection, IsInjective
<1>6. IsFiniteSet(PairsOf(S))
  BY PairsFinite
<1> HIDE DEF f
<1>7. IsFiniteSet(R) /\ Cardinality(R) <= Cardinality(PairsOf(S))
  BY <1>5, <1>6, FS_Injection
<1>8. IsFiniteSet(Rivals(cmds, i)) /\ Cardinality(R) = Cardinality(Rivals(cmds, i)) + 1
  <2>1. Rivals(cmds, i) \in SUBSET R
    OBVIOUS
  <2>2. IsFiniteSet(Rivals(cmds, i))
    BY <1>7, <2>1, FS_Subset
  <2> QED BY <1>1, <2>2, FS_AddElement
<1>9. 2 * Cardinality(PairsOf(S)) <= Nodes + 1
  BY DEF Roomy, PairsOf
<1>10. Cardinality(Rivals(cmds, i)) \in Nat /\ Cardinality(PairsOf(S)) \in Nat /\ Nodes \in Nat
  BY <1>6, <1>8, FS_CardinalityType, RangesAssumption
<1>11. 2 * Cardinality(Rivals(cmds, i)) < Nodes
  <2> DEFINE r == Cardinality(Rivals(cmds, i))
             c == Cardinality(PairsOf(S))
  <2>1. r + 1 <= c /\ 2 * c <= Nodes + 1 /\ r \in Nat /\ c \in Nat /\ Nodes \in Nat
    BY <1>7, <1>8, <1>9, <1>10
  <2> HIDE DEF r, c
  <2>2. 2 * r < Nodes
    BY <2>1
  <2> QED BY <2>2 DEF r
<1>12. cmds[i].what.seed \in Seeds
  <2>1. list[of[i]] \in D
    BY <1>2 DEF Limiting
  <2>2. PICK a \in DOMAIN Matches(list[of[i]]) : cmds[i].what.seed = <<list[of[i]].id, a>>
    BY <1>2
  <2>3. list[of[i]].id \in Ids /\ a \in 1..MaxValues
    BY <2>1, FewMatches
  <2> QED BY <2>2, <2>3 DEF Seeds
<1> QED BY <1>8, <1>11, <1>12

\* Two commands of a device that write one place are one command.
Apart(s) ==
  \A p, q \in DOMAIN s : s[p].dev = s[q].dev =>
       /\ s[p].op = "class" /\ s[q].op = "class" /\ s[p].what.minor = s[q].what.minor => p = q
       /\ s[p].op = "filter" /\ s[q].op = "filter" /\ Key(FilterOf(s[p])) = Key(FilterOf(s[q])) => p = q
       /\ s[p].op = "filter" /\ s[q].op = "filter" /\ s[p].what.to = s[q].what.to
            /\ s[p].what.parent = s[q].what.parent => s[p].what.rate = s[q].what.rate

\* What a command of a device is for.
LEMMA Whose ==
  ASSUME NEW s, NEW list, NEW minor, NEW of, Body(s, list, minor, of), NEW p \in DOMAIN s
  PROVE  LET x == list[of[p]]
         IN  /\ IsCommand(s[p]) /\ of[p] \in DOMAIN list /\ s[p].dev = x.dev
             /\ s[p].op \in {"class", "filter"}
             /\ s[p].op = "class" => IsClass(s[p], x, minor[of[p]])
             /\ s[p].op = "filter" =>
                  \E a \in DOMAIN Matches(x) : /\ IsFilter(s[p], x, minor[of[p]], s[p].what.parent, a)
                                               /\ s[p].what.parent \in Parents
<1>1. CASE IsClass(s[p], list[of[p]], minor[of[p]])
  <2>1. s[p].op = "class" /\ s[p].dev = list[of[p]].dev
    BY <1>1 DEF IsClass
  <2> QED BY <1>1, <2>1 DEF Body
<1>2. CASE ~IsClass(s[p], list[of[p]], minor[of[p]])
  <2>1. PICK parent \in Parents : \E a \in DOMAIN Matches(list[of[p]]) :
          IsFilter(s[p], list[of[p]], minor[of[p]], parent, a)
    BY <1>2 DEF Body
  <2>2. PICK a \in DOMAIN Matches(list[of[p]]) : IsFilter(s[p], list[of[p]], minor[of[p]], parent, a)
    BY <2>1
  <2>3. s[p].what.parent = parent /\ s[p].op = "filter" /\ s[p].dev = list[of[p]].dev
    BY <2>2 DEF IsFilter
  <2> QED BY <2>2, <2>3 DEF Body
<1> QED BY <1>1, <1>2

\* With enough ids, and no mark selected twice, the commands of a device do not meet.
LEMMA DeviceApart ==
  ASSUME NEW D \in Desirable, NEW dev \in Devices, NEW list, Sorted(list, Limiting(D, dev)),
         Roomy(D), Distinct(D), HashType,
         NEW cmds, NEW n \in Nat, DOMAIN cmds = 1..n, NEW of, Body(cmds, list, MinorsOf(list), of),
         NEW s, s = Numbered(cmds)
  PROVE  Apart(s)
<1> DEFINE S == Limiting(D, dev)
           minor == MinorsOf(list)
<1>0. /\ DOMAIN s = DOMAIN cmds /\ DOMAIN s = 1..n
      /\ \A p \in DOMAIN list : list[p] \in D /\ list[p].dev = dev
      /\ \A p, q \in DOMAIN list : list[p] = list[q] => p = q
  BY NumberedDomain DEF Sorted, Limiting
<1>1. Body(s, list, minor, of)
  BY <1>0, NumberedBody
<1>2. ASSUME NEW i \in DOMAIN list, NEW j \in DOMAIN list, minor[i] = minor[j] PROVE i = j
  <2>1. 2 * Cardinality(S) <= Minors + 1
    BY DEF Roomy
  <2> QED BY <1>2, <2>1, OwnMinors
<1>3. \A i \in U32(cmds) : /\ IsFiniteSet(Rivals(cmds, i)) /\ 2 * Cardinality(Rivals(cmds, i)) < Nodes
                           /\ cmds[i].what.seed \in Seeds
  BY FewRivals
<1>4. \A p \in 1..n : IsCommand(cmds[p])
  BY <1>0 DEF Body
<1>5. \A i \in U32(cmds) : s[i].node # 0 /\ \A j \in Rivals(cmds, i) : s[i].node # s[j].node
  BY <1>3, <1>4, NumberedDiffer
<1>6. \A p \in 1..n : s[p].op = cmds[p].op /\ s[p].dev = cmds[p].dev /\ s[p].what = cmds[p].what
                      /\ (p \notin U32(cmds) => s[p].node = 0)
  BY <1>0, <1>4, NumberedKeeps
<1> HIDE DEF minor
<1>7. ASSUME NEW p \in DOMAIN s, NEW q \in DOMAIN s, s[p].op = "class", s[q].op = "class",
             s[p].what.minor = s[q].what.minor
      PROVE  p = q
  <2>1. /\ of[p] \in DOMAIN list /\ IsClass(s[p], list[of[p]], minor[of[p]])
        /\ of[q] \in DOMAIN list /\ IsClass(s[q], list[of[q]], minor[of[q]])
    BY <1>1, <1>7, Whose
  <2>2. minor[of[p]] = minor[of[q]]
    BY <1>7, <2>1 DEF IsClass
  <2>3. of[p] = of[q]
    BY <1>2, <2>1, <2>2
  <2> QED BY <1>1, <2>1, <2>3 DEF Body
<1>8. ASSUME NEW p \in DOMAIN s, NEW q \in DOMAIN s, s[p].op = "filter", s[q].op = "filter",
             s[p].what.to = s[q].what.to
      PROVE  of[p] = of[q]
  <2>1. PICK a : /\ of[p] \in DOMAIN list
                 /\ IsFilter(s[p], list[of[p]], minor[of[p]], s[p].what.parent, a)
    BY <1>1, <1>8, Whose
  <2>2. PICK b : /\ of[q] \in DOMAIN list
                 /\ IsFilter(s[q], list[of[q]], minor[of[q]], s[q].what.parent, b)
    BY <1>1, <1>8, Whose
  <2>3. minor[of[p]] = minor[of[q]]
    BY <1>8, <2>1, <2>2 DEF IsFilter
  <2> QED BY <1>2, <2>1, <2>2, <2>3
<1>9. ASSUME NEW p \in DOMAIN s, NEW q \in DOMAIN s, s[p].op = "filter", s[q].op = "filter",
             s[p].what.to = s[q].what.to, s[p].what.parent = s[q].what.parent
      PROVE  s[p].what.rate = s[q].what.rate
  <2>1. of[p] = of[q]
    BY <1>8, <1>9
  <2>2. PICK a : IsFilter(s[p], list[of[p]], minor[of[p]], s[p].what.parent, a)
    BY <1>1, <1>9, Whose
  <2>3. PICK b : IsFilter(s[q], list[of[q]], minor[of[q]], s[q].what.parent, b)
    BY <1>1, <1>9, Whose
  <2> QED BY <1>9, <2>1, <2>2, <2>3 DEF IsFilter
<1>10. ASSUME NEW p \in DOMAIN s, NEW q \in DOMAIN s, s[p].op = "filter", s[q].op = "filter",
              Key(FilterOf(s[p])) = Key(FilterOf(s[q]))
       PROVE  p = q
  <2>1. /\ s[p].what.parent = s[q].what.parent /\ s[p].what.prio = s[q].what.prio
        /\ s[p].node = s[q].node
        /\ FilterOf(s[p]).mark = FilterOf(s[q]).mark
    BY <1>10 DEF Key, FilterOf
  <2>2. p \in 1..n /\ q \in 1..n /\ p \in DOMAIN cmds /\ q \in DOMAIN cmds
    BY <1>0
  <2>3. ASSUME NEW i \in {p, q}, NEW j \in {p, q}, i \in U32(cmds), j \in U32(cmds), j < i PROVE FALSE
    <3>1. j \in Rivals(cmds, i)
      BY <1>6, <2>1, <2>2, <2>3 DEF Rivals
    <3> QED BY <1>5, <2>1, <2>3, <3>1
  <2>4. CASE p \in U32(cmds) /\ q \in U32(cmds)
    <3>1. ~(p < q) /\ ~(q < p)
      BY <2>3, <2>4
    <3> QED BY <2>2, <3>1
  <2>5. CASE (p \in U32(cmds)) # (q \in U32(cmds))
    <3>1. CASE p \in U32(cmds)
      BY <1>5, <1>6, <2>1, <2>2, <2>5, <3>1
    <3>2. CASE p \notin U32(cmds)
      BY <1>5, <1>6, <2>1, <2>2, <2>5, <3>2
    <3> QED BY <3>1, <3>2
  <2>6. CASE p \notin U32(cmds) /\ q \notin U32(cmds)
    <3>1. ASSUME NEW i \in {p, q}
          PROVE  /\ of[i] \in DOMAIN list /\ list[of[i]].kind = "fwmark" /\ list[of[i]] \in D
                 /\ list[of[i]].dev = dev
                 /\ 1 \in DOMAIN Matches(list[of[i]])
                 /\ IsFilter(s[i], list[of[i]], minor[of[i]], s[i].what.parent, 1)
                 /\ s[i].what.parent \in Parents
                 /\ list[of[i]].values = <<FilterOf(s[i]).mark>>
      <4> DEFINE x == list[of[i]]
      <4>1. i \in DOMAIN s /\ s[i].op = "filter" /\ i \notin U32(cmds) /\ i \in 1..n
        BY <1>10, <2>2, <2>6
      <4>2. s[i].what.kind = "fwmark"
        BY <1>0, <1>6, <4>1 DEF U32
      <4>3. PICK a \in DOMAIN Matches(x) : /\ of[i] \in DOMAIN list
                                           /\ IsFilter(s[i], x, minor[of[i]], s[i].what.parent, a)
                                           /\ s[i].what.parent \in Parents
        BY <1>1, <4>1, Whose
      <4>4. x.kind = "fwmark" /\ x \in D /\ x.dev = dev /\ s[i].what.match = Matches(x)[a]
        BY <1>0, <4>2, <4>3 DEF IsFilter
      <4>5. Matches(x) = x.values /\ a = 1 /\ x.values = <<x.values[1]>>
        BY <4>3, <4>4, FewMatches
      <4>6. FilterOf(s[i]).mark = x.values[1]
        BY <4>2, <4>4, <4>5 DEF FilterOf
      <4> QED BY <4>3, <4>4, <4>5, <4>6
    <3>2. list[of[p]].values = list[of[q]].values /\ list[of[p]].dev = list[of[q]].dev
      BY <2>1, <3>1
    <3>3. list[of[p]] = list[of[q]]
      BY <3>1, <3>2 DEF Distinct
    <3>4. of[p] = of[q]
      BY <1>0, <3>1, <3>3
    <3> DEFINE par == s[p].what.parent
               x == list[of[p]]
    <3>5. par \in Parents /\ 1 \in DOMAIN Matches(x) /\ IsFilter(s[p], x, minor[of[p]], par, 1)
      BY <3>1
    <3>6. IsFilter(s[q], x, minor[of[p]], par, 1)
      BY <2>1, <3>1, <3>3, <3>4
    <3> HIDE DEF par
    <3>7. \A a \in DOMAIN Matches(x) : IsFilter(s[p], x, minor[of[p]], par, a)
            /\ IsFilter(s[q], x, minor[of[p]], par, a) => p = q
      BY <1>1, <3>4, <3>5 DEF Body
    <3> QED BY <3>5, <3>6, <3>7
  <2> QED BY <2>4, <2>5, <2>6
<1> QED BY <1>7, <1>9, <1>10 DEF Apart
-----------------------------------------------------------------------------
(* A whole plan                                                              *)

\* s has the commands of one device.
OfDevice(s, D, dev) ==
  /\ \A p \in DOMAIN s :
       /\ IsCommand(s[p]) /\ s[p].dev = dev /\ s[p].op \in {"ingress", "class", "filter"}
       /\ s[p].op = "ingress" => p = 1
       /\ s[p].op = "filter" => s[p].what.parent \in Parents
       /\ s[p].op = "filter" /\ s[p].what.parent = "ingress" => \E x \in D : x.rx > 0 /\ x.dev = dev
       /\ \E x \in D : x \in Limiting(D, dev)
  /\ \A x \in Limiting(D, dev) : \E minor : Served(s, x, minor)
  /\ Roomy(D) /\ Distinct(D) => Apart(s)

\* The commands of a device but for the ingress qdisc.
LEMMA BodyOfDevice ==
  ASSUME NEW D \in Desirable, NEW dev \in Devices, NEW list, Sorted(list, Limiting(D, dev)), HashType,
         NEW s, s = Numbered(RawOf(list))
  PROVE  (\E T : s \in Seq(T)) /\ OfDevice(s, D, dev) /\ \A p \in DOMAIN s : s[p].op # "ingress"
<1> DEFINE minor == MinorsOf(list)
           S == Limiting(D, dev)
           cmds == RawOf(list)
<1>1. (\E T : cmds \in Seq(T)) /\ \E of : Body(cmds, list, minor, of)
  BY RawBody
<1>2. PICK of : Body(cmds, list, minor, of)
  BY <1>1
<1>3. PICK n \in Nat : DOMAIN cmds = 1..n
  BY <1>1
<1> HIDE DEF cmds
<1>4. DOMAIN s = 1..n /\ \E T : s \in Seq(T)
  BY <1>3, NumberedDomain DEF cmds
<1>5. Body(s, list, minor, of)
  BY <1>2, <1>3, <1>4, NumberedBody DEF cmds
<1>6. ASSUME Roomy(D), Distinct(D) PROVE Apart(s)
  BY <1>2, <1>3, <1>6, DeviceApart DEF cmds
<1> HIDE DEF minor
<1>7. \A i \in DOMAIN list : list[i] \in S /\ list[i] \in D /\ list[i].dev = dev
  BY DEF Sorted, Limiting
<1>8. ASSUME NEW p \in DOMAIN s
      PROVE  /\ IsCommand(s[p]) /\ s[p].dev = dev /\ s[p].op \in {"class", "filter"}
             /\ s[p].op = "filter" => s[p].what.parent \in Parents
             /\ s[p].op = "filter" /\ s[p].what.parent = "ingress" => \E x \in D : x.rx > 0 /\ x.dev = dev
             /\ \E x \in D : x \in S
  <2> DEFINE x == list[of[p]]
  <2>1. /\ IsCommand(s[p]) /\ of[p] \in DOMAIN list /\ s[p].dev = x.dev
        /\ s[p].op \in {"class", "filter"}
        /\ s[p].op = "filter" =>
             \E a \in DOMAIN Matches(x) : /\ IsFilter(s[p], x, minor[of[p]], s[p].what.parent, a)
                                          /\ s[p].what.parent \in Parents
    BY <1>5, Whose
  <2>2. x \in S /\ x \in D /\ x.dev = dev
    BY <1>7, <2>1
  <2>3. ASSUME s[p].op = "filter", s[p].what.parent = "ingress" PROVE x.rx > 0
    <3>1. s[p].what.rate > 0
      BY <1>5, <2>3 DEF Body
    <3> QED BY <2>1, <2>3, <3>1 DEF IsFilter
  <2> HIDE DEF x, S
  <2> QED BY <2>1, <2>2, <2>3
<1>9. ASSUME NEW x \in S PROVE \E m : Served(s, x, m)
  <2>1. PICK i \in DOMAIN list : list[i] = x
    BY DEF Sorted
  <2> QED BY <1>5, <2>1 DEF Body
<1>10. \A p \in DOMAIN s : s[p].op # "ingress"
  BY <1>8
<1> QED BY <1>4, <1>6, <1>8, <1>9, <1>10 DEF OfDevice

\* The commands of a device.
LEMMA DevicePlanned ==
  ASSUME NEW D \in Desirable, NEW dev \in Devices, NEW list, Sorted(list, Limiting(D, dev)), HashType,
         NEW s, s = PlanDevice(dev, list)
  PROVE  (\E T : s \in Seq(T)) /\ OfDevice(s, D, dev)
<1> DEFINE b == Numbered(RawOf(list))
           c == Command("ingress", dev, <<>>)
<1>1. (\E T : b \in Seq(T)) /\ OfDevice(b, D, dev) /\ \A p \in DOMAIN b : b[p].op # "ingress"
  BY BodyOfDevice
<1>2. s = (IF \E i \in DOMAIN list : list[i].rx > 0 THEN <<c>> ELSE <<>>) \o b
  BY DEF PlanDevice, RawOf
<1>3. /\ IsCommand(c) /\ c.dev = dev /\ c.op = "ingress"
  BY DEF Command, IsCommand
<1> HIDE DEF b, c
<1>4. PICK T : b \in Seq(T)
  BY <1>1
<1>5. CASE ~\E i \in DOMAIN list : list[i].rx > 0
  <2>1. s = b
    BY <1>2, <1>4, <1>5
  <2> QED BY <1>1, <2>1
<1>6. CASE \E i \in DOMAIN list : list[i].rx > 0
  <2> DEFINE U == T \cup {c}
             n == Len(b)
  <2>1. <<c>> \in Seq(U) /\ b \in Seq(U) /\ s = <<c>> \o b /\ n \in Nat /\ Len(<<c>>) = 1 /\ <<c>>[1] = c
        /\ DOMAIN b = 1..n
    BY <1>2, <1>4, <1>6
  <2> HIDE DEF n, U
  <2>2. /\ s \in Seq(U) /\ DOMAIN s = 1..(1 + n)
        /\ \A k \in 1..1 : s[k] = <<c>>[k]
        /\ \A k \in 1..n : s[1 + k] = b[k]
    BY <2>1, Joined DEF n
  <2>3. 1 \in DOMAIN s /\ s[1] = c
    BY <2>1, <2>2
  <2>4. ASSUME NEW p \in DOMAIN s, p # 1
        PROVE  p - 1 \in DOMAIN b /\ s[p] = b[p - 1] /\ s[p].op # "ingress"
    <3>1. p - 1 \in 1..n /\ 1 + (p - 1) = p
      BY <2>1, <2>2, <2>4
    <3> QED BY <1>1, <2>1, <2>2, <3>1
  <2>5. ASSUME NEW p \in DOMAIN b PROVE p + 1 \in DOMAIN s /\ s[p + 1] = b[p]
    BY <2>1, <2>2
  <2>6. ASSUME NEW p \in DOMAIN s
        PROVE  /\ IsCommand(s[p]) /\ s[p].dev = dev /\ s[p].op \in {"ingress", "class", "filter"}
               /\ s[p].op = "ingress" => p = 1
               /\ s[p].op = "filter" => s[p].what.parent \in Parents
               /\ s[p].op = "filter" /\ s[p].what.parent = "ingress"
                    => \E x \in D : x.rx > 0 /\ x.dev = dev
               /\ \E x \in D : x \in Limiting(D, dev)
    <3>1. CASE p = 1
      <4>1. \E x \in D : x \in Limiting(D, dev)
        BY <1>6 DEF Sorted, Limiting
      <4> QED BY <1>3, <2>3, <3>1, <4>1
    <3>2. CASE p # 1
      BY <1>1, <2>4, <3>2 DEF OfDevice
    <3> QED BY <3>1, <3>2
  <2>7. ASSUME NEW x \in Limiting(D, dev) PROVE \E minor : Served(s, x, minor)
    <3>1. PICK minor : Served(b, x, minor)
      BY <1>1 DEF OfDevice
    <3>2. \A p \in DOMAIN b : \E q \in DOMAIN s : s[q] = b[p]
      BY <2>5
    <3>3. Served(s, x, minor)
      BY <3>1, <3>2 DEF Served
    <3> QED BY <3>3
  <2>8. ASSUME Roomy(D), Distinct(D) PROVE Apart(s)
    <3>1. Apart(b)
      BY <1>1, <2>8 DEF OfDevice
    <3>2. ASSUME NEW p \in DOMAIN s, NEW q \in DOMAIN s, s[p].op # "ingress", s[q].op # "ingress"
          PROVE  /\ p - 1 \in DOMAIN b /\ s[p] = b[p - 1]
                 /\ q - 1 \in DOMAIN b /\ s[q] = b[q - 1]
                 /\ p - 1 = q - 1 => p = q
      <4>1. p # 1 /\ q # 1
        BY <1>3, <2>3, <3>2
      <4>2. p \in Nat /\ q \in Nat
        BY <2>1, <2>2
      <4> QED BY <2>4, <4>1, <4>2
    <3> QED BY <3>1, <3>2 DEF Apart
  <2>9. OfDevice(s, D, dev)
    BY <2>6, <2>7, <2>8 DEF OfDevice
  <2> QED BY <2>2, <2>9
<1> QED BY <1>5, <1>6
\* P is what Begin makes of the limits D.
InOrder(orders, D) ==
  /\ orders \in [Devices -> UNION {Orders(Limiting(D, dev)) : dev \in Devices}]
  /\ \A dev \in Devices : orders[dev] \in Orders(Limiting(D, dev))
IsPlan(P, D) == \E orders : InOrder(orders, D) /\ P = PlanIn(orders)

\* What is in a plan: nothing but the commands of its limits, all of them, the ingress qdisc
\* of a device before its filters; and, with enough ids, nothing is written over.
OfPlan(P, D) ==
  /\ \A p \in DOMAIN P :
       /\ IsCommand(P[p]) /\ P[p].op \in {"ingress", "class", "filter"}
       /\ P[p].op = "filter" => P[p].what.parent \in Parents
       /\ P[p].op = "filter" /\ P[p].what.parent = "ingress"
            => \E x \in D : x.rx > 0 /\ x.dev = P[p].dev
       /\ D # {}
  /\ \A p, q \in DOMAIN P : p < q /\ P[q].op = "ingress" => P[p].dev # P[q].dev
  /\ \A x \in D : x.tx > 0 \/ x.rx > 0 => \E minor : Served(P, x, minor)
  /\ Roomy(D) /\ Distinct(D) => Apart(P)

\* PlanIn makes plans.
LEMMA Planned ==
  ASSUME NEW D \in Desirable, HashType, NEW P, IsPlan(P, D)
  PROVE  (\E T : P \in Seq(T)) /\ OfPlan(P, D)
<1>1. PICK orders : InOrder(orders, D) /\ P = PlanIn(orders)
  BY DEF IsPlan
<1> DEFINE n == Len(DeviceOrder)
           ss == [i \in DOMAIN DeviceOrder |-> PlanDevice(DeviceOrder[i], orders[DeviceOrder[i]])]
<1>2. /\ n \in Nat /\ DOMAIN DeviceOrder = 1..n
      /\ \A i \in 1..n : DeviceOrder[i] \in Devices
      /\ \A dev \in Devices : \E i \in 1..n : dev = DeviceOrder[i]
      /\ \A i, j \in 1..n : DeviceOrder[i] = DeviceOrder[j] => i = j
  BY DevicesAssumption DEF Devices
<1> HIDE DEF n
<1>3. ASSUME NEW i \in 1..n PROVE (\E T : ss[i] \in Seq(T)) /\ OfDevice(ss[i], D, DeviceOrder[i])
  <2> DEFINE dev == DeviceOrder[i]
             list == orders[dev]
  <2>1. dev \in Devices /\ ss[i] = PlanDevice(dev, list) /\ list \in Orders(Limiting(D, dev))
    BY <1>1, <1>2 DEF InOrder
  <2> HIDE DEF ss, dev, list
  <2>2. Sorted(list, Limiting(D, dev))
    BY <2>1, OrdersSort
  <2> QED BY <2>1, <2>2, DevicePlanned DEF dev
<1>4. DOMAIN ss = 1..n /\ ss = [i \in 1..n |-> ss[i]] /\ P = FlattenSeq(ss)
  BY <1>1, <1>2 DEF PlanIn
<1> HIDE DEF ss
<1>5. (\E T : P \in Seq(T)) /\ \E at : Lists(P, ss, n, at)
  BY <1>2, <1>3, <1>4, FlattenAny
<1>6. PICK at : Lists(P, ss, n, at)
  BY <1>5
<1> DEFINE i(p) == at[p][1]
           k(p) == at[p][2]
           t(p) == ss[at[p][1]]
<1>7. ASSUME NEW p \in DOMAIN P
      PROVE  /\ i(p) \in 1..n /\ k(p) \in DOMAIN t(p) /\ P[p] = t(p)[k(p)] /\ t(p) = ss[i(p)]
             /\ OfDevice(t(p), D, DeviceOrder[i(p)])
             /\ P[p].dev = DeviceOrder[i(p)] /\ i(p) \in Nat /\ k(p) \in Nat /\ p \in Nat
  <2>1. i(p) \in 1..n /\ k(p) \in DOMAIN t(p) /\ P[p] = t(p)[k(p)] /\ i(p) \in Nat /\ k(p) \in Nat
    BY <1>6 DEF Lists
  <2>2. OfDevice(t(p), D, DeviceOrder[i(p)])
    BY <1>3, <2>1
  <2>3. PICK T : P \in Seq(T)
    BY <1>5
  <2>4. p \in Nat
    BY <2>3
  <2> QED BY <2>1, <2>2, <2>4 DEF OfDevice
<1>8. ASSUME NEW p \in DOMAIN P, NEW q \in DOMAIN P, p < q
      PROVE  i(p) < i(q) \/ (i(p) = i(q) /\ k(p) < k(q))
  BY <1>6, <1>8 DEF Lists
<1>9. ASSUME NEW j \in 1..n, NEW m \in DOMAIN ss[j] PROVE \E p \in DOMAIN P : P[p] = ss[j][m]
  <2>1. PICK p \in DOMAIN P : at[p] = <<j, m>>
    BY <1>6, <1>9 DEF Lists
  <2>2. P[p] = ss[j][m]
    BY <1>7, <2>1
  <2> QED BY <2>2
<1> HIDE DEF i, k, t
<1>10. ASSUME NEW p \in DOMAIN P
       PROVE  /\ IsCommand(P[p]) /\ P[p].op \in {"ingress", "class", "filter"}
              /\ P[p].op = "filter" => P[p].what.parent \in Parents
              /\ P[p].op = "filter" /\ P[p].what.parent = "ingress"
                   => \E x \in D : x.rx > 0 /\ x.dev = P[p].dev
              /\ D # {}
  <2>1. /\ k(p) \in DOMAIN t(p) /\ P[p] = t(p)[k(p)] /\ P[p].dev = DeviceOrder[i(p)]
        /\ OfDevice(t(p), D, DeviceOrder[i(p)])
    BY <1>7
  <2> QED BY <2>1 DEF OfDevice
<1>11. ASSUME NEW p \in DOMAIN P, NEW q \in DOMAIN P, p < q, P[q].op = "ingress", P[p].dev = P[q].dev
       PROVE  FALSE
  <2>1. i(p) = i(q)
    BY <1>2, <1>7, <1>11
  <2>2. i(p) \in Nat /\ i(q) \in Nat /\ k(p) \in Nat /\ k(q) \in Nat
    BY <1>7
  <2>3. k(p) < k(q)
    BY <1>8, <1>11, <2>1, <2>2
  <2>4. k(q) = 1
    BY <1>7, <1>11 DEF OfDevice
  <2>5. k(p) \in DOMAIN t(p) /\ t(p) = ss[i(p)] /\ i(p) \in 1..n
    BY <1>7
  <2>6. k(p) >= 1
    <3>1. PICK T : ss[i(p)] \in Seq(T)
      BY <1>3, <2>5
    <3> QED BY <2>2, <2>5, <3>1
  <2> QED BY <2>2, <2>3, <2>4, <2>6
<1>12. ASSUME NEW x \in D, x.tx > 0 \/ x.rx > 0 PROVE \E minor : Served(P, x, minor)
  <2>1. x.dev \in Devices
    BY Desired DEF Limit
  <2>2. PICK j \in 1..n : x.dev = DeviceOrder[j]
    BY <1>2, <2>1
  <2>3. x \in Limiting(D, DeviceOrder[j])
    BY <1>12, <2>2 DEF Limiting
  <2>4. PICK minor : Served(ss[j], x, minor)
    BY <1>3, <2>3 DEF OfDevice
  <2>5. \A m \in DOMAIN ss[j] : \E p \in DOMAIN P : P[p] = ss[j][m]
    BY <1>9
  <2>6. Served(P, x, minor)
    BY <2>4, <2>5 DEF Served
  <2> QED BY <2>6
<1>13. ASSUME Roomy(D), Distinct(D) PROVE Apart(P)
  <2>1. ASSUME NEW p \in DOMAIN P, NEW q \in DOMAIN P, P[p].dev = P[q].dev
        PROVE  /\ Apart(t(p)) /\ k(p) \in DOMAIN t(p) /\ k(q) \in DOMAIN t(p)
               /\ P[p] = t(p)[k(p)] /\ P[q] = t(p)[k(q)]
               /\ k(p) = k(q) => p = q
    <3>1. i(p) = i(q) /\ t(p) = t(q)
      BY <1>2, <1>7, <2>1
    <3>2. k(p) = k(q) => p = q
      <4>1. i(p) \in Nat /\ i(q) \in Nat /\ k(p) \in Nat /\ k(q) \in Nat /\ p \in Nat /\ q \in Nat
        BY <1>7
      <4> QED BY <1>8, <3>1, <4>1
    <3> QED BY <1>7, <1>13, <3>1, <3>2 DEF OfDevice
  <2> QED BY <2>1 DEF Apart
<1>14. OfPlan(P, D)
  BY <1>10, <1>11, <1>12, <1>13 DEF OfPlan
<1> QED BY <1>5, <1>14

\* The plan of the same limits is the same plan.
LEMMA PlanOnce ==
  ASSUME NEW D \in Desirable, NEW P, NEW Q, IsPlan(P, D), IsPlan(Q, D)
  PROVE  P = Q
<1>1. PICK o : InOrder(o, D) /\ P = PlanIn(o)
  BY DEF IsPlan
<1>2. PICK r : InOrder(r, D) /\ Q = PlanIn(r)
  BY DEF IsPlan
<1>3. ASSUME NEW dev \in Devices PROVE o[dev] = r[dev]
  <2>1. o[dev] \in Orders(Limiting(D, dev)) /\ r[dev] \in Orders(Limiting(D, dev))
    BY <1>1, <1>2 DEF InOrder
  <2>2. Sorted(o[dev], Limiting(D, dev)) /\ Sorted(r[dev], Limiting(D, dev))
    BY <2>1, OrdersSort
  <2>3. o[dev] = [i \in DOMAIN o[dev] |-> o[dev][i]] /\ r[dev] = [i \in DOMAIN r[dev] |-> r[dev][i]]
    BY <2>1 DEF Orders, SetToSeqs
  <2> QED BY <2>2, <2>3, SortedOnce
<1>4. o = r
  BY <1>1, <1>2, <1>3 DEF InOrder
<1> QED BY <1>1, <1>2, <1>4
-----------------------------------------------------------------------------
(* What commands leave behind                                                *)

ClassOf(c) == [dev |-> c.dev, minor |-> c.what.minor, rate |-> c.what.rate]
MeterOf(c) == [index |-> c.what.to, rate |-> c.what.rate]

\* What a command adds to the classes (1), filters (2) and meters (3), and takes out of them.
Adds(c, kind, e) ==
  \/ kind = 1 /\ c.op = "class" /\ e = ClassOf(c)
  \/ kind = 2 /\ c.op = "filter" /\ e = FilterOf(c)
  \/ kind = 3 /\ c.op = "filter" /\ c.what.parent # "root" /\ e = MeterOf(c)
Erases(c, kind, e) ==
  /\ ~Adds(c, kind, e)
  /\ \/ kind = 1 /\ c.op = "class" /\ e.dev = c.dev /\ e.minor = c.what.minor
     \/ kind = 2 /\ c.op = "filter" /\ Key(e) = Key(FilterOf(c))
     \/ kind = 2 /\ c.op = "ingress" /\ e.dev = c.dev /\ e.parent = "ingress"
     \/ kind = 3 /\ c.op = "filter" /\ c.what.parent # "root" /\ e.index = c.what.to

\* e is there after the first n commands of P, in a kernel that was K.
Remains(kind, e, K, P, n) ==
  \/ e \in K[kind] /\ \A q \in 1..n : ~Erases(P[q], kind, e)
  \/ \E p \in 1..n : Adds(P[p], kind, e) /\ \A q \in (p + 1)..n : ~Erases(P[q], kind, e)
Result(L, K, P, n) ==
  \A kind \in 1..3 : \A e : e \in L[kind] <=> Remains(kind, e, K, P, n)

\* One more command.
LEMMA RemainsMore ==
  ASSUME NEW kind, NEW e, NEW K, NEW P, NEW n \in Nat
  PROVE  Remains(kind, e, K, P, n + 1) <=>
           \/ Remains(kind, e, K, P, n) /\ ~Erases(P[n + 1], kind, e)
           \/ Adds(P[n + 1], kind, e)
<1> DEFINE E(q) == Erases(P[q], kind, e)
           A(p) == Adds(P[p], kind, e)
<1>1. \A q \in 1..(n + 1) : q \in 1..n \/ q = n + 1
  OBVIOUS
<1>2. \A q \in 1..n : q \in 1..(n + 1)
  OBVIOUS
<1>3. n + 1 \in 1..(n + 1)
  OBVIOUS
<1>4. \A p \in 1..n : /\ \A q \in (p + 1)..(n + 1) : q \in (p + 1)..n \/ q = n + 1
                      /\ \A q \in (p + 1)..n : q \in (p + 1)..(n + 1)
                      /\ n + 1 \in (p + 1)..(n + 1)
  OBVIOUS
<1>5. \A q \in ((n + 1) + 1)..(n + 1) : FALSE
  OBVIOUS
<1>6. A(n + 1) => ~E(n + 1)
  BY DEF Erases
<1> HIDE DEF E, A
<1>7. (e \in K[kind] /\ \A q \in 1..(n + 1) : ~E(q))
        <=> ((e \in K[kind] /\ \A q \in 1..n : ~E(q)) /\ ~E(n + 1))
  BY <1>1, <1>2, <1>3
<1>8. (\E p \in 1..(n + 1) : A(p) /\ \A q \in (p + 1)..(n + 1) : ~E(q))
        <=> \/ (\E p \in 1..n : A(p) /\ \A q \in (p + 1)..n : ~E(q)) /\ ~E(n + 1)
            \/ A(n + 1)
  <2>1. ASSUME NEW p \in 1..(n + 1), A(p), \A q \in (p + 1)..(n + 1) : ~E(q)
        PROVE  \/ (\E r \in 1..n : A(r) /\ \A q \in (r + 1)..n : ~E(q)) /\ ~E(n + 1)
               \/ A(n + 1)
    BY <1>1, <1>4, <2>1
  <2>2. ASSUME NEW p \in 1..n, A(p), \A q \in (p + 1)..n : ~E(q), ~E(n + 1)
        PROVE  \E r \in 1..(n + 1) : A(r) /\ \A q \in (r + 1)..(n + 1) : ~E(q)
    BY <1>2, <1>4, <2>2
  <2>3. ASSUME A(n + 1)
        PROVE  \E r \in 1..(n + 1) : A(r) /\ \A q \in (r + 1)..(n + 1) : ~E(q)
    BY <1>3, <1>5, <2>3
  <2> QED BY <2>1, <2>2, <2>3
<1> QED BY <1>7, <1>8 DEF Remains, E, A

\* A second run of the same commands changes nothing.
LEMMA ResultAgain ==
  ASSUME NEW L, NEW K, NEW J, NEW P, NEW n, Result(K, J, P, n), Result(L, K, P, n), NEW kind \in 1..3
  PROVE  \A e : e \in L[kind] <=> e \in K[kind]
<1>1. ASSUME NEW e PROVE e \in L[kind] <=> e \in K[kind]
  <2>1. (e \in K[kind] <=> Remains(kind, e, J, P, n)) /\ (e \in L[kind] <=> Remains(kind, e, K, P, n))
    BY DEF Result
  <2> QED BY <2>1 DEF Remains
<1> QED BY <1>1

\* A command that nothing after it undoes leaves its mark.
LEMMA Left ==
  ASSUME NEW L, NEW K, NEW P, NEW n, Result(L, K, P, n), NEW kind \in 1..3, NEW p \in 1..n, NEW e,
         Adds(P[p], kind, e), \A q \in (p + 1)..n : ~Erases(P[q], kind, e)
  PROVE  e \in L[kind]
BY DEF Result, Remains

\* What one command does to a kernel.
Effect(L, K, c) ==
  \A kind \in 1..3 : \A e : e \in L[kind] <=> \/ e \in K[kind] /\ ~Erases(c, kind, e)
                                              \/ Adds(c, kind, e)

\* One more command of a plan.
LEMMA EffectAdds ==
  ASSUME NEW L, NEW K, NEW J, NEW P, NEW n \in Nat, Result(K, J, P, n), Effect(L, K, P[n + 1])
  PROVE  Result(L, J, P, n + 1)
BY RemainsMore DEF Result, Effect

\* Deleting and adding the ingress qdisc takes out its filters.
LEMMA IngressEffect ==
  ASSUME Ingress, NEW c, c = Head(todo), NEW L, L = kernel'
  PROVE  Effect(L, kernel, c)
<1>1. /\ c.op = "ingress" /\ filters' = {f \in filters : f.dev # c.dev \/ f.parent # "ingress"}
      /\ classes' = classes /\ meters' = meters
  BY DEF Ingress, NextIs, itsDevice
<1>2. L = <<classes', filters', meters'>> /\ kernel = <<classes, filters, meters>>
  BY DEF kernel
<1>3. ASSUME NEW kind \in 1..3, NEW e
      PROVE  e \in L[kind] <=> (e \in kernel[kind] /\ ~Erases(c, kind, e)) \/ Adds(c, kind, e)
  <2>1. CASE kind = 1
    BY <1>1, <1>2, <2>1 DEF Adds, Erases
  <2>2. CASE kind = 2
    BY <1>1, <1>2, <2>2 DEF Adds, Erases
  <2>3. CASE kind = 3
    BY <1>1, <1>2, <2>3 DEF Adds, Erases
  <2> QED BY <2>1, <2>2, <2>3
<1> QED BY <1>3 DEF Effect

\* tc class replace.
LEMMA ClassEffect ==
  ASSUME Class, NEW c, c = Head(todo), NEW L, L = kernel'
  PROVE  Effect(L, kernel, c)
<1>1. /\ c.op = "class"
      /\ classes' = {e \in classes : e.dev # c.dev \/ e.minor # c.what.minor} \cup {ClassOf(c)}
      /\ filters' = filters /\ meters' = meters
  BY DEF Class, NextIs, itsDevice, itsWhat, ClassOf
<1>2. L = <<classes', filters', meters'>> /\ kernel = <<classes, filters, meters>>
  BY DEF kernel
<1>3. ASSUME NEW kind \in 1..3, NEW e
      PROVE  e \in L[kind] <=> (e \in kernel[kind] /\ ~Erases(c, kind, e)) \/ Adds(c, kind, e)
  <2>1. CASE kind = 1
    BY <1>1, <1>2, <2>1 DEF Adds, Erases
  <2>2. CASE kind = 2
    BY <1>1, <1>2, <2>2 DEF Adds, Erases
  <2>3. CASE kind = 3
    BY <1>1, <1>2, <2>3 DEF Adds, Erases
  <2> QED BY <2>1, <2>2, <2>3
<1> QED BY <1>3 DEF Effect

\* tc filter replace.
LEMMA FilterEffect ==
  ASSUME Filter, NEW c, c = Head(todo), NEW L, L = kernel'
  PROVE  Effect(L, kernel, c)
<1>1. /\ c.op = "filter" /\ classes' = classes
      /\ filters' = {f \in filters : Key(f) # Key(FilterOf(c))} \cup {FilterOf(c)}
      /\ meters' = IF c.what.parent = "root" THEN meters
                   ELSE {m \in meters : m.index # c.what.to} \cup {MeterOf(c)}
  BY DEF Filter, NextIs, itsWhat, theFilter, MeterOf
<1>2. L = <<classes', filters', meters'>> /\ kernel = <<classes, filters, meters>>
  BY DEF kernel
<1>3. ASSUME NEW kind \in 1..3, NEW e
      PROVE  e \in L[kind] <=> (e \in kernel[kind] /\ ~Erases(c, kind, e)) \/ Adds(c, kind, e)
  <2>1. CASE kind = 1
    BY <1>1, <1>2, <2>1 DEF Adds, Erases
  <2>2. CASE kind = 2
    BY <1>1, <1>2, <2>2 DEF Adds, Erases
  <2>3. CASE kind = 3
    BY <1>1, <1>2, <2>3 DEF Adds, Erases
  <2> QED BY <2>1, <2>2, <2>3
<1> QED BY <1>3 DEF Effect

-----------------------------------------------------------------------------
(* The invariant                                                             *)

\* What is left of a plan.
Suffix(t, P) ==
  \E T : /\ t \in Seq(T) /\ P \in Seq(T) /\ Len(t) <= Len(P)
         /\ \A k \in 1..Len(t) : t[k] = P[Len(P) - Len(t) + k]

\* The commands to come are the rest of a plan of the desired limits; as long as none failed the
\* kernel is what the others made of the one before.  If that one was settled, it was what a whole
\* plan of the limits of that time had made of another.
RunInv ==
  /\ HashType
  /\ \E P, D : /\ D = desired /\ D \in Desirable /\ IsPlan(P, D) /\ Suffix(todo, P)
               /\ clean => Result(kernel, before.kernel, P, Len(P) - Len(todo))
  /\ before.limits # <<>> =>
       \E P, D, J : /\ before.limits = <<D>> /\ D \in Desirable /\ IsPlan(P, D)
                    /\ Result(before.kernel, J, P, Len(P))

\* Plans depend on hashes only, which stay.
LEMMA HashesStay ==
  ASSUME UNCHANGED hashes
  PROVE  /\ HashType => HashType'
         /\ \A P, D : IsPlan(P, D) => IsPlan(P, D)'
<1>1. HashType => HashType'
  BY DEF HashType, hashes
<1>2. ASSUME NEW orders PROVE PlanIn(orders)' = PlanIn(orders)
  BY DEF PlanIn, PlanDevice, Numbered, MinorsOf, hashes
<1>3. ASSUME NEW P, NEW D, IsPlan(P, D) PROVE IsPlan(P, D)'
  <2>1. PICK orders : InOrder(orders, D) /\ P = PlanIn(orders)
    BY <1>3 DEF IsPlan
  <2> QED BY <1>2, <2>1 DEF IsPlan
<1> QED BY <1>1, <1>3

\* The next command of the rest of a plan, and the rest after it.
LEMMA SuffixNext ==
  ASSUME NEW t, NEW P, Suffix(t, P), t # <<>>
  PROVE  /\ Suffix(Tail(t), P) /\ Len(P) - Len(t) \in Nat
         /\ Len(P) - Len(Tail(t)) = (Len(P) - Len(t)) + 1
         /\ Head(t) = P[(Len(P) - Len(t)) + 1]
<1>1. PICK T : /\ t \in Seq(T) /\ P \in Seq(T) /\ Len(t) <= Len(P)
               /\ \A k \in 1..Len(t) : t[k] = P[Len(P) - Len(t) + k]
  BY DEF Suffix
<1> DEFINE a == Len(t)
           b == Len(P)
           u == Tail(t)
<1>2. /\ a \in Nat \ {0} /\ b \in Nat /\ a <= b /\ u \in Seq(T) /\ Len(u) = a - 1
      /\ Head(t) = t[1] /\ \A k \in 1..(a - 1) : u[k] = t[k + 1]
      /\ \A k \in 1..a : t[k] = P[(b - a) + k]
  BY <1>1
<1> HIDE DEF a, b, u
<1>3. b - a \in Nat /\ b - (a - 1) = (b - a) + 1 /\ 1 \in 1..a /\ a - 1 <= b
  BY <1>2
<1>4. ASSUME NEW k \in 1..(a - 1) PROVE u[k] = P[(b - (a - 1)) + k]
  <2>1. k + 1 \in 1..a /\ (b - a) + (k + 1) = (b - (a - 1)) + k
    BY <1>2
  <2> QED BY <1>2, <2>1
<1>5. Suffix(u, P)
  BY <1>1, <1>2, <1>3, <1>4 DEF Suffix, b
<1> QED BY <1>2, <1>3, <1>5 DEF a, b, u

\* A whole plan is the rest of itself.
LEMMA WholeSuffix ==
  ASSUME NEW T, NEW P \in Seq(T)
  PROVE  Suffix(P, P) /\ Len(P) - Len(P) = 0 /\ Len(P) \in Nat
<1>1. Len(P) \in Nat
  OBVIOUS
<1> DEFINE n == Len(P)
<1>2. n - n = 0 /\ n <= n /\ \A k \in 1..n : (n - n) + k = k
  BY <1>1
<1> QED BY <1>1, <1>2 DEF Suffix

\* No command has changed nothing.
LEMMA NothingYet ==
  ASSUME NEW K, NEW P
  PROVE  Result(K, K, P, 0)
<1>1. \A q \in 1..0 : FALSE
  OBVIOUS
<1> QED BY <1>1 DEF Result, Remains

\* The plan of no limits.
LEMMA NoPlan ==
  ASSUME HashType
  PROVE  IsPlan(<<>>, {})
<1> DEFINE orders == [dev \in Devices |-> <<>>]
<1>1. ASSUME NEW dev PROVE <<>> \in Orders(Limiting({}, dev))
  <2>1. Limiting({}, dev) = {}
    BY DEF Limiting
  <2>2. Cardinality({}) = 0
    BY FS_EmptySet
  <2>3. 1..0 = {}
    OBVIOUS
  <2>4. <<>> \in SetToSeqs({})
    BY <2>2, <2>3 DEF SetToSeqs
  <2> QED BY <2>1, <2>4 DEF Orders
<1>2. InOrder(orders, {})
  BY <1>1 DEF InOrder
<1>3. IsPlan(PlanIn(orders), {})
  BY <1>2 DEF IsPlan
<1> HIDE DEF orders
<1>4. {} \in Desirable
  BY DEF Desirable
<1>5. (\E T : PlanIn(orders) \in Seq(T)) /\ OfPlan(PlanIn(orders), {})
  BY <1>3, <1>4, Planned
<1>6. PlanIn(orders) = <<>>
  <2>1. PICK T : PlanIn(orders) \in Seq(T)
    BY <1>5
  <2>2. DOMAIN PlanIn(orders) = {}
    BY <1>5 DEF OfPlan
  <2> QED BY <2>1, <2>2
<1> QED BY <1>3, <1>6
\* The first state.
LEMMA InitRun == Init => RunInv
<1>1. SUFFICES ASSUME Init PROVE RunInv
  OBVIOUS
<1>2. HashType /\ IsPlan(<<>>, {})
  <2>1. HashType
    BY <1>1 DEF Init, HashType
  <2> QED BY <2>1, NoPlan
<1>3. <<>> \in Seq({}) /\ Len(<<>>) = 0
  OBVIOUS
<1>4. Suffix(<<>>, <<>>) /\ Result(kernel, kernel, <<>>, 0)
  BY <1>3, WholeSuffix, NothingYet
<1>5. desired = {} /\ {} \in Desirable /\ todo = <<>> /\ before.kernel = kernel /\ before.limits = <<>>
  <2>1. desired = {} /\ todo = <<>> /\ before = [limits |-> <<>>, kernel |-> kernel]
    BY <1>1 DEF Init
  <2> QED BY <2>1 DEF Desirable
<1>6. Len(<<>>) - Len(<<>>) = 0
  OBVIOUS
<1> QED BY <1>2, <1>4, <1>5, <1>6 DEF RunInv

\* A plan begins.
LEMMA StartRun == ASSUME RunInv, Start PROVE RunInv'
<1>1. /\ UNCHANGED hashes /\ kernel' = kernel /\ todo = <<>> /\ clean' = TRUE
      /\ before'.kernel = kernel
      /\ before'.limits = IF clean THEN <<desired>> ELSE <<>>
  BY DEF Start
<1>2. HashType /\ HashType'
  BY <1>1, HashesStay DEF RunInv
<1>3. PICK D, orders : D \in Pushes /\ InOrder(orders, D) /\ todo' = PlanIn(orders) /\ desired' = D
  BY DEF Start, Begin, InOrder
<1>a. PICK Q : Q = PlanIn(orders)
  OBVIOUS
<1>4. IsPlan(Q, D) /\ D \in Desirable
  BY <1>3, <1>a DEF IsPlan, Desirable
<1>5. Suffix(Q, Q) /\ Len(Q) - Len(Q) = 0
  BY <1>2, <1>4, Planned, WholeSuffix
<1>6. IsPlan(Q, D)'
  BY <1>1, <1>4, HashesStay
<1>7. Result(kernel, kernel, Q, 0)
  BY NothingYet
<1>8. /\ D = desired' /\ D \in Desirable /\ IsPlan(Q, D)' /\ Suffix(todo', Q)
      /\ Result(kernel', before'.kernel, Q, Len(Q) - Len(todo'))
  BY <1>1, <1>3, <1>4, <1>5, <1>6, <1>7, <1>a
<1>9. ASSUME before'.limits # <<>>
      PROVE  \E P, B, J : /\ before'.limits = <<B>> /\ B \in Desirable /\ IsPlan(P, B)'
                          /\ Result(before'.kernel, J, P, Len(P))
  <2>1. clean /\ before'.limits = <<desired>>
    BY <1>1, <1>9
  <2>2. PICK P, B : /\ B = desired /\ B \in Desirable /\ IsPlan(P, B) /\ Suffix(todo, P)
                    /\ Result(kernel, before.kernel, P, Len(P) - Len(todo))
    BY <2>1 DEF RunInv
  <2>3. Len(P) - Len(todo) = Len(P)
    <3>1. PICK T : P \in Seq(T)
      BY <2>2 DEF Suffix
    <3>2. Len(todo) = 0 /\ Len(P) \in Nat
      BY <1>1, <3>1
    <3> QED BY <3>2
  <2>4. IsPlan(P, B)'
    BY <1>1, <2>2, HashesStay
  <2> QED BY <1>1, <2>1, <2>2, <2>3, <2>4
<1> QED BY <1>2, <1>8, <1>9 DEF RunInv

\* Whatever a command does, the rest of the plan is still to come.
LEMMA CommandRun ==
  ASSUME RunInv, Done, todo # <<>>,
         \/ clean' = FALSE
         \/ clean' = clean /\ \E L : L = kernel' /\ Effect(L, kernel, Head(todo))
  PROVE  RunInv'
<1>1. UNCHANGED hashes /\ desired' = desired /\ before' = before /\ todo' = Tail(todo)
  BY DEF Done
<1>2. PICK P, D : /\ D = desired /\ D \in Desirable /\ IsPlan(P, D) /\ Suffix(todo, P)
                  /\ clean => Result(kernel, before.kernel, P, Len(P) - Len(todo))
  BY DEF RunInv
<1> DEFINE n == Len(P) - Len(todo)
           m == Len(P) - Len(todo')
<1>3. Suffix(todo', P) /\ n \in Nat /\ m = n + 1 /\ Head(todo) = P[n + 1]
  BY <1>1, <1>2, SuffixNext
<1>4. ASSUME clean' = TRUE PROVE Result(kernel', before'.kernel, P, m)
  <2>1. PICK L : L = kernel' /\ Effect(L, kernel, Head(todo))
    BY <1>4
  <2>2. clean
    BY <1>4
  <2>3. Result(kernel, before.kernel, P, n)
    BY <1>2, <2>2
  <2> HIDE DEF n, m
  <2>4. Result(L, before.kernel, P, n + 1)
    BY <1>3, <2>1, <2>3, EffectAdds
  <2> QED BY <1>1, <1>3, <2>1, <2>4
<1>5. HashType' /\ IsPlan(P, D)'
  BY <1>1, <1>2, HashesStay DEF RunInv
<1>6. ASSUME before'.limits # <<>>
      PROVE  \E R, B, J : /\ before'.limits = <<B>> /\ B \in Desirable /\ IsPlan(R, B)'
                          /\ Result(before'.kernel, J, R, Len(R))
  <2>1. PICK R, B, J : /\ before.limits = <<B>> /\ B \in Desirable /\ IsPlan(R, B)
                       /\ Result(before.kernel, J, R, Len(R))
    BY <1>1, <1>6 DEF RunInv
  <2>2. IsPlan(R, B)'
    BY <1>1, <2>1, HashesStay
  <2> QED BY <1>1, <2>1, <2>2
<1>7. clean' => clean' = TRUE
  BY DEF RunInv
<1> QED BY <1>1, <1>2, <1>3, <1>4, <1>5, <1>6, <1>7 DEF RunInv

\* Every step.
LEMMA NextRun == RunInv /\ [Next]_vars => RunInv'
<1> SUFFICES ASSUME RunInv, [Next]_vars PROVE RunInv'
  OBVIOUS
<1>1. CASE Start
  BY <1>1, StartRun
<1>2. CASE Ingress
  <2>1. todo # <<>> /\ Done /\ clean' = clean
    BY <1>2 DEF Ingress, NextIs
  <2>2. \E L : L = kernel' /\ Effect(L, kernel, Head(todo))
    BY <1>2, IngressEffect
  <2> QED BY <2>1, <2>2, CommandRun
<1>3. CASE Class
  <2>1. todo # <<>> /\ Done /\ clean' = clean
    BY <1>3 DEF Class, NextIs
  <2>2. \E L : L = kernel' /\ Effect(L, kernel, Head(todo))
    BY <1>3, ClassEffect
  <2> QED BY <2>1, <2>2, CommandRun
<1>4. CASE Filter
  <2>1. todo # <<>> /\ Done /\ clean' = clean
    BY <1>4 DEF Filter, NextIs
  <2>2. \E L : L = kernel' /\ Effect(L, kernel, Head(todo))
    BY <1>4, FilterEffect
  <2> QED BY <2>1, <2>2, CommandRun
<1>5. CASE Refuse \/ Fail
  <2>1. todo # <<>> /\ Done /\ clean' = FALSE
    BY <1>5 DEF Refuse, Fail, NextIs
  <2> QED BY <2>1, CommandRun
<1>6. CASE UNCHANGED vars
  <2>1. UNCHANGED hashes /\ kernel' = kernel /\ desired' = desired /\ todo' = todo /\ clean' = clean
        /\ before' = before
    BY <1>6 DEF vars
  <2>2. HashType' /\ \A P, D : IsPlan(P, D) => IsPlan(P, D)'
    BY <2>1, HashesStay DEF RunInv
  <2>3. PICK P, D : /\ D = desired /\ D \in Desirable /\ IsPlan(P, D) /\ Suffix(todo, P)
                    /\ clean => Result(kernel, before.kernel, P, Len(P) - Len(todo))
    BY DEF RunInv
  <2>4. ASSUME before'.limits # <<>>
        PROVE  \E R, B, J : /\ before'.limits = <<B>> /\ B \in Desirable /\ IsPlan(R, B)'
                            /\ Result(before'.kernel, J, R, Len(R))
    <3>1. PICK R, B, J : /\ before.limits = <<B>> /\ B \in Desirable /\ IsPlan(R, B)
                         /\ Result(before.kernel, J, R, Len(R))
      BY <2>1, <2>4 DEF RunInv
    <3> QED BY <2>1, <2>2, <3>1
  <2> QED BY <2>1, <2>2, <2>3, <2>4 DEF RunInv
<1> QED BY <1>1, <1>2, <1>3, <1>4, <1>5, <1>6 DEF Next

-----------------------------------------------------------------------------
(* Results                                                                   *)

\* A clean plan that is over: all of its commands had their effect.
LEMMA Settled ==
  ASSUME RunInv, Idle
  PROVE  \E P : /\ IsPlan(P, desired) /\ desired \in Desirable /\ HashType
                /\ Result(kernel, before.kernel, P, Len(P))
                /\ (\E T : P \in Seq(T)) /\ OfPlan(P, desired)
<1>1. HashType /\ clean /\ todo = <<>>
  BY DEF RunInv, Idle
<1>2. PICK P : /\ desired \in Desirable /\ IsPlan(P, desired) /\ Suffix(todo, P)
               /\ Result(kernel, before.kernel, P, Len(P) - Len(todo))
  BY <1>1 DEF RunInv
<1>3. (\E T : P \in Seq(T)) /\ OfPlan(P, desired)
  BY <1>1, <1>2, Planned
<1>4. Len(P) - Len(todo) = Len(P)
  <2>1. Len(todo) = 0 /\ Len(P) \in Nat
    BY <1>1, <1>3
  <2> QED BY <2>1
<1> QED BY <1>1, <1>2, <1>3, <1>4

\* Both plans are one, and a second run of it changes nothing.
LEMMA IdempotentHolds == ASSUME RunInv PROVE Idempotent
<1>1. SUFFICES ASSUME Idle, before.limits = <<desired>>
               PROVE  filters = before.kernel[2] /\ classes = before.kernel[1]
  BY DEF Idempotent
<1>2. PICK P : /\ IsPlan(P, desired) /\ desired \in Desirable
               /\ Result(kernel, before.kernel, P, Len(P))
  BY <1>1, Settled
<1>3. PICK Q, D, J : /\ before.limits = <<D>> /\ D \in Desirable /\ IsPlan(Q, D)
                     /\ Result(before.kernel, J, Q, Len(Q))
  BY <1>1 DEF RunInv
<1>4. D = desired /\ P = Q
  <2>1. D = desired
    BY <1>1, <1>3
  <2> QED BY <1>2, <1>3, <2>1, PlanOnce
<1>5. \A e : e \in kernel[1] <=> e \in before.kernel[1]
  <2>1. 1 \in 1..3
    OBVIOUS
  <2> QED BY <1>2, <1>3, <1>4, <2>1, ResultAgain
<1>6. \A e : e \in kernel[2] <=> e \in before.kernel[2]
  <2>1. 2 \in 1..3
    OBVIOUS
  <2> QED BY <1>2, <1>3, <1>4, <2>1, ResultAgain
<1> QED BY <1>5, <1>6 DEF kernel

\* A filter of a plan stays, to the end of the plan.
LEMMA FilterLeft ==
  ASSUME NEW D, NEW P, NEW T, P \in Seq(T), OfPlan(P, D), Apart(P),
         NEW L, NEW K, Result(L, K, P, Len(P)), NEW p \in DOMAIN P, P[p].op = "filter"
  PROVE  FilterOf(P[p]) \in L[2]
<1> DEFINE n == Len(P)
           e == FilterOf(P[p])
<1>1. n \in Nat /\ DOMAIN P = 1..n /\ p \in 1..n
  OBVIOUS
<1>2. ASSUME NEW q \in (p + 1)..n, Erases(P[q], 2, e) PROVE FALSE
  <2>1. q \in DOMAIN P /\ p < q
    BY <1>1
  <2>2. CASE P[q].op = "filter" /\ Key(e) = Key(FilterOf(P[q]))
    <3>1. P[p].dev = P[q].dev
      BY <2>2 DEF Key, FilterOf
    <3>2. p = q
      BY <2>1, <2>2, <3>1 DEF Apart
    <3> QED BY <1>1, <2>1, <3>2
  <2>3. CASE P[q].op = "ingress" /\ e.dev = P[q].dev
    <3>1. P[p].dev = P[q].dev
      BY <2>3 DEF FilterOf
    <3> QED BY <2>1, <2>3, <3>1 DEF OfPlan
  <2> QED BY <1>2, <2>2, <2>3 DEF Erases
<1>3. Adds(P[p], 2, e)
  BY DEF Adds
<1> HIDE DEF n, e
<1>4. e \in L[2]
  <2>1. 2 \in 1..3 /\ Result(L, K, P, n)
    BY DEF n
  <2> QED BY <1>1, <1>2, <1>3, <2>1, Left
<1> QED BY <1>4 DEF e

\* The limit's class and filters were put there, and nothing after them replaced them.
LEMMA TxHolds == ASSUME RunInv PROVE TxIsLimited
<1>1. SUFFICES ASSUME Idle, Roomy(desired), Distinct(desired), NEW x \in desired, x.tx > 0
               PROVE  \E c \in classes : /\ c.dev = x.dev /\ c.rate = x.tx
                                         /\ \A v \in Values(x) : Leads(x, v, "root", c.minor)
  BY DEF TxIsLimited
<1>2. PICK P : /\ Result(kernel, before.kernel, P, Len(P)) /\ (\E T : P \in Seq(T)) /\ OfPlan(P, desired)
  BY <1>1, Settled
<1>3. PICK T : P \in Seq(T)
  BY <1>2
<1>4. Apart(P)
  BY <1>1, <1>2 DEF OfPlan
<1>5. PICK minor : Served(P, x, minor)
  BY <1>1, <1>2 DEF OfPlan
<1> DEFINE n == Len(P)
<1>6. n \in Nat /\ DOMAIN P = 1..n
  BY <1>3
<1>7. PICK p \in DOMAIN P : IsClass(P[p], x, minor)
  BY <1>1, <1>5 DEF Served
<1> DEFINE c == ClassOf(P[p])
<1>8. c.dev = x.dev /\ c.rate = x.tx /\ c.minor = minor /\ P[p].op = "class" /\ P[p].what.minor = minor
      /\ P[p].dev = x.dev
  BY <1>7 DEF IsClass, ClassOf
<1>9. ASSUME NEW q \in (p + 1)..n, Erases(P[q], 1, c) PROVE FALSE
  <2>1. q \in DOMAIN P /\ p \in Nat /\ q \in Nat /\ p < q
    BY <1>6
  <2>2. P[q].op = "class" /\ P[q].dev = P[p].dev /\ P[p].what.minor = P[q].what.minor
    BY <1>8, <1>9 DEF Erases
  <2>3. p = q
    BY <1>4, <1>8, <2>1, <2>2 DEF Apart
  <2> QED BY <2>1, <2>3
<1>10. Adds(P[p], 1, c)
  BY <1>8 DEF Adds
<1> HIDE DEF n, c
<1>11. c \in kernel[1]
  <2>1. 1 \in 1..3 /\ Result(kernel, before.kernel, P, n) /\ p \in 1..n
    BY <1>2, <1>6 DEF n
  <2> QED BY <1>9, <1>10, <2>1, Left
<1>12. ASSUME NEW v \in Values(x) PROVE Leads(x, v, "root", minor)
  <2>1. PICK a \in DOMAIN Matches(x) : v = Matches(x)[a]
    BY DEF Values
  <2>2. PICK q \in DOMAIN P : IsFilter(P[q], x, minor, "root", a)
    BY <1>1, <1>5 DEF Served
  <2>3. P[q].op = "filter"
    BY <2>2 DEF IsFilter
  <2>4. FilterOf(P[q]) \in kernel[2]
    BY <1>2, <1>3, <1>4, <2>3, FilterLeft
  <2>5. FilterOf(P[q]) \in filters
    BY <2>4 DEF kernel
  <2>6. LET f == FilterOf(P[q])
        IN  f.dev = x.dev /\ f.parent = "root" /\ f.match = v /\ f.to = minor
    BY <2>1, <2>2 DEF IsFilter, FilterOf
  <2> QED BY <2>5, <2>6 DEF Leads
<1>13. c \in classes
  BY <1>11 DEF kernel
<1> QED BY <1>8, <1>12, <1>13

\* So were its meter, which only its own filters set, and filters.
LEMMA RxHolds == ASSUME RunInv PROVE RxIsLimited
<1>1. SUFFICES ASSUME Idle, Roomy(desired), Distinct(desired), \A y, z \in RxLimits : y.dev = z.dev,
                      NEW x \in RxLimits, Values(x) # {}
               PROVE  \E m \in meters : /\ m.rate = x.rx
                                        /\ \A v \in Values(x) : Leads(x, v, "ingress", m.index)
  BY DEF RxIsLimited
<1>2. PICK P : /\ Result(kernel, before.kernel, P, Len(P)) /\ (\E T : P \in Seq(T)) /\ OfPlan(P, desired)
  BY <1>1, Settled
<1>3. PICK T : P \in Seq(T)
  BY <1>2
<1>4. Apart(P)
  BY <1>1, <1>2 DEF OfPlan
<1>0. x \in desired /\ x.rx > 0
  BY DEF RxLimits
<1>5. PICK minor : Served(P, x, minor)
  BY <1>0, <1>2 DEF OfPlan
<1> DEFINE n == Len(P)
<1>6. n \in Nat /\ DOMAIN P = 1..n
  BY <1>3
<1>7. PICK b \in DOMAIN Matches(x) : TRUE
  BY <1>1 DEF Values
<1>8. PICK p \in DOMAIN P : IsFilter(P[p], x, minor, "ingress", b)
  BY <1>0, <1>5 DEF Served
<1> DEFINE m == MeterOf(P[p])
<1>9. /\ m.index = minor /\ m.rate = x.rx /\ m = [index |-> minor, rate |-> x.rx]
      /\ P[p].op = "filter" /\ P[p].what.parent = "ingress" /\ P[p].what.to = minor
      /\ P[p].dev = x.dev /\ P[p].what.rate = x.rx
  BY <1>8 DEF IsFilter, MeterOf
<1>10. ASSUME NEW q \in (p + 1)..n, Erases(P[q], 3, m) PROVE FALSE
  <2>1. q \in DOMAIN P
    BY <1>6
  <2>2. P[q].op = "filter" /\ P[q].what.parent # "root" /\ P[q].what.to = minor /\ ~Adds(P[q], 3, m)
    BY <1>9, <1>10 DEF Erases
  <2>3. P[q].what.parent = "ingress"
    BY <1>2, <2>1, <2>2 DEF OfPlan, Parents
  <2>4. PICK y \in desired : y.rx > 0 /\ y.dev = P[q].dev
    BY <1>2, <2>1, <2>2, <2>3 DEF OfPlan
  <2>5. P[p].dev = P[q].dev
    BY <1>1, <1>9, <2>4 DEF RxLimits
  <2>6. P[q].what.rate = x.rx
    BY <1>4, <1>9, <2>1, <2>2, <2>3, <2>5 DEF Apart
  <2> QED BY <1>9, <2>2, <2>6 DEF Adds, MeterOf
<1>11. Adds(P[p], 3, m)
  BY <1>9 DEF Adds
<1> HIDE DEF n, m
<1>12. m \in kernel[3]
  <2>1. 3 \in 1..3 /\ Result(kernel, before.kernel, P, n) /\ p \in 1..n
    BY <1>2, <1>6 DEF n
  <2> QED BY <1>10, <1>11, <2>1, Left
<1>13. ASSUME NEW v \in Values(x) PROVE Leads(x, v, "ingress", minor)
  <2>1. PICK a \in DOMAIN Matches(x) : v = Matches(x)[a]
    BY DEF Values
  <2>2. PICK q \in DOMAIN P : IsFilter(P[q], x, minor, "ingress", a)
    BY <1>0, <1>5 DEF Served
  <2>3. P[q].op = "filter"
    BY <2>2 DEF IsFilter
  <2>4. FilterOf(P[q]) \in kernel[2]
    BY <1>2, <1>3, <1>4, <2>3, FilterLeft
  <2>5. FilterOf(P[q]) \in filters
    BY <2>4 DEF kernel
  <2>6. LET f == FilterOf(P[q])
        IN  f.dev = x.dev /\ f.parent = "ingress" /\ f.match = v /\ f.to = minor
    BY <2>1, <2>2 DEF IsFilter, FilterOf
  <2> QED BY <2>5, <2>6 DEF Leads
<1>14. m \in meters
  BY <1>12 DEF kernel
<1> QED BY <1>9, <1>13, <1>14

\* The inductive invariant: the commands that are left are the rest of a plan, and the kernel is what
\* the others made of it, as long as none was refused or failed (Runner.Apply, apply.go:579-598).
THEOREM Invariant == Spec => []RunInv
<1> QED BY InitRun, NextRun, PTL DEF Spec

\* After a clean plan each limit has a class of its rate, and a filter to it for each address it
\* matches, whatever the hashes of the ids are (tc.go:127-146, 266-296, 317-331).
THEOREM OwnClasses == Spec => []TxIsLimited
<1> QED BY Invariant, TxHolds, PTL

\* And for what is received one meter of its rate, which all of its filters share (tc.go:147-163).
THEOREM OwnMeters == Spec => []RxIsLimited
<1> QED BY Invariant, RxHolds, PTL

\* Applying the same limits again leaves the classes and filters as they were: the plan is the same,
\* and each of its commands replaces what it made before (tc.go:189-192, 274-276).
THEOREM AppliedAgain == Spec => []Idempotent
<1> QED BY Invariant, IdempotentHolds, PTL
=============================================================================
