---------------------------- MODULE Driver_proof ----------------------------
(***************************************************************************)
(* Proofs about the module Driver: of the type invariant, of the order of  *)
(* the phases, and that a graph that was printed is the tree.              *)
(*                                                                         *)
(* The heart of the inductive invariant is what it says of todo while the  *)
(* grapher runs: its items lead, one after the other, from the spot of the *)
(* tree at which the walk is to the end of the walk.                       *)
(***************************************************************************)
EXTENDS Driver, TLAPS, WellFoundedInduction, FiniteSetTheorems
-----------------------------------------------------------------------------
(* Numbers.                                                                *)

LEMMA LeastOf ==
  ASSUME NEW S \in SUBSET Nat, S # {}
  PROVE  \E m \in S : \A k \in S : m <= k
<1> DEFINE R == {p \in Nat \X Nat : p[1] < p[2]}
<1>1. IsWellFoundedOn(R, Nat)
  BY NatLessThanWellFounded DEF OpToRel
<1>2. \A i, j \in Nat : i < j => <<i, j>> \in R
  OBVIOUS
<1> HIDE DEF R
<1>3. PICK m \in S : \A k \in S : <<k, m>> \notin R
  BY <1>1, WFMin
<1>4. \A k \in S : ~(k < m)
  BY <1>2, <1>3
<1> QED
  BY <1>4

LEMMA Induction ==
  ASSUME NEW S \in SUBSET Nat, 0 \in S, \A n \in S : n + 1 \in S
  PROVE  Nat \subseteq S
<1> SUFFICES ASSUME Nat \ S # {} PROVE FALSE
  OBVIOUS
<1>1. PICK m \in Nat \ S : \A k \in Nat \ S : m <= k
  BY LeastOf
<1>2. m - 1 \in S
  BY <1>1
<1> QED
  BY <1>1, <1>2


Unfolds(g, n) == g[n] = IF n < 10 THEN <<n>> ELSE g[n \div 10] \o <<n % 10>>
UpTo(n) == {g \in [0..n -> Seq(Nat)] : \A i \in 0..n : Unfolds(g, i)}

LEMMA Tenth ==
  ASSUME NEW n \in Nat, n >= 10
  PROVE  /\ n \div 10 \in Nat /\ n \div 10 < n /\ n \div 10 >= 1
         /\ n % 10 \in Nat /\ n % 10 < 10 /\ n = 10 * (n \div 10) + (n % 10)
<1>1. n \div 10 \in Int /\ n % 10 \in 0..9
  OBVIOUS
<1>2. n = 10 * (n \div 10) + (n % 10)
  OBVIOUS
<1> DEFINE d == n \div 10
           r == n % 10
<1> HIDE DEF d, r
<1>3. d \in Int /\ r \in 0..9 /\ n = 10 * d + r
  BY <1>1, <1>2 DEF d, r
<1>4. d \in Nat /\ d < n /\ d >= 1 /\ r \in Nat /\ r < 10
  BY <1>3
<1> QED
  BY <1>2, <1>4 DEF d, r

LEMMA UpToAgree ==
  ASSUME NEW m \in Nat, NEW n \in Nat, NEW g \in UpTo(m), NEW h \in UpTo(n),
         NEW i \in 0..m, i <= n
  PROVE  g[i] = h[i]
<1> DEFINE S == {j \in Nat : j <= m /\ j <= n /\ g[j] # h[j]}
<1>1. SUFFICES ASSUME S # {} PROVE FALSE
  OBVIOUS
<1>2. PICK j \in S : \A k \in S : j <= k
  BY <1>1, LeastOf
<1>3. Unfolds(g, j) /\ Unfolds(h, j)
  BY DEF UpTo
<1>4. CASE j < 10
  BY <1>3, <1>4 DEF Unfolds
<1>5. CASE j >= 10
  <2>1. j \div 10 \in Nat /\ j \div 10 < j
    BY <1>5, Tenth
  <2>2. g[j \div 10] = h[j \div 10]
    BY <1>2, <2>1
  <2> QED
    BY <1>3, <1>5, <2>2 DEF Unfolds
<1> QED
  BY <1>4, <1>5

LEMMA UpToThere == \A n \in Nat : UpTo(n) # {}
<1> DEFINE S == {n \in Nat : UpTo(n) # {}}
<1>1. 0 \in S
  <2>1. [i \in 0..0 |-> <<0>>] \in UpTo(0)
    BY DEF UpTo, Unfolds
  <2> QED
    BY <2>1
<1>2. ASSUME NEW n \in S PROVE n + 1 \in S
  <2>1. PICK g \in UpTo(n) : TRUE
    OBVIOUS
  <2> DEFINE h == [i \in 0..(n + 1) |->
                     IF i <= n THEN g[i]
                     ELSE IF i < 10 THEN <<i>> ELSE g[i \div 10] \o <<i % 10>>]
  <2>2. g \in [0..n -> Seq(Nat)] /\ \A i \in 0..n : Unfolds(g, i)
    BY DEF UpTo
  <2>3. ASSUME NEW i \in 0..(n + 1), i >= 10
        PROVE  i \div 10 \in 0..n /\ i % 10 \in Nat
    BY <2>3, Tenth
  <2>4. h \in [0..(n + 1) -> Seq(Nat)]
    <3> SUFFICES ASSUME NEW i \in 0..(n + 1) PROVE h[i] \in Seq(Nat)
      OBVIOUS
    <3>1. CASE i <= n \/ i < 10
      BY <2>2, <3>1
    <3>2. CASE ~(i <= n) /\ i >= 10
      BY <2>2, <2>3, <3>2
    <3> QED
      BY <3>1, <3>2
  <2>5. ASSUME NEW i \in 0..(n + 1) PROVE Unfolds(h, i)
    <3>1. i >= 10 => h[i \div 10] = g[i \div 10]
      BY <2>3
    <3>2. CASE i <= n
      <4>1. Unfolds(g, i) /\ h[i] = g[i]
        BY <2>2, <3>2
      <4> HIDE DEF h
      <4> QED
        BY <3>1, <4>1 DEF Unfolds
    <3>3. CASE ~(i <= n)
      <4>1. h[i] = IF i < 10 THEN <<i>> ELSE g[i \div 10] \o <<i % 10>>
        BY <3>3
      <4> HIDE DEF h
      <4> QED
        BY <3>1, <4>1 DEF Unfolds
    <3> QED
      BY <3>2, <3>3
  <2> HIDE DEF h
  <2>6. h \in UpTo(n + 1)
    BY <2>4, <2>5 DEF UpTo
  <2> QED
    BY <2>6
<1> HIDE DEF S
<1>3. Nat \subseteq S
  BY <1>1, <1>2, Induction DEF S
<1> QED
  BY <1>3 DEF S

LEMMA DecimalUnfolds ==
  /\ Decimal \in [Nat -> Seq(Nat)]
  /\ \A n \in Nat : Decimal[n] = IF n < 10 THEN <<n>> ELSE Decimal[n \div 10] \o <<n % 10>>
<1> DEFINE G(n) == CHOOSE g \in UpTo(n) : TRUE
           f == [n \in Nat |-> G(n)[n]]
<1>1. ASSUME NEW n \in Nat
      PROVE  G(n) \in UpTo(n) /\ G(n)[n] \in Seq(Nat) /\ Unfolds(G(n), n)
  <2>1. G(n) \in UpTo(n)
    BY UpToThere
  <2> HIDE DEF G
  <2> QED
    BY <2>1 DEF UpTo
<1>2. ASSUME NEW n \in Nat
      PROVE  f[n] = IF n < 10 THEN <<n>> ELSE f[n \div 10] \o <<n % 10>>
  <2>1. f[n] = G(n)[n]
    OBVIOUS
  <2>2. ASSUME n >= 10 PROVE f[n \div 10] = G(n)[n \div 10]
    <3>1. n \div 10 \in Nat /\ n \div 10 < n
      BY <2>2, Tenth
    <3> DEFINE m == n \div 10
    <3>2. m \in Nat /\ m \in 0..m /\ m <= n /\ f[m] = G(m)[m]
      BY <3>1
    <3> HIDE DEF G, m
    <3>3. G(m)[m] = G(n)[m]
      BY <1>1, <3>2, UpToAgree
    <3> HIDE DEF f
    <3> QED
      BY <3>2, <3>3 DEF m
  <2> HIDE DEF G, f
  <2>3. Unfolds(G(n), n)
    BY <1>1
  <2> QED
    BY <2>1, <2>2, <2>3 DEF Unfolds
<1>3. f \in [Nat -> Seq(Nat)]
  <2> HIDE DEF G
  <2> QED
    BY <1>1
<1>4. f = [n \in Nat |-> IF n < 10 THEN <<n>> ELSE f[n \div 10] \o <<n % 10>>]
  <2>1. f = [n \in Nat |-> f[n]]
    BY <1>3
  <2> HIDE DEF f
  <2> QED
    BY <1>2, <2>1
<1> HIDE DEF f
<1>5. Decimal = [n \in Nat |-> IF n < 10 THEN <<n>> ELSE Decimal[n \div 10] \o <<n % 10>>]
  BY <1>4 DEF Decimal
<1>6. \A n \in Nat : Decimal[n] \in Seq(Nat)
  <2> DEFINE S == {n \in Nat : Decimal[n] \notin Seq(Nat)}
  <2>1. SUFFICES ASSUME S # {} PROVE FALSE
    OBVIOUS
  <2>2. PICK n \in S : \A k \in S : n <= k
    BY <2>1, LeastOf
  <2>3. Decimal[n] = IF n < 10 THEN <<n>> ELSE Decimal[n \div 10] \o <<n % 10>>
    BY <1>5
  <2> HIDE DEF S
  <2>a. n \in Nat /\ Decimal[n] \notin Seq(Nat) /\ \A k \in Nat : k < n => Decimal[k] \in Seq(Nat)
    BY <2>2 DEF S
  <2>4. n >= 10
    <3>1. <<n>> \in Seq(Nat)
      BY <2>a
    <3> QED
      BY <2>a, <2>3, <3>1
  <2>5. n \div 10 \in Nat /\ Decimal[n \div 10] \in Seq(Nat) /\ n % 10 \in Nat
    BY <2>a, <2>4, Tenth
  <2> QED
    BY <2>a, <2>3, <2>4, <2>5
<1> QED
  BY <1>5, <1>6

LEMMA DecimalLength ==
  ASSUME NEW n \in Nat
  PROVE  /\ Decimal[n] \in Seq(Nat) /\ Len(Decimal[n]) >= 1
         /\ n < 10 => Decimal[n] = <<n>>
         /\ n >= 10 => Len(Decimal[n]) >= 2
<1> DEFINE S == {k \in Nat : Len(Decimal[k]) < 1}
<1>1. \A k \in Nat : Decimal[k] \in Seq(Nat) /\ Len(Decimal[k]) \in Nat
  BY DecimalUnfolds
<1>2. ASSUME NEW k \in Nat, k >= 10
      PROVE  Len(Decimal[k]) = Len(Decimal[k \div 10]) + 1
  <2>1. k \div 10 \in Nat /\ k % 10 \in Nat
    BY <1>2, Tenth
  <2>2. Decimal[k] = IF k < 10 THEN <<k>> ELSE Decimal[k \div 10] \o <<k % 10>>
    BY DecimalUnfolds
  <2>3. Decimal[k] = Decimal[k \div 10] \o <<k % 10>>
    BY <1>2, <2>2
  <2> QED
    BY <1>1, <2>1, <2>3
<1>3. S = {}
  <2>1. SUFFICES ASSUME S # {} PROVE FALSE
    OBVIOUS
  <2>2. PICK k \in S : \A m \in S : k <= m
    BY <2>1, LeastOf
  <2> HIDE DEF S
  <2>a. k \in Nat /\ Len(Decimal[k]) < 1 /\ \A m \in Nat : m < k => Len(Decimal[m]) >= 1
    BY <1>1, <2>2 DEF S
  <2>3. CASE k < 10
    <3>1. Decimal[k] = IF k < 10 THEN <<k>> ELSE Decimal[k \div 10] \o <<k % 10>>
      BY <2>a, DecimalUnfolds
    <3> QED
      BY <2>a, <2>3, <3>1
  <2>4. CASE k >= 10
    <3>1. k \div 10 \in Nat /\ k \div 10 < k
      BY <2>4, <2>a, Tenth
    <3>2. Len(Decimal[k \div 10]) \in Nat /\ Len(Decimal[k]) = Len(Decimal[k \div 10]) + 1
      BY <1>1, <1>2, <2>4, <2>a, <3>1
    <3> QED
      BY <2>a, <3>1, <3>2
  <2> QED
    BY <2>3, <2>4, <2>a
<1>4. \A k \in Nat : Len(Decimal[k]) >= 1
  BY SMTT(20), <1>1, <1>3
<1> HIDE DEF S
<1>5. n >= 10 => Len(Decimal[n]) >= 2
  <2> SUFFICES ASSUME n >= 10 PROVE Len(Decimal[n]) >= 2
    OBVIOUS
  <2>1. n \div 10 \in Nat
    BY Tenth
  <2> QED
    BY <1>1, <1>2, <1>4, <2>1
<1>6. Decimal[n] = IF n < 10 THEN <<n>> ELSE Decimal[n \div 10] \o <<n % 10>>
  BY DecimalUnfolds
<1> QED
  BY <1>1, <1>4, <1>5, <1>6

LEMMA DecimalDiffers ==
  ASSUME NEW m \in Nat, NEW n \in Nat, Decimal[m] = Decimal[n]
  PROVE  m = n
<1> DEFINE S == {k \in Nat : \E h \in Nat : Decimal[k] = Decimal[h] /\ k # h}
<1>1. SUFFICES ASSUME S # {} PROVE FALSE
  OBVIOUS
<1>2. PICK k \in S : \A i \in S : k <= i
  BY <1>1, LeastOf
<1>3. PICK h \in Nat : Decimal[k] = Decimal[h] /\ k # h
  OBVIOUS
<1>a. k \in Nat
  OBVIOUS
<1>b. \A i, j \in Nat : i < k /\ Decimal[i] = Decimal[j] => i = j
  BY <1>2, <1>a
<1> HIDE DEF S
<1>4. CASE k < 10
  <2>1. Decimal[k] = <<k>>
    BY <1>4, <1>a, DecimalLength
  <2>2. Len(Decimal[h]) = 1
    <3>1. Len(Decimal[k]) = 1
      BY <2>1
    <3> QED
      BY <1>3, <3>1
  <2>3. Decimal[h] = <<h>>
    <3>1. h >= 10 => Len(Decimal[h]) >= 2
      BY DecimalLength
    <3>2. h < 10
      BY <2>2, <3>1
    <3> QED
      BY <3>2, DecimalLength
  <2>4. <<k>> = <<h>>
    BY <1>3, <2>1, <2>3
  <2> QED
    BY ONLY <1>3, <2>4
<1>5. CASE k >= 10
  <2>1. h >= 10
    <3>1. Len(Decimal[k]) >= 2
      BY <1>5, <1>a, DecimalLength
    <3>2. h < 10 => Decimal[h] = <<h>>
      BY DecimalLength
    <3>3. Decimal[h] = <<h>> => Len(Decimal[h]) = 1
      OBVIOUS
    <3>4. Len(Decimal[h]) >= 2
      BY <1>3, <3>1
    <3>5. h < 10 \/ h >= 10
      BY <1>3
    <3>6. CASE h < 10
      <4>1. Len(Decimal[h]) = 1
        BY <3>2, <3>3, <3>6
      <4> QED
        BY <3>4, <4>1
    <3> QED
      BY <3>5, <3>6
  <2> DEFINE k1 == k \div 10  k2 == k % 10  h1 == h \div 10  h2 == h % 10
  <2>2. /\ k1 \in Nat /\ k1 < k /\ k2 \in Nat /\ k = 10 * k1 + k2
        /\ h1 \in Nat /\ h1 < h /\ h2 \in Nat /\ h = 10 * h1 + h2
    BY <1>3, <1>5, <1>a, <2>1, Tenth
  <2>a. /\ Decimal[k] = IF k < 10 THEN <<k>> ELSE Decimal[k1] \o <<k2>>
        /\ Decimal[h] = IF h < 10 THEN <<h>> ELSE Decimal[h1] \o <<h2>>
    BY <1>3, <1>a, DecimalUnfolds
  <2>b. ~(k < 10) /\ ~(h < 10)
    BY <1>5, <1>a, <2>1
  <2>3. Decimal[k] = Decimal[k1] \o <<k2>> /\ Decimal[h] = Decimal[h1] \o <<h2>>
    BY <2>a, <2>b
  <2> HIDE DEF k1, k2, h1, h2
  <2>4. Decimal[k1] \in Seq(Nat) /\ Decimal[h1] \in Seq(Nat)
    BY <2>2, DecimalUnfolds
  <2>5. Decimal[k1] = Decimal[h1] /\ k2 = h2
    <3> DEFINE s == Decimal[k1]  t == Decimal[h1]  u == s \o <<k2>>  v == t \o <<h2>>
    <3>1. u = v
      BY <1>3, <2>3
    <3>2. s \in Seq(Nat) /\ t \in Seq(Nat) /\ k2 \in Nat /\ h2 \in Nat
      BY <2>2, <2>4
    <3> HIDE DEF s, t
    <3>3. /\ Len(s) \in Nat /\ Len(u) = Len(s) + 1 /\ u[Len(s) + 1] = k2
          /\ \A i \in 1..Len(s) : u[i] = s[i]
      BY <3>2
    <3>4. /\ Len(t) \in Nat /\ Len(v) = Len(t) + 1 /\ v[Len(t) + 1] = h2
          /\ \A i \in 1..Len(t) : v[i] = t[i]
      BY <3>2
    <3> HIDE DEF u, v
    <3>5. Len(s) = Len(t)
      BY <3>1, <3>3, <3>4
    <3>6. k2 = h2 /\ \A i \in 1..Len(s) : s[i] = t[i]
      BY <3>1, <3>3, <3>4, <3>5
    <3>7. s = t
      <4>1. s = [i \in 1..Len(s) |-> s[i]] /\ t = [i \in 1..Len(t) |-> t[i]]
        BY <3>2
      <4> QED
        BY <3>5, <3>6, <4>1
    <3> QED
      BY <3>6, <3>7 DEF s, t
  <2>6. k1 = h1
    BY <1>b, <1>a, <2>2, <2>5
  <2> QED
    BY <1>3, <2>2, <2>5, <2>6
<1> QED
  BY <1>4, <1>5, <1>a
-----------------------------------------------------------------------------
(* Trees.                                                                  *)

LEMMA GreatestOf ==
  ASSUME NEW S \in SUBSET Nat, S # {}, NEW n \in Nat, \A k \in S : k <= n
  PROVE  \E m \in S : \A k \in S : k <= m
<1> DEFINE R == {d \in Nat : n - d \in S}
<1>1. PICK k \in S : TRUE
  OBVIOUS
<1>2. n - k \in Nat /\ n - (n - k) = k
  BY <1>1
<1>3. n - k \in R
  BY <1>1, <1>2
<1>4. PICK d \in R : \A e \in R : d <= e
  BY <1>3, LeastOf
<1>5. d \in Nat /\ n - d \in S
  BY <1>4
<1>6. ASSUME NEW j \in S PROVE j <= n - d
  <2>1. j \in Nat /\ n - j \in Nat /\ n - (n - j) = j
    BY <1>6
  <2>2. n - j \in R
    BY <1>6, <2>1
  <2> HIDE DEF R
  <2>3. d <= n - j
    BY <1>4, <2>2
  <2> QED
    BY <1>5, <2>1, <2>3
<1> QED
  BY <1>5, <1>6

(* What a tree says of one of its nodes.                                   *)
LEMMA NodeOf ==
  ASSUME NEW t, IsTree(t), NEW i \in DOMAIN t
  PROVE  /\ Len(t) \in Nat /\ DOMAIN t = 1..Len(t) /\ i \in Nat /\ i >= 1 /\ i <= Len(t)
         /\ t[i] \in Nodes /\ t[i].kids \in Seq(Nat) /\ t[i].last \in Nat
         /\ t[i].lacks \in BOOLEAN /\ t[i].kind \in Kinds
         /\ Len(t[i].kids) \in Nat /\ DOMAIN t[i].kids = 1..Len(t[i].kids)
         /\ i <= t[i].last /\ t[i].last <= Len(t)
         /\ \A c \in DOMAIN t[i].kids : t[i].kids[c] \in DOMAIN t
                                        /\ t[t[i].kids[c]].kind \in Member(t[i].kind, c)
<1>1. Len(t) \in Nat /\ DOMAIN t = 1..Len(t) /\ t[i] \in Nodes
  BY DEF IsTree
<1>2. t[i].kids \in Seq(Nat) /\ t[i].last \in Nat /\ t[i].lacks \in BOOLEAN /\ t[i].kind \in Kinds
  BY <1>1 DEF Nodes
<1>3. Len(t[i].kids) \in Nat /\ DOMAIN t[i].kids = 1..Len(t[i].kids)
  BY <1>2
<1>4. t[i].last \in i..Len(t)
  BY DEF IsTree, Follows
<1>5. \A c \in DOMAIN t[i].kids : t[i].kids[c] \in DOMAIN t
                                  /\ t[t[i].kids[c]].kind \in Member(t[i].kind, c)
  BY DEF IsTree, Parsed
<1> QED
  BY <1>1, <1>2, <1>3, <1>4, <1>5

LEMMA KidsFollow ==
  ASSUME NEW t, IsTree(t), NEW i \in DOMAIN t
  PROVE  /\ DOMAIN t[i].kids = {} => t[i].last = i
         /\ DOMAIN t[i].kids # {} =>
              /\ 1 \in DOMAIN t[i].kids /\ t[i].kids[1] = i + 1
              /\ Len(t[i].kids) \in DOMAIN t[i].kids
              /\ t[t[i].kids[Len(t[i].kids)]].last = t[i].last
         /\ \A c \in DOMAIN t[i].kids :
              c # 1 => c - 1 \in DOMAIN t[i].kids /\ t[i].kids[c] = t[t[i].kids[c - 1]].last + 1
<1> DEFINE kids == t[i].kids
<1>1. Len(kids) \in Nat /\ DOMAIN kids = 1..Len(kids)
  BY NodeOf
<1>2. /\ \A c \in 1..Len(kids) : kids[c] = IF c = 1 THEN i + 1 ELSE t[kids[c - 1]].last + 1
      /\ t[i].last = IF Len(kids) = 0 THEN i ELSE t[kids[Len(kids)]].last
  BY DEF IsTree, Follows
<1> HIDE DEF kids
<1>3. DOMAIN kids = {} => t[i].last = i
  BY <1>1, <1>2
<1>4. DOMAIN kids # {} => /\ 1 \in DOMAIN kids /\ kids[1] = i + 1 /\ Len(kids) \in DOMAIN kids
                          /\ t[kids[Len(kids)]].last = t[i].last
  BY <1>1, <1>2
<1>5. \A c \in DOMAIN kids : c # 1 => c - 1 \in DOMAIN kids /\ kids[c] = t[kids[c - 1]].last + 1
  BY <1>1, <1>2
<1> QED
  BY <1>3, <1>4, <1>5 DEF kids

LEMMA KidsInOrder ==
  ASSUME NEW t, IsTree(t), NEW i \in DOMAIN t,
         NEW c \in DOMAIN t[i].kids, NEW d \in DOMAIN t[i].kids, c < d
  PROVE  t[t[i].kids[c]].last < t[i].kids[d]
<1> DEFINE kids == t[i].kids
           end(b) == t[kids[b]].last
           S == {b \in DOMAIN kids : c < b /\ ~(end(c) < kids[b])}
<1>1. Len(kids) \in Nat /\ DOMAIN kids = 1..Len(kids)
  BY NodeOf
<1>2. \A b \in DOMAIN kids : kids[b] \in Nat /\ end(b) \in Nat /\ kids[b] <= end(b)
  <2> TAKE b \in DOMAIN kids
  <2>1. kids[b] \in DOMAIN t
    BY NodeOf
  <2> QED
    BY <2>1, NodeOf
<1>3. \A b \in DOMAIN kids : b # 1 => b - 1 \in DOMAIN kids /\ kids[b] = end(b - 1) + 1
  BY KidsFollow
<1> HIDE DEF kids, end
<1>4. SUFFICES ASSUME S # {} PROVE FALSE
  BY DEF kids, end
<1>5. S \in SUBSET Nat
  BY <1>1
<1>6. PICK b \in S : \A a \in S : b <= a
  BY <1>4, <1>5, LeastOf
<1>7. b \in DOMAIN kids /\ c < b /\ ~(end(c) < kids[b]) /\ b \in Nat /\ c \in Nat /\ c \in DOMAIN kids
  BY <1>1, <1>6 DEF kids
<1>8. b - 1 \in DOMAIN kids /\ kids[b] = end(b - 1) + 1 /\ b - 1 \in Nat
  BY <1>1, <1>3, <1>7
<1>9. c # b - 1 => end(c) < kids[b - 1]
  BY <1>1, <1>6, <1>7, <1>8
<1> HIDE DEF S
<1>10. CASE c = b - 1
  BY <1>2, <1>7, <1>8, <1>10
<1>11. CASE c # b - 1
  <2>1. /\ kids[b - 1] \in Nat /\ end(b - 1) \in Nat /\ kids[b - 1] <= end(b - 1)
        /\ end(c) \in Nat /\ kids[b] \in Nat
    BY <1>2, <1>7, <1>8
  <2> QED
    BY <1>7, <1>8, <1>9, <1>11, <2>1
<1> QED
  BY <1>10, <1>11

LEMMA KidsWithin ==
  ASSUME NEW t, IsTree(t), NEW i \in DOMAIN t, NEW c \in DOMAIN t[i].kids
  PROVE  /\ t[i].kids[c] \in DOMAIN t
         /\ i < t[i].kids[c] /\ t[t[i].kids[c]].last <= t[i].last
<1> DEFINE kids == t[i].kids
           end(b) == t[kids[b]].last
<1>1. Len(kids) \in Nat /\ DOMAIN kids = 1..Len(kids) /\ i \in Nat
  BY NodeOf
<1>2. \A b \in DOMAIN kids : kids[b] \in DOMAIN t /\ kids[b] \in Nat /\ end(b) \in Nat /\ kids[b] <= end(b)
  <2> TAKE b \in DOMAIN kids
  <2>1. kids[b] \in DOMAIN t
    BY NodeOf
  <2> QED
    BY <2>1, NodeOf
<1>3. 1 \in DOMAIN kids /\ kids[1] = i + 1 /\ Len(kids) \in DOMAIN kids /\ end(Len(kids)) = t[i].last
  BY KidsFollow
<1>4. \A a, b \in DOMAIN kids : a < b => end(a) < kids[b]
  BY KidsInOrder
<1>5. c \in DOMAIN kids
  OBVIOUS
<1> HIDE DEF kids, end
<1>6. i < kids[c]
  <2>1. c = 1 \/ 1 < c
    BY <1>1, <1>5
  <2>2. kids[1] \in Nat /\ end(1) \in Nat /\ kids[1] <= end(1) /\ kids[c] \in Nat
    BY <1>2, <1>3, <1>5
  <2>3. 1 < c => end(1) < kids[c]
    BY <1>3, <1>4, <1>5
  <2> QED
    BY <1>1, <1>3, <2>1, <2>2, <2>3
<1>7. end(c) <= t[i].last
  <2> DEFINE k == Len(kids)
  <2>1. c = k \/ c < k
    BY <1>1, <1>5
  <2>2. kids[k] \in Nat /\ end(k) \in Nat /\ kids[k] <= end(k) /\ end(c) \in Nat
    BY <1>2, <1>3, <1>5
  <2>3. c < k => end(c) < kids[k]
    BY <1>3, <1>4, <1>5
  <2> HIDE DEF k
  <2>4. end(c) <= end(k)
    BY <2>1, <2>2, <2>3
  <2> QED
    BY <1>3, <2>4 DEF k
<1> QED
  BY <1>2, <1>5, <1>6, <1>7 DEF kids, end

LEMMA KidsCover ==
  ASSUME NEW t, IsTree(t), NEW i \in DOMAIN t, NEW j \in Nat, i < j, j <= t[i].last
  PROVE  \E c \in DOMAIN t[i].kids : t[i].kids[c] <= j /\ j <= t[t[i].kids[c]].last
<1> DEFINE kids == t[i].kids
           end(b) == t[kids[b]].last
           S == {b \in DOMAIN kids : j <= end(b)}
<1>1. Len(kids) \in Nat /\ DOMAIN kids = 1..Len(kids) /\ i \in Nat
  BY NodeOf
<1>2. \A b \in DOMAIN kids : kids[b] \in Nat /\ end(b) \in Nat
  <2> TAKE b \in DOMAIN kids
  <2>1. kids[b] \in DOMAIN t
    BY NodeOf
  <2> QED
    BY <2>1, NodeOf
<1>3. DOMAIN kids = {} => t[i].last = i
  BY KidsFollow
<1>4. DOMAIN kids # {} =>
       1 \in DOMAIN kids /\ kids[1] = i + 1 /\ Len(kids) \in DOMAIN kids /\ end(Len(kids)) = t[i].last
  BY KidsFollow
<1>5. \A b \in DOMAIN kids : b # 1 => b - 1 \in DOMAIN kids /\ kids[b] = end(b - 1) + 1
  BY KidsFollow
<1> HIDE DEF kids, end
<1>6. DOMAIN kids # {}
  BY <1>1, <1>3
<1>7. S \in SUBSET Nat /\ Len(kids) \in S
  BY <1>1, <1>4, <1>6
<1>8. PICK c \in S : \A a \in S : c <= a
  BY <1>7, LeastOf
<1>9. c \in DOMAIN kids /\ j <= end(c) /\ c \in Nat /\ kids[c] \in Nat
  BY <1>1, <1>2, <1>8
<1>10. c # 1 => ~(j <= end(c - 1)) /\ c - 1 \in DOMAIN kids
  BY <1>1, <1>5, <1>8, <1>9
<1> HIDE DEF S
<1>11. kids[c] <= j
  <2>1. CASE c = 1
    BY <1>1, <1>4, <1>6, <2>1
  <2>2. CASE c # 1
    <3>1. kids[c] = end(c - 1) + 1 /\ end(c - 1) \in Nat /\ ~(j <= end(c - 1))
      BY <1>2, <1>5, <1>9, <1>10, <2>2
    <3> QED
      BY <3>1
  <2> QED
    BY <2>1, <2>2
<1> QED
  BY <1>9, <1>11 DEF kids, end

(* What begins below a node ends below it.                                 *)
LEMMA Nested ==
  ASSUME NEW t, IsTree(t), NEW i \in DOMAIN t, NEW j \in DOMAIN t, i < j, j <= t[i].last
  PROVE  t[j].last <= t[i].last
<1> DEFINE S == {k \in DOMAIN t : \E h \in DOMAIN t : k < h /\ h <= t[k].last
                                                      /\ ~(t[h].last <= t[k].last)}
<1>1. SUFFICES ASSUME S # {} PROVE FALSE
  OBVIOUS
<1>2. Len(t) \in Nat /\ DOMAIN t = 1..Len(t)
  BY NodeOf
<1>3. S \in SUBSET Nat /\ \A k \in S : k <= Len(t)
  BY <1>2
<1>4. PICK k \in S : \A h \in S : h <= k
  BY <1>1, <1>2, <1>3, GreatestOf
<1>5. k \in DOMAIN t
  BY <1>4
<1>6. PICK h \in DOMAIN t : k < h /\ h <= t[k].last /\ ~(t[h].last <= t[k].last)
  BY <1>4
<1>7. \A a, b \in DOMAIN t : k < a /\ a < b /\ b <= t[a].last => t[b].last <= t[a].last
  <2> SUFFICES ASSUME NEW a \in DOMAIN t, NEW b \in DOMAIN t,
                      k < a, a < b, b <= t[a].last, ~(t[b].last <= t[a].last)
               PROVE  FALSE
    OBVIOUS
  <2>1. a \in S
    OBVIOUS
  <2> HIDE DEF S
  <2>2. a \in Nat /\ k \in Nat
    BY <1>2, <1>5
  <2> QED
    BY <1>4, <2>1, <2>2
<1> HIDE DEF S
<1>8. h \in Nat /\ t[h].last \in Nat /\ k \in Nat /\ t[k].last \in Nat
  BY <1>5, <1>6, NodeOf
<1>9. PICK c \in DOMAIN t[k].kids : t[k].kids[c] <= h /\ h <= t[t[k].kids[c]].last
  BY <1>5, <1>6, <1>8, KidsCover
<1> DEFINE a == t[k].kids[c]
<1>10. a \in DOMAIN t /\ k < a /\ t[a].last <= t[k].last
  BY <1>5, <1>9, KidsWithin
<1>11. a \in Nat /\ t[a].last \in Nat /\ a <= h /\ h <= t[a].last
  BY <1>9, <1>10, NodeOf
<1> HIDE DEF a
<1>12. a < h => t[h].last <= t[a].last
  BY <1>6, <1>7, <1>10, <1>11
<1>13. a = h => t[h].last <= t[k].last
  BY <1>10
<1> QED
  BY <1>6, <1>8, <1>10, <1>11, <1>12, <1>13

LEMMA KidKind ==
  ASSUME NEW t, IsTree(t), NEW i \in DOMAIN t, NEW c \in DOMAIN t[i].kids
  PROVE  /\ t[t[i].kids[c]].kind # "Program"
         /\ t[i].kind # "Program" => t[t[i].kids[c]].kind # "FunctionDef"
<1>1. t[t[i].kids[c]].kind \in Member(t[i].kind, c) /\ t[i].kind \in Kinds
  BY NodeOf
<1> DEFINE kind == t[i].kind  inner == t[t[i].kids[c]].kind
<1>2. inner \in Member(kind, c) /\ kind \in Kinds
  BY <1>1
<1> HIDE DEF kind, inner
<1>3. inner # "Program" /\ (kind # "Program" => inner # "FunctionDef")
  BY <1>2 DEF Member, Kinds, Exprs, Stmts
<1> QED
  BY <1>3 DEF kind, inner
-----------------------------------------------------------------------------
(* The nodes of the program, and the vertices of the graph.                *)

LEMMA Root ==
  ASSUME IsTree(tree)
  PROVE  /\ 1 \in DOMAIN tree /\ tree[1].kind = "Program" /\ tree[1].last = Len(tree)
         /\ Len(tree) \in Nat /\ DOMAIN tree = 1..Len(tree)
<1>1. tree \in Seq(Nodes) /\ tree # <<>> /\ tree[1].kind = "Program" /\ tree[1].last = Len(tree)
  BY DEF IsTree
<1>2. Len(tree) \in Nat /\ DOMAIN tree = 1..Len(tree) /\ Len(tree) # 0
  BY <1>1
<1> QED
  BY <1>1, <1>2

LEMMA TopsAre ==
  ASSUME IsTree(tree)
  PROVE  /\ \A j \in Tops : j \in DOMAIN tree /\ j \in Nat /\ j > 1 /\ tree[j].last \in Nat
                           /\ j <= tree[j].last
         /\ \A i, j \in Tops : i < j => tree[i].last < j
         /\ \A i \in DOMAIN tree : i # 1 => \E j \in Tops : j <= i /\ i <= tree[j].last
<1>1. 1 \in DOMAIN tree
  BY Root
<1>2. ASSUME NEW j \in Tops
      PROVE  j \in DOMAIN tree /\ j \in Nat /\ j > 1 /\ tree[j].last \in Nat /\ j <= tree[j].last
  <2>1. PICK c \in DOMAIN tree[1].kids : j = tree[1].kids[c]
    BY DEF Tops
  <2>2. j \in DOMAIN tree /\ 1 < j
    BY <1>1, <2>1, KidsWithin
  <2> QED
    BY <2>2, NodeOf
<1>3. ASSUME NEW i \in Tops, NEW j \in Tops, i < j PROVE tree[i].last < j
  <2>1. PICK c \in DOMAIN tree[1].kids : i = tree[1].kids[c]
    BY DEF Tops
  <2>2. PICK d \in DOMAIN tree[1].kids : j = tree[1].kids[d]
    BY DEF Tops
  <2>3. DOMAIN tree[1].kids = 1..Len(tree[1].kids) /\ Len(tree[1].kids) \in Nat
    BY <1>1, NodeOf
  <2>4. c < d \/ d < c \/ c = d
    BY <2>3
  <2>5. c < d => tree[i].last < j
    BY <1>1, <2>1, <2>2, KidsInOrder
  <2>6. d < c => tree[j].last < i
    BY <1>1, <2>1, <2>2, KidsInOrder
  <2> QED
    BY <1>2, <1>3, <2>1, <2>2, <2>4, <2>5, <2>6
<1>4. ASSUME NEW i \in DOMAIN tree, i # 1 PROVE \E j \in Tops : j <= i /\ i <= tree[j].last
  <2>1. i \in Nat /\ 1 < i /\ i <= tree[1].last
    BY <1>4, Root
  <2>2. PICK c \in DOMAIN tree[1].kids : tree[1].kids[c] <= i /\ i <= tree[tree[1].kids[c]].last
    BY <1>1, <2>1, KidsCover
  <2>3. tree[1].kids[c] \in Tops
    BY DEF Tops
  <2> QED
    BY <2>2, <2>3
<1> QED
  BY <1>2, <1>3, <1>4

LEMMA NoTopBelow ==
  ASSUME IsTree(tree), NEW i \in DOMAIN tree, i # 1, NEW j \in Tops, i < j
  PROVE  tree[i].last < j
<1>1. PICK k \in Tops : k <= i /\ i <= tree[k].last
  BY TopsAre
<1>2. k \in DOMAIN tree /\ k \in Nat /\ tree[k].last \in Nat /\ j \in Nat
  BY TopsAre
<1>3. i \in Nat /\ tree[i].last \in Nat
  BY NodeOf
<1>4. k < j
  BY <1>1, <1>2, <1>3
<1>5. tree[k].last < j
  BY <1>4, TopsAre
<1>6. k < i => tree[i].last <= tree[k].last
  BY <1>1, <1>2, Nested
<1> QED
  BY <1>1, <1>2, <1>3, <1>5, <1>6

(* What is around the child of a node that is not the program.             *)
LEMMA AroundKid ==
  ASSUME IsTree(tree), NEW i \in DOMAIN tree, i # 1, NEW c \in DOMAIN tree[i].kids
  PROVE  Around(tree[i].kids[c])
           = Around(i) \cup (IF i \in Drawn THEN {NodeVertex(i)} ELSE {})
<1> DEFINE j == tree[i].kids[c]
<1>1. j \in DOMAIN tree /\ i < j /\ tree[j].last <= tree[i].last
  BY KidsWithin
<1>2. /\ j \in Nat /\ tree[j].last \in Nat /\ j <= tree[j].last
      /\ i \in Nat /\ i >= 1 /\ tree[i].last \in Nat
  BY <1>1, NodeOf
<1>3. ASSUME NEW k \in DOMAIN tree
      PROVE  k < j /\ j <= tree[k].last <=> (k < i /\ i <= tree[k].last) \/ k = i
  <2>1. k \in Nat /\ tree[k].last \in Nat
    BY NodeOf
  <2>2. ASSUME k < i, i <= tree[k].last PROVE k < j /\ j <= tree[k].last
    <3>1. tree[i].last <= tree[k].last
      BY <2>2, Nested
    <3> HIDE DEF j
    <3> QED
      BY <1>1, <1>2, <2>1, <2>2, <3>1
  <2>3. k = i => k < j /\ j <= tree[k].last
    <3> HIDE DEF j
    <3> QED
      BY <1>1, <1>2
  <2>4. ASSUME k < j, j <= tree[k].last, i < k PROVE FALSE
    <3>1. k <= tree[i].last
      <4> HIDE DEF j
      <4> QED
        BY <1>1, <1>2, <2>1, <2>4
    <3>2. PICK d \in DOMAIN tree[i].kids :
            tree[i].kids[d] <= k /\ k <= tree[tree[i].kids[d]].last
      BY <2>1, <2>4, <3>1, KidsCover
    <3> DEFINE h == tree[i].kids[d]
    <3>3. h \in DOMAIN tree /\ h <= k /\ k <= tree[h].last
      BY <3>2, KidsWithin
    <3>4. h \in Nat /\ tree[h].last \in Nat
      BY <3>3, NodeOf
    <3>5. h < k => tree[k].last <= tree[h].last
      BY <3>3, Nested
    <3>6. DOMAIN tree[i].kids = 1..Len(tree[i].kids) /\ Len(tree[i].kids) \in Nat
      BY NodeOf
    <3>7. c < d \/ d < c \/ c = d
      BY <3>6
    <3>8. c < d => tree[j].last < h
      BY KidsInOrder
    <3>9. d < c => tree[h].last < j
      BY KidsInOrder
    <3>10. c = d => h = j
      OBVIOUS
    <3> HIDE DEF j, h
    <3> QED
      BY <1>1, <1>2, <2>1, <2>4, <3>3, <3>4, <3>5, <3>7, <3>8, <3>9, <3>10
  <2> HIDE DEF j
  <2> QED
    BY <1>1, <1>2, <2>1, <2>2, <2>3, <2>4
<1>4. ASSUME NEW k \in Tops
      PROVE  k <= j /\ j <= tree[k].last <=> k <= i /\ i <= tree[k].last
  <2>1. k \in Nat /\ tree[k].last \in Nat /\ k \in DOMAIN tree
    BY TopsAre
  <2>2. i < k => tree[i].last < k
    BY NoTopBelow
  <2>3. k < i /\ i <= tree[k].last => tree[i].last <= tree[k].last
    BY <2>1, Nested
  <2> HIDE DEF j
  <2> QED
    BY <1>1, <1>2, <2>1, <2>2, <2>3
<1> HIDE DEF j
<1> DEFINE In1 == {k \in Drawn : k < j /\ j <= tree[k].last}
           In2 == {k \in Drawn : k < i /\ i <= tree[k].last}
<1>5. Drawn \subseteq DOMAIN tree
  BY DEF Drawn
<1>6. In1 = In2 \cup (IF i \in Drawn THEN {i} ELSE {})
  BY <1>3, <1>5
<1>7. {k \in Tops : k <= j /\ j <= tree[k].last} = {k \in Tops : k <= i /\ i <= tree[k].last}
  BY <1>4
<1> HIDE DEF In1, In2
<1>8. {NodeVertex(k) : k \in In1} =
        {NodeVertex(k) : k \in In2} \cup (IF i \in Drawn THEN {NodeVertex(i)} ELSE {})
  BY <1>6
<1>9. Around(j) = {NodeVertex(k) : k \in In1}
                  \cup {StatementVertex(k) : k \in {h \in Tops : h <= j /\ j <= tree[h].last}}
  BY DEF Around, In1
<1>10. Around(i) = {NodeVertex(k) : k \in In2}
                  \cup {StatementVertex(k) : k \in {h \in Tops : h <= i /\ i <= tree[h].last}}
  BY DEF Around, In2
<1>11. Around(j) = Around(i) \cup (IF i \in Drawn THEN {NodeVertex(i)} ELSE {})
  BY <1>7, <1>8, <1>9, <1>10
<1> QED
  BY <1>11 DEF j

LEMMA AroundTop ==
  ASSUME IsTree(tree), NEW j \in Tops
  PROVE  Around(j) = {StatementVertex(j)}
<1>1. j \in Nat /\ tree[j].last \in Nat /\ j <= tree[j].last /\ j > 1 /\ j \in DOMAIN tree
  BY TopsAre
<1>2. {k \in Drawn : k < j /\ j <= tree[k].last} = {}
  <2> SUFFICES ASSUME NEW k \in Drawn, k < j, j <= tree[k].last PROVE FALSE
    OBVIOUS
  <2>1. k \in DOMAIN tree /\ k # 1
    BY Root DEF Drawn, InnerKinds, LeafKinds
  <2>2. tree[k].last < j
    BY <2>1, NoTopBelow
  <2>3. tree[k].last \in Nat
    BY <2>1, NodeOf
  <2> QED
    BY <1>1, <2>2, <2>3
<1>3. ASSUME NEW k \in Tops PROVE k <= j /\ j <= tree[k].last <=> k = j
  <2>1. k \in Nat /\ tree[k].last \in Nat
    BY TopsAre
  <2>2. k < j => tree[k].last < j
    BY TopsAre
  <2> QED
    BY <1>1, <2>1, <2>2
<1>4. {k \in Tops : k <= j /\ j <= tree[k].last} = {j}
  BY <1>3
<1> QED
  BY <1>2, <1>4 DEF Around

LEMMA VerticesAre ==
  ASSUME IsTree(tree)
  PROVE  /\ Vertices \subseteq 1..(2 * Len(tree)) /\ IsFiniteSet(Vertices)
         /\ Vertices \subseteq Nat /\ Drawn \subseteq DOMAIN tree /\ Drawn \cap {1} = {}
         /\ \A i \in DOMAIN tree : NodeVertex(i) \in Vertices <=> i \in Drawn
         /\ \A i \in DOMAIN tree : StatementVertex(i) \in Vertices <=> i \in Tops
         /\ \A v \in Vertices : \/ \E i \in Drawn : v = NodeVertex(i)
                               \/ \E i \in Tops : v = StatementVertex(i)
<1>1. Len(tree) \in Nat /\ DOMAIN tree = 1..Len(tree) /\ tree[1].kind = "Program"
  BY Root
<1>2. Drawn \subseteq DOMAIN tree /\ Drawn \cap {1} = {}
  BY <1>1 DEF Drawn, InnerKinds, LeafKinds
<1>3. Tops \subseteq DOMAIN tree
  BY TopsAre
<1>4. \A v \in Vertices : \/ \E i \in Drawn : v = NodeVertex(i)
                        \/ \E i \in Tops : v = StatementVertex(i)
  BY DEF Vertices
<1>5. Vertices \subseteq 1..(2 * Len(tree)) /\ Vertices \subseteq Nat
  <2> SUFFICES ASSUME NEW v \in Vertices PROVE v \in 1..(2 * Len(tree))
    BY <1>1
  <2>1. PICK i \in DOMAIN tree : v = NodeVertex(i) \/ v = StatementVertex(i)
    BY <1>2, <1>3, <1>4
  <2>2. i \in Nat /\ i >= 1 /\ i <= Len(tree)
    BY <1>1
  <2> QED
    BY <1>1, <2>1, <2>2 DEF NodeVertex, StatementVertex
<1>6. IsFiniteSet(Vertices)
  <2>1. IsFiniteSet(1..(2 * Len(tree)))
    BY <1>1, FS_Interval
  <2> QED
    BY <1>5, <2>1, FS_Subset
<1>7. \A i \in DOMAIN tree : NodeVertex(i) \in Vertices <=> i \in Drawn
  <2> SUFFICES ASSUME NEW i \in DOMAIN tree, NodeVertex(i) \in Vertices PROVE i \in Drawn
    BY DEF Vertices
  <2>1. PICK j \in Drawn \cup Tops : \/ j \in Drawn /\ NodeVertex(i) = NodeVertex(j)
                                     \/ j \in Tops /\ NodeVertex(i) = StatementVertex(j)
    <3>1. \/ \E j \in Drawn : NodeVertex(i) = NodeVertex(j)
          \/ \E j \in Tops : NodeVertex(i) = StatementVertex(j)
      BY <1>4
    <3> QED
      BY <3>1
  <2>2. i \in Nat /\ j \in Nat
    BY <1>1, <1>2, <1>3
  <2>3. i = j /\ j \in Drawn
    BY <2>1, <2>2 DEF NodeVertex, StatementVertex
  <2> QED
    BY <2>3
<1>8. \A i \in DOMAIN tree : StatementVertex(i) \in Vertices <=> i \in Tops
  <2> SUFFICES ASSUME NEW i \in DOMAIN tree, StatementVertex(i) \in Vertices PROVE i \in Tops
    BY DEF Vertices
  <2>1. PICK j \in Drawn \cup Tops : \/ j \in Drawn /\ StatementVertex(i) = NodeVertex(j)
                                     \/ j \in Tops /\ StatementVertex(i) = StatementVertex(j)
    <3>1. \/ \E j \in Drawn : StatementVertex(i) = NodeVertex(j)
          \/ \E j \in Tops : StatementVertex(i) = StatementVertex(j)
      BY <1>4
    <3> QED
      BY <3>1
  <2>2. i \in Nat /\ j \in Nat
    BY <1>1, <1>2, <1>3
  <2>3. i = j /\ j \in Tops
    BY <2>1, <2>2 DEF NodeVertex, StatementVertex
  <2> QED
    BY <2>3
<1> QED
  BY <1>2, <1>4, <1>5, <1>6, <1>7, <1>8

(* How many vertices come before the number f.                             *)
Before(f) == Cardinality({u \in Vertices : u < f})

LEMMA BeforeType ==
  ASSUME IsTree(tree), NEW f \in Nat
  PROVE  Before(f) \in Nat /\ IsFiniteSet({u \in Vertices : u < f})
<1>1. IsFiniteSet({u \in Vertices : u < f})
  BY VerticesAre, FS_Subset
<1> QED
  BY <1>1, FS_CardinalityType DEF Before

LEMMA BeforeNext ==
  ASSUME IsTree(tree), NEW f \in Nat, NEW g \in Nat, NEW v \in Vertices, f <= v, v < g,
         \A u \in Vertices : u < g => u < f \/ u = v
  PROVE  Before(g) = Before(f) + 1 /\ Before(v) = Before(f)
<1>1. Vertices \subseteq Nat
  BY VerticesAre
<1>a. /\ \A u \in Vertices : u < g <=> u < f \/ u = v
      /\ \A u \in Vertices : u < v <=> u < f
  <2> SUFFICES ASSUME NEW u \in Vertices
               PROVE  (u < g <=> u < f \/ u = v) /\ (u < v <=> u < f)
    OBVIOUS
  <2>1. u \in Nat /\ v \in Nat
    BY <1>1
  <2>2. u < g => u < f \/ u = v
    OBVIOUS
  <2> QED
    BY <2>1, <2>2
<1>2. {u \in Vertices : u < g} = {u \in Vertices : u < f} \cup {v}
  BY <1>a
<1>3. v \notin {u \in Vertices : u < f}
  BY <1>1
<1>4. IsFiniteSet({u \in Vertices : u < f})
  BY BeforeType
<1>5. {u \in Vertices : u < v} = {u \in Vertices : u < f}
  BY <1>a
<1>6. Before(v) = Before(f)
  BY <1>5 DEF Before
<1> DEFINE F == {u \in Vertices : u < f}
<1> HIDE DEF F
<1>7. Cardinality(F \cup {v}) = Cardinality(F) + 1
  BY <1>3, <1>4, FS_AddElement DEF F
<1> QED
  BY <1>2, <1>6, <1>7 DEF Before, F

LEMMA BeforeSame ==
  ASSUME IsTree(tree), NEW f \in Nat, NEW g \in Nat,
         \A u \in Vertices : u < g <=> u < f
  PROVE  Before(g) = Before(f)
<1>1. {u \in Vertices : u < g} = {u \in Vertices : u < f}
  OBVIOUS
<1> QED
  BY <1>1 DEF Before

LEMMA BeforeLess ==
  ASSUME IsTree(tree), NEW f \in Nat, NEW v \in Vertices, v < f
  PROVE  Before(v) < Before(f) /\ Place(v) = Before(v) + 1 /\ Before(v) \in Nat
<1>1. v \in Nat
  BY VerticesAre
<1> DEFINE F == {u \in Vertices : u < f}
           V == {u \in Vertices : u < v}
<1>2. V \subseteq F /\ v \in F /\ v \notin V
  <2>1. Vertices \subseteq Nat
    BY VerticesAre
  <2>2. ASSUME NEW u \in Vertices, u < v PROVE u < f
    BY <1>1, <2>1, <2>2
  <2>3. v < v => FALSE
    BY <1>1
  <2> QED
    BY <2>2, <2>3
<1>3. IsFiniteSet(F) /\ IsFiniteSet(V) /\ Cardinality(F) \in Nat /\ Cardinality(V) \in Nat
  BY <1>1, BeforeType, FS_CardinalityType
<1>4. Before(v) = Cardinality(V) /\ Before(f) = Cardinality(F) /\ Place(v) = Before(v) + 1
  <2>1. Place(v) = 1 + Before(v)
    BY DEF Place, Before
  <2> QED
    BY <1>1, <2>1, BeforeType DEF Before
<1> HIDE DEF F, V
<1>5. Cardinality(V \cup {v}) = Cardinality(V) + 1
  BY <1>2, <1>3, FS_AddElement
<1>6. V \cup {v} \subseteq F
  BY <1>2
<1>7. Cardinality(V \cup {v}) <= Cardinality(F)
  BY <1>3, <1>6, FS_Subset
<1> QED
  BY <1>3, <1>4, <1>5, <1>7

(* There is a vertex around every node but the program, and all of them    *)
(* come before the vertex of the node.                                     *)
LEMMA AroundIs ==
  ASSUME IsTree(tree), NEW i \in DOMAIN tree, i # 1
  PROVE  /\ Around(i) \subseteq Vertices /\ Around(i) # {}
         /\ \A u \in Around(i) : u < 2 * i
<1>1. i \in Nat /\ i >= 1
  BY NodeOf
<1>2. PICK j \in Tops : j <= i /\ i <= tree[j].last
  BY TopsAre
<1>3. StatementVertex(j) \in Around(i)
  BY <1>2 DEF Around
<1>4. Around(i) \subseteq Vertices
  BY DEF Around, Vertices
<1>5. ASSUME NEW u \in Around(i) PROVE u < 2 * i
  <2>1. \/ \E k \in Drawn : k < i /\ u = NodeVertex(k)
        \/ \E k \in Tops : k <= i /\ u = StatementVertex(k)
    BY DEF Around
  <2>2. \A k \in Drawn \cup Tops : k \in Nat
    BY TopsAre, VerticesAre, Root
  <2> QED
    BY <1>1, <2>1, <2>2 DEF NodeVertex, StatementVertex
<1> QED
  BY <1>3, <1>4, <1>5

LEMMA NearestIs ==
  ASSUME IsTree(tree), NEW i \in DOMAIN tree, i # 1,
         NEW v \in Around(i), \A u \in Around(i) : u <= v
  PROVE  Nearest(i) = v
<1>1. Nearest(i) \in Around(i) /\ \A u \in Around(i) : u <= Nearest(i)
  BY DEF Nearest
<1>2. Around(i) \subseteq Nat
  BY AroundIs, VerticesAre
<1> QED
  BY <1>1, <1>2

LEMMA NearestThere ==
  ASSUME IsTree(tree), NEW i \in DOMAIN tree, i # 1
  PROVE  /\ Nearest(i) \in Around(i) /\ Nearest(i) \in Vertices /\ Nearest(i) \in Nat
         /\ Nearest(i) < 2 * i /\ \A u \in Around(i) : u <= Nearest(i)
<1>1. Around(i) \subseteq Vertices /\ Around(i) # {} /\ \A u \in Around(i) : u < 2 * i
  BY AroundIs
<1>2. Vertices \subseteq Nat /\ 2 * i \in Nat
  BY VerticesAre, NodeOf
<1>3. Around(i) \in SUBSET Nat /\ \A u \in Around(i) : u <= 2 * i
  <2> DEFINE d == 2 * i
  <2>1. d \in Nat /\ \A u \in Around(i) : u < d
    BY <1>1, <1>2
  <2> HIDE DEF d
  <2>2. Around(i) \subseteq Nat /\ \A u \in Around(i) : u <= d
    <3>1. Around(i) \subseteq Nat
      BY <1>1, <1>2
    <3>2. ASSUME NEW u \in Around(i) PROVE u <= d
      <4>1. u \in Nat /\ u < d
        BY <2>1, <3>1
      <4> QED
        BY ONLY <2>1, <4>1
    <3> QED
      BY <3>1, <3>2
  <2> QED
    BY <2>2 DEF d
<1>4. PICK v \in Around(i) : \A u \in Around(i) : u <= v
  BY <1>1, <1>2, <1>3, GreatestOf
<1>5. Nearest(i) = v
  BY <1>4, NearestIs
<1> QED
  BY <1>1, <1>2, <1>4, <1>5

LEMMA NearestOfKid ==
  ASSUME IsTree(tree), NEW i \in DOMAIN tree, i # 1, NEW c \in DOMAIN tree[i].kids
  PROVE  Nearest(tree[i].kids[c]) = IF i \in Drawn THEN NodeVertex(i) ELSE Nearest(i)
<1> DEFINE j == tree[i].kids[c]
<1>1. j \in DOMAIN tree /\ i < j
  BY KidsWithin
<1>2. j # 1
  <2>1. i \in Nat /\ i >= 1
    BY NodeOf
  <2> QED
    BY <1>1, <2>1
<1>3. Around(j) = Around(i) \cup (IF i \in Drawn THEN {NodeVertex(i)} ELSE {})
  BY AroundKid
<1> HIDE DEF j
<1>4. CASE i \in Drawn
  <2>1. NodeVertex(i) \in Around(j)
    BY <1>3, <1>4
  <2>2. \A u \in Around(j) : u <= NodeVertex(i)
    <3>1. NodeVertex(i) = 2 * i /\ NodeVertex(i) \in Nat /\ Vertices \subseteq Nat
      BY SMTT(20), NodeOf, VerticesAre DEF NodeVertex
    <3>2. Around(i) \subseteq Nat /\ \A u \in Around(i) : u < 2 * i
      BY <3>1, AroundIs
    <3> QED
      BY <1>3, <1>4, <3>1, <3>2
  <2>3. Nearest(j) = NodeVertex(i)
    BY <1>1, <1>2, <2>1, <2>2, NearestIs
  <2> QED
    BY <1>4, <2>3 DEF j
<1>5. CASE i \notin Drawn
  <2>1. Around(j) = Around(i)
    BY <1>3, <1>5
  <2>2. Nearest(i) \in Around(i) /\ \A u \in Around(i) : u <= Nearest(i)
    BY NearestThere
  <2>3. Nearest(j) = Nearest(i)
    BY <1>1, <1>2, <2>1, <2>2, NearestIs
  <2> QED
    BY <1>5, <2>3 DEF j
<1> QED
  BY <1>4, <1>5

LEMMA NearestOfTop ==
  ASSUME IsTree(tree), NEW j \in Tops
  PROVE  Nearest(j) = StatementVertex(j)
<1>1. j \in DOMAIN tree /\ j # 1 /\ j \in Nat
  BY TopsAre
<1>2. Around(j) = {StatementVertex(j)}
  BY AroundTop
<1>3. StatementVertex(j) <= StatementVertex(j)
  BY <1>1 DEF StatementVertex
<1> QED
  BY <1>1, <1>2, <1>3, NearestIs

-----------------------------------------------------------------------------
(* The walk of the grapher.                                                *)

Items == [what : {"visit", "null", "reset", "pop", "each"}, node : Nat]

LEMMA ItemsAre ==
  /\ \A i \in Nat : Visit(i) \in Items /\ Each(i) \in Items
  /\ Null \in Items /\ Reset \in Items /\ Pop \in Items
<1>1. ASSUME NEW i \in Nat PROVE Visit(i) \in Items
  BY DEF Items, Visit
<1>2. ASSUME NEW i \in Nat PROVE Each(i) \in Items
  BY DEF Items, Each
<1>3. Null \in Items
  BY DEF Items, Null
<1>4. Reset \in Items
  BY DEF Items, Reset
<1>5. Pop \in Items
  BY DEF Items, Pop
<1> QED
  BY <1>1, <1>2, <1>3, <1>4, <1>5

(* Where the walk is: all vertices before due were printed, and up are the *)
(* vertices whose names are on the stack.                                  *)
Spots == [due : Nat, up : Seq(Nat)]

StartOf(i) == IF i \in Tops THEN 2 * i ELSE 2 * i - 1

TheEnd == [due |-> 2 * Len(tree) + 1, up |-> <<>>]

(* What there is to do is done at spot a and leaves the walk at spot b.    *)
VisitFits(item, a, b) ==
  \E i \in DOMAIN tree :
    /\ item = Visit(i) /\ a.due = StartOf(i)
    /\ IF i = 1 THEN a.up = <<>>
       ELSE tree[i].kind # "Program" /\ a.up # <<>> /\ a.up[Len(a.up)] = Nearest(i)
    /\ b.due = 2 * tree[i].last + 1 /\ b.up = a.up

PopFits(item, a, b) ==
  item = Pop /\ a.up # <<>> /\ b.due = a.due /\ b.up = SubSeq(a.up, 1, Len(a.up) - 1)

EachFits(item, a, b) ==
  \E c \in DOMAIN tree[1].kids :
    /\ item = Each(c) /\ a.due = StatementVertex(tree[1].kids[c]) /\ a.up = <<>>
    /\ b = TheEnd

Fits(item, a, b) == VisitFits(item, a, b) \/ PopFits(item, a, b) \/ EachFits(item, a, b)

Leads(work, a, b) ==
  \E g \in [1..(Len(work) + 1) -> Spots] :
    /\ g[1] = a /\ g[Len(work) + 1] = b
    /\ \A k \in 1..Len(work) : Fits(work[k], g[k], g[k + 1])

LEMMA LeadsNowhere ==
  ASSUME NEW a, NEW b
  PROVE  /\ Leads(<<>>, a, b) => a = b
         /\ a \in Spots => Leads(<<>>, a, a)
<1>1. ASSUME Leads(<<>>, a, b) PROVE a = b
  BY <1>1 DEF Leads
<1>2. ASSUME a \in Spots PROVE Leads(<<>>, a, a)
  <2> DEFINE g == [k \in 1..1 |-> a]
             w == <<>>
  <2>1. g \in [1..1 -> Spots] /\ g[1] = a
    BY <1>2
  <2>2. Len(w) = 0
    OBVIOUS
  <2> HIDE DEF g, w
  <2>3. Leads(w, a, a)
    BY <2>1, <2>2 DEF Leads
  <2> QED
    BY <2>3 DEF w
<1> QED
  BY <1>1, <1>2

LEMMA LeadsFirst ==
  ASSUME NEW work \in Seq(Items), work # <<>>, NEW a, NEW b, Leads(work, a, b)
  PROVE  \E m \in Spots : Fits(Head(work), a, m) /\ Leads(Tail(work), m, b)
<1> DEFINE n == Len(work)
<1>1. n \in Nat /\ n >= 1 /\ Head(work) = work[1]
  OBVIOUS
<1>2. Len(Tail(work)) = n - 1 /\ \A k \in 1..(n - 1) : Tail(work)[k] = work[k + 1]
  OBVIOUS
<1>3. PICK g \in [1..(n + 1) -> Spots] :
         g[1] = a /\ g[n + 1] = b /\ \A k \in 1..n : Fits(work[k], g[k], g[k + 1])
  BY DEF Leads
<1> HIDE DEF n
<1> DEFINE h == [k \in 1..n |-> g[k + 1]]
<1>4. g[2] \in Spots /\ Fits(Head(work), a, g[2])
  BY <1>1, <1>3
<1>5. h \in [1..n -> Spots] /\ h[1] = g[2] /\ h[n] = b
  BY <1>1, <1>3
<1>6. ASSUME NEW k \in 1..(n - 1) PROVE Fits(Tail(work)[k], h[k], h[k + 1])
  <2>1. k + 1 \in 1..n /\ h[k] = g[k + 1] /\ h[k + 1] = g[(k + 1) + 1] /\ Tail(work)[k] = work[k + 1]
    BY <1>1, <1>2
  <2>2. Fits(work[k + 1], g[k + 1], g[(k + 1) + 1])
    BY <1>3, <2>1
  <2> QED
    BY <2>1, <2>2
<1> HIDE DEF h
<1>7. (n - 1) + 1 = n
  BY <1>1
<1>8. Leads(Tail(work), g[2], b)
  BY <1>2, <1>5, <1>6, <1>7 DEF Leads
<1> QED
  BY <1>4, <1>8

LEMMA LeadsOne ==
  ASSUME NEW item, NEW a \in Spots, NEW b \in Spots, Fits(item, a, b)
  PROVE  Leads(<<item>>, a, b)
<1> DEFINE g == [k \in 1..2 |-> IF k = 1 THEN a ELSE b]
           w == <<item>>
<1>1. Len(w) = 1 /\ w[1] = item
  OBVIOUS
<1>2. g \in [1..2 -> Spots] /\ g[1] = a /\ g[2] = b
  OBVIOUS
<1> HIDE DEF g, w
<1>3. Leads(w, a, b)
  BY <1>1, <1>2 DEF Leads
<1> QED
  BY <1>3 DEF w

LEMMA LeadsJoin ==
  ASSUME NEW v \in Seq(Items), NEW w \in Seq(Items), NEW a, NEW b, NEW c,
         Leads(v, a, b), Leads(w, b, c)
  PROVE  Leads(v \o w, a, c)
<1> DEFINE m == Len(v)  n == Len(w)  x == v \o w
<1>1. m \in Nat /\ n \in Nat /\ Len(x) = m + n
  OBVIOUS
<1>2. /\ \A k \in 1..m : x[k] = v[k]
      /\ \A k \in 1..n : x[m + k] = w[k]
  OBVIOUS
<1>3. PICK g \in [1..(m + 1) -> Spots] :
         g[1] = a /\ g[m + 1] = b /\ \A k \in 1..m : Fits(v[k], g[k], g[k + 1])
  BY DEF Leads
<1>4. PICK h \in [1..(n + 1) -> Spots] :
         h[1] = b /\ h[n + 1] = c /\ \A k \in 1..n : Fits(w[k], h[k], h[k + 1])
  BY DEF Leads
<1> HIDE DEF m, n, x
<1> DEFINE f == [k \in 1..((m + n) + 1) |-> IF k <= m THEN g[k] ELSE h[k - m]]
<1>5. f \in [1..((m + n) + 1) -> Spots]
  <2> SUFFICES ASSUME NEW k \in 1..((m + n) + 1) PROVE f[k] \in Spots
    OBVIOUS
  <2>1. k <= m => k \in 1..(m + 1)
    BY <1>1
  <2>2. ~(k <= m) => k - m \in 1..(n + 1)
    BY <1>1
  <2> QED
    BY <1>3, <1>4, <2>1, <2>2
<1>6. f[1] = a /\ f[(m + n) + 1] = c
  <2>1. CASE m = 0
    BY <1>1, <1>3, <1>4, <2>1
  <2>2. CASE m # 0
    <3>1. 1 <= m /\ 1 \in 1..((m + n) + 1) /\ ~((m + n) + 1 <= m) /\ ((m + n) + 1) - m = n + 1
      BY <1>1, <2>2
    <3> QED
      BY <1>1, <1>3, <1>4, <3>1
  <2> QED
    BY <2>1, <2>2
<1>7. ASSUME NEW k \in 1..(m + n) PROVE Fits(x[k], f[k], f[k + 1])
  <2>0. k \in 1..((m + n) + 1) /\ k + 1 \in 1..((m + n) + 1)
    BY <1>1
  <2>1. CASE k < m
    <3>1. k \in 1..m /\ k <= m /\ k + 1 <= m
      BY <1>1, <2>1
    <3> QED
      BY <1>2, <1>3, <2>0, <3>1
  <2>2. CASE k = m
    <3>1. k \in 1..m /\ k <= m /\ ~(k + 1 <= m) /\ (k + 1) - m = 1
      BY <1>1, <2>2
    <3>2. f[k] = g[k] /\ f[k + 1] = g[k + 1]
      BY <1>3, <1>4, <2>0, <2>2, <3>1
    <3> HIDE DEF f
    <3> QED
      BY <1>2, <1>3, <3>1, <3>2
  <2>3. CASE k > m
    <3>1. k - m \in 1..n /\ ~(k <= m) /\ ~(k + 1 <= m) /\ (k + 1) - m = (k - m) + 1 /\ m + (k - m) = k
      BY <1>1, <2>3
    <3>2. f[k] = h[k - m] /\ f[k + 1] = h[(k - m) + 1]
      BY <2>0, <3>1
    <3>3. x[k] = w[k - m]
      BY <1>2, <3>1
    <3> HIDE DEF f
    <3> QED
      BY <1>4, <3>1, <3>2, <3>3
  <2> QED
    BY <1>1, <2>1, <2>2, <2>3
<1> HIDE DEF f
<1>8. Leads(x, a, c)
  BY <1>1, <1>5, <1>6, <1>7 DEF Leads
<1> QED
  BY <1>8 DEF x

(* A visit() goes on with the children of its node.                        *)
LEMMA LeadsThrough ==
  ASSUME IsTree(tree), NEW i \in DOMAIN tree, i # 1, NEW up \in Seq(Nat), up # <<>>,
         up[Len(up)] = IF i \in Drawn THEN NodeVertex(i) ELSE Nearest(i)
  PROVE  /\ [c \in DOMAIN tree[i].kids |-> Visit(tree[i].kids[c])] \in Seq(Items)
         /\ Leads([c \in DOMAIN tree[i].kids |-> Visit(tree[i].kids[c])],
                  [due |-> 2 * i + 1, up |-> up], [due |-> 2 * tree[i].last + 1, up |-> up])
<1> DEFINE kids == tree[i].kids
           n == Len(kids)
           work == [c \in DOMAIN kids |-> Visit(kids[c])]
           at(d) == [due |-> d, up |-> up]
           g == [c \in 1..(n + 1) |->
                   at(IF c <= n THEN 2 * kids[c] - 1 ELSE 2 * tree[i].last + 1)]
<1>1. n \in Nat /\ DOMAIN kids = 1..n /\ i \in Nat /\ tree[i].last \in Nat
  BY NodeOf
<1>2. ASSUME NEW c \in 1..n
      PROVE  /\ kids[c] \in DOMAIN tree /\ kids[c] \in Nat /\ kids[c] # 1 /\ kids[c] >= 1
             /\ kids[c] \notin Tops /\ tree[kids[c]].kind # "Program"
             /\ Nearest(kids[c]) = up[Len(up)] /\ tree[kids[c]].last \in Nat
  <2>1. c \in DOMAIN kids
    BY <1>1
  <2>2. kids[c] \in DOMAIN tree /\ i < kids[c] /\ tree[kids[c]].last <= tree[i].last
    BY <2>1, KidsWithin
  <2>3. kids[c] \in Nat /\ i >= 1 /\ kids[c] <= tree[kids[c]].last /\ tree[kids[c]].last \in Nat
    BY <2>2, NodeOf
  <2>4. kids[c] \notin Tops
    <3>1. SUFFICES ASSUME kids[c] \in Tops PROVE FALSE
      OBVIOUS
    <3>2. tree[i].last < kids[c]
      BY <2>2, <3>1, NoTopBelow
    <3> HIDE DEF kids
    <3> QED
      BY <1>1, <2>2, <2>3, <3>2
  <2>5. tree[kids[c]].kind # "Program"
    BY <2>1, KidKind
  <2>6. Nearest(kids[c]) = up[Len(up)]
    BY <2>1, NearestOfKid
  <2> HIDE DEF kids
  <2> QED
    BY <1>1, <2>2, <2>3, <2>4, <2>5, <2>6
<1>3. /\ n = 0 => tree[i].last = i
      /\ n # 0 => kids[1] = i + 1 /\ tree[kids[n]].last = tree[i].last
      /\ \A c \in 1..n : c # 1 => kids[c] = tree[kids[c - 1]].last + 1
  <2>1. /\ DOMAIN kids = {} => tree[i].last = i
        /\ DOMAIN kids # {} => kids[1] = i + 1 /\ tree[kids[Len(kids)]].last = tree[i].last
        /\ \A c \in DOMAIN kids : c # 1 => kids[c] = tree[kids[c - 1]].last + 1
    BY KidsFollow
  <2> HIDE DEF kids
  <2>2. (n = 0 => DOMAIN kids = {}) /\ (n # 0 => DOMAIN kids # {})
    <3>1. n # 0 => 1 \in DOMAIN kids
      BY <1>1
    <3> QED
      BY <1>1, <3>1
  <2> QED
    BY <1>1, <2>1, <2>2
<1> HIDE DEF kids, n
<1>4. work \in Seq(Items) /\ Len(work) = n
  <2>1. ASSUME NEW c \in 1..n PROVE Visit(kids[c]) \in Items
    <3>1. kids[c] \in Nat
      BY <1>2
    <3> QED
      BY <3>1, ItemsAre
  <2> QED
    BY <1>1, <2>1
<1>5. g \in [1..(n + 1) -> Spots]
  <2> SUFFICES ASSUME NEW c \in 1..(n + 1) PROVE g[c] \in Spots
    OBVIOUS
  <2>1. c <= n => 2 * kids[c] - 1 \in Nat
    <3>1. c <= n => c \in 1..n
      BY <1>1
    <3> QED
      BY <1>2, <3>1
  <2> QED
    BY <1>1, <2>1 DEF Spots
<1>6. g[1] = at(2 * i + 1) /\ g[n + 1] = at(2 * tree[i].last + 1)
  <2>1. CASE n = 0
    BY <1>1, <1>3, <2>1
  <2>2. CASE n # 0
    <3>1. 1 \in 1..(n + 1) /\ 1 <= n /\ n + 1 \in 1..(n + 1) /\ ~(n + 1 <= n)
      BY <1>1, <2>2
    <3>2. 2 * kids[1] - 1 = 2 * i + 1
      BY <1>1, <1>3, <2>2
    <3> QED
      BY <3>1, <3>2
  <2> QED
    BY <2>1, <2>2
<1>7. ASSUME NEW c \in 1..n PROVE VisitFits(work[c], g[c], g[c + 1])
  <2>1. c \in 1..(n + 1) /\ c + 1 \in 1..(n + 1) /\ c <= n /\ (c + 1) - 1 = c
    BY <1>1
  <2>2. work[c] = Visit(kids[c]) /\ g[c].due = 2 * kids[c] - 1 /\ g[c].up = up
    BY <1>1, <2>1 DEF n
  <2>3. g[c].due = StartOf(kids[c])
    BY <1>2, <2>2 DEF StartOf
  <2>4. g[c + 1].due = 2 * tree[kids[c]].last + 1 /\ g[c + 1].up = up
    <3>1. CASE c = n
      <4>1. ~(c + 1 <= n) /\ n # 0
        BY <1>1, <3>1
      <4> QED
        BY <1>3, <2>1, <3>1, <4>1
    <3>2. CASE c # n
      <4>1. c + 1 \in 1..n /\ c + 1 <= n /\ c + 1 # 1
        BY <1>1, <3>2
      <4>2. kids[c + 1] = tree[kids[c]].last + 1 /\ tree[kids[c]].last \in Nat
        BY <1>2, <1>3, <2>1, <4>1
      <4>3. g[c + 1] = at(2 * kids[c + 1] - 1)
        BY <2>1, <4>1
      <4>4. 2 * kids[c + 1] - 1 = 2 * tree[kids[c]].last + 1
        BY <4>2
      <4> HIDE DEF g
      <4> QED
        BY <4>3, <4>4
    <3> QED
      BY <3>1, <3>2
  <2> HIDE DEF g, work
  <2> QED
    BY <1>2, <2>2, <2>3, <2>4 DEF VisitFits
<1> HIDE DEF g, work
<1>8. Leads(work, at(2 * i + 1), at(2 * tree[i].last + 1))
  BY <1>4, <1>5, <1>6, <1>7 DEF Leads, Fits
<1> QED
  BY <1>4, <1>8 DEF work, kids

-----------------------------------------------------------------------------
(* The inductive invariant, phase by phase.                                *)

Letters == Kinds \cup {"FunctionBody", "Statement"} \cup Nat
Names   == Seq(Letters)
Printed == [name : Names, parent : Names]

Typed ==
  /\ params \in ParamLists
  /\ phase \in {"open", "parse", "analyse", "graph", "generate", "exec", "main", "close"}
  /\ status \in {"running", "0", "-1", "exit", "abort", "null", "llvm", "self", "program"}
  /\ IsTree(tree)
  /\ main \in 0..Len(tree[1].kids)
  /\ func \in 0..Len(tree)
  /\ id = Len(printed)
  /\ todo \in Seq(Items)
  /\ stack \in Seq(Names) /\ last \in Names /\ printed \in Seq(Printed)

Waiting ==
  phase \in {"open", "parse"} =>
    /\ status \in {"running", "-1", "exit", "abort"}
    /\ todo = <<>> /\ func = 0 /\ stack = <<>> /\ printed = <<>> /\ main = 0

(* What is missing below the node where codegen() does not test for it.    *)
Gap(j) == tree[j].lacks /\ tree[j].kind # "FunctionDef"

Gaps ==
  \A j \in DOMAIN tree : Gap(j) =>
    \/ \E k \in DOMAIN todo : todo[k] = Null
    \/ \E k \in DOMAIN todo : todo[k].what = "visit" /\ todo[k].node <= j
                                /\ j <= tree[todo[k].node].last

(* The current function is left once; until then no other is entered.      *)
Inside ==
  IF func = 0 THEN \A k \in DOMAIN todo : todo[k] # Reset
  ELSE \E r \in DOMAIN todo :
         /\ todo[r] = Reset
         /\ \A k \in DOMAIN todo : k # r => todo[k] # Reset
         /\ \A k \in DOMAIN todo : k < r /\ todo[k].what = "visit" =>
              tree[todo[k].node].kind \notin {"Program", "FunctionDef"}

Analysing ==
  phase = "analyse" =>
    /\ status \in {"running", "null"}
    /\ stack = <<>> /\ printed = <<>> /\ main = 0
    /\ \A k \in DOMAIN todo : \/ todo[k].what = "visit" /\ todo[k].node \in DOMAIN tree
                              \/ todo[k] \in {Null, Reset}
    /\ Gaps /\ Inside
    /\ (\E k \in DOMAIN todo : todo[k] = Null) => ~Whole(1)
    /\ status = "null" => ~Whole(1)

Passed == phase \in {"graph", "generate", "exec", "main", "close"} => Whole(1)

(* Vertex v was printed as it should be.                                   *)
Right(v) ==
  /\ \A i \in Drawn : v = NodeVertex(i) =>
       NameAt(v)[1] = Word(tree[i]) /\ printed[Place(v)].parent = NameAt(Nearest(i))
  /\ \A i \in Tops : v = StatementVertex(i) =>
       NameAt(v)[1] = "Statement" /\ printed[Place(v)].parent = <<"Program">>

Drew(due) == Len(printed) = Before(due) /\ \A v \in Vertices : v < due => Right(v)

Holds(up, due) ==
  /\ Len(stack) = Len(up) + 1 /\ stack[1] = <<"Program">>
  /\ \A k \in 1..Len(up) : up[k] \in Vertices /\ up[k] < due /\ stack[k + 1] = NameAt(up[k])

Remains(a) == \E w \in Seq(Items) : w = todo /\ Leads(w, a, TheEnd)

Drawing ==
  phase = "graph" =>
    /\ status = "running" /\ Option = "-graph" /\ last # <<>> /\ last[1] = "Statement"
    /\ \E a \in Spots : Remains(a) /\ Drew(a.due) /\ Holds(a.up, a.due)

(* What the module's main may be when the nodes before the c-th have been  *)
(* generated.                                                              *)
Chosen(m, c) ==
  /\ m # 0 => /\ m \in DOMAIN tree[1].kids /\ m < c /\ IsMain(Nth(m))
              /\ HasBody(Nth(m)) => HasValue(Nth(m))
  /\ \A b \in Valued :
       b < c /\ (m = 0 \/ ~HasBody(Nth(m)) \/ b < m) => Contradicted(b)

Generating ==
  phase = "generate" =>
    /\ status \in {"running", "llvm"} /\ Option # "-graph"
    /\ stack = <<>> /\ printed = <<>>
    /\ \E c \in 1..(Len(tree[1].kids) + 1) : todo = From(c) /\ Chosen(main, c)

Settled(m)  == Chosen(m, Len(tree[1].kids) + 1)
Callable(m) == m # 0 /\ HasBody(Nth(m))

Executing ==
  /\ phase = "exec" =>
       /\ status \in {"running", "null", "self", "llvm"} /\ Option = "-exec"
       /\ stack = <<>> /\ printed = <<>>
       /\ Settled(main)
       /\ status \in {"null", "self"} => ~Callable(main)
  /\ phase = "main" =>
       /\ status \in {"running", "program"} /\ Option = "-exec"
       /\ stack = <<>> /\ printed = <<>>
       /\ Settled(main) /\ Callable(main)

Closing ==
  phase = "close" =>
    /\ status \in {"running", "0"}
    /\ Option = "-exec" => Settled(main) /\ Callable(main)
    /\ Option = "-graph" => Len(stack) = 1 /\ Drew(2 * Len(tree) + 1)

Stacked == \A i \in 2..Len(stack) : \E j \in DOMAIN printed : printed[j].name = stack[i]

(* The name of a statement is longer than that of all before it.           *)
Named ==
  /\ \A j \in DOMAIN printed :
       LET n == printed[j].name IN
       IF n[1] = "Statement" THEN n # <<>> /\ Len(n) <= Len(last)
       ELSE n = <<n[1]>> \o Decimal[j - 1]
  /\ \A i, j \in DOMAIN printed :
       i < j /\ printed[i].name[1] = "Statement" /\ printed[j].name[1] = "Statement" =>
         Len(printed[i].name) < Len(printed[j].name)

IInv == /\ Typed /\ Waiting /\ Analysing /\ Passed /\ Drawing /\ Generating
        /\ Executing /\ Closing /\ Stacked /\ Named

(* No phase after the parser changes the tree.                             *)
LEMMA SameTree ==
  ASSUME tree' = tree
  PROVE  /\ Tops' = Tops /\ Drawn' = Drawn /\ Vertices' = Vertices
         /\ \A i : Around(i)' = Around(i)
         /\ \A i : Nearest(i)' = Nearest(i)
         /\ \A v : Place(v)' = Place(v) /\ Before(v)' = Before(v)
         /\ \A w, a, b : Leads(w, a, b)' <=> Leads(w, a, b)
         /\ TheEnd' = TheEnd
         /\ \A i : Whole(i)' <=> Whole(i)
         /\ \A m, c : Chosen(m, c)' <=> Chosen(m, c)
         /\ \A m : Settled(m)' <=> Settled(m)
         /\ \A m : Callable(m)' <=> Callable(m)
         /\ \A c : From(c)' = From(c)
<1>1. Tops' = Tops
  BY DEF Tops
<1>2. Drawn' = Drawn
  BY DEF Drawn
<1>3. Vertices' = Vertices
  BY <1>1, <1>2 DEF Vertices
<1>4. ASSUME NEW i PROVE Around(i)' = Around(i)
  BY <1>1, <1>2 DEF Around
<1>5. ASSUME NEW i PROVE Nearest(i)' = Nearest(i)
  BY <1>4 DEF Nearest
<1>6. ASSUME NEW v PROVE Place(v)' = Place(v) /\ Before(v)' = Before(v)
  BY <1>3 DEF Place, Before
<1>7. TheEnd' = TheEnd
  BY DEF TheEnd
<1>8. ASSUME NEW item, NEW a, NEW b PROVE Fits(item, a, b)' <=> Fits(item, a, b)
  BY <1>1, <1>5, <1>7 DEF Fits, VisitFits, PopFits, EachFits, StartOf
<1>9. ASSUME NEW w, NEW a, NEW b PROVE Leads(w, a, b)' <=> Leads(w, a, b)
  BY <1>8 DEF Leads
<1>10. ASSUME NEW i PROVE Whole(i)' <=> Whole(i)
  BY DEF Whole
<1>11. \A c : Nth(c)' = Nth(c) /\ (Contradicted(c)' <=> Contradicted(c)) /\ (Callable(c)' <=> Callable(c))
  BY DEF Nth, Contradicted, Callable
<1>12. /\ \A m, c : Chosen(m, c)' <=> Chosen(m, c)
       /\ \A m : Settled(m)' <=> Settled(m)
  <2>1. \A n : HasValue(n)' <=> HasValue(n)
    BY DEF HasValue, Valueless
  <2>2. Valued' = Valued
    BY <1>11, <2>1 DEF Valued
  <2>3. ASSUME NEW m, NEW c PROVE Chosen(m, c)' <=> Chosen(m, c)
    BY <1>11, <2>1, <2>2 DEF Chosen
  <2>4. ASSUME NEW m PROVE Settled(m)' <=> Settled(m)
    BY <2>3 DEF Settled
  <2> QED
    BY <2>3, <2>4
<1>13. ASSUME NEW c PROVE From(c)' = From(c)
  BY DEF From
<1> QED
  BY <1>1, <1>2, <1>3, <1>4, <1>5, <1>6, <1>7, <1>9, <1>10, <1>11, <1>12, <1>13

LEMMA SameMain ==
  ASSUME tree' = tree, main' = main
  PROVE  (Settled(main)' <=> Settled(main)) /\ (Callable(main)' <=> Callable(main))
<1>1. \A c : Nth(c)' = Nth(c) /\ (Contradicted(c)' <=> Contradicted(c))
  BY DEF Nth, Contradicted
<1>2. \A n : HasValue(n)' <=> HasValue(n)
  BY DEF HasValue, Valueless
<1>3. Valued' = Valued
  BY <1>1, <1>2 DEF Valued
<1>4. Settled(main)' <=> Settled(main)
  BY <1>1, <1>2, <1>3 DEF Settled, Chosen
<1>5. Callable(main)' <=> Callable(main)
  BY <1>1 DEF Callable
<1> QED
  BY <1>4, <1>5

-----------------------------------------------------------------------------
(* What there is to do.                                                    *)

(* The first thing to do was replaced by others.                           *)
LEMMA Replaced ==
  ASSUME NEW work \in Seq(Items), work # <<>>, NEW s \in Seq(Items)
  PROVE  /\ s \o Tail(work) \in Seq(Items)
         /\ \A k \in DOMAIN (s \o Tail(work)) :
              \/ k \in DOMAIN s /\ k <= Len(s) /\ (s \o Tail(work))[k] = s[k]
              \/ /\ k > Len(s) /\ (k - Len(s)) + 1 \in DOMAIN work /\ (k - Len(s)) + 1 # 1
                 /\ (s \o Tail(work))[k] = work[(k - Len(s)) + 1]
         /\ \A k \in DOMAIN s : k \in DOMAIN (s \o Tail(work)) /\ (s \o Tail(work))[k] = s[k]
         /\ \A k \in DOMAIN work : k # 1 =>
              /\ (k - 1) + Len(s) \in DOMAIN (s \o Tail(work))
              /\ (s \o Tail(work))[(k - 1) + Len(s)] = work[k]
<1> DEFINE t == Tail(work)  x == s \o t  m == Len(s)  n == Len(work)
<1>1. t \in Seq(Items) /\ x \in Seq(Items)
  OBVIOUS
<1>2. n \in Nat /\ n >= 1 /\ m \in Nat /\ Len(t) = n - 1 /\ Len(x) = m + Len(t)
  OBVIOUS
<1>3. DOMAIN s = 1..m /\ DOMAIN work = 1..n /\ DOMAIN x = 1..Len(x)
  OBVIOUS
<1>4. \A k \in 1..(n - 1) : t[k] = work[k + 1]
  OBVIOUS
<1>5. (\A k \in 1..m : x[k] = s[k]) /\ \A k \in 1..Len(t) : x[m + k] = t[k]
  <2> HIDE DEF t
  <2> QED
    BY <1>1
<1> HIDE DEF t, x, m, n
<1>6. ASSUME NEW k \in DOMAIN x
      PROVE  \/ k \in DOMAIN s /\ k <= m /\ x[k] = s[k]
             \/ k > m /\ (k - m) + 1 \in DOMAIN work /\ (k - m) + 1 # 1 /\ x[k] = work[(k - m) + 1]
  <2>1. CASE k <= m
    BY <1>2, <1>3, <1>5, <2>1
  <2>2. CASE ~(k <= m)
    <3>1. k - m \in 1..(n - 1) /\ m + (k - m) = k
      BY <1>2, <1>3, <2>2
    <3>2. x[m + (k - m)] = t[k - m] /\ t[k - m] = work[(k - m) + 1]
      BY <1>2, <1>4, <1>5, <3>1
    <3> QED
      BY <1>2, <1>3, <2>2, <3>1, <3>2
  <2> QED
    BY <2>1, <2>2
<1>7. \A k \in DOMAIN s : k \in DOMAIN x /\ x[k] = s[k]
  BY <1>2, <1>3, <1>5
<1>8. ASSUME NEW k \in DOMAIN work, k # 1
      PROVE  (k - 1) + m \in DOMAIN x /\ x[(k - 1) + m] = work[k]
  <2>1. k - 1 \in 1..(n - 1) /\ (k - 1) + 1 = k /\ m + (k - 1) = (k - 1) + m
    BY <1>2, <1>3, <1>8
  <2>2. t[k - 1] = work[k] /\ x[m + (k - 1)] = t[k - 1]
    BY <1>2, <1>4, <1>5, <2>1
  <2>3. (k - 1) + m \in DOMAIN x
    BY <1>2, <1>3, <2>1
  <2> QED
    BY <2>1, <2>2, <2>3
<1> QED
  BY <1>1, <1>6, <1>7, <1>8 DEF t, x, m

LEMMA WorkReplaced ==
  ASSUME todo \in Seq(Items), todo # <<>>, NEW s \in Seq(Items), todo' = s \o Tail(todo)
  PROVE  /\ todo' \in Seq(Items)
         /\ \A k \in DOMAIN todo' :
              \/ k \in DOMAIN s /\ k <= Len(s) /\ todo'[k] = s[k]
              \/ /\ k > Len(s) /\ (k - Len(s)) + 1 \in DOMAIN todo /\ (k - Len(s)) + 1 # 1
                 /\ todo'[k] = todo[(k - Len(s)) + 1]
         /\ \A k \in DOMAIN s : k \in DOMAIN todo' /\ todo'[k] = s[k]
         /\ \A k \in DOMAIN todo : k # 1 =>
              /\ (k - 1) + Len(s) \in DOMAIN todo'
              /\ todo'[(k - 1) + Len(s)] = todo[k]
<1>1. PICK work, x : work = todo /\ x = s \o Tail(work)
  OBVIOUS
<1>2. work \in Seq(Items) /\ work # <<>>
  BY <1>1
<1>3. /\ s \o Tail(work) \in Seq(Items)
      /\ \A k \in DOMAIN (s \o Tail(work)) :
           \/ k \in DOMAIN s /\ k <= Len(s) /\ (s \o Tail(work))[k] = s[k]
           \/ /\ k > Len(s) /\ (k - Len(s)) + 1 \in DOMAIN work /\ (k - Len(s)) + 1 # 1
              /\ (s \o Tail(work))[k] = work[(k - Len(s)) + 1]
      /\ \A k \in DOMAIN s : k \in DOMAIN (s \o Tail(work)) /\ (s \o Tail(work))[k] = s[k]
      /\ \A k \in DOMAIN work : k # 1 =>
           /\ (k - 1) + Len(s) \in DOMAIN (s \o Tail(work))
           /\ (s \o Tail(work))[(k - 1) + Len(s)] = work[k]
  BY <1>2, Replaced, Zenon
<1>4. todo' = x
  BY <1>1
<1> QED
  BY <1>1, <1>3, <1>4, Zenon

LEMMA AcceptedIs ==
  ASSUME IsTree(tree), NEW i \in DOMAIN tree
  PROVE  /\ Accepted(tree[i]) \in Seq(Items)
         /\ \A k \in DOMAIN Accepted(tree[i]) :
              \/ k \in DOMAIN tree[i].kids /\ Accepted(tree[i])[k] = Visit(tree[i].kids[k])
              \/ Accepted(tree[i])[k] = Null /\ Gap(i)
         /\ \A c \in DOMAIN tree[i].kids :
              c \in DOMAIN Accepted(tree[i]) /\ Accepted(tree[i])[c] = Visit(tree[i].kids[c])
         /\ Gap(i) => \E k \in DOMAIN Accepted(tree[i]) : Accepted(tree[i])[k] = Null
         /\ ~Gap(i) => Accepted(tree[i]) = [c \in DOMAIN tree[i].kids |-> Visit(tree[i].kids[c])]
<1> DEFINE kids == tree[i].kids
           n == Len(kids)
           v == [c \in DOMAIN kids |-> Visit(kids[c])]
           x == Accepted(tree[i])
           z == IF Gap(i) THEN <<Null>> ELSE <<>>
<1>1. n \in Nat /\ DOMAIN kids = 1..n
  BY NodeOf
<1>2. \A c \in 1..n : Visit(kids[c]) \in Items
  <2> TAKE c \in 1..n
  <2>1. kids[c] \in DOMAIN tree
    BY <1>1, NodeOf
  <2>2. kids[c] \in Nat
    BY <2>1, NodeOf
  <2> QED
    BY <2>2, ItemsAre
<1>3. x = v \o z
  BY DEF Accepted, Gap
<1> HIDE DEF kids, n, x
<1>4. v \in Seq(Items) /\ Len(v) = n /\ \A c \in 1..n : v[c] = Visit(kids[c])
  BY <1>1, <1>2
<1> HIDE DEF v
<1>5. CASE Gap(i)
  <2>1. x = Append(v, Null)
    BY <1>3, <1>4, <1>5, ItemsAre
  <2>2. x \in Seq(Items) /\ Len(x) = n + 1 /\ x[n + 1] = Null /\ \A c \in 1..n : x[c] = v[c]
    BY <1>1, <1>4, <2>1, ItemsAre
  <2>3. DOMAIN x = 1..(n + 1)
    BY <2>2
  <2>4. \A k \in DOMAIN x : \/ k \in DOMAIN kids /\ x[k] = Visit(kids[k])
                            \/ x[k] = Null
    <3> SUFFICES ASSUME NEW k \in DOMAIN x, k \notin 1..n PROVE x[k] = Null
      BY <1>1, <1>4, <2>2
    <3>1. k = n + 1
      BY <1>1, <2>3
    <3> QED
      BY <2>2, <3>1
  <2>5. \A c \in DOMAIN kids : c \in DOMAIN x /\ x[c] = Visit(kids[c])
    BY <1>1, <1>4, <2>2, <2>3
  <2>6. \E k \in DOMAIN x : x[k] = Null
    BY <1>1, <2>2, <2>3
  <2> QED
    BY <1>5, <2>2, <2>4, <2>5, <2>6 DEF x, kids
<1>6. CASE ~Gap(i)
  <2>1. x = v
    BY <1>3, <1>4, <1>6
  <2>2. DOMAIN x = 1..n
    BY <1>4, <2>1
  <2> QED
    BY <1>1, <1>4, <1>6, <2>1, <2>2 DEF x, kids, v
<1> QED
  BY <1>5, <1>6

LEMMA WorkIs ==
  ASSUME todo \in Seq(Items), todo # <<>>
  PROVE  /\ Len(todo) \in Nat /\ DOMAIN todo = 1..Len(todo) /\ 1 \in DOMAIN todo
         /\ Head(todo) = todo[1] /\ Tail(todo) \in Seq(Items) /\ Len(Tail(todo)) = Len(todo) - 1
         /\ \A k \in DOMAIN Tail(todo) : k + 1 \in DOMAIN todo /\ Tail(todo)[k] = todo[k + 1]
         /\ \A k \in DOMAIN todo : todo[k] \in Items
OBVIOUS

-----------------------------------------------------------------------------
LEMMA EmptyTree == IsTree(Empty)
<1>1. Empty = <<Empty[1]>> /\ Len(Empty) = 1 /\ DOMAIN Empty = {1}
  BY DEF Empty
<1>2. Empty[1] = [kind |-> "Program", name |-> "other", args |-> 0, kids |-> <<>>,
                  lacks |-> FALSE, last |-> 1]
  BY DEF Empty
<1>3. Empty[1] \in Nodes
  <2>1. <<>> \in Seq(Nat) /\ 0 \in Nat /\ 1 \in Nat /\ "Program" \in Kinds /\ "other" \in {"main", "other", "unbound"} /\ FALSE \in BOOLEAN
    BY DEF Kinds
  <2> QED
    BY <1>2, <2>1 DEF Nodes
<1>4. Empty \in Seq(Nodes) /\ Empty # <<>>
  <2> DEFINE e == Empty[1]  s == <<e>>
  <2>1. Empty = s /\ e \in Nodes
    BY <1>1, <1>3
  <2> HIDE DEF e
  <2>2. s \in Seq(Nodes) /\ s # <<>>
    BY <2>1
  <2> QED
    BY <2>1, <2>2
<1>5. Empty[1].kids = <<>> /\ DOMAIN Empty[1].kids = {} /\ Len(Empty[1].kids) = 0
      /\ Empty[1].last = 1 /\ Empty[1].kind = "Program" /\ Empty[1].lacks = FALSE
  BY <1>2
<1>6. Parsed(Empty, 1)
  BY <1>5 DEF Parsed, Lists
<1>7. Follows(Empty, 1)
  BY <1>1, <1>5 DEF Follows
<1> QED
  BY <1>1, <1>4, <1>5, <1>6, <1>7 DEF IsTree

LEMMA InitHolds == Init => IInv
<1> SUFFICES ASSUME Init PROVE IInv
  OBVIOUS
<1> USE DEF Init
<1>1. Typed
  <2>1. IsTree(tree) /\ 0 \in 0..Len(tree)
    <3>1. IsTree(Empty) /\ tree = Empty
      BY EmptyTree
    <3>2. IsTree(tree)
      BY <3>1
    <3> QED
      BY <3>2, Root
  <2>2. Len(printed) = 0 /\ todo \in Seq(Items) /\ stack \in Seq(Names) /\ printed \in Seq(Printed)
    OBVIOUS
  <2>3. last \in Names
    BY DEF Names
  <2> QED
    BY <2>1, <2>2, <2>3 DEF Typed
<1>2. Stacked /\ Named
  <2>1. Len(stack) = 0 /\ DOMAIN printed = {}
    OBVIOUS
  <2> QED
    BY <2>1 DEF Stacked, Named
<1> QED
  BY <1>1, <1>2 DEF IInv, Waiting, Analysing, Passed, Drawing, Generating, Executing, Closing

-----------------------------------------------------------------------------
(* What does not change.                                                   *)

LEMMA OptionKept ==
  ASSUME params' = params PROVE Option' = Option
BY DEF Option

LEMMA DrewKept ==
  ASSUME tree' = tree, printed' = printed
  PROVE  \A due : Drew(due)' <=> Drew(due)
<1>1. \A v : NameAt(v)' = NameAt(v)
  BY SameTree DEF NameAt
<1>2. ASSUME NEW v PROVE Right(v)' <=> Right(v)
  BY <1>1, SameTree DEF Right
<1> QED
  BY <1>2, SameTree DEF Drew

LEMMA GrapherKept ==
  ASSUME UNCHANGED <<stack, last, printed>>, Stacked, Named
  PROVE  Stacked' /\ Named'
<1>1. Stacked'
  BY DEF Stacked
<1>2. Named'
  BY DEF Named
<1> QED
  BY <1>1, <1>2

-----------------------------------------------------------------------------
(* The steps of main().                                                    *)

LEMMA StoppedStep == IInv /\ UNCHANGED vars => IInv'
<1> SUFFICES ASSUME IInv, UNCHANGED vars PROVE IInv'
  OBVIOUS
<1> USE DEF vars, visitor, grapher
<1>1. Typed' /\ Waiting'
  BY DEF IInv, Typed, Waiting
<1>2. Stacked' /\ Named'
  BY GrapherKept DEF IInv
<1>3. tree' = tree /\ Option' = Option
  BY OptionKept
<1>4. Analysing' /\ Passed'
  <2>1. Gaps' <=> Gaps
    BY DEF Gaps, Gap
  <2>2. Inside' <=> Inside
    BY DEF Inside
  <2>3. Whole(1)' <=> Whole(1)
    BY <1>3, SameTree
  <2> QED
    BY <2>1, <2>2, <2>3 DEF IInv, Analysing, Passed
<1>5. Drawing'
  <2>1. ASSUME NEW a PROVE Remains(a)' <=> Remains(a)
    BY <1>3, SameTree DEF Remains
  <2>2. ASSUME NEW up, NEW due PROVE Holds(up, due)' <=> Holds(up, due)
    <3>1. \A v : NameAt(v)' = NameAt(v)
      BY SameTree DEF NameAt
    <3> QED
      BY <3>1, SameTree DEF Holds
  <2> QED
    BY <1>3, <2>1, <2>2, DrewKept DEF IInv, Drawing
<1>6. Generating' /\ Executing'
  BY <1>3, SameTree DEF IInv, Generating, Executing
<1>7. Closing'
  BY <1>3, SameTree, DrewKept DEF IInv, Closing
<1> QED
  BY <1>1, <1>2, <1>4, <1>5, <1>6, <1>7 DEF IInv

LEMMA OpenStep == IInv /\ Open => IInv'
<1> SUFFICES ASSUME IInv, Open PROVE IInv'
  OBVIOUS
<1>1. /\ phase = "open" /\ phase' \in {"open", "parse"}
      /\ status = "running" /\ status' \in {"running", "-1", "abort"}
      /\ UNCHANGED <<params, tree, todo, func, stack, id, last, printed, main>>
  BY DEF Open, In, Stop, visitor, grapher
<1>2. Typed' /\ Waiting'
  BY <1>1 DEF IInv, Typed, Waiting
<1>3. Stacked' /\ Named'
  BY <1>1, GrapherKept DEF IInv
<1> QED
  BY <1>1, <1>2, <1>3 DEF IInv, Analysing, Passed, Drawing, Generating, Executing, Closing

LEMMA ParseStep == IInv /\ Parse => IInv'
<1> SUFFICES ASSUME IInv, Parse PROVE IInv'
  OBVIOUS
<1>1. phase = "parse" /\ status = "running" /\ UNCHANGED <<params, func, stack, id, last, printed, main>>
  BY DEF Parse, In, grapher
<1>2. Stacked' /\ Named'
  BY <1>1, GrapherKept DEF IInv
<1>3. func = 0 /\ todo = <<>> /\ stack = <<>> /\ printed = <<>> /\ main = 0 /\ Typed
  BY <1>1 DEF IInv, Waiting
<1>4. ASSUME NEW how \in {"exit", "abort"}, Stop(how), UNCHANGED <<tree, todo>> PROVE IInv'
  <2>1. Typed' /\ Waiting'
    BY <1>1, <1>3, <1>4 DEF Typed, Waiting, Stop
  <2>2. phase' = "parse"
    BY <1>1, <1>4 DEF Stop
  <2> QED
    BY <1>2, <2>1, <2>2 DEF IInv, Analysing, Passed, Drawing, Generating, Executing, Closing
<1>5. ASSUME NEW t \in Trees, tree' = t, todo' = <<Visit(1)>>, phase' = "analyse", UNCHANGED status
      PROVE  IInv'
  <2>1. IsTree(t)
    BY DriverAssumption
  <2>2. Len(t) \in Nat /\ 1 \in DOMAIN t /\ t[1].kind = "Program" /\ t[1].last = Len(t) /\ DOMAIN t = 1..Len(t)
    <3>1. t \in Seq(Nodes) /\ t # <<>> /\ t[1].kind = "Program" /\ t[1].last = Len(t)
      BY <2>1 DEF IsTree
    <3>2. Len(t) \in Nat /\ DOMAIN t = 1..Len(t) /\ Len(t) # 0
      BY <3>1
    <3> QED
      BY <3>1, <3>2
  <2>3. /\ todo' \in Seq(Items) /\ DOMAIN todo' = {1} /\ todo'[1] = Visit(1)
        /\ todo'[1].what = "visit" /\ todo'[1].node = 1 /\ todo'[1] # Null /\ todo'[1] # Reset
    <3> DEFINE x == Visit(1)  w == <<x>>
    <3>1. x \in Items /\ x.what = "visit" /\ x.node = 1 /\ x # Null /\ x # Reset
      BY ItemsAre DEF Visit, Null, Reset
    <3>2. todo' = w
      BY <1>5
    <3> HIDE DEF x
    <3>3. w \in Seq(Items) /\ DOMAIN w = {1} /\ w[1] = x
      BY <3>1
    <3> HIDE DEF w
    <3> QED
      BY <3>1, <3>2, <3>3 DEF x
  <2>4. Typed'
    BY <1>1, <1>3, <1>5, <2>1, <2>2, <2>3 DEF Typed
  <2>5. Gaps'
    <3> SUFFICES ASSUME NEW j \in DOMAIN t
                 PROVE  /\ todo'[1].what = "visit" /\ todo'[1].node <= j
                        /\ j <= t[todo'[1].node].last
      BY <1>5, <2>3 DEF Gaps, Gap
    <3> QED
      BY <2>2, <2>3
  <2>6. Inside'
    BY <1>1, <1>3, <2>3 DEF Inside
  <2>7. Analysing'
    BY <1>1, <1>3, <1>5, <2>2, <2>3, <2>5, <2>6 DEF Analysing
  <2> QED
    BY <1>2, <1>5, <2>4, <2>7 DEF IInv, Waiting, Passed, Drawing, Generating, Executing, Closing
<1> QED
  BY <1>4, <1>5 DEF Parse

LEMMA VisitNullStep == IInv /\ VisitNull => IInv'
<1> SUFFICES ASSUME IInv, VisitNull PROVE IInv'
  OBVIOUS
<1>1. /\ phase \in {"analyse", "graph"} /\ phase' = phase /\ status = "running" /\ status' = "null"
      /\ todo # <<>> /\ Head(todo).what = "null"
      /\ UNCHANGED <<params, tree, todo, func, stack, id, last, printed, main>>
  BY DEF VisitNull, Doing, Stop, visitor, grapher
<1>2. Typed' /\ Stacked' /\ Named' /\ Typed
  <2>1. Typed'
    BY <1>1 DEF IInv, Typed
  <2> QED
    BY <1>1, <2>1, GrapherKept DEF IInv
<1>3. CASE phase = "analyse"
  <2>1. todo[1] = Null /\ 1 \in DOMAIN todo
    <3>1. 1 \in DOMAIN todo /\ Head(todo) = todo[1]
      BY <1>1, <1>2 DEF Typed
    <3>2. todo[1].what = "visit" \/ todo[1] \in {Null, Reset}
      BY <1>3, <3>1 DEF IInv, Analysing
    <3> QED
      BY <1>1, <3>1, <3>2 DEF Null, Reset
  <2>2. ~Whole(1) /\ Analysing
    BY <1>3, <2>1 DEF IInv, Analysing
  <2>3. Gaps' <=> Gaps
    BY <1>1 DEF Gaps, Gap
  <2>4. Inside' <=> Inside
    BY <1>1 DEF Inside
  <2>5. Whole(1)' <=> Whole(1)
    BY <1>1, SameTree
  <2>6. Analysing'
    BY <1>1, <1>3, <2>2, <2>3, <2>4, <2>5 DEF Analysing
  <2> QED
    BY <1>1, <1>2, <1>3, <2>6 DEF IInv, Waiting, Passed, Drawing, Generating, Executing, Closing
<1>4. CASE phase = "graph"
  <2>1. PICK a \in Spots, w \in Seq(Items) : w = todo /\ Leads(w, a, TheEnd)
    BY <1>4 DEF IInv, Drawing, Remains
  <2>2. PICK m \in Spots : Fits(Head(todo), a, m)
    BY <1>1, <2>1, LeadsFirst
  <2> QED
    BY <1>1, <2>2 DEF Fits, VisitFits, PopFits, EachFits, Visit, Pop, Each
<1> QED
  BY <1>1, <1>3, <1>4

(* What the analyser still has to do covers what is missing.               *)
LEMMA GapsKept ==
  ASSUME IsTree(tree), todo \in Seq(Items), todo # <<>>, NEW i \in DOMAIN tree, Head(todo) = Visit(i),
         Gaps, NEW s \in Seq(Items), tree' = tree, todo' = s \o Tail(todo),
         \A c \in DOMAIN tree[i].kids : \E k \in DOMAIN s : s[k] = Visit(tree[i].kids[c]),
         Gap(i) => \E k \in DOMAIN s : s[k] = Null
  PROVE  Gaps'
<1>1. /\ \A k \in DOMAIN s : k \in DOMAIN todo' /\ todo'[k] = s[k]
      /\ \A k \in DOMAIN todo : k # 1 => \E h \in DOMAIN todo' : todo'[h] = todo[k]
  <2>1. /\ \A k \in DOMAIN s : k \in DOMAIN todo' /\ todo'[k] = s[k]
        /\ \A k \in DOMAIN todo : k # 1 =>
              /\ (k - 1) + Len(s) \in DOMAIN todo'
              /\ todo'[(k - 1) + Len(s)] = todo[k]
    BY Replaced
  <2>2. ASSUME NEW k \in DOMAIN todo, k # 1 PROVE \E h \in DOMAIN todo' : todo'[h] = todo[k]
    BY <2>1, <2>2
  <2> QED
    BY <2>1, <2>2
<1>2. todo[1] = Visit(i)
  BY WorkIs
<1> SUFFICES ASSUME NEW j \in DOMAIN tree, Gap(j)
             PROVE  \/ \E k \in DOMAIN todo' : todo'[k] = Null
                    \/ \E k \in DOMAIN todo' : todo'[k].what = "visit" /\ todo'[k].node <= j
                                                /\ j <= tree[todo'[k].node].last
  BY DEF Gaps, Gap
<1>3. CASE \E k \in DOMAIN todo : todo[k] = Null
  <2>1. PICK k \in DOMAIN todo : todo[k] = Null
    BY <1>3
  <2>2. k # 1
    BY <1>2, <2>1 DEF Visit, Null
  <2> QED
    BY <1>1, <2>1, <2>2
<1>4. ASSUME NEW k \in DOMAIN todo, todo[k].what = "visit", todo[k].node <= j,
             j <= tree[todo[k].node].last, k # 1
      PROVE  \E h \in DOMAIN todo' : todo'[h].what = "visit" /\ todo'[h].node <= j
                                       /\ j <= tree[todo'[h].node].last
  <2>1. PICK h \in DOMAIN todo' : todo'[h] = todo[k]
    BY <1>1, <1>4
  <2> QED
    BY <1>4, <2>1
<1>5. ASSUME i <= j, j <= tree[i].last
      PROVE  \/ \E k \in DOMAIN todo' : todo'[k] = Null
             \/ \E h \in DOMAIN todo' : todo'[h].what = "visit" /\ todo'[h].node <= j
                                       /\ j <= tree[todo'[h].node].last
  <2>1. CASE i = j
    BY <1>1, <2>1
  <2>2. CASE i # j
    <3>1. i \in Nat /\ j \in Nat
      BY NodeOf
    <3>2. i < j
      BY <1>5, <2>2, <3>1
    <3>3. PICK c \in DOMAIN tree[i].kids : tree[i].kids[c] <= j /\ j <= tree[tree[i].kids[c]].last
      BY <1>5, <3>1, <3>2, KidsCover
    <3>4. PICK k \in DOMAIN s : s[k] = Visit(tree[i].kids[c])
      OBVIOUS
    <3>5. k \in DOMAIN todo' /\ todo'[k] = Visit(tree[i].kids[c])
      BY <1>1, <3>4
    <3>6. todo'[k].what = "visit" /\ todo'[k].node = tree[i].kids[c]
      BY <3>5 DEF Visit
    <3> QED
      BY <3>3, <3>5, <3>6
  <2> QED
    BY <2>1, <2>2
<1>6. todo[1].what = "visit" /\ todo[1].node = i
  BY <1>2 DEF Visit
<1> QED
  BY <1>3, <1>4, <1>5, <1>6 DEF Gaps

(* A visit() of the analyser, of a node that lacks something or not.       *)
LEMMA AnalyseStep ==
  ASSUME IInv, phase = "analyse", status = "running", Doing("visit"),
         NEW s \in Seq(Items), todo' = s \o Tail(todo),
         UNCHANGED <<params, phase, status, tree, grapher, main>>,
         \A c \in DOMAIN Current.kids : \E k \in DOMAIN s : s[k] = Visit(Current.kids[c]),
         Gap(Head(todo).node) => \E k \in DOMAIN s : s[k] = Null,
         \A k \in DOMAIN s : \/ s[k].what = "visit" /\ s[k].node \in DOMAIN tree
                             \/ s[k] = Null /\ Gap(Head(todo).node)
                             \/ s[k] = Reset,
         func' \in 0..Len(tree), Inside'
  PROVE  IInv'
<1> DEFINE i == Head(todo).node
<1>1. todo \in Seq(Items) /\ todo # <<>> /\ Head(todo).what = "visit" /\ IsTree(tree) /\ Gaps
      /\ stack = <<>> /\ printed = <<>> /\ main = 0 /\ Typed /\ Analysing
  BY DEF IInv, Typed, Analysing, Doing
<1>2. 1 \in DOMAIN todo /\ Head(todo) = todo[1]
  BY <1>1, WorkIs
<1>3. i \in DOMAIN tree
  <2>1. (todo[1].what = "visit" /\ todo[1].node \in DOMAIN tree) \/ todo[1] \in {Null, Reset}
    BY <1>1, <1>2 DEF Analysing
  <2> QED
    BY <1>1, <1>2, <2>1 DEF Null, Reset
<1>4. Head(todo) = Visit(i) /\ Current = tree[i]
  <2>1. Head(todo) \in Items
    BY <1>1, WorkIs
  <2> QED
    BY <1>1, <2>1 DEF Items, Visit, Current
<1>5. UNCHANGED <<stack, id, last, printed, tree, params, phase, status, main>>
  BY DEF grapher
<1> HIDE DEF i
<1>6. Gaps'
  BY <1>1, <1>3, <1>4, <1>5, GapsKept DEF i
<1>7. /\ todo' \in Seq(Items)
      /\ \A k \in DOMAIN todo' : \/ \E h \in DOMAIN s : todo'[k] = s[h]
                                 \/ \E h \in DOMAIN todo : h # 1 /\ todo'[k] = todo[h]
  <2>1. /\ todo' \in Seq(Items)
        /\ \A k \in DOMAIN todo' :
             \/ k \in DOMAIN s /\ k <= Len(s) /\ todo'[k] = s[k]
             \/ /\ k > Len(s) /\ (k - Len(s)) + 1 \in DOMAIN todo /\ (k - Len(s)) + 1 # 1
                /\ todo'[k] = todo[(k - Len(s)) + 1]
    BY <1>1, WorkReplaced
  <2> QED
    BY <2>1
<1>8. Whole(1)' <=> Whole(1)
  BY <1>5, SameTree
<1>9. Gap(i) => ~Whole(1)
  <2>1. 1 \in Nat /\ i \in 1..tree[1].last
    BY <1>1, <1>3, Root
  <2> QED
    BY <2>1 DEF Whole, Gap
<1>10. ASSUME NEW k \in DOMAIN todo'
       PROVE  /\ \/ todo'[k].what = "visit" /\ todo'[k].node \in DOMAIN tree
                 \/ todo'[k] \in {Null, Reset}
              /\ todo'[k] = Null => ~Whole(1)
  <2>1. ASSUME NEW h \in DOMAIN s, todo'[k] = s[h]
        PROVE  /\ \/ todo'[k].what = "visit" /\ todo'[k].node \in DOMAIN tree
                  \/ todo'[k] \in {Null, Reset}
               /\ todo'[k] = Null => ~Whole(1)
    BY <1>9, <2>1 DEF i, Null, Reset
  <2>2. ASSUME NEW h \in DOMAIN todo, todo'[k] = todo[h]
        PROVE  /\ \/ todo'[k].what = "visit" /\ todo'[k].node \in DOMAIN tree
                  \/ todo'[k] \in {Null, Reset}
               /\ todo'[k] = Null => ~Whole(1)
    BY <1>1, <2>2 DEF Analysing
  <2> QED
    BY <1>7, <2>1, <2>2
<1>11. Analysing'
  BY <1>1, <1>5, <1>6, <1>8, <1>10 DEF Analysing
<1>12. Typed'
  BY <1>1, <1>5, <1>7 DEF Typed
<1>13. Stacked' /\ Named'
  BY <1>5, GrapherKept DEF IInv
<1> QED
  BY <1>5, <1>11, <1>12, <1>13 DEF IInv, Waiting, Passed, Drawing, Generating, Executing, Closing

LEMMA AnalyseNodeStep == IInv /\ AnalyseNode => IInv'
<1> SUFFICES ASSUME IInv, AnalyseNode PROVE IInv'
  OBVIOUS
<1> DEFINE i == Head(todo).node
           s == Accepted(tree[i])
<1>1. /\ phase = "analyse" /\ status = "running" /\ Doing("visit") /\ tree[i].kind # "FunctionDef"
      /\ todo' = s \o Tail(todo) /\ Current = tree[i] /\ tree' = tree /\ func' = func
      /\ UNCHANGED <<params, phase, status, tree, grapher, main>>
  BY DEF AnalyseNode, In, Current
<1>2. todo \in Seq(Items) /\ todo # <<>> /\ Head(todo).what = "visit" /\ IsTree(tree)
      /\ func \in 0..Len(tree) /\ Inside /\ Analysing
  BY <1>1 DEF IInv, Typed, Analysing, Doing
<1>3. 1 \in DOMAIN todo /\ Head(todo) = todo[1] /\ DOMAIN todo = 1..Len(todo) /\ Len(todo) \in Nat
  BY <1>2, WorkIs
<1>4. i \in DOMAIN tree
  <2>1. (todo[1].what = "visit" /\ todo[1].node \in DOMAIN tree) \/ todo[1] \in {Null, Reset}
    BY <1>1, <1>2, <1>3 DEF Analysing
  <2> QED
    BY <1>2, <1>3, <2>1 DEF Null, Reset
<1> HIDE DEF i
<1>5. /\ s \in Seq(Items)
      /\ \A k \in DOMAIN s : \/ k \in DOMAIN tree[i].kids /\ s[k] = Visit(tree[i].kids[k])
                             \/ s[k] = Null /\ Gap(i)
      /\ \A c \in DOMAIN tree[i].kids : \E k \in DOMAIN s : s[k] = Visit(tree[i].kids[c])
      /\ Gap(i) => \E k \in DOMAIN s : s[k] = Null
  BY <1>2, <1>4, AcceptedIs
<1> HIDE DEF s
<1>6. \A k \in DOMAIN s : \/ /\ s[k].what = "visit" /\ s[k].node \in DOMAIN tree
                             /\ k \in DOMAIN tree[i].kids /\ s[k].node = tree[i].kids[k]
                          \/ s[k] = Null /\ Gap(i)
  BY <1>2, <1>4, <1>5, NodeOf DEF Visit
<1>7. \A k \in DOMAIN s : s[k] # Reset
  BY <1>6 DEF Null, Reset
<1>8. /\ \A k \in DOMAIN todo' :
           \/ k \in DOMAIN s /\ k <= Len(s) /\ todo'[k] = s[k]
           \/ /\ k > Len(s) /\ (k - Len(s)) + 1 \in DOMAIN todo /\ (k - Len(s)) + 1 # 1
              /\ todo'[k] = todo[(k - Len(s)) + 1]
      /\ \A k \in DOMAIN todo : k # 1 =>
              /\ (k - 1) + Len(s) \in DOMAIN todo'
              /\ todo'[(k - 1) + Len(s)] = todo[k]
  BY <1>1, <1>2, <1>5, WorkReplaced
<1>9. Len(s) \in Nat /\ DOMAIN todo' \subseteq Nat
  <2>1. todo' \in Seq(Items)
    BY <1>1, <1>2, <1>5, Replaced
  <2>2. DOMAIN todo' = 1..Len(todo') /\ Len(todo') \in Nat
    BY <2>1
  <2> QED
    BY <1>5, <2>2
<1>10. Inside'
  <2>1. CASE func = 0
    <3>1. \A k \in DOMAIN todo : todo[k] # Reset
      BY <1>2, <2>1 DEF Inside
    <3>2. \A k \in DOMAIN todo' : todo'[k] # Reset
      BY <1>7, <1>8, <3>1
    <3> QED
      BY <1>1, <2>1, <3>2 DEF Inside
  <2>2. CASE func # 0
    <3>1. PICK r \in DOMAIN todo :
            /\ todo[r] = Reset
            /\ \A k \in DOMAIN todo : k # r => todo[k] # Reset
            /\ \A k \in DOMAIN todo : k < r /\ todo[k].what = "visit" =>
                 tree[todo[k].node].kind \notin {"Program", "FunctionDef"}
      BY <1>2, <2>2 DEF Inside
    <3>2. r # 1
      BY <1>2, <1>3, <3>1 DEF Reset
    <3> DEFINE q == (r - 1) + Len(s)
    <3>3. q \in DOMAIN todo' /\ todo'[q] = Reset /\ q \in Nat /\ r \in Nat /\ r > 1
      BY <1>3, <1>8, <1>9, <3>1, <3>2
    <3>4. ASSUME NEW k \in DOMAIN todo', k # q PROVE todo'[k] # Reset
      <4>1. (k - Len(s)) + 1 # r
        BY <1>3, <1>9, <3>4
      <4> QED
        BY <1>7, <1>8, <3>1, <4>1
    <3>5. tree[i].kind \notin {"Program", "FunctionDef"}
      BY <1>2, <1>3, <3>1, <3>3 DEF i
    <3>6. ASSUME NEW k \in DOMAIN todo', k < q, todo'[k].what = "visit"
          PROVE  tree[todo'[k].node].kind \notin {"Program", "FunctionDef"}
      <4>1. CASE k \in DOMAIN s /\ todo'[k] = s[k]
        <5>1. k \in DOMAIN tree[i].kids /\ todo'[k].node = tree[i].kids[k]
          BY <1>6, <3>6, <4>1 DEF Null
        <5>2. tree[tree[i].kids[k]].kind \notin {"Program", "FunctionDef"}
          BY <1>2, <1>4, <3>5, <5>1, KidKind
        <5> QED
          BY <5>1, <5>2
      <4>2. CASE (k - Len(s)) + 1 \in DOMAIN todo /\ todo'[k] = todo[(k - Len(s)) + 1]
        <5>1. (k - Len(s)) + 1 < r
          BY <1>3, <1>9, <3>6
        <5> QED
          BY <3>1, <3>6, <4>2, <5>1
      <4> QED
        BY <1>8, <4>1, <4>2
    <3> HIDE DEF q
    <3>7. \E r2 \in DOMAIN todo' :
            /\ todo'[r2] = Reset
            /\ \A k \in DOMAIN todo' : k # r2 => todo'[k] # Reset
            /\ \A k \in DOMAIN todo' : k < r2 /\ todo'[k].what = "visit" =>
                 tree[todo'[k].node].kind \notin {"Program", "FunctionDef"}
      BY <3>3, <3>4, <3>6
    <3> QED
      BY <1>1, <2>2, <3>7 DEF Inside, Reset
  <2> QED
    BY <2>1, <2>2
<1> QED
  BY <1>1, <1>2, <1>5, <1>6, <1>10, AnalyseStep DEF i

LEMMA AnalyseFunctionDefStep == IInv /\ AnalyseFunctionDef => IInv'
<1> SUFFICES ASSUME IInv, AnalyseFunctionDef PROVE IInv'
  OBVIOUS
<1> DEFINE i == Head(todo).node
           v == Accepted(tree[i])
           s == v \o <<Reset>>
<1>1. /\ phase = "analyse" /\ status = "running" /\ Doing("visit") /\ tree[i].kind = "FunctionDef"
      /\ todo' = v \o <<Reset>> \o Tail(todo) /\ Current = tree[i] /\ tree' = tree /\ func' = i
      /\ UNCHANGED <<params, phase, status, tree, grapher, main>>
  BY DEF AnalyseFunctionDef, In, Current
<1>2. todo \in Seq(Items) /\ todo # <<>> /\ Head(todo).what = "visit" /\ IsTree(tree)
      /\ func \in 0..Len(tree) /\ Inside /\ Analysing
  BY <1>1 DEF IInv, Typed, Analysing, Doing
<1>3. 1 \in DOMAIN todo /\ Head(todo) = todo[1] /\ DOMAIN todo = 1..Len(todo) /\ Len(todo) \in Nat
      /\ Tail(todo) \in Seq(Items)
  BY <1>2, WorkIs
<1>4. i \in DOMAIN tree
  <2>1. (todo[1].what = "visit" /\ todo[1].node \in DOMAIN tree) \/ todo[1] \in {Null, Reset}
    BY <1>1, <1>2, <1>3 DEF Analysing
  <2> QED
    BY <1>2, <1>3, <2>1 DEF Null, Reset
<1> HIDE DEF i
<1>5. /\ v \in Seq(Items)
      /\ \A k \in DOMAIN v : \/ k \in DOMAIN tree[i].kids /\ v[k] = Visit(tree[i].kids[k])
                             \/ v[k] = Null /\ Gap(i)
      /\ \A c \in DOMAIN tree[i].kids : c \in DOMAIN v /\ v[c] = Visit(tree[i].kids[c])
  BY <1>2, <1>4, AcceptedIs
<1>6. ~Gap(i)
  BY <1>1 DEF Gap
<1> HIDE DEF v
<1> DEFINE n == Len(v)
<1>7. /\ s \in Seq(Items) /\ n \in Nat /\ Len(s) = n + 1 /\ s[n + 1] = Reset
      /\ DOMAIN v = 1..n /\ DOMAIN s = 1..(n + 1) /\ \A k \in 1..n : s[k] = v[k]
  <2>1. s = Append(v, Reset) /\ Reset \in Items
    BY <1>5, ItemsAre
  <2> QED
    BY <1>5, <2>1
<1>8. todo' = s \o Tail(todo)
  BY <1>1
<1> HIDE DEF s, n
<1>9. \A k \in 1..n : /\ s[k].what = "visit" /\ s[k].node \in DOMAIN tree
                      /\ k \in DOMAIN tree[i].kids /\ s[k].node = tree[i].kids[k]
                      /\ s[k] # Reset
  <2> TAKE k \in 1..n
  <2>1. k \in DOMAIN tree[i].kids /\ s[k] = Visit(tree[i].kids[k])
    BY <1>5, <1>6, <1>7
  <2>2. tree[i].kids[k] \in DOMAIN tree
    BY <1>2, <1>4, <2>1, NodeOf
  <2> QED
    BY <2>1, <2>2 DEF Visit, Reset
<1>10. /\ \A k \in DOMAIN todo' :
           \/ k \in DOMAIN s /\ k <= Len(s) /\ todo'[k] = s[k]
           \/ /\ k > Len(s) /\ (k - Len(s)) + 1 \in DOMAIN todo /\ (k - Len(s)) + 1 # 1
              /\ todo'[k] = todo[(k - Len(s)) + 1]
       /\ \A k \in DOMAIN s : k \in DOMAIN todo' /\ todo'[k] = s[k]
  BY <1>2, <1>7, <1>8, WorkReplaced
<1>11. func = 0
  <2>1. SUFFICES ASSUME func # 0 PROVE FALSE
    OBVIOUS
  <2>2. PICK r \in DOMAIN todo :
          /\ todo[r] = Reset
          /\ \A k \in DOMAIN todo : k < r /\ todo[k].what = "visit" =>
               tree[todo[k].node].kind \notin {"Program", "FunctionDef"}
    BY <1>2, <2>1 DEF Inside
  <2>3. r # 1
    BY <1>2, <1>3, <2>2 DEF Reset
  <2>4. 1 < r
    BY <1>3, <2>3
  <2> QED
    BY <1>1, <1>2, <1>3, <2>2, <2>4 DEF i
<1>12. \A k \in DOMAIN todo : todo[k] # Reset
  BY <1>2, <1>11 DEF Inside
<1>13. Inside'
  <2> DEFINE r == n + 1
  <2>1. r \in DOMAIN todo' /\ todo'[r] = Reset
    BY <1>7, <1>10
  <2>2. ASSUME NEW k \in DOMAIN todo', k # r PROVE todo'[k] # Reset
    <3>1. k \in DOMAIN s => k \in 1..n
      BY <1>7, <2>2
    <3> QED
      BY <1>9, <1>10, <1>12, <3>1
  <2>3. ASSUME NEW k \in DOMAIN todo', k < r
        PROVE  tree[todo'[k].node].kind \notin {"Program", "FunctionDef"}
    <3>1. ~(k > Len(s))
      <4>1. k \in Nat
        <5>1. todo' \in Seq(Items)
          BY <1>3, <1>7, <1>8
        <5>2. DOMAIN todo' = 1..Len(todo') /\ Len(todo') \in Nat
          BY <5>1
        <5> QED
          BY <5>2
      <4> QED
        BY <1>7, <2>3, <4>1
    <3>2. k \in 1..n /\ todo'[k] = s[k]
      BY <1>7, <1>10, <2>3, <3>1
    <3>3. k \in DOMAIN tree[i].kids /\ todo'[k].node = tree[i].kids[k]
      BY <1>9, <3>2
    <3>4. tree[tree[i].kids[k]].kind \notin {"Program", "FunctionDef"}
      BY <1>1, <1>2, <1>4, <3>3, KidKind
    <3> QED
      BY <3>3, <3>4
  <2> HIDE DEF r
  <2>4. \E r2 \in DOMAIN todo' :
            /\ todo'[r2] = Reset
            /\ \A k \in DOMAIN todo' : k # r2 => todo'[k] # Reset
            /\ \A k \in DOMAIN todo' : k < r2 /\ todo'[k].what = "visit" =>
                 tree[todo'[k].node].kind \notin {"Program", "FunctionDef"}
    BY <2>1, <2>2, <2>3
  <2>5. func' # 0 /\ tree' = tree
    BY <1>1, <1>2, <1>4, NodeOf
  <2> QED
    BY <2>4, <2>5 DEF Inside, Reset
<1>14. \A c \in DOMAIN tree[i].kids : \E k \in DOMAIN s : s[k] = Visit(tree[i].kids[c])
  <2> TAKE c \in DOMAIN tree[i].kids
  <2>1. c \in 1..n /\ s[c] = v[c] /\ v[c] = Visit(tree[i].kids[c]) /\ c \in DOMAIN s
    BY <1>5, <1>7
  <2> QED
    BY <2>1
<1>15. \A k \in DOMAIN s : (s[k].what = "visit" /\ s[k].node \in DOMAIN tree) \/ s[k] = Reset
  <2> TAKE k \in DOMAIN s
  <2>1. k \in 1..n \/ k = n + 1
    BY <1>7
  <2> QED
    BY <1>7, <1>9, <2>1
<1>16. func' \in 0..Len(tree)
  BY <1>1, <1>2, <1>4, NodeOf
<1> QED
  BY <1>1, <1>6, <1>7, <1>8, <1>13, <1>14, <1>15, <1>16, AnalyseStep DEF i

LEMMA LeaveFunctionDefStep == IInv /\ LeaveFunctionDef => IInv'
<1> SUFFICES ASSUME IInv, LeaveFunctionDef PROVE IInv'
  OBVIOUS
<1>1. /\ phase = "analyse" /\ status = "running" /\ todo # <<>> /\ Head(todo).what = "reset"
      /\ func' = 0 /\ todo' = Tail(todo)
      /\ UNCHANGED <<params, phase, status, tree, stack, id, last, printed, main>>
  BY DEF LeaveFunctionDef, In, Doing, grapher
<1>2. todo \in Seq(Items) /\ IsTree(tree) /\ Inside /\ Gaps /\ Analysing /\ Typed
  BY <1>1 DEF IInv, Typed, Analysing
<1>3. /\ 1 \in DOMAIN todo /\ Head(todo) = todo[1] /\ DOMAIN todo = 1..Len(todo) /\ Len(todo) \in Nat
      /\ todo' \in Seq(Items) /\ Len(todo') = Len(todo) - 1
      /\ \A k \in DOMAIN todo' : k + 1 \in DOMAIN todo /\ todo'[k] = todo[k + 1]
  BY <1>1, <1>2, WorkIs
<1>4. DOMAIN todo' = 1..(Len(todo) - 1)
  BY <1>3
<1>5. todo[1] = Reset
  <2>1. (todo[1].what = "visit" /\ todo[1].node \in DOMAIN tree) \/ todo[1] \in {Null, Reset}
    BY <1>1, <1>2, <1>3 DEF Analysing
  <2> QED
    BY <1>1, <1>3, <2>1 DEF Null
<1>6. \A k \in DOMAIN todo : k # 1 => todo[k] # Reset
  <2>1. func # 0
    BY <1>2, <1>3, <1>5 DEF Inside
  <2> QED
    BY <1>2, <1>3, <1>5, <2>1 DEF Inside
<1>7. Inside'
  <2> SUFFICES ASSUME NEW k \in DOMAIN todo' PROVE todo'[k] # Reset
    BY <1>1 DEF Inside, Reset
  <2>1. k + 1 # 1
    BY <1>3, <1>4
  <2> QED
    BY <1>3, <1>6, <2>1
<1>8. Gaps'
  <2> SUFFICES ASSUME NEW j \in DOMAIN tree, Gap(j)
               PROVE  \/ \E k \in DOMAIN todo' : todo'[k] = Null
                      \/ \E k \in DOMAIN todo' : todo'[k].what = "visit" /\ todo'[k].node <= j
                                                  /\ j <= tree[todo'[k].node].last
    BY <1>1 DEF Gaps, Gap
  <2>1. ASSUME NEW k \in DOMAIN todo, k # 1 PROVE k - 1 \in DOMAIN todo' /\ todo'[k - 1] = todo[k]
    <3>1. k - 1 \in 1..(Len(todo) - 1) /\ (k - 1) + 1 = k
      BY <1>3, <2>1
    <3> QED
      BY <1>3, <1>4, <3>1
  <2>2. todo[1] # Null /\ todo[1].what # "visit"
    BY <1>5 DEF Null, Reset
  <2>3. \/ \E k \in DOMAIN todo : todo[k] = Null /\ k # 1
        \/ \E k \in DOMAIN todo : todo[k].what = "visit" /\ todo[k].node <= j
                                  /\ j <= tree[todo[k].node].last /\ k # 1
    BY <1>2, <2>2 DEF Gaps
  <2>4. ASSUME NEW k \in DOMAIN todo, todo[k] = Null, k # 1 PROVE \E h \in DOMAIN todo' : todo'[h] = Null
    BY <2>1, <2>4
  <2>5. ASSUME NEW k \in DOMAIN todo, k # 1, todo[k].what = "visit", todo[k].node <= j,
               j <= tree[todo[k].node].last
        PROVE  \E h \in DOMAIN todo' : todo'[h].what = "visit" /\ todo'[h].node <= j
                                       /\ j <= tree[todo'[h].node].last
    BY <2>1, <2>5
  <2> QED
    BY <2>3, <2>4, <2>5
<1>9. Whole(1)' <=> Whole(1)
  BY <1>1, SameTree
<1>10. Analysing'
  <2>1. \A k \in DOMAIN todo' : \E h \in DOMAIN todo : todo'[k] = todo[h]
    BY <1>3
  <2> HIDE DEF Inside
  <2>2. \A k \in DOMAIN todo' : /\ \/ todo'[k].what = "visit" /\ todo'[k].node \in DOMAIN tree
                                   \/ todo'[k] \in {Null, Reset}
                                /\ todo'[k] = Null => ~Whole(1)
    BY <1>1, <1>2, <2>1 DEF Analysing
  <2> QED
    BY <1>1, <1>2, <1>7, <1>8, <1>9, <2>2 DEF Analysing
<1>11. Typed'
  <2>1. 0 \in 0..Len(tree)
    BY <1>2, Root
  <2> QED
    BY <1>1, <1>2, <1>3, <2>1 DEF Typed
<1>12. Stacked' /\ Named'
  BY <1>1, GrapherKept DEF IInv
<1> QED
  BY <1>1, <1>10, <1>11, <1>12 DEF IInv, Waiting, Passed, Drawing, Generating, Executing, Closing

LEMMA AnalysedStep == IInv /\ Analysed => IInv'
<1> SUFFICES ASSUME IInv, Analysed PROVE IInv'
  OBVIOUS
<1>1. /\ phase = "analyse" /\ status = "running" /\ todo = <<>> /\ tree' = tree
      /\ UNCHANGED <<params, status, tree, func, id, printed, main>>
  BY DEF Analysed, In
<1>2. /\ IsTree(tree) /\ Gaps /\ Analysing /\ Typed /\ stack = <<>> /\ printed = <<>>
      /\ main = 0 /\ Stacked /\ Named
  BY <1>1 DEF IInv, Typed, Analysing
<1>3. Whole(1)
  <2>1. DOMAIN todo = {}
    BY <1>1
  <2>2. 1..tree[1].last = DOMAIN tree
    BY <1>2, Root
  <2> QED
    BY <1>2, <2>1, <2>2 DEF Gaps, Gap, Whole
<1>4. Whole(1)' /\ Option' = Option
  BY <1>1, <1>3, SameTree, OptionKept
<1>5. DOMAIN printed = {} /\ printed' = printed /\ Len(printed) = 0
  BY <1>1, <1>2
<1>6. Named'
  BY <1>5 DEF Named
<1>7. ASSUME Option = "-graph", phase' = "graph", todo' = <<Visit(1)>>,
             stack' = <<<<"Program">>>>, last' = <<"Statement">>
      PROVE  IInv'
  <2> DEFINE a == [due |-> 1, up |-> <<>>]  x == Visit(1)  w == <<x>>  p == <<"Program">>
             q == <<"Statement">>
  <2>1. x \in Items /\ a \in Spots
    BY ItemsAre DEF Spots
  <2>2. w \in Seq(Items)
    BY <2>1
  <2>3. 1 \in DOMAIN tree /\ Len(tree) \in Nat /\ tree[1].last = Len(tree)
    BY <1>2, Root
  <2>4. p \in Names /\ q \in Names /\ q # <<>> /\ q[1] = "Statement"
    <3>1. "Program" \in Letters /\ "Statement" \in Letters
      BY DEF Letters, Kinds
    <3> QED
      BY <3>1 DEF Names
  <2>5. stack' = <<p>> /\ last' = q
    BY <1>7
  <2>6. Leads(w, a, TheEnd)
    <3>1. TheEnd \in Spots
      BY <2>3 DEF TheEnd, Spots
    <3>2. StartOf(1) = 1
      BY <1>2, TopsAre DEF StartOf
    <3>3. VisitFits(x, a, TheEnd)
      <4>1. a.due = 1 /\ a.up = <<>> /\ TheEnd.due = 2 * Len(tree) + 1 /\ TheEnd.up = <<>>
        BY DEF TheEnd
      <4> HIDE DEF a
      <4> QED
        BY <2>3, <3>2, <4>1 DEF VisitFits
    <3>4. Fits(x, a, TheEnd)
      BY <3>3 DEF Fits
    <3> HIDE DEF x, a
    <3> QED
      BY <2>1, <3>1, <3>4, LeadsOne
  <2>7. a.due = 1 /\ a.up = <<>>
    OBVIOUS
  <2> HIDE DEF a, w, p, q
  <2>8. Remains(a)'
    <3>1. todo' = w
      BY <1>7 DEF w
    <3>2. Leads(w, a, TheEnd)'
      BY <1>1, <2>6, SameTree
    <3> QED
      BY <2>2, <3>1, <3>2 DEF Remains
  <2>9. Drew(1)
    <3>1. ASSUME NEW v \in Vertices PROVE ~(v < 1)
      BY <1>2, <2>3, VerticesAre
    <3>2. {u \in Vertices : u < 1} = {}
      BY <3>1
    <3>3. Before(1) = 0
      BY <3>2, FS_EmptySet DEF Before
    <3> QED
      BY <1>5, <3>1, <3>3 DEF Drew
  <2>10. Drew(1)'
    BY <1>1, <2>9, DrewKept
  <2>11. Holds(a.up, a.due)'
    <3>1. Len(a.up) = 0 /\ Len(stack') = 1 /\ stack'[1] = p /\ p = <<"Program">>
      BY <2>5, <2>7 DEF p
    <3> QED
      BY <3>1 DEF Holds
  <2>12. Drawing'
    BY <1>1, <1>4, <1>7, <2>1, <2>4, <2>5, <2>7, <2>8, <2>10, <2>11 DEF Drawing
  <2>13. Typed'
    <3>1. stack' \in Seq(Names) /\ last' \in Names
      BY <2>4, <2>5
    <3>2. todo' \in Seq(Items)
      BY <1>7, <2>2 DEF w
    <3> QED
      BY <1>1, <1>2, <1>5, <1>7, <3>1, <3>2 DEF Typed
  <2>14. Stacked'
    <3>1. Len(stack') = 1
      BY <2>5
    <3> QED
      BY <3>1 DEF Stacked
  <2> QED
    BY <1>4, <1>6, <1>7, <2>12, <2>13, <2>14 DEF IInv, Waiting, Analysing, Passed, Generating, Executing, Closing
<1>8. ASSUME Option # "-graph", phase' = "generate", todo' = From(1), UNCHANGED <<stack, last>>
      PROVE  IInv'
  <2>1. From(1) \in Seq(Items)
    BY ItemsAre DEF From
  <2>2. Typed'
    BY <1>1, <1>2, <1>8, <2>1 DEF Typed
  <2>3. Len(tree[1].kids) \in Nat /\ DOMAIN tree[1].kids = 1..Len(tree[1].kids)
    BY <1>2, Root, NodeOf
  <2>4. Chosen(main, 1)
    BY <1>2, <2>3 DEF Chosen, Valued
  <2>5. Chosen(main, 1)' /\ todo' = From(1)'
    BY <1>1, <1>8, <2>4, SameTree
  <2>6. Generating'
    <3>1. 1 \in 1..(Len(tree[1].kids) + 1)
      BY <2>3
    <3> QED
      BY <1>1, <1>2, <1>4, <1>8, <2>5, <3>1 DEF Generating
  <2>7. Stacked'
    BY <1>1, <1>2, <1>8 DEF Stacked
  <2> QED
    BY <1>4, <1>6, <1>8, <2>2, <2>6, <2>7 DEF IInv, Waiting, Analysing, Passed, Drawing, Executing, Closing
<1> QED
  BY <1>7, <1>8 DEF Analysed

-----------------------------------------------------------------------------
(* The grapher prints a node.                                              *)

LEMMA DrewMore ==
  ASSUME IsTree(tree), NEW f \in Nat, NEW g \in Nat, \A u \in Vertices : u < g <=> u < f, Drew(f)
  PROVE  Drew(g)
<1>1. Before(g) = Before(f)
  BY BeforeSame
<1> QED
  BY <1>1 DEF Drew

(* The node printed is that of the next vertex.                            *)
LEMMA Prints ==
  ASSUME IsTree(tree), tree' = tree, printed \in Seq(Printed),
         NEW due \in Nat, Drew(due), NEW next \in Nat,
         NEW v \in Vertices, due <= v, v < next, \A u \in Vertices : u < next => u < due \/ u = v,
         NEW nm, NEW parent,
         printed' = Append(printed, [name |-> nm, parent |-> parent]),
         \A i \in Drawn : v = NodeVertex(i) => nm[1] = Word(tree[i]) /\ parent = NameAt(Nearest(i)),
         \A i \in Tops : v = StatementVertex(i) => nm[1] = "Statement" /\ parent = <<"Program">>
  PROVE  /\ Drew(next)'
         /\ \A u \in Vertices : u < due => NameAt(u)' = NameAt(u)
         /\ NameAt(v)' = nm
<1>1. Before(next) = Before(due) + 1 /\ Before(v) = Before(due) /\ Before(due) \in Nat
  BY BeforeNext, BeforeType
<1>2. /\ Len(printed) = Before(due) /\ Len(printed') = Before(due) + 1
      /\ printed'[Before(due) + 1] = [name |-> nm, parent |-> parent]
      /\ \A k \in 1..Before(due) : printed'[k] = printed[k]
  <2>1. Len(printed) = Before(due)
    BY DEF Drew
  <2>2. /\ Len(printed') = Len(printed) + 1
        /\ printed'[Len(printed) + 1] = [name |-> nm, parent |-> parent]
        /\ \A k \in 1..Len(printed) : printed'[k] = printed[k]
    OBVIOUS
  <2> QED
    BY <2>1, <2>2
<1>3. ASSUME NEW u \in Vertices, u < due
      PROVE  Place(u)' = Place(u) /\ printed'[Place(u)] = printed[Place(u)] /\ NameAt(u)' = NameAt(u)
  <2>1. Before(u) < Before(due) /\ Place(u) = Before(u) + 1 /\ Before(u) \in Nat
    BY <1>3, BeforeLess
  <2>2. Place(u) \in 1..Before(due)
    BY <1>1, <2>1
  <2>3. Place(u)' = Place(u)
    BY SameTree
  <2> QED
    BY <1>2, <2>2, <2>3 DEF NameAt
<1>4. Place(v)' = Place(v) /\ Place(v) = Before(due) + 1
  <2>1. Place(v) = 1 + Before(v)
    BY DEF Place, Before
  <2> QED
    BY <1>1, <2>1, SameTree
<1>5. NameAt(v)' = nm /\ printed'[Place(v)'].parent = parent
  BY <1>2, <1>4 DEF NameAt
<1>6. /\ Tops' = Tops /\ Drawn' = Drawn /\ Vertices' = Vertices
      /\ (\A i : Nearest(i)' = Nearest(i)) /\ Before(next)' = Before(next)
  BY SameTree
<1>7. \A i \in Drawn \cup Tops : i \in DOMAIN tree /\ i # 1 /\ i \in Nat
  BY TopsAre, VerticesAre, Root
<1>8. ASSUME NEW u \in Vertices, u < next PROVE Right(u)'
  <2>1. CASE u < due
    <3>1. Right(u)
      BY <2>1 DEF Drew
    <3>2. \A i \in Drawn : u = NodeVertex(i) => NameAt(Nearest(i))' = NameAt(Nearest(i))
      <4> SUFFICES ASSUME NEW i \in Drawn, u = NodeVertex(i)
                   PROVE  NameAt(Nearest(i))' = NameAt(Nearest(i))
        OBVIOUS
      <4>1. Nearest(i) \in Vertices /\ Nearest(i) < 2 * i /\ Nearest(i) \in Nat /\ 2 * i \in Nat
        BY <1>7, NearestThere
      <4>2. Nearest(i) < due
        <5>1. u = 2 * i
          BY DEF NodeVertex
        <5> QED
          BY <2>1, <4>1, <5>1
      <4>3. \A x : x = Nearest(i) => NameAt(x)' = NameAt(x)
        BY <1>3, <4>1, <4>2
      <4>4. Nearest(i)' = Nearest(i)
        BY <1>6
      <4>5. Place(Nearest(i))' = Place(Nearest(i)) /\ printed'[Place(Nearest(i))] = printed[Place(Nearest(i))]
        <5> DEFINE y == Nearest(i)
        <5>1. \A x : Place(x)' = Place(x)
          BY SameTree
        <5>2. y' = y
          BY <4>4
        <5>3. printed'[Place(y)] = printed[Place(y)]
          BY <1>3, <4>1, <4>2
        <5> QED
          BY <5>1, <5>2, <5>3, <1>6 DEF Place
      <4> QED
        BY <4>5 DEF NameAt
    <3>3. NameAt(u)' = NameAt(u) /\ printed'[Place(u)'].parent = printed[Place(u)].parent
      BY <1>3, <2>1
    <3> QED
      BY <1>6, <3>1, <3>2, <3>3 DEF Right
  <2>2. CASE u = v
    <3>1. \A i \in Drawn : v = NodeVertex(i) => NameAt(Nearest(i))' = NameAt(Nearest(i))
      <4> SUFFICES ASSUME NEW i \in Drawn, v = NodeVertex(i)
                   PROVE  NameAt(Nearest(i))' = NameAt(Nearest(i))
        OBVIOUS
      <4>1. Nearest(i) \in Vertices /\ Nearest(i) < 2 * i /\ Nearest(i) \in Nat /\ 2 * i \in Nat
        BY <1>7, NearestThere
      <4>2. Nearest(i) < due
        <5>1. v = 2 * i
          BY DEF NodeVertex
        <5>2. Nearest(i) < v /\ Nearest(i) # v
          BY <4>1, <5>1
        <5>3. Nearest(i) < next
          BY <4>1, <5>1, <5>2
        <5> QED
          BY <4>1, <5>2, <5>3
      <4>4. Nearest(i)' = Nearest(i)
        BY <1>6
      <4>5. Place(Nearest(i))' = Place(Nearest(i)) /\ printed'[Place(Nearest(i))] = printed[Place(Nearest(i))]
        <5> DEFINE y == Nearest(i)
        <5>1. \A x : Place(x)' = Place(x)
          BY SameTree
        <5>2. y' = y
          BY <4>4
        <5>3. printed'[Place(y)] = printed[Place(y)]
          BY <1>3, <4>1, <4>2
        <5> QED
          BY <5>1, <5>2, <5>3, <1>6 DEF Place
      <4> QED
        BY <4>5 DEF NameAt
    <3> QED
      BY <1>5, <1>6, <2>2, <3>1 DEF Right
  <2> QED
    BY <1>8, <2>1, <2>2
<1>9. Drew(next)'
  BY <1>1, <1>2, <1>6, <1>8 DEF Drew
<1> QED
  BY <1>3, <1>5, <1>9

(* The names of the nodes stay different.                                  *)
LEMMA NamesKept ==
  ASSUME Named, printed \in Seq(Printed), id = Len(printed), last \in Names,
         NEW nm \in Names, NEW parent,
         printed' = Append(printed, [name |-> nm, parent |-> parent]),
         \/ nm[1] # "Statement" /\ nm = <<nm[1]>> \o Decimal[id] /\ last' = last
         \/ nm[1] = "Statement" /\ nm # <<>> /\ Len(nm) > Len(last) /\ last' = nm
  PROVE  Named'
<1> DEFINE n == Len(printed)
<1>1. /\ n \in Nat /\ Len(printed') = n + 1 /\ DOMAIN printed' = 1..(n + 1) /\ DOMAIN printed = 1..n
      /\ printed'[n + 1].name = nm /\ \A k \in 1..n : printed'[k] = printed[k]
  OBVIOUS
<1>2. \A k \in 1..n : printed[k].name \in Names /\ Len(printed[k].name) \in Nat
  <2> TAKE k \in 1..n
  <2>1. printed[k] \in Printed
    BY <1>1
  <2>2. printed[k].name \in Names
    BY <2>1 DEF Printed
  <2> QED
    BY <2>2 DEF Names
<1>3. Len(last) \in Nat /\ Len(nm) \in Nat /\ Len(last) <= Len(last')
  <2>1. Len(last) \in Nat /\ Len(nm) \in Nat
    BY DEF Names
  <2> QED
    BY <2>1
<1>4. id = n
  OBVIOUS
<1> HIDE DEF n
<1>5. ASSUME NEW j \in DOMAIN printed'
      PROVE  LET x == printed'[j].name IN
             IF x[1] = "Statement" THEN x # <<>> /\ Len(x) <= Len(last')
             ELSE x = <<x[1]>> \o Decimal[j - 1]
  <2>1. CASE j \in 1..n
    <3> DEFINE x == printed[j].name
    <3>1. printed'[j].name = x /\ Len(x) \in Nat /\ j \in DOMAIN printed
      BY <1>1, <1>2, <2>1
    <3>2. IF x[1] = "Statement" THEN x # <<>> /\ Len(x) <= Len(last)
          ELSE x = <<x[1]>> \o Decimal[j - 1]
      BY <3>1 DEF Named
    <3> HIDE DEF x
    <3>3. Len(x) <= Len(last) => Len(x) <= Len(last')
      BY <1>3, <3>1
    <3> QED
      BY <3>1, <3>2, <3>3
  <2>2. CASE j = n + 1
    <3>1. printed'[j].name = nm /\ j - 1 = id
      BY <1>1, <1>4, <2>2
    <3>2. CASE nm[1] # "Statement" /\ nm = <<nm[1]>> \o Decimal[id]
      BY <3>1, <3>2
    <3>3. CASE nm[1] = "Statement" /\ nm # <<>> /\ last' = nm
      BY <1>3, <3>1, <3>3
    <3> QED
      BY <3>2, <3>3
  <2> QED
    BY <1>1, <2>1, <2>2
<1>6. ASSUME NEW i \in DOMAIN printed', NEW j \in DOMAIN printed', i < j,
             printed'[i].name[1] = "Statement", printed'[j].name[1] = "Statement"
      PROVE  Len(printed'[i].name) < Len(printed'[j].name)
  <2>1. i \in 1..n /\ i \in DOMAIN printed /\ printed'[i] = printed[i]
    BY <1>1, <1>6
  <2>2. CASE j \in 1..n
    BY <1>1, <1>6, <2>1, <2>2 DEF Named
  <2>3. CASE j = n + 1
    <3>1. printed'[j].name = nm /\ Len(nm) > Len(last)
      BY <1>1, <1>6, <2>3
    <3>2. Len(printed[i].name) <= Len(last)
      BY <1>6, <2>1 DEF Named
    <3>3. Len(printed[i].name) \in Nat
      BY <1>2, <2>1
    <3> QED
      BY <1>3, <2>1, <3>1, <3>2, <3>3
  <2> QED
    BY <1>1, <2>2, <2>3
<1> QED
  BY <1>5, <1>6 DEF Named

LEMMA StackedKept ==
  ASSUME Stacked, printed \in Seq(Printed), stack \in Seq(Names), NEW nm, NEW parent,
         printed' = Append(printed, [name |-> nm, parent |-> parent]),
         stack' = stack \/ stack' = Append(stack, nm)
  PROVE  Stacked'
<1> DEFINE n == Len(printed)
<1>1. /\ n \in Nat /\ DOMAIN printed' = 1..(n + 1) /\ DOMAIN printed = 1..n
      /\ printed'[n + 1].name = nm /\ \A k \in 1..n : printed'[k] = printed[k]
  OBVIOUS
<1>2. Len(stack) \in Nat
  OBVIOUS
<1> HIDE DEF n
<1>3. ASSUME NEW i \in 2..Len(stack) PROVE \E j \in DOMAIN printed' : printed'[j].name = stack[i]
  <2>1. PICK j \in DOMAIN printed : printed[j].name = stack[i]
    BY DEF Stacked
  <2> QED
    BY <1>1, <2>1
<1>4. \E j \in DOMAIN printed' : printed'[j].name = nm
  BY <1>1
<1>5. CASE stack' = stack
  BY <1>3, <1>5 DEF Stacked
<1>6. CASE stack' = Append(stack, nm)
  <2>1. Len(stack') = Len(stack) + 1 /\ stack'[Len(stack) + 1] = nm
        /\ \A i \in 1..Len(stack) : stack'[i] = stack[i]
    BY <1>6
  <2>2. ASSUME NEW i \in 2..Len(stack') PROVE \E j \in DOMAIN printed' : printed'[j].name = stack'[i]
    <3>1. i \in 2..Len(stack) \/ i = Len(stack) + 1
      BY <1>2, <2>1
    <3>2. i \in 2..Len(stack) => stack'[i] = stack[i]
      BY <1>2, <2>1
    <3> QED
      BY <1>3, <1>4, <2>1, <3>1, <3>2
  <2> QED
    BY <2>2 DEF Stacked
<1> QED
  BY <1>5, <1>6

-----------------------------------------------------------------------------
(* The steps of the grapher.                                               *)

LEMMA GraphWork ==
  ASSUME IInv, phase = "graph"
  PROVE  /\ Typed /\ IsTree(tree) /\ todo \in Seq(Items) /\ Whole(1) /\ Stacked /\ Named
         /\ stack \in Seq(Names) /\ last \in Names /\ printed \in Seq(Printed) /\ id = Len(printed)
         /\ id \in Nat
         /\ status = "running" /\ Option = "-graph" /\ last # <<>> /\ last[1] = "Statement"
         /\ \E a \in Spots : /\ Leads(todo, a, TheEnd) /\ Drew(a.due) /\ Holds(a.up, a.due)
                             /\ todo # <<>> => \E m \in Spots : Fits(todo[1], a, m)
                                                              /\ Leads(Tail(todo), m, TheEnd)
<1>1. /\ Typed /\ IsTree(tree) /\ todo \in Seq(Items) /\ Whole(1) /\ Stacked /\ Named
      /\ stack \in Seq(Names) /\ last \in Names /\ printed \in Seq(Printed) /\ id = Len(printed)
      /\ status = "running" /\ Option = "-graph" /\ last # <<>> /\ last[1] = "Statement"
  BY DEF IInv, Typed, Passed, Drawing
<1>2. PICK a \in Spots : Remains(a) /\ Drew(a.due) /\ Holds(a.up, a.due)
  BY DEF IInv, Drawing
<1>3. Leads(todo, a, TheEnd)
  BY <1>2 DEF Remains
<1>4. todo # <<>> => \E m \in Spots : Fits(Head(todo), a, m) /\ Leads(Tail(todo), m, TheEnd)
  BY <1>1, <1>3, LeadsFirst
<1>5. todo # <<>> => Head(todo) = todo[1]
  BY <1>1
<1>6. Len(printed) \in Nat
  BY <1>1
<1> QED
  BY <1>1, <1>2, <1>3, <1>4, <1>5, <1>6

LEMMA SpotIs ==
  ASSUME NEW a \in Spots
  PROVE  a.due \in Nat /\ a.up \in Seq(Nat) /\ a = [due |-> a.due, up |-> a.up]
BY DEF Spots

LEMMA NoGaps ==
  ASSUME IsTree(tree), Whole(1), NEW i \in DOMAIN tree
  PROVE  Accepted(tree[i]) = [c \in DOMAIN tree[i].kids |-> Visit(tree[i].kids[c])]
<1>1. i \in 1..tree[1].last
  BY Root
<1>2. ~Gap(i)
  BY <1>1 DEF Whole, Gap
<1> QED
  BY <1>2, AcceptedIs

LEMMA VisitedFits ==
  ASSUME IsTree(tree), NEW item, item.what = "visit", NEW a \in Spots, NEW m \in Spots, Fits(item, a, m)
  PROVE  /\ item.node \in DOMAIN tree /\ a.due = StartOf(item.node)
         /\ item.node = 1 => a.up = <<>>
         /\ item.node # 1 => /\ tree[item.node].kind # "Program" /\ a.up # <<>>
                             /\ a.up[Len(a.up)] = Nearest(item.node)
         /\ m = [due |-> 2 * tree[item.node].last + 1, up |-> a.up]
<1>1. VisitFits(item, a, m)
  BY DEF Fits, PopFits, EachFits, Pop, Each
<1>2. PICK i \in DOMAIN tree :
        /\ item = Visit(i) /\ a.due = StartOf(i)
        /\ IF i = 1 THEN a.up = <<>>
           ELSE tree[i].kind # "Program" /\ a.up # <<>> /\ a.up[Len(a.up)] = Nearest(i)
        /\ m.due = 2 * tree[i].last + 1 /\ m.up = a.up
  BY <1>1 DEF VisitFits
<1>3. item.node = i
  BY <1>2 DEF Visit
<1>4. m = [due |-> m.due, up |-> m.up]
  BY SpotIs
<1> QED
  BY <1>2, <1>3, <1>4

(* The vertices up to those of the children of a node.                     *)
LEMMA Started ==
  ASSUME IsTree(tree), NEW i \in DOMAIN tree
  PROVE  /\ StartOf(i) \in Nat /\ StartOf(i) <= 2 * i /\ 2 * i < 2 * i + 1 /\ 2 * i + 1 \in Nat
         /\ \A u \in Vertices : u < 2 * i + 1 => u < StartOf(i) \/ u = 2 * i
         /\ i \notin Drawn => \A u \in Vertices : u < 2 * i + 1 <=> u < StartOf(i)
<1>1. i \in Nat /\ i >= 1
  BY NodeOf
<1>2. StartOf(i) \in Nat /\ StartOf(i) <= 2 * i /\ 2 * i < 2 * i + 1 /\ 2 * i + 1 \in Nat
  BY <1>1 DEF StartOf
<1>3. Vertices \subseteq Nat
  BY VerticesAre
<1>4. ASSUME NEW u \in Vertices, u < 2 * i + 1 PROVE u < StartOf(i) \/ u = 2 * i
  <2>1. u \in Nat
    BY <1>3
  <2>2. CASE i \in Tops
    <3>1. StartOf(i) = 2 * i
      BY <2>2 DEF StartOf
    <3> QED
      BY <1>1, <1>4, <2>1, <3>1
  <2>3. CASE i \notin Tops
    <3>1. StartOf(i) = 2 * i - 1
      BY <2>3 DEF StartOf
    <3>2. 2 * i - 1 \notin Vertices
      BY <2>3, VerticesAre DEF StatementVertex
    <3>3. u # 2 * i - 1
      BY <3>2
    <3> QED
      BY <1>1, <1>4, <2>1, <3>1, <3>3
  <2> QED
    BY <2>2, <2>3
<1>5. ASSUME i \notin Drawn, NEW u \in Vertices PROVE u < 2 * i + 1 <=> u < StartOf(i)
  <2>1. 2 * i \notin Vertices
    BY <1>5, VerticesAre DEF NodeVertex
  <2>2. u # 2 * i /\ u \in Nat
    BY <1>3, <2>1
  <2>3. u < 2 * i + 1 => u < StartOf(i)
    BY <1>4, <2>2
  <2>4. u < StartOf(i) => u < 2 * i + 1
    <3> DEFINE x == StartOf(i)  y == 2 * i
    <3>1. x \in Nat /\ y \in Nat /\ x <= y
      BY <1>1, <1>2
    <3> HIDE DEF x, y
    <3>2. u < x => u < y + 1
      BY <2>2, <3>1
    <3> QED
      BY <3>2 DEF x, y
  <2> QED
    BY <2>3, <2>4
<1> QED
  BY <1>2, <1>4, <1>5

(* What remains of the invariant when the grapher goes on.                 *)
LEMMA GraphStep ==
  ASSUME IInv, phase = "graph", UNCHANGED <<params, phase, status, tree, func, main>>,
         todo' \in Seq(Items), stack' \in Seq(Names), last' \in Names, printed' \in Seq(Printed),
         id' = Len(printed'), last' # <<>>, last'[1] = "Statement", Stacked', Named',
         NEW a \in Spots, NEW work \in Seq(Items), todo' = work, Leads(work, a, TheEnd),
         Drew(a.due)', Holds(a.up, a.due)'
  PROVE  IInv'
<1>1. Option' = Option /\ (Whole(1)' <=> Whole(1)) /\ (Leads(work, a, TheEnd)' <=> Leads(work, a, TheEnd))
  <2>1. TheEnd' = TheEnd
    BY SameTree
  <2>2. \A w, b, c : Leads(w, b, c)' <=> Leads(w, b, c)
    BY SameTree
  <2>3. Leads(work, a, TheEnd)' <=> Leads(work, a, TheEnd)
    BY <2>1, <2>2
  <2> QED
    BY <2>3, SameTree, OptionKept
<1>2. Remains(a)'
  BY <1>1 DEF Remains
<1>3. Typed /\ Whole(1) /\ status = "running" /\ Option = "-graph"
  BY DEF IInv, Passed, Drawing
<1>4. Drawing'
  BY <1>1, <1>2, <1>3 DEF Drawing
<1>5. Typed'
  BY <1>3 DEF Typed
<1> QED
  BY <1>1, <1>3, <1>4, <1>5 DEF IInv, Waiting, Analysing, Passed, Generating, Executing, Closing

LEMMA HoldsKept ==
  ASSUME UNCHANGED <<tree, stack, printed>>, NEW up, NEW due, NEW next, Holds(up, due),
         \A k \in 1..Len(up) : up[k] < due => up[k] < next
  PROVE  Holds(up, next)'
<1>1. Vertices' = Vertices /\ \A v : NameAt(v)' = NameAt(v)
  BY SameTree DEF NameAt
<1> QED
  BY <1>1 DEF Holds

LEMMA GraphPlainStep == IInv /\ GraphPlain => IInv'
<1> SUFFICES ASSUME IInv, GraphPlain PROVE IInv'
  OBVIOUS
<1>0. PICK i : i = todo[1].node
  OBVIOUS
<1> DEFINE s == [c \in DOMAIN tree[i].kids |-> Visit(tree[i].kids[c])]
<1>1. /\ phase = "graph" /\ todo # <<>> /\ Head(todo).what = "visit" /\ Current.kind \in PlainKinds
      /\ todo' = Accepted(Current) \o Tail(todo)
      /\ UNCHANGED <<params, phase, status, tree, func, stack, id, last, printed, main>>
  BY DEF GraphPlain, Graphing, In, Doing, grapher
<1>2. /\ IsTree(tree) /\ todo \in Seq(Items) /\ Whole(1) /\ Stacked /\ Named
      /\ stack \in Seq(Names) /\ last \in Names /\ printed \in Seq(Printed) /\ id = Len(printed)
      /\ last # <<>> /\ last[1] = "Statement"
  BY <1>1, GraphWork
<1>3. PICK a \in Spots, m \in Spots : /\ Drew(a.due) /\ Holds(a.up, a.due)
                                      /\ Fits(todo[1], a, m) /\ Leads(Tail(todo), m, TheEnd)
  BY <1>1, GraphWork
<1>4. todo[1].what = "visit" /\ Current = tree[i] /\ Tail(todo) \in Seq(Items)
  BY <1>0, <1>1, <1>2, WorkIs DEF Current
<1>5. /\ i \in DOMAIN tree /\ a.due = StartOf(i)
      /\ i = 1 => a.up = <<>>
      /\ i # 1 => a.up # <<>> /\ a.up[Len(a.up)] = Nearest(i)
      /\ m = [due |-> 2 * tree[i].last + 1, up |-> a.up]
  BY <1>0, <1>2, <1>3, <1>4, VisitedFits
<1>6. i # 1 /\ i \notin Drawn
  BY <1>1, <1>2, <1>4, Root DEF PlainKinds, Stmts, Drawn, InnerKinds, LeafKinds
<1>7. todo' = s \o Tail(todo)
  BY <1>1, <1>2, <1>4, <1>5, NoGaps
<1>8. a.due \in Nat /\ a.up \in Seq(Nat)
  BY SpotIs
<1> HIDE DEF s
<1>b. PICK b : b = [due |-> 2 * i + 1, up |-> a.up]
  OBVIOUS
<1>9. s \in Seq(Items) /\ Leads(s, b, m)
  BY <1>2, <1>5, <1>6, <1>8, <1>b, LeadsThrough DEF s
<1>10. /\ 2 * i + 1 \in Nat /\ StartOf(i) <= 2 * i /\ StartOf(i) \in Nat /\ i \in Nat
       /\ \A u \in Vertices : u < 2 * i + 1 <=> u < StartOf(i)
  BY <1>2, <1>5, <1>6, Started, NodeOf
<1>11. b \in Spots /\ b.due = 2 * i + 1 /\ b.up = a.up
  BY <1>8, <1>10, <1>b DEF Spots
<1>12. PICK work \in Seq(Items) : todo' = work /\ Leads(work, b, TheEnd)
  <2>1. Leads(s \o Tail(todo), b, TheEnd)
    BY <1>3, <1>4, <1>9, LeadsJoin
  <2>2. s \o Tail(todo) \in Seq(Items)
    BY <1>4, <1>9
  <2> QED
    BY <1>7, <2>1, <2>2
<1>13. Drew(b.due)'
  <2>1. Drew(b.due)
    BY <1>2, <1>3, <1>5, <1>8, <1>10, <1>11, DrewMore
  <2> QED
    BY <1>1, <2>1, DrewKept
<1>14. Holds(b.up, b.due)'
  <2>1. \A k \in 1..Len(a.up) : a.up[k] < a.due => a.up[k] < b.due
    <3> SUFFICES ASSUME NEW k \in 1..Len(a.up), a.up[k] < a.due PROVE a.up[k] < b.due
      OBVIOUS
    <3>1. a.up[k] \in Nat
      BY <1>8
    <3> QED
      BY SMTT(20), <1>5, <1>8, <1>10, <1>11, <3>1
  <2> QED
    BY <1>1, <1>3, <1>11, <2>1, HoldsKept
<1>15. Stacked' /\ Named'
  BY <1>1, <1>2, GrapherKept
<1> QED
  BY <1>1, <1>2, <1>11, <1>12, <1>13, <1>14, <1>15, GraphStep

LEMMA GraphProgramStep == IInv /\ GraphProgram => IInv'
<1> SUFFICES ASSUME IInv, GraphProgram PROVE IInv'
  OBVIOUS
<1>1. /\ phase = "graph" /\ todo # <<>> /\ Head(todo).what = "visit" /\ Current.kind = "Program"
      /\ todo' = From(1) \o Tail(todo)
      /\ UNCHANGED <<params, phase, status, tree, func, stack, id, last, printed, main>>
  BY DEF GraphProgram, Graphing, In, Doing, grapher
<1>2. /\ IsTree(tree) /\ todo \in Seq(Items) /\ Whole(1) /\ Stacked /\ Named
      /\ stack \in Seq(Names) /\ last \in Names /\ printed \in Seq(Printed) /\ id = Len(printed)
      /\ last # <<>> /\ last[1] = "Statement"
  BY <1>1, GraphWork
<1>3. PICK a \in Spots, m \in Spots : /\ Drew(a.due) /\ Holds(a.up, a.due)
                                      /\ Fits(todo[1], a, m) /\ Leads(Tail(todo), m, TheEnd)
  BY <1>1, GraphWork
<1>4. todo[1].what = "visit" /\ Current = tree[todo[1].node] /\ Tail(todo) \in Seq(Items)
  BY <1>1, <1>2, WorkIs DEF Current
<1>5. /\ todo[1].node = 1 /\ a.due = StartOf(1) /\ a.up = <<>>
      /\ m = [due |-> 2 * tree[1].last + 1, up |-> <<>>]
  BY <1>1, <1>2, <1>3, <1>4, VisitedFits
<1>6. 1 \in DOMAIN tree /\ 1 \notin Drawn /\ tree[1].last = Len(tree) /\ Len(tree) \in Nat
  BY <1>2, Root, VerticesAre
<1>7. m = TheEnd
  BY <1>5, <1>6 DEF TheEnd
<1>b. PICK b : b = [due |-> 2 * 1 + 1, up |-> <<>>]
  OBVIOUS
<1>8. b \in Spots /\ b.due = 2 * 1 + 1 /\ b.up = <<>>
  BY <1>b DEF Spots
<1>9. PICK f \in Seq(Items) : f = From(1) /\ Leads(f, b, TheEnd)
  <2>1. CASE DOMAIN tree[1].kids = {}
    <3>1. tree[1].last = 1
      BY <1>2, <1>6, <2>1, KidsFollow
    <3>2. b = TheEnd
      BY <1>6, <1>b, <3>1 DEF TheEnd
    <3>3. From(1) = <<>> /\ <<>> \in Seq(Items)
      BY <2>1 DEF From
    <3>4. Leads(<<>>, b, TheEnd)
      BY <1>8, <3>2, LeadsNowhere
    <3> QED
      BY <3>3, <3>4
  <2>2. CASE DOMAIN tree[1].kids # {}
    <3>1. 1 \in DOMAIN tree[1].kids /\ tree[1].kids[1] = 2
      BY <1>2, <1>6, <2>2, KidsFollow
    <3>2. From(1) = <<Each(1)>>
      BY <3>1 DEF From
    <3>3. b.due = StatementVertex(2)
      BY <1>8 DEF StatementVertex
    <3>4. EachFits(Each(1), b, TheEnd)
      BY <1>8, <3>1, <3>3 DEF EachFits
    <3>5. TheEnd \in Spots
      BY <1>3, <1>7
    <3>6. Leads(<<Each(1)>>, b, TheEnd)
      BY <1>8, <3>4, <3>5, LeadsOne DEF Fits
    <3>7. <<Each(1)>> \in Seq(Items)
      <4> DEFINE x == Each(1)
      <4>1. x \in Items
        BY ItemsAre
      <4> HIDE DEF x
      <4> QED
        BY <4>1 DEF x
    <3> QED
      BY <3>2, <3>6, <3>7
  <2> QED
    BY <2>1, <2>2
<1>10. \A u \in Vertices : u < 2 * 1 + 1 <=> u < StartOf(1)
  BY <1>2, <1>6, Started
<1>11. a.due \in Nat
  BY SpotIs
<1>12. PICK work \in Seq(Items) : todo' = work /\ Leads(work, b, TheEnd)
  <2>1. Leads(f \o Tail(todo), b, TheEnd)
    BY <1>3, <1>4, <1>7, <1>9, LeadsJoin
  <2>2. f \o Tail(todo) \in Seq(Items)
    BY <1>4, <1>9
  <2> QED
    BY <1>1, <1>9, <2>1, <2>2
<1>13. Drew(b.due)'
  <2>1. Drew(b.due)
    BY <1>2, <1>3, <1>5, <1>8, <1>10, <1>11, DrewMore
  <2> QED
    BY <1>1, <2>1, DrewKept
<1>14. Holds(b.up, b.due)'
  <2>1. \A k \in 1..Len(b.up) : b.up[k] < a.due => b.up[k] < b.due
    BY <1>8
  <2> QED
    BY <1>1, <1>3, <1>5, <1>8, <2>1, HoldsKept
<1>15. Stacked' /\ Named'
  BY <1>1, <1>2, GrapherKept
<1> QED
  BY <1>1, <1>2, <1>8, <1>12, <1>13, <1>14, <1>15, GraphStep

LEMMA GraphPopStep == IInv /\ GraphPop => IInv'
<1> SUFFICES ASSUME IInv, GraphPop PROVE IInv'
  OBVIOUS
<1>1. /\ phase = "graph" /\ todo # <<>> /\ Head(todo).what = "pop"
      /\ todo' = Tail(todo) /\ stack' = SubSeq(stack, 1, Len(stack) - 1)
      /\ UNCHANGED <<params, phase, status, tree, func, id, last, printed, main>>
  BY DEF GraphPop, In, Doing
<1>2. /\ IsTree(tree) /\ todo \in Seq(Items) /\ Whole(1) /\ Stacked /\ Named
      /\ stack \in Seq(Names) /\ last \in Names /\ printed \in Seq(Printed) /\ id = Len(printed)
      /\ last # <<>> /\ last[1] = "Statement"
  BY <1>1, GraphWork
<1>3. PICK a \in Spots, m \in Spots : /\ Drew(a.due) /\ Holds(a.up, a.due)
                                      /\ Fits(todo[1], a, m) /\ Leads(Tail(todo), m, TheEnd)
  BY <1>1, GraphWork
<1>4. todo[1].what = "pop" /\ Tail(todo) \in Seq(Items)
  BY <1>1, <1>2, WorkIs
<1>5. a.up # <<>> /\ m.due = a.due /\ m.up = SubSeq(a.up, 1, Len(a.up) - 1)
  <2>1. ~VisitFits(todo[1], a, m) /\ ~EachFits(todo[1], a, m)
    <3>1. \A j : todo[1] # Visit(j) /\ todo[1] # Each(j)
      BY <1>4 DEF Visit, Each
    <3> QED
      BY <3>1 DEF VisitFits, EachFits
  <2>2. PopFits(todo[1], a, m)
    BY <1>3, <2>1 DEF Fits
  <2> QED
    BY <2>2 DEF PopFits
<1>6. a.up \in Seq(Nat) /\ a.due \in Nat
  BY SpotIs
<1> DEFINE n == Len(a.up)
<1>7. n \in Nat /\ n >= 1 /\ Len(m.up) = n - 1 /\ \A k \in 1..(n - 1) : m.up[k] = a.up[k]
  BY <1>5, <1>6
<1>8. /\ Len(stack) = n + 1 /\ stack[1] = <<"Program">>
      /\ \A k \in 1..n : a.up[k] \in Vertices /\ a.up[k] < a.due /\ stack[k + 1] = NameAt(a.up[k])
  BY <1>3 DEF Holds
<1> HIDE DEF n
<1>9. /\ stack' \in Seq(Names) /\ Len(stack') = n
      /\ \A k \in 1..n : stack'[k] = stack[k]
  <2>1. stack' = SubSeq(stack, 1, n)
    BY <1>1, <1>7, <1>8
  <2>2. n <= Len(stack)
    BY <1>7, <1>8
  <2> QED
    BY <1>2, <1>7, <2>1, <2>2
<1>10. Holds(m.up, m.due)'
  <2>1. Vertices' = Vertices /\ \A v : NameAt(v)' = NameAt(v)
    BY <1>1, SameTree DEF NameAt
  <2>2. ASSUME NEW k \in 1..Len(m.up)
        PROVE  m.up[k] \in Vertices /\ m.up[k] < m.due /\ stack'[k + 1] = NameAt(m.up[k])
    <3>1. k \in 1..n /\ k + 1 \in 1..n /\ m.up[k] = a.up[k]
      BY <1>7
    <3> QED
      BY <1>5, <1>8, <1>9, <3>1
  <2>3. Len(stack') = Len(m.up) + 1 /\ stack'[1] = <<"Program">>
    BY <1>7, <1>8, <1>9
  <2> QED
    BY <2>1, <2>2, <2>3 DEF Holds
<1>11. Drew(m.due)'
  BY <1>1, <1>3, <1>5, DrewKept
<1>12. Stacked'
  <2>1. \A k \in 2..n : k \in 2..Len(stack) /\ stack'[k] = stack[k]
    BY <1>7, <1>8, <1>9
  <2>2. \A k \in 2..n : \E j \in DOMAIN printed : printed[j].name = stack[k]
    BY <1>2, <2>1 DEF Stacked
  <2>3. \A k \in 2..Len(stack') : \E j \in DOMAIN printed' : printed'[j].name = stack'[k]
    BY <1>1, <1>9, <2>1, <2>2
  <2> QED
    BY <2>3 DEF Stacked
<1>13. Named'
  BY <1>1, <1>2 DEF Named
<1>14. PICK work \in Seq(Items) : todo' = work /\ Leads(work, m, TheEnd)
  BY <1>1, <1>3, <1>4
<1>15. todo' \in Seq(Items)
  BY <1>14
<1> QED
  BY <1>1, <1>2, <1>9, <1>10, <1>11, <1>12, <1>13, <1>14, <1>15, GraphStep

LEMMA GraphedStep == IInv /\ Graphed => IInv'
<1> SUFFICES ASSUME IInv, Graphed PROVE IInv'
  OBVIOUS
<1>1. /\ phase = "graph" /\ todo = <<>> /\ phase' = "close"
      /\ UNCHANGED <<params, status, tree, todo, func, stack, id, last, printed, main>>
  BY DEF Graphed, In, visitor, grapher
<1>2. Typed /\ IsTree(tree) /\ Whole(1) /\ Stacked /\ Named /\ status = "running" /\ Option = "-graph"
  BY <1>1, GraphWork
<1>3. PICK a \in Spots : Leads(todo, a, TheEnd) /\ Drew(a.due) /\ Holds(a.up, a.due)
  BY <1>1, GraphWork
<1>4. a = TheEnd
  BY <1>1, <1>3, LeadsNowhere
<1>5. a.due = 2 * Len(tree) + 1 /\ a.up = <<>>
  BY <1>4 DEF TheEnd
<1>6. Len(stack) = 1 /\ Drew(2 * Len(tree) + 1)
  BY <1>3, <1>5 DEF Holds
<1>7. Drew(2 * Len(tree) + 1)'
  <2>1. \A due : due = 2 * Len(tree) + 1 => Drew(due)'
    BY <1>1, <1>6, DrewKept
  <2>2. PICK due : due = 2 * Len(tree) + 1
    OBVIOUS
  <2> QED
    BY <1>1, <2>1, <2>2 DEF Drew
<1>8. Whole(1)' /\ Option' = Option /\ Stacked' /\ Named'
  BY <1>1, <1>2, SameTree, OptionKept, GrapherKept
<1>9. Typed'
  BY <1>1, <1>2 DEF Typed
<1>10. Closing'
  BY <1>1, <1>2, <1>6, <1>7, <1>8 DEF Closing
<1> QED
  BY <1>1, <1>8, <1>9, <1>10 DEF IInv, Waiting, Analysing, Passed, Drawing, Generating, Executing

LEMMA NameIs ==
  ASSUME NEW name \in Names, name # <<>>, NEW n \in Nat
  PROVE  /\ name \o Decimal[n] \in Names /\ name \o Decimal[n] # <<>>
         /\ (name \o Decimal[n])[1] = name[1]
         /\ Len(name \o Decimal[n]) > Len(name)
<1> DEFINE d == Decimal[n]
<1>1. d \in Seq(Nat) /\ Len(d) >= 1
  BY DecimalLength
<1> HIDE DEF d
<1>2. d \in Seq(Letters) /\ name \in Seq(Letters)
  <2>1. d \in Seq(Letters)
    <3>1. \A k \in 1..Len(d) : d[k] \in Letters
      BY <1>1 DEF Letters
    <3>2. d = [k \in 1..Len(d) |-> d[k]] /\ Len(d) \in Nat
      BY <1>1
    <3> QED
      BY <3>1, <3>2
  <2> QED
    BY <2>1 DEF Names
<1> DEFINE x == name \o d
<1>3. x \in Seq(Letters) /\ Len(x) = Len(name) + Len(d) /\ Len(name) \in Nat /\ Len(d) \in Nat
      /\ \A k \in 1..Len(name) : x[k] = name[k]
  BY <1>2
<1>4. Len(name) # 0
  BY <1>2
<1> HIDE DEF x
<1>5. x \in Names /\ x[1] = name[1] /\ Len(x) > Len(name) /\ Len(x) # 0
  BY <1>1, <1>3, <1>4 DEF Names
<1>6. x # <<>>
  BY <1>5
<1> QED
  BY <1>5, <1>6 DEF x, d

LEMMA WordIs ==
  ASSUME IsTree(tree), NEW i \in Drawn, NEW n \in Nat, NEW nm, nm = <<Word(tree[i])>> \o Decimal[n]
  PROVE  /\ nm \in Names /\ nm[1] = Word(tree[i]) /\ nm[1] # "Statement"
         /\ nm = <<nm[1]>> \o Decimal[n]
<1> DEFINE w == Word(tree[i])
<1>1. w \in Letters /\ w # "Statement"
  BY DEF Drawn, InnerKinds, LeafKinds, Word, Letters, Kinds, Exprs, Stmts
<1> HIDE DEF w
<1> DEFINE s == <<w>>
<1>2. s \in Names /\ s # <<>> /\ s[1] = w
  BY <1>1 DEF Names
<1> HIDE DEF s
<1>3. nm = s \o Decimal[n]
  BY DEF s, w
<1>4. nm \in Names /\ nm[1] = w
  <2>1. s \o Decimal[n] \in Names /\ (s \o Decimal[n])[1] = s[1]
    BY <1>2, NameIs
  <2> QED
    BY <1>2, <1>3, <2>1
<1> QED
  BY <1>1, <1>3, <1>4 DEF s, w

(* The name of the node printed is put on top of the stack, or not.        *)
LEMMA HoldsPrinted ==
  ASSUME tree' = tree, IsTree(tree), stack \in Seq(Names), NEW up \in Seq(Nat), NEW due \in Nat,
         NEW next \in Nat, due < next, Holds(up, due), \A u \in Vertices : u < due => NameAt(u)' = NameAt(u)
  PROVE  /\ stack' = stack => Holds(up, next)'
         /\ \A v \in Vertices : \A nm :
              v < next /\ NameAt(v)' = nm /\ stack' = Append(stack, nm) => Holds(Append(up, v), next)'
<1>1. Vertices' = Vertices /\ Vertices \subseteq Nat
  BY SameTree, VerticesAre
<1>2. /\ Len(stack) = Len(up) + 1 /\ stack[1] = <<"Program">> /\ Len(up) \in Nat
      /\ \A k \in 1..Len(up) : up[k] \in Vertices /\ up[k] < due /\ stack[k + 1] = NameAt(up[k])
  BY DEF Holds
<1>3. ASSUME NEW k \in 1..Len(up)
      PROVE  up[k] \in Vertices /\ up[k] < next /\ stack[k + 1] = NameAt(up[k])'
  <2>1. up[k] \in Vertices /\ up[k] < due /\ stack[k + 1] = NameAt(up[k])
    BY <1>2
  <2>2. PICK u \in Vertices : u = up[k]
    BY <2>1
  <2>3. NameAt(u)' = NameAt(u)
    BY <2>1, <2>2
  <2>4. u \in Nat /\ u < due
    BY <1>1, <2>1, <2>2
  <2>5. u < next
    BY <2>4
  <2> QED
    BY <2>1, <2>2, <2>3, <2>5 DEF NameAt
<1>4. ASSUME stack' = stack PROVE Holds(up, next)'
  BY <1>1, <1>2, <1>3, <1>4 DEF Holds
<1>5. ASSUME NEW v \in Vertices, v < next, NEW nm, NameAt(v)' = nm, stack' = Append(stack, nm)
      PROVE  Holds(Append(up, v), next)'
  <2>1. PICK up2 : up2 = Append(up, v)
    OBVIOUS
  <2>2. v \in Nat
    BY <1>1
  <2>3. /\ Len(up2) = Len(up) + 1 /\ up2[Len(up) + 1] = v /\ \A k \in 1..Len(up) : up2[k] = up[k]
    BY <2>1, <2>2
  <2>4. /\ Len(stack') = Len(stack) + 1 /\ stack'[Len(stack) + 1] = nm
        /\ \A k \in 1..Len(stack) : stack'[k] = stack[k]
    BY <1>5
  <2>5. ASSUME NEW k \in 1..Len(up2)
        PROVE  up2[k] \in Vertices /\ up2[k] < next /\ stack'[k + 1] = NameAt(up2[k])'
    <3>1. CASE k \in 1..Len(up)
      <4>1. k + 1 \in 1..Len(stack) /\ up2[k] = up[k]
        BY <1>2, <2>3, <3>1
      <4>2. stack'[k + 1] = stack[k + 1]
        BY <2>4, <4>1
      <4> QED
        BY <1>3, <3>1, <4>1, <4>2 DEF NameAt
    <3>2. CASE k = Len(up) + 1
      <4>1. up2[k] = v /\ stack'[k + 1] = nm
        BY <1>2, <2>3, <2>4, <3>2
      <4> QED
        BY <1>5, <4>1 DEF NameAt
    <3> QED
      BY <1>2, <2>3, <3>1, <3>2
  <2>6. Len(stack') = Len(up2) + 1 /\ stack'[1] = <<"Program">>
    BY <1>2, <2>3, <2>4
  <2>7. Holds(up2, next)'
    BY <1>1, <2>5, <2>6 DEF Holds
  <2>8. \A x : x = Append(up, v) => Holds(x, next)'
    BY <2>1, <2>7
  <2> QED
    BY <2>1, <2>7
<1> QED
  BY <1>4, <1>5

(* Of the stack the name on top is that of the node to link to.            *)
LEMMA TopIs ==
  ASSUME NEW up, NEW due, Holds(up, due), up \in Seq(Nat)
  PROVE  /\ up = <<>> => Top = <<"Program">>
         /\ up # <<>> => Top = NameAt(up[Len(up)])
<1>1. /\ Len(stack) = Len(up) + 1 /\ stack[1] = <<"Program">> /\ Len(up) \in Nat
      /\ \A k \in 1..Len(up) : stack[k + 1] = NameAt(up[k])
  BY DEF Holds
<1>2. up = <<>> => Len(up) = 0
  OBVIOUS
<1>3. up # <<>> => Len(up) \in 1..Len(up)
  OBVIOUS
<1> QED
  BY <1>1, <1>2, <1>3 DEF Top

LEMMA GraphLeafStep == IInv /\ GraphLeaf => IInv'
<1> SUFFICES ASSUME IInv, GraphLeaf PROVE IInv'
  OBVIOUS
<1>0. PICK i : i = todo[1].node
  OBVIOUS
<1>1. /\ phase = "graph" /\ todo # <<>> /\ Head(todo).what = "visit" /\ Current.kind \in LeafKinds
      /\ todo' = Tail(todo) /\ Declare(<<Word(Current)>>)
      /\ UNCHANGED <<params, phase, status, tree, func, stack, last, main>>
  BY DEF GraphLeaf, Graphing, In, Doing
<1>2. /\ IsTree(tree) /\ todo \in Seq(Items) /\ Whole(1) /\ Stacked /\ Named
      /\ stack \in Seq(Names) /\ last \in Names /\ printed \in Seq(Printed) /\ id = Len(printed)
      /\ last # <<>> /\ last[1] = "Statement" /\ id \in Nat
  BY <1>1, GraphWork
<1>3. PICK a \in Spots, m \in Spots : /\ Drew(a.due) /\ Holds(a.up, a.due)
                                      /\ Fits(todo[1], a, m) /\ Leads(Tail(todo), m, TheEnd)
  BY <1>1, GraphWork
<1>4. todo[1].what = "visit" /\ Current = tree[i] /\ Tail(todo) \in Seq(Items)
  BY <1>0, <1>1, <1>2, WorkIs DEF Current
<1>5. /\ i \in DOMAIN tree /\ a.due = StartOf(i)
      /\ i # 1 => a.up # <<>> /\ a.up[Len(a.up)] = Nearest(i)
      /\ m = [due |-> 2 * tree[i].last + 1, up |-> a.up]
  BY <1>0, <1>2, <1>3, <1>4, VisitedFits
<1>6. i # 1 /\ i \in Drawn /\ i \in Nat
  <2>1. tree[1].kind = "Program"
    BY <1>2, Root
  <2> QED
    BY <1>1, <1>2, <1>4, <1>5, <2>1, NodeOf DEF LeafKinds, Drawn
<1>7. a.due \in Nat /\ a.up \in Seq(Nat)
  BY SpotIs
<1>8. tree[i].last = i
  <2>1. /\ tree[i].kind \in Lists \/ Len(tree[i].kids) = Arity(tree[i].kind) - (IF tree[i].lacks THEN 1 ELSE 0)
        /\ tree[i].lacks => tree[i].kind \in Optional
    BY <1>2, <1>5 DEF IsTree, Parsed
  <2>2. Len(tree[i].kids) = 0
    <3> DEFINE kind == tree[i].kind
    <3>1. kind \in LeafKinds
      BY <1>1, <1>4
    <3> HIDE DEF kind
    <3>2. kind \notin Lists /\ kind \notin Optional /\ Arity(kind) = 0
      BY <3>1 DEF LeafKinds, Lists, Optional, Arity
    <3>3. ~tree[i].lacks
      BY <2>1, <3>2 DEF kind
    <3> QED
      BY <2>1, <3>2, <3>3 DEF kind
  <2>3. DOMAIN tree[i].kids = 1..Len(tree[i].kids)
    BY <1>2, <1>5, NodeOf
  <2>4. DOMAIN tree[i].kids = {}
    BY <2>2, <2>3
  <2> QED
    BY <1>2, <1>5, <2>4, KidsFollow
<1>9. PICK nm, parent, v, next : /\ nm = <<Word(tree[i])>> \o Decimal[id] /\ parent = Top
                                 /\ v = NodeVertex(i) /\ next = 2 * i + 1
  OBVIOUS
<1>10. printed' = Append(printed, [name |-> nm, parent |-> parent]) /\ id' = id + 1
  BY <1>1, <1>4, <1>9 DEF Declare
<1>11. nm \in Names /\ nm[1] = Word(tree[i]) /\ nm[1] # "Statement" /\ nm = <<nm[1]>> \o Decimal[id]
  BY <1>2, <1>6, <1>9, WordIs
<1>12. parent = NameAt(Nearest(i)) /\ parent \in Names
  <2>1. parent = NameAt(Nearest(i))
    BY <1>3, <1>5, <1>6, <1>7, <1>9, TopIs
  <2>2. Len(stack) \in DOMAIN stack
    <3>1. Len(stack) = Len(a.up) + 1 /\ Len(a.up) \in Nat
      BY <1>3, <1>7 DEF Holds
    <3> QED
      BY <1>2, <3>1
  <2>3. stack[Len(stack)] \in Names
    BY <1>2, <2>2
  <2> QED
    BY <1>9, <2>1, <2>3 DEF Top
<1>13. /\ next \in Nat /\ v \in Vertices /\ a.due <= v /\ v < next /\ a.due < next
       /\ \A u \in Vertices : u < next => u < a.due \/ u = v
  <2>1. v = 2 * i /\ v \in Vertices
    BY <1>2, <1>5, <1>6, <1>9, VerticesAre DEF NodeVertex
  <2>2. /\ StartOf(i) \in Nat /\ StartOf(i) <= 2 * i /\ 2 * i < 2 * i + 1 /\ 2 * i + 1 \in Nat
        /\ \A u \in Vertices : u < 2 * i + 1 => u < StartOf(i) \/ u = 2 * i
    BY <1>2, <1>5, Started
  <2>3. StartOf(i) < 2 * i + 1
    BY <1>6, <2>2
  <2> QED
    BY <1>5, <1>9, <2>1, <2>2, <2>3
<1>14. /\ \A j \in Drawn : v = NodeVertex(j) => nm[1] = Word(tree[j]) /\ parent = NameAt(Nearest(j))
       /\ \A j \in Tops : v = StatementVertex(j) => nm[1] = "Statement" /\ parent = <<"Program">>
  <2>1. \A j \in Drawn \cup Tops : j \in Nat
    BY <1>2, TopsAre, VerticesAre, Root
  <2>2. \A j \in Drawn : v = NodeVertex(j) => j = i
    BY <1>6, <1>9, <2>1 DEF NodeVertex
  <2>3. ASSUME NEW j \in Tops PROVE v # StatementVertex(j)
    <3>1. j \in Nat
      BY <2>1
    <3>2. 2 * i # 2 * j - 1
      BY <1>6, <3>1
    <3> QED
      BY <1>9, <3>2 DEF NodeVertex, StatementVertex
  <2> QED
    BY <1>11, <1>12, <2>2, <2>3
<1>15. Drew(next)' /\ \A u \in Vertices : u < a.due => NameAt(u)' = NameAt(u)
  <2>1. tree' = tree /\ IsTree(tree) /\ printed \in Seq(Printed) /\ Drew(a.due) /\ a.due \in Nat
    BY <1>1, <1>2, <1>3, <1>7
  <2> QED
    BY <1>10, <1>13, <1>14, <2>1, Prints
<1>16. Holds(a.up, next)'
  BY <1>1, <1>2, <1>3, <1>7, <1>13, <1>15, HoldsPrinted
<1>17. m.due = next /\ m.up = a.up
  BY <1>5, <1>8, <1>9
<1>18. Named'
  BY <1>1, <1>2, <1>10, <1>11, NamesKept
<1>19. Stacked'
  BY <1>1, <1>2, <1>10, StackedKept
<1>20. printed' \in Seq(Printed) /\ id' = Len(printed')
  <2>1. [name |-> nm, parent |-> parent] \in Printed
    BY <1>11, <1>12 DEF Printed
  <2> QED
    BY <1>2, <1>10, <2>1
<1>21. PICK work \in Seq(Items) : todo' = work /\ Leads(work, m, TheEnd)
  BY <1>1, <1>3, <1>4
<1>22. Drew(m.due)' /\ Holds(m.up, m.due)'
  BY <1>15, <1>16, <1>17
<1> QED
  BY <1>1, <1>2, <1>18, <1>19, <1>20, <1>21, <1>22, GraphStep

LEMMA AppendPopped ==
  ASSUME NEW up \in Seq(Nat), NEW v \in Nat
  PROVE  /\ Append(up, v) \in Seq(Nat) /\ Append(up, v) # <<>>
         /\ Append(up, v)[Len(Append(up, v))] = v
         /\ SubSeq(Append(up, v), 1, Len(Append(up, v)) - 1) = up
<1> DEFINE n == Len(up)
<1>1. PICK x : x = Append(up, v)
  OBVIOUS
<1>2. /\ x \in Seq(Nat) /\ n \in Nat /\ Len(x) = n + 1 /\ x[n + 1] = v
      /\ \A k \in 1..n : x[k] = up[k]
  BY <1>1
<1>3. x # <<>> /\ Len(x) - 1 = n
  BY <1>2
<1>4. PICK y : y = SubSeq(x, 1, n)
  OBVIOUS
<1>5. y \in Seq(Nat) /\ Len(y) = n /\ \A k \in 1..n : y[k] = x[k]
  BY <1>2, <1>4
<1>6. y = up
  <2>1. \A k \in 1..n : y[k] = up[k]
    BY <1>2, <1>5
  <2>2. y = [k \in 1..n |-> y[k]] /\ up = [k \in 1..n |-> up[k]]
    BY <1>5
  <2> QED
    BY <2>1, <2>2
<1>7. x[Len(x)] = v /\ SubSeq(x, 1, Len(x) - 1) = up
  BY <1>2, <1>3, <1>4, <1>6
<1> QED
  BY <1>1, <1>2, <1>3, <1>7

(* What is done once the children of a node were visited.                  *)
LEMMA LeadsPopping ==
  ASSUME NEW s \in Seq(Items), NEW work \in Seq(Items), NEW b, NEW d \in Nat, NEW up \in Seq(Nat),
         NEW v \in Nat, NEW end, Leads(s, b, [due |-> d, up |-> Append(up, v)]),
         Leads(work, [due |-> d, up |-> up], end)
  PROVE  (s \o <<Pop>>) \o work \in Seq(Items) /\ Leads((s \o <<Pop>>) \o work, b, end)
<1>1. PICK y, z : y = [due |-> d, up |-> Append(up, v)] /\ z = [due |-> d, up |-> up]
  OBVIOUS
<1>2. y \in Spots /\ z \in Spots /\ y.due = d /\ z.due = d /\ y.up = Append(up, v) /\ z.up = up
  BY <1>1, AppendPopped DEF Spots
<1>3. PopFits(Pop, y, z)
  BY <1>2, AppendPopped DEF PopFits
<1>4. Leads(<<Pop>>, y, z)
  BY <1>2, <1>3, LeadsOne DEF Fits
<1>5. PICK p \in Seq(Items) : p = <<Pop>>
  <2> DEFINE x == Pop
  <2>1. x \in Items
    BY ItemsAre
  <2> HIDE DEF x
  <2>2. <<x>> \in Seq(Items)
    BY <2>1
  <2> QED
    BY <2>2 DEF x
<1>6. s \o p \in Seq(Items) /\ (s \o p) \o work \in Seq(Items)
  BY <1>5
<1>7. Leads(s \o p, b, z)
  BY <1>1, <1>4, <1>5, LeadsJoin
<1>8. Leads((s \o p) \o work, b, end)
  BY <1>1, <1>6, <1>7, LeadsJoin
<1> QED
  BY <1>5, <1>6, <1>8

LEMMA GraphInnerStep == IInv /\ GraphInner => IInv'
<1> SUFFICES ASSUME IInv, GraphInner PROVE IInv'
  OBVIOUS
<1>0. PICK i : i = todo[1].node
  OBVIOUS
<1>1. /\ phase = "graph" /\ todo # <<>> /\ Head(todo).what = "visit" /\ Current.kind \in InnerKinds
      /\ todo' = Accepted(Current) \o <<Pop>> \o Tail(todo) /\ Declare(<<Word(Current)>>)
      /\ stack' = Append(stack, <<Word(Current)>> \o Decimal[id])
      /\ UNCHANGED <<params, phase, status, tree, func, last, main>>
  BY DEF GraphInner, Graphing, In, Doing
<1>2. /\ IsTree(tree) /\ todo \in Seq(Items) /\ Whole(1) /\ Stacked /\ Named
      /\ stack \in Seq(Names) /\ last \in Names /\ printed \in Seq(Printed) /\ id = Len(printed)
      /\ last # <<>> /\ last[1] = "Statement" /\ id \in Nat
  BY <1>1, GraphWork
<1>3. PICK a \in Spots, m \in Spots : /\ Drew(a.due) /\ Holds(a.up, a.due)
                                      /\ Fits(todo[1], a, m) /\ Leads(Tail(todo), m, TheEnd)
  BY <1>1, GraphWork
<1>4. todo[1].what = "visit" /\ Current = tree[i] /\ Tail(todo) \in Seq(Items)
  BY <1>0, <1>1, <1>2, WorkIs DEF Current
<1>5. /\ i \in DOMAIN tree /\ a.due = StartOf(i)
      /\ i # 1 => a.up # <<>> /\ a.up[Len(a.up)] = Nearest(i)
      /\ m = [due |-> 2 * tree[i].last + 1, up |-> a.up]
  BY <1>0, <1>2, <1>3, <1>4, VisitedFits
<1>6. i # 1 /\ i \in Drawn /\ i \in Nat /\ tree[i].last \in Nat
  <2>1. tree[1].kind = "Program"
    BY <1>2, Root
  <2> QED
    BY <1>1, <1>2, <1>4, <1>5, <2>1, NodeOf DEF InnerKinds, Drawn
<1>7. a.due \in Nat /\ a.up \in Seq(Nat)
  BY SpotIs
<1>9. PICK nm, parent, v, next, up :
        /\ nm = <<Word(tree[i])>> \o Decimal[id] /\ parent = Top
        /\ v = NodeVertex(i) /\ next = 2 * i + 1 /\ up = Append(a.up, v)
  OBVIOUS
<1>10. /\ printed' = Append(printed, [name |-> nm, parent |-> parent]) /\ id' = id + 1
       /\ stack' = Append(stack, nm)
  BY <1>1, <1>4, <1>9 DEF Declare
<1>11. nm \in Names /\ nm[1] = Word(tree[i]) /\ nm[1] # "Statement" /\ nm = <<nm[1]>> \o Decimal[id]
  BY <1>2, <1>6, <1>9, WordIs
<1>12. parent = NameAt(Nearest(i)) /\ parent \in Names
  <2>1. parent = NameAt(Nearest(i))
    BY <1>3, <1>5, <1>6, <1>7, <1>9, TopIs
  <2>2. Len(stack) \in DOMAIN stack
    <3>1. Len(stack) = Len(a.up) + 1 /\ Len(a.up) \in Nat
      BY <1>3, <1>7 DEF Holds
    <3> QED
      BY <1>2, <3>1
  <2>3. stack[Len(stack)] \in Names
    BY <1>2, <2>2
  <2> QED
    BY <1>9, <2>1, <2>3 DEF Top
<1>13. /\ next \in Nat /\ v \in Vertices /\ a.due <= v /\ v < next /\ a.due < next
       /\ \A u \in Vertices : u < next => u < a.due \/ u = v
  <2>1. v = 2 * i /\ v \in Vertices
    BY <1>2, <1>5, <1>6, <1>9, VerticesAre DEF NodeVertex
  <2>2. /\ StartOf(i) \in Nat /\ StartOf(i) <= 2 * i /\ 2 * i < 2 * i + 1 /\ 2 * i + 1 \in Nat
        /\ \A u \in Vertices : u < 2 * i + 1 => u < StartOf(i) \/ u = 2 * i
    BY <1>2, <1>5, Started
  <2>3. StartOf(i) < 2 * i + 1
    BY <1>6, <2>2
  <2> QED
    BY <1>5, <1>9, <2>1, <2>2, <2>3
<1>14. /\ \A j \in Drawn : v = NodeVertex(j) => nm[1] = Word(tree[j]) /\ parent = NameAt(Nearest(j))
       /\ \A j \in Tops : v = StatementVertex(j) => nm[1] = "Statement" /\ parent = <<"Program">>
  <2>1. \A j \in Drawn \cup Tops : j \in Nat
    BY <1>2, TopsAre, VerticesAre, Root
  <2>2. \A j \in Drawn : v = NodeVertex(j) => j = i
    BY <1>6, <1>9, <2>1 DEF NodeVertex
  <2>3. ASSUME NEW j \in Tops PROVE v # StatementVertex(j)
    <3>1. j \in Nat
      BY <2>1
    <3>2. 2 * i # 2 * j - 1
      BY <1>6, <3>1
    <3> QED
      BY <1>9, <3>2 DEF NodeVertex, StatementVertex
  <2> QED
    BY <1>11, <1>12, <2>2, <2>3
<1>15. /\ Drew(next)' /\ NameAt(v)' = nm
       /\ \A u \in Vertices : u < a.due => NameAt(u)' = NameAt(u)
  <2>1. tree' = tree /\ IsTree(tree) /\ printed \in Seq(Printed) /\ Drew(a.due) /\ a.due \in Nat
    BY <1>1, <1>2, <1>3, <1>7
  <2> QED
    BY <1>10, <1>13, <1>14, <2>1, Prints
<1>16. Holds(up, next)'
  <2>1. \A w \in Vertices : \A x :
          w < next /\ NameAt(w)' = x /\ stack' = Append(stack, x) => Holds(Append(a.up, w), next)'
    BY <1>1, <1>2, <1>3, <1>7, <1>13, <1>15, HoldsPrinted
  <2>2. Holds(Append(a.up, v), next)'
    BY <1>10, <1>13, <1>15, <2>1
  <2> QED
    BY <1>9, <2>2
<1>17. Named' /\ Stacked'
  BY <1>1, <1>2, <1>10, <1>11, NamesKept, StackedKept
<1>20. printed' \in Seq(Printed) /\ id' = Len(printed') /\ stack' \in Seq(Names)
  <2>1. [name |-> nm, parent |-> parent] \in Printed
    BY <1>11, <1>12 DEF Printed
  <2> QED
    BY <1>2, <1>10, <1>11, <2>1
<1>b. PICK b : b = [due |-> next, up |-> up]
  OBVIOUS
<1>22. v \in Nat /\ up \in Seq(Nat) /\ b \in Spots /\ b.due = next /\ b.up = up /\ up # <<>> /\ up[Len(up)] = v
  <2>1. v \in Nat
    BY <1>2, <1>13, VerticesAre
  <2>2. up \in Seq(Nat) /\ up # <<>> /\ up[Len(up)] = v
    BY <1>7, <1>9, <2>1, AppendPopped
  <2> QED
    BY <1>13, <1>b, <2>1, <2>2 DEF Spots
<1>21. PICK work \in Seq(Items) : todo' = work /\ Leads(work, b, TheEnd)
  <2>1. PICK s : s = [c \in DOMAIN tree[i].kids |-> Visit(tree[i].kids[c])]
    OBVIOUS
  <2>2. Accepted(Current) = s
    BY <1>2, <1>4, <1>5, <2>1, NoGaps
  <2>3. PICK d \in Nat : d = 2 * tree[i].last + 1
    BY <1>6
  <2>4. s \in Seq(Items) /\ Leads(s, b, [due |-> d, up |-> up])
    BY <1>2, <1>5, <1>6, <1>9, <1>b, <1>22, <2>1, <2>3, LeadsThrough
  <2>5. (s \o <<Pop>>) \o Tail(todo) \in Seq(Items) /\ Leads((s \o <<Pop>>) \o Tail(todo), b, TheEnd)
    BY <1>3, <1>4, <1>5, <1>7, <1>9, <1>22, <2>3, <2>4, LeadsPopping
  <2>6. todo' = (s \o <<Pop>>) \o Tail(todo)
    BY <1>1, <2>2
  <2> QED
    BY <2>5, <2>6
<1>23. Drew(b.due)' /\ Holds(b.up, b.due)'
  BY <1>15, <1>16, <1>22
<1> QED
  BY <1>1, <1>2, <1>17, <1>20, <1>21, <1>22, <1>23, GraphStep

(* The nodes of the program, from one on, lead from the last node below    *)
(* the one before to the end.                                              *)
LEMMA FromLeads ==
  ASSUME IsTree(tree), NEW c \in DOMAIN tree[1].kids, NEW spot,
         spot = [due |-> 2 * tree[tree[1].kids[c]].last + 1, up |-> <<>>]
  PROVE  /\ From(c + 1) \in Seq(Items) /\ Leads(From(c + 1), spot, TheEnd)
         /\ spot \in Spots
<1> DEFINE kids == tree[1].kids
<1>1. /\ 1 \in DOMAIN tree /\ tree[1].last = Len(tree) /\ Len(tree) \in Nat
      /\ Len(kids) \in Nat /\ DOMAIN kids = 1..Len(kids)
  BY Root, NodeOf
<1>2. tree[kids[c]].last \in Nat /\ kids[c] \in DOMAIN tree
  BY <1>1, NodeOf
<1>3. spot \in Spots /\ TheEnd \in Spots /\ spot.due = 2 * tree[kids[c]].last + 1 /\ spot.up = <<>>
  BY <1>1, <1>2 DEF Spots, TheEnd
<1>4. CASE c + 1 \in DOMAIN kids
  <2>1. (c + 1) - 1 = c /\ c + 1 # 1 /\ c + 1 \in Nat
    BY <1>1
  <2>2. kids[c + 1] = tree[kids[c]].last + 1
    BY <1>1, <1>4, <2>1, KidsFollow
  <2>3. From(c + 1) = <<Each(c + 1)>>
    BY <1>4 DEF From
  <2>4. spot.due = StatementVertex(kids[c + 1])
    BY <1>2, <1>3, <2>2 DEF StatementVertex
  <2>5. EachFits(Each(c + 1), spot, TheEnd)
    BY <1>3, <1>4, <2>4 DEF EachFits
  <2>6. Leads(<<Each(c + 1)>>, spot, TheEnd)
    BY <1>3, <2>5, LeadsOne DEF Fits
  <2>7. <<Each(c + 1)>> \in Seq(Items)
    <3> DEFINE x == Each(c + 1)
    <3>1. x \in Items
      BY <2>1, ItemsAre
    <3> HIDE DEF x
    <3> QED
      BY <3>1 DEF x
  <2> QED
    BY <1>3, <2>3, <2>6, <2>7
<1>5. CASE c + 1 \notin DOMAIN kids
  <2>1. c = Len(kids)
    BY <1>1, <1>5
  <2>2. tree[kids[c]].last = Len(tree)
    BY <1>1, <2>1, KidsFollow
  <2>3. spot = TheEnd
    BY <2>2 DEF TheEnd
  <2>4. From(c + 1) = <<>> /\ <<>> \in Seq(Items)
    BY <1>5 DEF From
  <2> QED
    BY <1>3, <2>3, <2>4, LeadsNowhere
<1> QED
  BY <1>4, <1>5

(* A node of the program fits behind the vertex of its statement.          *)
LEMMA TopFits ==
  ASSUME IsTree(tree), NEW k \in Tops, NEW spot, spot = [due |-> 2 * k, up |-> <<2 * k - 1>>],
         NEW end, end = [due |-> 2 * tree[k].last + 1, up |-> <<2 * k - 1>>]
  PROVE  /\ spot \in Spots /\ spot.due = 2 * k /\ spot.up = <<2 * k - 1>>
         /\ <<Visit(k)>> \in Seq(Items) /\ Leads(<<Visit(k)>>, spot, end)
<1>1. k \in DOMAIN tree /\ k \in Nat /\ k > 1 /\ tree[k].last \in Nat
  BY TopsAre
<1>2. PICK v \in Nat : v = 2 * k - 1
  BY <1>1
<1>3. /\ spot \in Spots /\ end \in Spots /\ spot.due = 2 * k /\ spot.up = <<v>>
      /\ end.due = 2 * tree[k].last + 1 /\ end.up = <<v>>
  BY <1>1, <1>2 DEF Spots
<1>4. tree[k].kind # "Program"
  BY Root, KidKind DEF Tops
<1>5. Nearest(k) = v
  BY <1>2, NearestOfTop DEF StatementVertex
<1>6. <<v>> # <<>> /\ <<v>>[Len(<<v>>)] = v
  OBVIOUS
<1>7. spot.due = StartOf(k)
  BY <1>3 DEF StartOf
<1>8. VisitFits(Visit(k), spot, end)
  BY <1>1, <1>3, <1>4, <1>5, <1>6, <1>7 DEF VisitFits
<1>9. Leads(<<Visit(k)>>, spot, end)
  BY <1>3, <1>8, LeadsOne DEF Fits
<1>10. <<Visit(k)>> \in Seq(Items)
  <2> DEFINE x == Visit(k)
  <2>1. x \in Items
    BY <1>1, ItemsAre
  <2> HIDE DEF x
  <2> QED
    BY <2>1 DEF x
<1> QED
  BY <1>2, <1>3, <1>9, <1>10

LEMMA GraphStatementStep == IInv /\ GraphStatement => IInv'
<1> SUFFICES ASSUME IInv, GraphStatement PROVE IInv'
  OBVIOUS
<1>0. PICK c : c = todo[1].node
  OBVIOUS
<1>1. /\ phase = "graph" /\ todo # <<>> /\ Head(todo).what = "each" /\ Declare(last)
      /\ last' = last \o Decimal[id] /\ stack' = Append(stack, last \o Decimal[id])
      /\ todo' = <<Visit(tree[1].kids[Head(todo).node]), Pop>> \o From(Head(todo).node + 1) \o Tail(todo)
      /\ UNCHANGED <<params, phase, status, tree, func, main>>
  BY DEF GraphStatement, In, Doing
<1>2. /\ IsTree(tree) /\ todo \in Seq(Items) /\ Whole(1) /\ Stacked /\ Named
      /\ stack \in Seq(Names) /\ last \in Names /\ printed \in Seq(Printed) /\ id = Len(printed)
      /\ last # <<>> /\ last[1] = "Statement" /\ id \in Nat
  BY <1>1, GraphWork
<1>3. PICK a \in Spots, m \in Spots : /\ Drew(a.due) /\ Holds(a.up, a.due)
                                      /\ Fits(todo[1], a, m) /\ Leads(Tail(todo), m, TheEnd)
  BY <1>1, GraphWork
<1>4. Head(todo) = todo[1] /\ todo[1].what = "each" /\ Tail(todo) \in Seq(Items)
  BY <1>1, <1>2, WorkIs
<1>5. c \in DOMAIN tree[1].kids /\ a.due = StatementVertex(tree[1].kids[c]) /\ a.up = <<>> /\ m = TheEnd
  <2>1. ~VisitFits(todo[1], a, m) /\ ~PopFits(todo[1], a, m)
    <3>1. \A j : todo[1] # Visit(j) /\ todo[1] # Pop
      BY <1>4 DEF Visit, Pop
    <3> QED
      BY <3>1 DEF VisitFits, PopFits
  <2>2. EachFits(todo[1], a, m)
    BY <1>3, <2>1 DEF Fits
  <2>3. PICK d \in DOMAIN tree[1].kids :
          todo[1] = Each(d) /\ a.due = StatementVertex(tree[1].kids[d]) /\ a.up = <<>> /\ m = TheEnd
    BY <2>2 DEF EachFits
  <2>4. d = c
    BY <1>0, <2>3 DEF Each
  <2> QED
    BY <2>3, <2>4
<1>6. PICK k \in Tops : k = tree[1].kids[c]
  BY <1>5 DEF Tops
<1>7. k \in DOMAIN tree /\ k \in Nat /\ k > 1 /\ tree[k].last \in Nat
  BY <1>2, <1>6, TopsAre
<1>8. a.due = 2 * k - 1 /\ a.due \in Nat
  BY <1>5, <1>6, <1>7 DEF StatementVertex
<1>9. PICK nm, parent, v, next, up :
        /\ nm = last \o Decimal[id] /\ parent = Top
        /\ v = 2 * k - 1 /\ next = 2 * k /\ up = <<v>>
  OBVIOUS
<1>10. /\ printed' = Append(printed, [name |-> nm, parent |-> parent]) /\ id' = id + 1
       /\ stack' = Append(stack, nm) /\ last' = nm
  BY <1>1, <1>9 DEF Declare
<1>11. nm \in Names /\ nm # <<>> /\ nm[1] = "Statement" /\ Len(nm) > Len(last)
  BY <1>2, <1>9, NameIs
<1>12. parent = <<"Program">> /\ parent \in Names
  <2>1. <<>> \in Seq(Nat)
    OBVIOUS
  <2>2. Holds(<<>>, a.due)
    BY <1>3, <1>5
  <2>3. parent = <<"Program">>
    BY <1>9, <2>1, <2>2, TopIs
  <2>4. "Program" \in Letters
    BY DEF Letters, Kinds
  <2> QED
    BY <2>3, <2>4 DEF Names
<1>13. /\ next \in Nat /\ v \in Nat /\ v \in Vertices /\ a.due <= v /\ v < next /\ a.due < next
       /\ \A u \in Vertices : u < next => u < a.due \/ u = v
  <2>1. v = StatementVertex(k) /\ v \in Vertices
    BY <1>2, <1>6, <1>7, <1>9, VerticesAre DEF StatementVertex
  <2>2. next \in Nat /\ v \in Nat /\ a.due <= v /\ v < next /\ a.due < next
    BY <1>7, <1>8, <1>9
  <2>3. ASSUME NEW u \in Vertices, u < next PROVE u < a.due \/ u = v
    <3>1. u \in Nat
      BY <1>2, VerticesAre
    <3> QED
      BY <1>7, <1>8, <1>9, <2>3, <3>1
  <2> QED
    BY <2>1, <2>2, <2>3
<1>14. /\ \A j \in Drawn : v = NodeVertex(j) => nm[1] = Word(tree[j]) /\ parent = NameAt(Nearest(j))
       /\ \A j \in Tops : v = StatementVertex(j) => nm[1] = "Statement" /\ parent = <<"Program">>
  <2>1. ASSUME NEW j \in Drawn PROVE v # NodeVertex(j)
    <3>1. j \in Nat
      BY <1>2, VerticesAre, Root
    <3>2. 2 * k - 1 # 2 * j
      BY <1>7, <3>1
    <3> QED
      BY <1>9, <3>2 DEF NodeVertex
  <2> QED
    BY <1>11, <1>12, <2>1
<1>15. /\ Drew(next)' /\ NameAt(v)' = nm
       /\ \A u \in Vertices : u < a.due => NameAt(u)' = NameAt(u)
  <2>1. PICK due : due = a.due
    OBVIOUS
  <2>2. tree' = tree /\ IsTree(tree) /\ printed \in Seq(Printed) /\ Drew(due) /\ due \in Nat
    BY <1>1, <1>2, <1>3, <1>8, <2>1
  <2>3. /\ next \in Nat /\ v \in Vertices /\ due <= v /\ v < next
        /\ \A u \in Vertices : u < next => u < due \/ u = v
    BY <1>13, <2>1
  <2>4. printed' = Append(printed, [name |-> nm, parent |-> parent])
    BY <1>10
  <2>5. Drew(next)' /\ NameAt(v)' = nm /\ \A u \in Vertices : u < due => NameAt(u)' = NameAt(u)
    BY <1>14, <2>2, <2>3, <2>4, Prints
  <2> QED
    BY <2>1, <2>5
<1>16. Holds(up, next)'
  <2>1. PICK before : before = a.up
    OBVIOUS
  <2>2. before \in Seq(Nat) /\ Holds(before, a.due) /\ Append(before, v) = up
    BY <1>3, <1>5, <1>9, <2>1
  <2>3. \A w \in Vertices : \A x :
          w < next /\ NameAt(w)' = x /\ stack' = Append(stack, x) => Holds(Append(before, w), next)'
    BY <1>1, <1>2, <1>8, <1>13, <1>15, <2>2, HoldsPrinted
  <2>4. Holds(Append(before, v), next)'
    BY <1>10, <1>13, <1>15, <2>3
  <2> QED
    BY <2>2, <2>4
<1>17. Named' /\ Stacked'
  BY <1>1, <1>2, <1>10, <1>11, NamesKept, StackedKept
<1>18. printed' \in Seq(Printed) /\ id' = Len(printed') /\ stack' \in Seq(Names)
  <2>1. [name |-> nm, parent |-> parent] \in Printed
    BY <1>11, <1>12 DEF Printed
  <2> QED
    BY <1>2, <1>10, <1>11, <2>1
<1>b. PICK b : b = [due |-> 2 * k, up |-> <<2 * k - 1>>]
  OBVIOUS
<1>19. b \in Spots /\ b.due = next /\ b.up = up
  BY <1>2, <1>9, <1>b, TopFits
<1>20. PICK work \in Seq(Items) : todo' = work /\ Leads(work, b, TheEnd)
  <2>1. PICK s, f, d : s = <<Visit(k)>> /\ f = From(c + 1) /\ d = 2 * tree[k].last + 1
    OBVIOUS
  <2>2. s \in Seq(Items) /\ Leads(s, b, [due |-> d, up |-> <<v>>])
    BY <1>2, <1>9, <1>b, <2>1, TopFits
  <2>3. f \in Seq(Items) /\ Leads(f, [due |-> d, up |-> <<>>], TheEnd)
    BY <1>2, <1>5, <1>6, <2>1, FromLeads
  <2>4. f \o Tail(todo) \in Seq(Items) /\ Leads(f \o Tail(todo), [due |-> d, up |-> <<>>], TheEnd)
    <3>1. PICK y \in Seq(Items) : y = Tail(todo)
      BY <1>4
    <3>2. f \o y \in Seq(Items)
      BY <2>3
    <3>3. Leads(y, TheEnd, TheEnd)
      BY <1>3, <1>5, <3>1
    <3>4. Leads(f \o y, [due |-> d, up |-> <<>>], TheEnd)
      BY <2>3, <3>3, LeadsJoin
    <3> QED
      BY <3>1, <3>2, <3>4
  <2>5. d \in Nat /\ <<>> \in Seq(Nat) /\ Append(<<>>, v) = <<v>>
    BY <1>7, <2>1
  <2>6. Leads(s, b, [due |-> d, up |-> Append(<<>>, v)])
    BY <2>2, <2>5
  <2>7. /\ (s \o <<Pop>>) \o (f \o Tail(todo)) \in Seq(Items)
        /\ Leads((s \o <<Pop>>) \o (f \o Tail(todo)), b, TheEnd)
    BY <1>13, <2>2, <2>4, <2>5, <2>6, LeadsPopping
  <2>8. todo' = (s \o <<Pop>>) \o (f \o Tail(todo))
    <3>1. todo' = <<Visit(k), Pop>> \o f \o Tail(todo)
      BY <1>0, <1>1, <1>4, <1>6, <2>1
    <3>2. <<Visit(k), Pop>> = s \o <<Pop>>
      BY <2>1
    <3>3. PICK x \in Seq(Items) : x = s \o <<Pop>>
      <4> DEFINE p == Pop
      <4>1. p \in Items
        BY ItemsAre
      <4> HIDE DEF p
      <4>2. s \o <<p>> \in Seq(Items)
        BY <2>2, <4>1
      <4> QED
        BY <4>2 DEF p
    <3>4. PICK y \in Seq(Items) : y = Tail(todo)
      BY <1>4
    <3>5. (x \o f) \o y = x \o (f \o y)
      BY <2>3
    <3> QED
      BY <3>1, <3>2, <3>3, <3>4, <3>5
  <2> QED
    BY <2>7, <2>8
<1>21. Drew(b.due)' /\ Holds(b.up, b.due)'
  BY <1>15, <1>16, <1>19
<1> QED
  BY <1>1, <1>2, <1>10, <1>11, <1>17, <1>18, <1>19, <1>20, <1>21, GraphStep

-----------------------------------------------------------------------------
(* The steps of the other phases.                                          *)

LEMMA ChosenNext ==
  ASSUME IsTree(tree), NEW c \in DOMAIN tree[1].kids, NEW m, Chosen(m, c)
  PROVE  Chosen(Generated(m, c), c + 1) /\ Generated(m, c) \in {m, 0, c}
<1>1. DOMAIN tree[1].kids = 1..Len(tree[1].kids) /\ Len(tree[1].kids) \in Nat
  BY Root, NodeOf
<1>2. c \in Nat /\ c >= 1 /\ \A b \in Valued : b \in Nat /\ (b < c + 1 => b < c \/ b = c)
  BY <1>1 DEF Valued
<1>3. m # 0 => m \in 1..(c - 1)
  BY <1>1 DEF Chosen
<1>4. CASE ~IsMain(Nth(c)) \/ Refused(m, Nth(c))
  <2>1. Generated(m, c) = m
    BY <1>4 DEF Generated
  <2>2. ASSUME c \in Valued, m = 0 \/ ~HasBody(Nth(m)) PROVE Contradicted(c)
    <3>1. m # 0 /\ ~HasBody(Nth(m)) /\ Nth(m).args # Nth(c).args
      BY <1>4, <2>2 DEF Refused, Valued
    <3> QED
      BY <1>3, <3>1 DEF Chosen, Contradicted
  <2>3. Chosen(m, c + 1)
    BY <1>1, <1>2, <1>3, <2>2 DEF Chosen
  <2> QED
    BY <2>1, <2>3
<1>5. CASE IsMain(Nth(c)) /\ ~Refused(m, Nth(c))
  <2>1. \A b \in Valued : b < c => Contradicted(b)
    BY <1>5 DEF Refused, Chosen
  <2>2. CASE HasBody(Nth(c)) /\ ~HasValue(Nth(c))
    <3>1. Generated(m, c) = 0 /\ c \notin Valued
      BY <1>5, <2>2 DEF Generated, Valued
    <3>2. Chosen(0, c + 1)
      BY <1>2, <2>1, <3>1 DEF Chosen
    <3> QED
      BY <3>1, <3>2
  <2>3. CASE ~(HasBody(Nth(c)) /\ ~HasValue(Nth(c)))
    <3>1. Generated(m, c) = c
      BY <1>5, <2>3 DEF Generated
    <3>2. HasBody(Nth(c)) \/ c \notin Valued
      BY DEF Valued
    <3>3. Chosen(c, c + 1)
      BY <1>2, <1>5, <2>1, <2>3, <3>2 DEF Chosen
    <3> QED
      BY <3>1, <3>3
  <2> QED
    BY <2>2, <2>3
<1> QED
  BY <1>4, <1>5

LEMMA GenerateNodeStep == IInv /\ GenerateNode => IInv'
<1> SUFFICES ASSUME IInv, GenerateNode PROVE IInv'
  OBVIOUS
<1>0. PICK k, i : k = Head(todo).node /\ i = tree[1].kids[k]
  OBVIOUS
<1>1. /\ phase = "generate" /\ phase' = phase /\ status = "running" /\ todo # <<>>
      /\ UNCHANGED <<params, tree, func, stack, id, last, printed>>
      /\ \/ ~Whole(i) /\ status' = "null" /\ UNCHANGED <<todo, main>>
         \/ status' = "llvm" /\ UNCHANGED <<todo, main>>
         \/ status' = status /\ main' = Generated(main, k) /\ todo' = From(k + 1) \o Tail(todo)
  BY <1>0 DEF GenerateNode, In, Doing, Stop, grapher
<1>2. Typed /\ IsTree(tree) /\ Whole(1) /\ Option # "-graph" /\ stack = <<>> /\ printed = <<>>
      /\ Stacked /\ Named
  BY <1>1 DEF IInv, Typed, Passed, Generating
<1>3. PICK c \in 1..(Len(tree[1].kids) + 1) : todo = From(c) /\ Chosen(main, c)
  BY <1>1 DEF IInv, Generating
<1>4. c \in DOMAIN tree[1].kids /\ todo = <<Each(c)>>
  BY <1>1, <1>3 DEF From
<1>5. k = c /\ Tail(todo) = <<>>
  BY <1>0, <1>4 DEF Each
<1>6. /\ 1 \in DOMAIN tree /\ DOMAIN tree[1].kids = 1..Len(tree[1].kids) /\ Len(tree[1].kids) \in Nat
  BY <1>2, Root, NodeOf
<1>7. Whole(i)
  <2>1. i \in DOMAIN tree /\ 1 < i /\ tree[i].last <= tree[1].last
    BY <1>0, <1>2, <1>4, <1>5, <1>6, KidsWithin
  <2>2. i \in Nat /\ tree[i].last \in Nat /\ tree[1].last \in Nat
    BY <1>2, <1>6, <2>1, NodeOf
  <2>3. \A j \in i..tree[i].last : j \in 1..tree[1].last
    BY <2>1, <2>2
  <2> QED
    BY <1>2, <2>3 DEF Whole
<1>8. Option' = Option /\ Whole(1)' /\ Stacked' /\ Named'
  BY <1>1, <1>2, SameTree, OptionKept, GrapherKept
<1>9. /\ \A x : From(x)' = From(x) /\ \A m : Chosen(m, x)' <=> Chosen(m, x)
      /\ tree' = tree
  BY <1>1, SameTree
<1>10. CASE status' = "llvm" /\ UNCHANGED <<todo, main>>
  <2>1. Typed'
    BY <1>1, <1>2, <1>10 DEF Typed
  <2>2. Generating'
    BY <1>1, <1>2, <1>3, <1>8, <1>9, <1>10 DEF Generating
  <2> QED
    BY <1>1, <1>8, <2>1, <2>2 DEF IInv, Waiting, Analysing, Passed, Drawing, Executing, Closing
<1>11. CASE status' = status /\ main' = Generated(main, k) /\ todo' = From(k + 1) \o Tail(todo)
  <2>1. PICK d : d = c + 1
    OBVIOUS
  <2>2. d \in 1..(Len(tree[1].kids) + 1)
    BY <1>4, <1>6, <2>1
  <2>3. From(d) \in Seq(Items)
    BY <1>2, <1>4, <2>1, FromLeads
  <2>4. todo' = From(d)
    <3>1. todo' = From(d) \o <<>>
      BY <1>5, <1>11, <2>1
    <3> QED
      BY <2>3, <3>1
  <2>5. Chosen(main', d) /\ main' \in {main, 0, c}
    BY <1>2, <1>3, <1>4, <1>5, <1>11, <2>1, ChosenNext
  <2>6. main' \in 0..Len(tree[1].kids)
    BY <1>2, <1>4, <1>6, <2>5 DEF Typed
  <2>7. Typed'
    BY <1>1, <1>2, <1>11, <2>3, <2>4, <2>6 DEF Typed
  <2>8. Generating'
    BY <1>1, <1>2, <1>8, <1>9, <1>11, <2>2, <2>4, <2>5 DEF Generating
  <2> QED
    BY <1>1, <1>8, <2>7, <2>8 DEF IInv, Waiting, Analysing, Passed, Drawing, Executing, Closing
<1> QED
  BY <1>1, <1>7, <1>10, <1>11

LEMMA ModuleDoneStep == IInv /\ ModuleDone => IInv'
<1> SUFFICES ASSUME IInv, ModuleDone PROVE IInv'
  OBVIOUS
<1>1. /\ phase = "generate" /\ status = "running" /\ todo = <<>>
      /\ phase' = IF Option = "-exec" THEN "exec" ELSE "close"
      /\ UNCHANGED <<params, status, tree, todo, func, stack, id, last, printed, main>>
  BY DEF ModuleDone, In, visitor, grapher
<1>2. Typed /\ IsTree(tree) /\ Whole(1) /\ Option # "-graph" /\ stack = <<>> /\ printed = <<>>
      /\ Stacked /\ Named
  BY <1>1 DEF IInv, Typed, Passed, Generating
<1>3. PICK c \in 1..(Len(tree[1].kids) + 1) : todo = From(c) /\ Chosen(main, c)
  BY <1>1 DEF IInv, Generating
<1>4. DOMAIN tree[1].kids = 1..Len(tree[1].kids) /\ Len(tree[1].kids) \in Nat
  BY <1>2, Root, NodeOf
<1>5. c \notin DOMAIN tree[1].kids
  BY <1>1, <1>3 DEF From
<1>6. c = Len(tree[1].kids) + 1
  BY <1>4, <1>5
<1>7. Settled(main)
  BY <1>3, <1>6 DEF Settled
<1>8. Option' = Option /\ Whole(1)' /\ Stacked' /\ Named'
      /\ (Settled(main)' <=> Settled(main)) /\ (Callable(main)' <=> Callable(main))
  BY <1>1, <1>2, SameMain, SameTree, OptionKept, GrapherKept
<1>9. Typed'
  BY <1>1, <1>2 DEF Typed
<1>10. CASE Option = "-exec"
  <2>1. phase' = "exec"
    BY <1>1, <1>10
  <2>2. Executing'
    BY <1>1, <1>2, <1>7, <1>8, <1>10 DEF Executing
  <2> QED
    BY <1>8, <1>9, <2>1, <2>2 DEF IInv, Waiting, Analysing, Passed, Drawing, Generating, Closing
<1>11. CASE Option # "-exec"
  <2>1. phase' = "close"
    BY <1>1, <1>11
  <2>2. Closing'
    BY <1>1, <1>2, <1>8, <1>11 DEF Closing
  <2> QED
    BY <1>8, <1>9, <2>1, <2>2 DEF IInv, Waiting, Analysing, Passed, Drawing, Generating, Executing
<1> QED
  BY <1>10, <1>11

LEMMA ExecStep == IInv /\ Exec => IInv'
<1> SUFFICES ASSUME IInv, Exec PROVE IInv'
  OBVIOUS
<1>1. /\ phase = "exec" /\ status = "running"
      /\ UNCHANGED <<params, tree, todo, func, stack, id, last, printed, main>>
      /\ \/ phase' = phase /\ status' = "llvm"
         \/ phase' = phase /\ ~Callable(main) /\ status' \in {"null", "self"}
         \/ phase' = "main" /\ Callable(main) /\ status' = status
  BY DEF Exec, In, Stop, visitor, grapher, Callable
<1>2. Typed /\ Whole(1) /\ Option = "-exec" /\ Settled(main)
      /\ stack = <<>> /\ printed = <<>> /\ Stacked /\ Named
  BY <1>1 DEF IInv, Passed, Executing
<1>3. Option' = Option /\ Whole(1)' /\ Stacked' /\ Named'
      /\ (Settled(main)' <=> Settled(main)) /\ (Callable(main)' <=> Callable(main))
  BY <1>1, <1>2, SameMain, SameTree, OptionKept, GrapherKept
<1>4. Typed'
  BY <1>1, <1>2 DEF Typed
<1>5. Executing'
  BY <1>1, <1>2, <1>3 DEF Executing
<1> QED
  BY <1>1, <1>3, <1>4, <1>5 DEF IInv, Waiting, Analysing, Passed, Drawing, Generating, Closing

LEMMA ReturnStep == IInv /\ Return => IInv'
<1> SUFFICES ASSUME IInv, Return PROVE IInv'
  OBVIOUS
<1>1. /\ phase = "main" /\ status = "running"
      /\ UNCHANGED <<params, tree, todo, func, stack, id, last, printed, main>>
      /\ \/ phase' = phase /\ status' = "program"
         \/ phase' = "close" /\ status' = status
  BY DEF Return, In, Stop, visitor, grapher
<1>2. Typed /\ Whole(1) /\ Option = "-exec" /\ Settled(main) /\ Callable(main)
      /\ stack = <<>> /\ printed = <<>> /\ Stacked /\ Named
  BY <1>1 DEF IInv, Passed, Executing
<1>3. Option' = Option /\ Whole(1)' /\ Stacked' /\ Named'
      /\ (Settled(main)' <=> Settled(main)) /\ (Callable(main)' <=> Callable(main))
  BY <1>1, <1>2, SameMain, SameTree, OptionKept, GrapherKept
<1>4. Typed'
  BY <1>1, <1>2 DEF Typed
<1>5. Executing' /\ Closing'
  BY <1>1, <1>2, <1>3 DEF Executing, Closing
<1> QED
  BY <1>1, <1>3, <1>4, <1>5 DEF IInv, Waiting, Analysing, Passed, Drawing, Generating

LEMMA CloseStep == IInv /\ Close => IInv'
<1> SUFFICES ASSUME IInv, Close PROVE IInv'
  OBVIOUS
<1>1. /\ phase = "close" /\ phase' = phase /\ status' = "0"
      /\ UNCHANGED <<params, tree, todo, func, stack, id, last, printed, main>>
  BY DEF Close, In, Stop, visitor, grapher
<1>2. Typed /\ Whole(1) /\ Closing /\ Stacked /\ Named
  BY <1>1 DEF IInv, Passed
<1>3. Option' = Option /\ Whole(1)' /\ Stacked' /\ Named'
      /\ (Settled(main)' <=> Settled(main)) /\ (Callable(main)' <=> Callable(main))
  BY <1>1, <1>2, SameMain, SameTree, OptionKept, GrapherKept
<1>4. Typed'
  BY <1>1, <1>2 DEF Typed
<1>5. Drew(2 * Len(tree) + 1)' <=> Drew(2 * Len(tree) + 1)
  <2>1. \A due : Drew(due)' <=> Drew(due)
    BY <1>1, DrewKept
  <2>2. PICK due : due = 2 * Len(tree) + 1
    OBVIOUS
  <2> QED
    BY <1>1, <2>1, <2>2 DEF Drew
<1>6. Closing'
  BY <1>1, <1>2, <1>3, <1>5 DEF Closing
<1> QED
  BY <1>1, <1>3, <1>4, <1>6 DEF IInv, Waiting, Analysing, Passed, Drawing, Generating, Executing

LEMMA NextStep == IInv /\ [Next]_vars => IInv'
<1> SUFFICES ASSUME IInv, [Next]_vars PROVE IInv'
  OBVIOUS
<1>1. CASE Analyse
  BY <1>1, AnalyseNodeStep, AnalyseFunctionDefStep, LeaveFunctionDefStep, AnalysedStep DEF Analyse
<1>2. CASE Graph
  BY <1>2, GraphProgramStep, GraphStatementStep, GraphPlainStep, GraphInnerStep, GraphLeafStep,
     GraphPopStep, GraphedStep DEF Graph
<1>3. CASE Generate
  BY <1>3, GenerateNodeStep, ModuleDoneStep DEF Generate
<1>4. CASE Open \/ Parse \/ VisitNull \/ Exec \/ Return \/ Close
  BY <1>4, OpenStep, ParseStep, VisitNullStep, ExecStep, ReturnStep, CloseStep
<1>5. CASE UNCHANGED vars
  BY <1>5, StoppedStep
<1> QED
  BY <1>1, <1>2, <1>3, <1>4, <1>5 DEF Next, Step, Stopped

(* The invariant holds of every reachable state.                           *)
THEOREM Invariant == Spec => []IInv
<1>1. Init => IInv
  BY InitHolds
<1>2. IInv /\ [Next]_vars => IInv'
  BY NextStep
<1> QED
  BY <1>1, <1>2, PTL DEF Spec

LEMMA OneReset ==
  ASSUME IInv, phase = "analyse"
  PROVE  Cardinality({k \in DOMAIN todo : todo[k] = Reset}) = IF func = 0 THEN 0 ELSE 1
<1> DEFINE R == {k \in DOMAIN todo : todo[k] = Reset}
<1>1. Inside
  BY DEF IInv, Analysing
<1>2. CASE func = 0
  <2>1. R = {}
    BY <1>1, <1>2 DEF Inside
  <2> QED
    BY <1>2, <2>1, FS_EmptySet
<1>3. CASE func # 0
  <2>1. PICK r \in DOMAIN todo : todo[r] = Reset /\ \A k \in DOMAIN todo : k # r => todo[k] # Reset
    BY <1>1, <1>3 DEF Inside
  <2>2. R = {r}
    BY <2>1
  <2> QED
    BY <1>3, <2>2, FS_Singleton
<1> QED
  BY <1>2, <1>3

(* The stack of the grapher is never popped empty, and type analysis is in *)
(* a definition exactly while it has one to leave.                         *)
THEOREM TypeCorrect == Spec => []TypeOK
<1>1. IInv => TypeOK
  <2> SUFFICES ASSUME IInv PROVE TypeOK
    OBVIOUS
  <2>1. Typed /\ Stacked
    BY DEF IInv
  <2>2. phase = "graph" => stack # <<>> /\ stack[1] = <<"Program">>
    <3> SUFFICES ASSUME phase = "graph" PROVE stack # <<>> /\ stack[1] = <<"Program">>
      OBVIOUS
    <3>1. PICK a \in Spots : Holds(a.up, a.due)
      BY DEF IInv, Drawing
    <3>2. Len(stack) = Len(a.up) + 1 /\ stack[1] = <<"Program">> /\ Len(a.up) \in Nat
      BY <3>1 DEF Holds, Spots
    <3>3. Len(stack) # 0
      BY <3>2
    <3> QED
      BY <3>2, <3>3
  <2>3. phase = "close" /\ Option = "-graph" => Len(stack) = 1
    BY DEF IInv, Closing
  <2>4. phase = "analyse" =>
          Cardinality({i \in DOMAIN todo : todo[i] = Reset}) = (IF func = 0 THEN 0 ELSE 1)
    BY OneReset
  <2> QED
    BY <2>1, <2>2, <2>3, <2>4 DEF TypeOK, Typed, Stacked
<1> QED
  BY <1>1, Invariant, PTL

(* A null pointer that the parser left in the tree stops the compiler in   *)
(* type analysis; the grapher and code generation get whole trees and never *)
(* meet one.                                                               *)
THEOREM NullsAreMetFirst == Spec => []NullsStopEarly
<1>1. IInv => NullsStopEarly
  <2> SUFFICES ASSUME IInv PROVE NullsStopEarly
    OBVIOUS
  <2>1. phase \in {"graph", "generate", "exec", "main", "close"} => Whole(1)
    BY DEF IInv, Passed
  <2>2. status = "null" => phase \in {"analyse", "exec"}
    BY DEF IInv, Typed, Waiting, Drawing, Generating, Executing, Closing
  <2>3. phase = "analyse" /\ status = "null" => ~Whole(1)
    BY DEF IInv, Analysing
  <2> QED
    BY <2>1, <2>2, <2>3 DEF NullsStopEarly
<1> QED
  BY <1>1, Invariant, PTL

(* -exec calls a definition of main whose body has a value, the first that *)
(* no extern declaration before it contradicts or an earlier one; and it   *)
(* has none to call only when all of them are contradicted.                *)
THEOREM MainIsRun == Spec => []ExecRunsMain
<1>1. IInv => ExecRunsMain
  <2> SUFFICES ASSUME IInv PROVE ExecRunsMain
    OBVIOUS
  <2>1. Typed /\ DOMAIN tree[1].kids = 1..Len(tree[1].kids) /\ Len(tree[1].kids) \in Nat
    BY Root, NodeOf DEF IInv, Typed
  <2>2. \A c \in Valued : c < Len(tree[1].kids) + 1
    BY <2>1 DEF Valued
  <2>3. ASSUME MainCalled
        PROVE  main \in Valued /\ \A c \in Valued : c < main => Contradicted(c)
    <3>1. Settled(main) /\ Callable(main)
      BY <2>3 DEF IInv, Executing, Closing, MainCalled
    <3> QED
      BY <2>1, <2>2, <3>1 DEF Settled, Callable, Chosen, Valued
  <2>4. ASSUME phase = "exec", status \in {"null", "self"}
        PROVE  \A c \in Valued : Contradicted(c)
    <3>1. Settled(main) /\ ~Callable(main)
      BY <2>4 DEF IInv, Executing
    <3> QED
      BY <2>2, <3>1 DEF Settled, Callable, Chosen
  <2> QED
    BY <2>3, <2>4 DEF ExecRunsMain
<1> QED
  BY <1>1, Invariant, PTL

(* The nodes of a graph have different names: of a node the digits are its *)
(* number, and a statement's name grows with each statement.               *)
THEOREM NamesAreUnique == Spec => []NamesDiffer
<1>1. IInv => NamesDiffer
  <2> SUFFICES ASSUME IInv, NEW j \in DOMAIN printed, NEW i \in 1..(j - 1)
               PROVE  printed[i].name # printed[j].name
    BY DEF NamesDiffer
  <2> DEFINE x == printed[i].name  y == printed[j].name
  <2>1. printed \in Seq(Printed) /\ Named
    BY DEF IInv, Typed
  <2>2. Len(printed) \in Nat /\ DOMAIN printed = 1..Len(printed)
    BY <2>1
  <2>3. j \in Nat /\ i \in Nat /\ i \in DOMAIN printed /\ i < j /\ j - 1 \in Nat /\ i - 1 \in Nat
        /\ i - 1 # j - 1
    BY <2>2
  <2>4. /\ IF x[1] = "Statement" THEN TRUE ELSE x = <<x[1]>> \o Decimal[i - 1]
        /\ IF y[1] = "Statement" THEN TRUE ELSE y = <<y[1]>> \o Decimal[j - 1]
    BY <2>1, <2>3 DEF Named
  <2>5. CASE x[1] = "Statement" /\ y[1] = "Statement"
    <3>1. Len(x) < Len(y)
      BY <2>1, <2>3, <2>5 DEF Named
    <3>2. printed[i] \in Printed
      BY <2>1, <2>3
    <3>3. Len(x) \in Nat
      BY <3>2 DEF Printed, Names
    <3> QED
      BY <3>1, <3>3
  <2>6. CASE x[1] # y[1]
    BY <2>6
  <2>7. CASE x[1] # "Statement" /\ y[1] # "Statement" /\ x[1] = y[1]
    <3>1. PICK w : w = x[1]
      OBVIOUS
    <3>2. x = <<w>> \o Decimal[i - 1] /\ y = <<w>> \o Decimal[j - 1]
      BY <2>4, <2>7, <3>1
    <3>3. <<w>> \o Decimal[i - 1] # <<w>> \o Decimal[j - 1]
      <4> DEFINE d == Decimal[i - 1]  e == Decimal[j - 1]
      <4>1. d # e
        BY <2>3, DecimalDiffers
      <4>2. d \in Seq(Nat) /\ e \in Seq(Nat)
        BY <2>3, DecimalLength
      <4> HIDE DEF d, e
      <4>3. Tail(<<w>> \o d) = d /\ Tail(<<w>> \o e) = e
        BY SMTT(20), <4>2
      <4> QED
        BY <4>1, <4>3 DEF d, e
    <3> QED
      BY <3>2, <3>3
  <2> QED
    BY <2>5, <2>6, <2>7
<1> QED
  BY <1>1, Invariant, PTL

(* Of every tree that the parser may build the grapher prints the vertices *)
(* it should have, in order, each below the one it belongs to.             *)
THEOREM GraphIsTheTree == Spec => []GraphMirrorsTree
<1>1. IInv => GraphMirrorsTree
  <2> SUFFICES ASSUME IInv, status = "0", Option = "-graph"
               PROVE  /\ Len(printed) = Cardinality(Vertices)
                      /\ \A i \in Drawn : /\ NameAt(NodeVertex(i))[1] = Word(tree[i])
                                          /\ printed[Place(NodeVertex(i))].parent = NameAt(Nearest(i))
                      /\ \A i \in Tops : /\ NameAt(StatementVertex(i))[1] = "Statement"
                                         /\ printed[Place(StatementVertex(i))].parent = <<"Program">>
    BY DEF GraphMirrorsTree
  <2>1. phase = "close" /\ IsTree(tree)
    BY DEF IInv, Typed, Waiting, Analysing, Drawing, Generating, Executing
  <2>2. Drew(2 * Len(tree) + 1)
    BY <2>1 DEF IInv, Closing
  <2>3. Vertices \subseteq 1..(2 * Len(tree)) /\ Len(tree) \in Nat
    BY <2>1, VerticesAre, Root
  <2>4. \A v \in Vertices : v < 2 * Len(tree) + 1
    BY <2>3
  <2>5. Len(printed) = Cardinality(Vertices)
    <3>1. {u \in Vertices : u < 2 * Len(tree) + 1} = Vertices
      BY <2>4
    <3> QED
      BY <2>2, <3>1 DEF Drew, Before
  <2>6. \A v \in Vertices : Right(v)
    BY <2>2, <2>4 DEF Drew
  <2>7. ASSUME NEW i \in Drawn
        PROVE  /\ NameAt(NodeVertex(i))[1] = Word(tree[i])
               /\ printed[Place(NodeVertex(i))].parent = NameAt(Nearest(i))
    <3>1. NodeVertex(i) \in Vertices
      BY DEF Vertices
    <3> QED
      BY <2>6, <3>1 DEF Right
  <2>8. ASSUME NEW i \in Tops
        PROVE  /\ NameAt(StatementVertex(i))[1] = "Statement"
               /\ printed[Place(StatementVertex(i))].parent = <<"Program">>
    <3>1. StatementVertex(i) \in Vertices
      BY DEF Vertices
    <3> QED
      BY <2>6, <3>1 DEF Right
  <2> QED
    BY <2>5, <2>7, <2>8
<1> QED
  BY <1>1, Invariant, PTL
=============================================================================
