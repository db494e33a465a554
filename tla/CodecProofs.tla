---------------------------- MODULE CodecProofs ----------------------------
(***************************************************************************)
(* The encoding is right at every width: what is written is read back, a   *)
(* varint ends where it says it does, and exactly these bytes of one type  *)
(* are taken for another's.                                                *)
(*                                                                         *)
(* This takes induction over numbers, which is done here over the sets of  *)
(* the numbers that have a property, and two facts the provers do not      *)
(* have: a recursive function is what its definition says                  *)
(* (RecursiveFunction), and 2 ^ (n + 1) is twice 2 ^ n (PowerDoubles).     *)
(***************************************************************************)
EXTENDS Codec, FiniteSetTheorems, SequenceTheorems, WellFoundedInduction, TLAPS

-----------------------------------------------------------------------------
(***************************************************************************)
(* Induction over the natural numbers, for a set of them.                  *)
(***************************************************************************)
LEMMA NatInduct ==
  ASSUME NEW T, 0 \in T, \A n \in Nat : n \in T => n + 1 \in T
  PROVE  Nat \subseteq T
<1> DEFINE R   == {ss \in Nat \X Nat : ss[1] < ss[2]}
           Out == Nat \ T
<1>1. IsWellFoundedOn(R, Nat)
  BY NatLessThanWellFounded DEF OpToRel
<1>2. \A x, y \in Nat : x < y => <<x, y>> \in R
  OBVIOUS
<1> HIDE DEF R
<1> SUFFICES ASSUME Out # {}  PROVE FALSE
  OBVIOUS
<1>3. PICK x \in Out : \A y \in Out : ~(<<y, x>> \in R)
  BY <1>1, WFMin
<1>4. x # 0 /\ x - 1 \in Nat /\ x - 1 < x /\ (x - 1) + 1 = x
  OBVIOUS
<1>5. x - 1 \in T
  BY <1>2, <1>3, <1>4
<1> QED
  BY <1>4, <1>5

LEMMA StrongInduct ==
  ASSUME NEW T, \A n \in Nat : (\A m \in Nat : m < n => m \in T) => n \in T
  PROVE  Nat \subseteq T
<1> DEFINE Below == {n \in Nat : \A m \in Nat : m < n => m \in T}
<1>1. 0 \in Below
  OBVIOUS
<1>2. ASSUME NEW n \in Nat, n \in Below  PROVE n + 1 \in Below
  <2>1. n \in T
    BY <1>2
  <2>2. \A m \in Nat : m < n + 1 => m < n \/ m = n
    OBVIOUS
  <2> QED
    BY <1>2, <2>1, <2>2
<1>3. Nat \subseteq Below
  <2> HIDE DEF Below
  <2> QED
    BY <1>1, <1>2, NatInduct
<1> QED
  BY <1>3

\* A set of natural numbers that is not empty has a least element.
LEMMA LeastOf ==
  ASSUME NEW S \in SUBSET Nat, S # {}
  PROVE  \E x \in S : \A y \in S : x <= y
<1> SUFFICES ASSUME ~\E x \in S : \A y \in S : x <= y  PROVE FALSE
  OBVIOUS
<1> DEFINE T == Nat \ S
<1>1. ASSUME NEW n \in Nat, \A m \in Nat : m < n => m \in T  PROVE n \in T
  <2> SUFFICES ASSUME n \in S  PROVE FALSE
    OBVIOUS
  <2>1. \A y \in S : n <= y
    BY <1>1
  <2> QED
    BY <2>1
<1>2. Nat \subseteq T
  <2> HIDE DEF T
  <2> QED
    BY <1>1, StrongInduct
<1> QED
  BY <1>2

-----------------------------------------------------------------------------
(***************************************************************************)
(* Powers of 2: the number of the subsets of 1 .. n doubles with n.        *)
(***************************************************************************)
LEMMA PowerDoubles ==
  ASSUME NEW n \in Nat
  PROVE  2 ^ (n + 1) = 2 * 2 ^ n
<1> DEFINE Old == SUBSET (1 .. n)
           New == {X \in SUBSET (1 .. n + 1) : n + 1 \in X}
           f   == [X \in Old |-> X \cup {n + 1}]
<1>1. IsFiniteSet(1 .. n) /\ Cardinality(1 .. n) = n
  BY FS_Interval
<1>2. IsFiniteSet(1 .. n + 1) /\ Cardinality(1 .. n + 1) = n + 1
  BY FS_Interval
<1>3. /\ IsFiniteSet(Old) /\ Cardinality(Old) = 2 ^ n
      /\ Cardinality(Old) \in Nat
  BY <1>1, FS_SUBSET, FS_CardinalityType
<1>4. Cardinality(SUBSET (1 .. n + 1)) = 2 ^ (n + 1)
  BY <1>2, FS_SUBSET
<1>5. f \in Bijection(Old, New)
  <2>1. \A X \in Old : n + 1 \notin X
    OBVIOUS
  <2>2. ASSUME NEW X \in Old  PROVE f[X] \in New
    OBVIOUS
  <2>3. ASSUME NEW X \in Old, NEW Y \in Old, f[X] = f[Y]  PROVE X = Y
    BY <2>1, <2>3
  <2>4. ASSUME NEW Z \in New  PROVE \E X \in Old : f[X] = Z
    <3>1. Z \ {n + 1} \in Old /\ f[Z \ {n + 1}] = Z
      OBVIOUS
    <3> QED
      BY <3>1
  <2>5. f \in [Old -> New]
    BY <2>2
  <2> HIDE DEF f, Old, New
  <2> QED
    BY <2>3, <2>4, <2>5 DEF Bijection, Injection, Surjection, IsInjective
<1>6. IsFiniteSet(New) /\ Cardinality(New) = 2 ^ n
  <2> HIDE DEF f, Old, New
  <2> QED
    BY <1>3, <1>5, FS_Bijection DEF ExistsBijection
<1>7. Old \cup New = SUBSET (1 .. n + 1) /\ Old \cap New = {}
  <2>1. \A X : X \in SUBSET (1 .. n + 1) /\ n + 1 \notin X => X \in Old
    OBVIOUS
  <2>2. \A X \in Old : X \in SUBSET (1 .. n + 1) /\ n + 1 \notin X
    OBVIOUS
  <2> HIDE DEF Old
  <2> QED
    BY <2>1, <2>2
<1> HIDE DEF f, Old, New
<1>8. Cardinality(Old \cup New) = Cardinality(Old) + Cardinality(New) - 0
  <2>1. Cardinality(Old \cup New)
          = Cardinality(Old) + Cardinality(New) - Cardinality(Old \cap New)
    BY <1>3, <1>6, FS_Union
  <2>2. Cardinality(Old \cap New) = 0
    BY <1>7, FS_EmptySet
  <2> QED
    BY <2>1, <2>2
<1>9. \A a, b \in Nat : a = b => a + b - 0 = 2 * a
  OBVIOUS
<1>10. Cardinality(New) \in Nat
  BY <1>3, <1>6
<1>11. Cardinality(Old \cup New) = 2 * Cardinality(Old)
  BY <1>3, <1>6, <1>8, <1>9, <1>10
<1> QED
  BY <1>3, <1>4, <1>7, <1>11

LEMMA PowerOfZero == 2 ^ 0 = 1
<1>1. IsFiniteSet({}) /\ Cardinality({}) = 0
  BY FS_EmptySet
<1>2. SUBSET {} = {{}}
  OBVIOUS
<1>3. Cardinality(SUBSET {}) = 1
  BY <1>2, FS_Singleton
<1> QED
  BY <1>1, <1>3, FS_SUBSET

LEMMA PowerPositive == \A n \in Nat : 2 ^ n \in Nat /\ 2 ^ n > 0
<1> DEFINE T == {n \in Nat : 2 ^ n \in Nat /\ 2 ^ n > 0}
<1>1. 0 \in T
  BY PowerOfZero
<1>2. ASSUME NEW n \in Nat, n \in T  PROVE n + 1 \in T
  <2>1. \A p \in Nat : p > 0 => 2 * p \in Nat /\ 2 * p > 0
    OBVIOUS
  <2> QED
    BY <1>2, <2>1, PowerDoubles
<1> HIDE DEF T
<1>3. Nat \subseteq T
  BY <1>1, <1>2, NatInduct
<1> QED
  BY <1>3 DEF T

LEMMA PowerSum ==
  ASSUME NEW a \in Nat, NEW b \in Nat
  PROVE  2 ^ (a + b) = 2 ^ a * 2 ^ b
<1> DEFINE T == {n \in Nat : 2 ^ (a + n) = 2 ^ a * 2 ^ n}
<1>0. 2 ^ a \in Nat
  BY PowerPositive
<1>1. 0 \in T
  <2>1. a + 0 = a /\ 2 ^ a * 1 = 2 ^ a
    BY <1>0
  <2> QED
    BY <2>1, PowerOfZero
<1>2. ASSUME NEW n \in Nat, n \in T  PROVE n + 1 \in T
  <2>1. \A p, q \in Nat : 2 * (p * q) = p * (2 * q)
    OBVIOUS
  <2>2. 2 ^ (a + n) = 2 ^ a * 2 ^ n
    BY <1>2
  <2>3. 2 ^ ((a + n) + 1) = 2 * 2 ^ (a + n) /\ 2 ^ (n + 1) = 2 * 2 ^ n
    BY PowerDoubles
  <2>4. a + (n + 1) = (a + n) + 1
    OBVIOUS
  <2>5. 2 ^ n \in Nat
    BY PowerPositive
  <2>6. 2 ^ (a + (n + 1)) = 2 ^ a * 2 ^ (n + 1)
    BY <1>0, <2>1, <2>2, <2>3, <2>4, <2>5
  <2> QED
    BY <2>6
<1> HIDE DEF T
<1>3. b \in T
  BY <1>1, <1>2, NatInduct
<1> QED
  BY <1>3 DEF T

LEMMA PowerMonotone ==
  ASSUME NEW a \in Nat, NEW b \in Nat, a <= b
  PROVE  2 ^ a <= 2 ^ b
<1>1. b - a \in Nat /\ a + (b - a) = b
  OBVIOUS
<1>2. 2 ^ b = 2 ^ a * 2 ^ (b - a)
  BY <1>1, PowerSum
<1>3. \A p, q \in Nat : q > 0 => p <= p * q
  OBVIOUS
<1> QED
  BY <1>1, <1>2, <1>3, PowerPositive

-----------------------------------------------------------------------------
(***************************************************************************)
(* Division.                                                               *)
(***************************************************************************)
LEMMA Division ==
  ASSUME NEW n \in Int, NEW p \in Nat, p > 0
  PROVE  /\ n \div p \in Int /\ n % p \in 0 .. p - 1
         /\ n = p * (n \div p) + (n % p)
OBVIOUS

LEMMA Quotient ==
  ASSUME NEW n \in Int, NEW p \in Nat, p > 0, NEW k \in Int, NEW r \in 0 .. p - 1,
         n = k * p + r
  PROVE  n % p = r /\ n \div p = k
<1> DEFINE q == n \div p
           m == n % p
<1>1. q \in Int /\ m \in 0 .. p - 1 /\ n = p * q + m
  BY Division
<1> HIDE DEF q, m
<1>2. (k - q) * p = m - r
  BY <1>1
<1>3. CASE k - q >= 1
  <2>1. (k - q) * p >= p
    BY <1>1, <1>3
  <2> QED
    BY <1>1, <1>2, <2>1
<1>4. CASE k - q <= -1
  <2>1. (q - k) * p >= p /\ (q - k) * p = r - m
    BY <1>1, <1>2, <1>4
  <2> QED
    BY <1>1, <2>1
<1>5. CASE k = q
  BY <1>1, <1>2, <1>5 DEF q, m
<1> QED
  BY <1>1, <1>3, <1>4, <1>5

-----------------------------------------------------------------------------
(***************************************************************************)
(* A function that is defined by recursion exists: one that is right below *)
(* n is changed at n to one that is right below n + 1, and all of them     *)
(* agree where they are right.                                             *)
(***************************************************************************)
StepAt(f, x, B, a, d, h) == IF x \in B THEN a[x] ELSE h[x][f[d[x]]]

RightBelow(D, S, n, B, a, d, h) ==
  {f \in [D -> S] : \A x \in D : x < n => f[x] = StepAt(f, x, B, a, d, h)}

\* On B the function is as a is; elsewhere it is made of its value at d[x].
Recursion(D, S, B, a, d, h) ==
  /\ D \in SUBSET Nat /\ a \in [D -> S]
  /\ \A x \in D \ B : d[x] \in D /\ d[x] < x
  /\ \A x \in D \ B : \A s \in S : h[x][s] \in S

LEMMA RecursiveFunction ==
  ASSUME NEW D, NEW S, NEW B, NEW a, NEW d, NEW h, Recursion(D, S, B, a, d, h)
  PROVE  \E f \in [D -> S] : \A x \in D : f[x] = StepAt(f, x, B, a, d, h)
<1> USE DEF Recursion
<1> DEFINE Right(n) == RightBelow(D, S, n, B, a, d, h)
           T == {n \in Nat : Right(n) # {}}
<1>1. 0 \in T
  <2>1. a \in Right(0)
    BY DEF RightBelow
  <2> QED
    BY <2>1
<1>2. ASSUME NEW n \in Nat, n \in T  PROVE n + 1 \in T
  <2>1. PICK f \in [D -> S] : \A x \in D : x < n => f[x] = StepAt(f, x, B, a, d, h)
    BY <1>2 DEF RightBelow
  <2> DEFINE g == [x \in D |-> IF x = n THEN StepAt(f, n, B, a, d, h) ELSE f[x]]
  <2>2. n \in D => StepAt(f, n, B, a, d, h) \in S
    BY DEF StepAt
  <2>3. g \in [D -> S]
    BY <2>2
  <2>4. ASSUME NEW x \in D, x < n + 1
        PROVE  g[x] = StepAt(g, x, B, a, d, h)
    <3>0. x \in Nat /\ (x \notin B => d[x] \in D /\ d[x] \in Nat /\ d[x] < x)
      OBVIOUS
    <3>1. x \notin B => d[x] \in D /\ d[x] # n /\ d[x] < n
      BY <2>4, <3>0
    <3>2. x \notin B => g[d[x]] = f[d[x]]
      BY <3>1
    <3>3. StepAt(g, x, B, a, d, h) = StepAt(f, x, B, a, d, h)
      BY <3>2 DEF StepAt
    <3>4. x = n \/ x < n
      BY <2>4, <3>0
    <3> QED
      BY <2>1, <3>3, <3>4
  <2> HIDE DEF g
  <2>5. g \in Right(n + 1)
    BY <2>3, <2>4 DEF RightBelow
  <2> QED
    BY <2>5
<1>3. \A n \in Nat : Right(n) # {}
  <2> HIDE DEF T
  <2>1. Nat \subseteq T
    BY <1>1, <1>2, NatInduct
  <2> QED
    BY <2>1 DEF T
<1> DEFINE U == {x \in Nat : x \in D =>
                   \A n, m \in Nat : x < n /\ x < m =>
                     \A f \in Right(n), g \in Right(m) : f[x] = g[x]}
<1>4. ASSUME NEW x \in Nat, \A y \in Nat : y < x => y \in U
      PROVE  x \in U
  <2> SUFFICES ASSUME x \in D, NEW n \in Nat, NEW m \in Nat, x < n, x < m,
                      NEW f \in Right(n), NEW g \in Right(m)
               PROVE  f[x] = g[x]
    OBVIOUS
  <2>1. /\ f[x] = StepAt(f, x, B, a, d, h)
        /\ g[x] = StepAt(g, x, B, a, d, h)
    BY DEF RightBelow
  <2>2. ASSUME x \notin B  PROVE f[d[x]] = g[d[x]]
    <3>1. d[x] \in D /\ d[x] < x /\ d[x] \in Nat
      BY <2>2
    <3>2. d[x] \in U /\ d[x] < n /\ d[x] < m
      BY <1>4, <3>1
    <3> HIDE DEF Right
    <3> QED
      BY <3>1, <3>2
  <2> QED
    BY <2>1, <2>2 DEF StepAt
<1>5. Nat \subseteq U
  <2> HIDE DEF U
  <2> QED
    BY <1>4, StrongInduct
<1> DEFINE at(x) == CHOOSE f : f \in Right(x + 1)
           F == [x \in D |-> at(x)[x]]
<1>6. \A x \in Nat : at(x) \in Right(x + 1)
  <2> HIDE DEF Right
  <2> QED
    BY <1>3
<1>7. ASSUME NEW x \in D
      PROVE  /\ F[x] = StepAt(at(x), x, B, a, d, h) /\ F[x] \in S
             /\ x \notin B => F[d[x]] = at(x)[d[x]]
  <2>1. x \in Nat /\ at(x) \in Right(x + 1)
    BY <1>6
  <2>2. at(x)[x] = StepAt(at(x), x, B, a, d, h) /\ at(x)[x] \in S
    <3> DEFINE f == at(x)
    <3>1. f \in Right(x + 1)
      BY <2>1
    <3> HIDE DEF f
    <3>2. f[x] = StepAt(f, x, B, a, d, h) /\ f[x] \in S
      BY <2>1, <3>1 DEF RightBelow
    <3> QED
      BY <3>2 DEF f
  <2>3. ASSUME x \notin B  PROVE F[d[x]] = at(x)[d[x]]
    <3>1. d[x] \in D /\ d[x] < x /\ d[x] \in Nat
      BY <2>3
    <3>2. at(d[x]) \in Right(d[x] + 1) /\ d[x] \in U
      BY <1>5, <1>6, <3>1
    <3>3. d[x] < d[x] + 1 /\ d[x] < x + 1 /\ d[x] + 1 \in Nat /\ x + 1 \in Nat
      BY <2>1, <3>1
    <3> HIDE DEF Right, at
    <3>4. at(d[x])[d[x]] = at(x)[d[x]]
      BY <2>1, <3>1, <3>2, <3>3
    <3> QED
      BY <3>1, <3>4
  <2> HIDE DEF at
  <2> QED
    BY <2>2, <2>3
<1> HIDE DEF at
<1>8. F \in [D -> S]
  BY <1>7
<1> HIDE DEF F
<1>9. \A x \in D : F[x] = StepAt(F, x, B, a, d, h)
  BY <1>7 DEF StepAt
<1> QED
  BY <1>8, <1>9

-----------------------------------------------------------------------------
(***************************************************************************)
(* Groups of bits.                                                         *)
(***************************************************************************)
LEMMA GroupFacts ==
  /\ GroupBits \in Nat /\ GroupBits > 0
  /\ Group \in Nat /\ Group >= 2
  /\ \A x \in Nat : /\ x \div Group \in Nat /\ x % Group \in 0 .. Group - 1
                    /\ x = Group * (x \div Group) + (x % Group)
                    /\ x >= Group => x \div Group < x
<1>1. GroupBits \in Nat /\ GroupBits > 0
  BY WidthAssumption
<1>2. Group \in Nat /\ Group >= 2
  <2>1. 2 ^ 1 = 2
    <3>1. 2 ^ (0 + 1) = 2 * 2 ^ 0
      BY PowerDoubles
    <3> QED
      BY <3>1, PowerOfZero
  <2>2. 2 ^ 1 <= 2 ^ GroupBits
    <3>1. 1 \in Nat /\ 1 <= GroupBits
      BY <1>1
    <3> QED
      BY <1>1, <3>1, PowerMonotone
  <2> QED
    BY <1>1, <2>1, <2>2, PowerPositive DEF Group
<1>3. ASSUME NEW x \in Nat, NEW g \in Nat, g >= 2
      PROVE  /\ x \div g \in Nat /\ x % g \in 0 .. g - 1
             /\ x = g * (x \div g) + (x % g)
             /\ x >= g => x \div g < x
  <2>1. /\ x \div g \in Int /\ x % g \in 0 .. g - 1
        /\ x = g * (x \div g) + (x % g)
    BY <1>3, Division
  <2>2. x \div g >= 0
    <3> DEFINE q == x \div g
    <3> SUFFICES ASSUME q <= -1  PROVE FALSE
      BY <2>1
    <3>1. g * q <= -g
      BY <2>1, <1>3
    <3> QED
      BY <2>1, <3>1, <1>3
  <2>3. x >= g => x \div g < x
    <3> DEFINE q == x \div g
    <3> SUFFICES ASSUME x >= g, q >= x  PROVE FALSE
      BY <2>1
    <3>1. g * q >= 2 * q
      BY <2>1, <2>2, <1>3
    <3> QED
      BY <2>1, <2>2, <3>1, <1>3
  <2> QED
    BY <2>1, <2>2, <2>3
<1> QED
  BY <1>1, <1>2, <1>3

LEMMA VarintEquation ==
  \A x \in Nat :
    Varint[x] = IF x < Group THEN <<x>>
                ELSE <<Group + (x % Group)>> \o Varint[x \div Group]
<1> DEFINE B == 0 .. Group - 1
           a == [x \in Nat |-> <<x>>]
           d == [x \in Nat |-> x \div Group]
           S == Seq(Nat)
           h == [x \in Nat |-> [s \in S |-> <<Group + (x % Group)>> \o s]]
           Right(g) == g = [x \in Nat |->
             IF x < Group THEN <<x>>
             ELSE <<Group + (x % Group)>> \o g[x \div Group]]
<1>1. a \in [Nat -> S]
  OBVIOUS
<1>2. \A x \in Nat \ B : d[x] \in Nat /\ d[x] < x
  BY GroupFacts
<1>3. ASSUME NEW x \in Nat \ B, NEW s \in S  PROVE h[x][s] \in S
  <2>1. Group + (x % Group) \in Nat
    BY GroupFacts
  <2>2. <<Group + (x % Group)>> \in S
    BY <2>1
  <2> QED
    BY <2>2, ConcatProperties
<1>4. PICK f \in [Nat -> S] : \A x \in Nat : f[x] = StepAt(f, x, B, a, d, h)
  <2> DEFINE D == Nat
  <2>1. D \in SUBSET Nat /\ a \in [D -> S]
    BY <1>1
  <2>2. \A x \in D \ B : d[x] \in D /\ d[x] < x
    BY <1>2
  <2>3. \A x \in D \ B : \A s \in S : h[x][s] \in S
    BY <1>3
  <2> HIDE DEF a, d, h, S, B, D
  <2>4. \E f \in [D -> S] : \A x \in D : f[x] = StepAt(f, x, B, a, d, h)
    <3>1. Recursion(D, S, B, a, d, h)
      BY <2>1, <2>2, <2>3 DEF Recursion
    <3> QED
      BY <3>1, RecursiveFunction
  <2> QED
    BY <2>4 DEF D
<1>5. ASSUME NEW x \in Nat
      PROVE  f[x] = IF x < Group THEN <<x>>
                    ELSE <<Group + (x % Group)>> \o f[x \div Group]
  <2>1. x \in B <=> x < Group
    BY GroupFacts
  <2>2. x \div Group \in Nat /\ f[x \div Group] \in S
    BY GroupFacts
  <2> QED
    BY <1>4, <2>1, <2>2 DEF StepAt
<1>6. Right(f)
  BY <1>5
<1>7. Right(Varint)
  BY <1>6 DEF Varint
<1> DEFINE g == Varint
<1>8. Right(g)
  BY <1>7
<1> HIDE DEF g
<1>9. \A x \in Nat : g[x] = IF x < Group THEN <<x>>
                            ELSE <<Group + (x % Group)>> \o g[x \div Group]
  BY <1>8
<1> QED
  BY <1>9 DEF g

LEMMA GroupSumEquation ==
  ASSUME NEW bytes \in Seq(Nat)
  PROVE  /\ GroupSum(bytes)[0] = 0
         /\ \A n \in 0 .. Len(bytes) : GroupSum(bytes)[n] \in Nat
         /\ \A n \in 1 .. Len(bytes) :
              GroupSum(bytes)[n] =
                GroupSum(bytes)[n - 1]
                  + (bytes[n] % Group) * 2 ^ (GroupBits * (n - 1))
<1> DEFINE D == 0 .. Len(bytes)
           B == {0}
           a == [n \in D |-> 0]
           d == [n \in D |-> n - 1]
           add == [n \in D |-> (bytes[n] % Group) * 2 ^ (GroupBits * (n - 1))]
           h == [n \in D |-> [s \in Nat |-> s + add[n]]]
           Right(f) == f = [n \in D |->
             IF n = 0 THEN 0
             ELSE f[n - 1] + (bytes[n] % Group) * 2 ^ (GroupBits * (n - 1))]
<1>0. Len(bytes) \in Nat /\ \A n \in 1 .. Len(bytes) : bytes[n] \in Nat
  BY LenProperties, ElementOfSeq
<1>1. \A n \in D \ B : add[n] \in Nat
  <2> SUFFICES ASSUME NEW n \in D \ B  PROVE add[n] \in Nat
    OBVIOUS
  <2>0. n \in 1 .. Len(bytes) /\ n - 1 \in Nat
    BY <1>0
  <2>1. bytes[n] % Group \in Nat /\ n - 1 \in Nat
    <3>1. bytes[n] % Group \in 0 .. Group - 1 /\ Group \in Nat
      BY <1>0, <2>0, GroupFacts
    <3> QED
      BY <2>0, <3>1
  <2>2. GroupBits * (n - 1) \in Nat
    BY <2>1, GroupFacts
  <2>3. \A x, y \in Nat : x * y \in Nat
    OBVIOUS
  <2> QED
    BY <2>1, <2>2, <2>3, PowerPositive
<1>2. Recursion(D, Nat, B, a, d, h)
  <2>1. D \in SUBSET Nat /\ a \in [D -> Nat]
    BY <1>0
  <2>2. \A n \in D \ B : d[n] \in D /\ d[n] < n
    BY <1>0
  <2>3. \A n \in D \ B : \A s \in Nat : h[n][s] \in Nat
    <3> HIDE DEF add
    <3> QED
      BY <1>1
  <2> HIDE DEF D, B, a, d, h
  <2> QED
    BY <2>1, <2>2, <2>3 DEF Recursion
<1>3. PICK f \in [D -> Nat] : \A n \in D : f[n] = StepAt(f, n, B, a, d, h)
  <2> HIDE DEF D, B, a, d, h
  <2> QED
    BY <1>2, RecursiveFunction
<1>4. ASSUME NEW n \in D
      PROVE  f[n] = IF n = 0 THEN 0
                    ELSE f[n - 1] + (bytes[n] % Group) * 2 ^ (GroupBits * (n - 1))
  <2>1. n # 0 => n - 1 \in D /\ f[n - 1] \in Nat
    BY <1>0
  <2>2. n # 0 => h[n][f[n - 1]] = f[n - 1] + add[n]
    BY <2>1
  <2> QED
    BY <1>3, <2>1, <2>2 DEF StepAt
<1>5. Right(f)
  BY <1>4
<1>6. Right(GroupSum(bytes))
  BY <1>5 DEF GroupSum
<1> DEFINE g == GroupSum(bytes)
<1>7. \A n \in D : g[n] = IF n = 0 THEN 0
                    ELSE g[n - 1] + (bytes[n] % Group) * 2 ^ (GroupBits * (n - 1))
  BY <1>6
<1> HIDE DEF g, Right
<1> DEFINE T == {n \in Nat : n \in D => g[n] \in Nat}
<1>8. 0 \in T
  BY <1>7
<1>9. ASSUME NEW n \in Nat, n \in T  PROVE n + 1 \in T
  <2> SUFFICES ASSUME n + 1 \in D  PROVE g[n + 1] \in Nat
    OBVIOUS
  <2>1. n \in D /\ (n + 1) - 1 = n /\ n + 1 # 0 /\ n + 1 \in D \ B
    BY <1>0
  <2>2. add[n + 1] \in Nat
    <3> HIDE DEF add
    <3> QED
      BY <1>1, <2>1
  <2>3. g[n + 1] = g[n] + add[n + 1]
    BY <1>7, <2>1
  <2> HIDE DEF add
  <2> QED
    BY <1>9, <2>1, <2>2, <2>3
<1>10. Nat \subseteq T
  <2> HIDE DEF T
  <2> QED
    BY <1>8, <1>9, NatInduct
<1>11. \A n \in D : g[n] \in Nat
  BY <1>0, <1>10
<1>12. 0 \in D /\ \A n \in 1 .. Len(bytes) : n \in D /\ n # 0
  BY <1>0
<1> QED
  BY <1>7, <1>11, <1>12 DEF g

\* The sum looks at no later byte.
LEMMA GroupSumPrefix ==
  ASSUME NEW bytes \in Seq(Nat), NEW w \in Seq(Nat), Len(w) <= Len(bytes),
         \A i \in 1 .. Len(w) : bytes[i] = w[i]
  PROVE  \A n \in 0 .. Len(w) : GroupSum(bytes)[n] = GroupSum(w)[n]
<1> DEFINE T == {n \in Nat : n <= Len(w) => GroupSum(bytes)[n] = GroupSum(w)[n]}
<1>0. Len(w) \in Nat /\ Len(bytes) \in Nat
  BY LenProperties
<1>1. 0 \in T
  BY GroupSumEquation
<1>2. ASSUME NEW n \in Nat, n \in T  PROVE n + 1 \in T
  <2> SUFFICES ASSUME n + 1 <= Len(w)
               PROVE  GroupSum(bytes)[n + 1] = GroupSum(w)[n + 1]
    OBVIOUS
  <2>1. n + 1 \in 1 .. Len(w) /\ n + 1 \in 1 .. Len(bytes) /\ (n + 1) - 1 = n
    BY <1>0
  <2>2. GroupSum(bytes)[n] = GroupSum(w)[n]
    BY <1>0, <1>2
  <2> DEFINE m == n + 1
  <2>3. /\ GroupSum(bytes)[m] = GroupSum(bytes)[m - 1]
                                  + (bytes[m] % Group) * 2 ^ (GroupBits * (m - 1))
        /\ GroupSum(w)[m] = GroupSum(w)[m - 1]
                              + (w[m] % Group) * 2 ^ (GroupBits * (m - 1))
    <3> m \in 1 .. Len(w) /\ m \in 1 .. Len(bytes)
      BY <2>1
    <3> HIDE DEF m
    <3> QED
      BY GroupSumEquation
  <2> QED
    BY <2>1, <2>2, <2>3
<1>3. Nat \subseteq T
  <2> HIDE DEF T
  <2> QED
    BY <1>1, <1>2, NatInduct
<1> QED
  BY <1>0, <1>3

\* A byte before the others shifts them by a group.
LEMMA GroupSumShift ==
  ASSUME NEW w \in Seq(Nat), NEW b \in Nat
  PROVE  /\ <<b>> \o w \in Seq(Nat) /\ Len(<<b>> \o w) = Len(w) + 1
         /\ (<<b>> \o w)[1] = b
         /\ \A i \in 1 .. Len(w) : (<<b>> \o w)[i + 1] = w[i]
         /\ \A n \in 0 .. Len(w) :
              GroupSum(<<b>> \o w)[n + 1] = (b % Group) + Group * GroupSum(w)[n]
<1> DEFINE v == <<b>> \o w
           T == {n \in Nat : n <= Len(w) =>
                   GroupSum(v)[n + 1] = (b % Group) + Group * GroupSum(w)[n]}
<1>0. Len(w) \in Nat /\ \A i \in 1 .. Len(w) : w[i] \in Nat
  BY LenProperties, ElementOfSeq
<1>1. /\ v \in Seq(Nat) /\ Len(v) = Len(w) + 1 /\ v[1] = b
      /\ \A i \in 1 .. Len(w) : v[i + 1] = w[i]
  <2>1. <<b>> \in Seq(Nat) /\ Len(<<b>>) = 1 /\ <<b>>[1] = b
    OBVIOUS
  <2>2. /\ v \in Seq(Nat) /\ Len(v) = 1 + Len(w)
        /\ \A i \in 1 .. 1 + Len(w) : v[i] = IF i <= 1 THEN <<b>>[i] ELSE w[i - 1]
    <3> DEFINE u == <<b>>
    <3> HIDE DEF u
    <3>1. /\ u \o w \in Seq(Nat) /\ Len(u \o w) = Len(u) + Len(w)
          /\ \A i \in 1 .. Len(u) + Len(w) :
               (u \o w)[i] = IF i <= Len(u) THEN u[i] ELSE w[i - Len(u)]
      BY <2>1, ConcatProperties DEF u
    <3> QED
      BY <2>1, <3>1 DEF u
  <2> HIDE DEF v
  <2>3. \A i \in 1 .. Len(w) : i + 1 \in 1 .. 1 + Len(w) /\ ~(i + 1 <= 1)
                               /\ (i + 1) - 1 = i
    BY <1>0
  <2> QED
    BY <1>0, <2>1, <2>2, <2>3
<1>2. b % Group \in Nat
  BY GroupFacts
<1> HIDE DEF v
<1>3. 0 \in T
  <2> DEFINE m == 1
  <2>1. m \in 1 .. Len(v) /\ m - 1 = 0 /\ v[m] = b
    BY <1>0, <1>1
  <2> HIDE DEF m
  <2>2. GroupSum(v)[m] = GroupSum(v)[0] + (b % Group) * 2 ^ (GroupBits * 0)
    BY <1>1, <2>1, GroupSumEquation
  <2>3. GroupBits * 0 = 0 /\ GroupSum(v)[0] = 0 /\ GroupSum(w)[0] = 0
    BY <1>1, GroupFacts, GroupSumEquation
  <2>4. GroupSum(v)[m] = 0 + (b % Group) * 1
    BY <2>2, <2>3, PowerOfZero
  <2>5. Group * 0 = 0
    BY GroupFacts
  <2>6. GroupSum(v)[0 + 1] = (b % Group) + Group * GroupSum(w)[0]
    BY <1>2, <2>3, <2>4, <2>5 DEF m
  <2> QED
    BY <2>6
<1>4. ASSUME NEW n \in Nat, n \in T  PROVE n + 1 \in T
  <2> DEFINE m == n + 1
  <2> SUFFICES ASSUME m <= Len(w)
               PROVE  GroupSum(v)[m + 1] = (b % Group) + Group * GroupSum(w)[m]
    OBVIOUS
  <2>1. GroupSum(v)[m] = (b % Group) + Group * GroupSum(w)[n]
    BY <1>0, <1>4
  <2>2. m \in 1 .. Len(w) /\ m + 1 \in 1 .. Len(v) /\ m - 1 = n
        /\ (m + 1) - 1 = m /\ n \in 0 .. Len(w) /\ m \in Nat
    BY <1>0, <1>1
  <2>3. v[m + 1] = w[m] /\ w[m] % Group \in Nat
    <3>1. v[m + 1] = w[m] /\ w[m] \in Nat
      BY <1>0, <1>1, <2>2
    <3>2. \A x \in Nat : x % Group \in Nat
      BY GroupFacts
    <3> QED
      BY <3>1, <3>2
  <2> DEFINE p == 2 ^ (GroupBits * n)
             q == 2 ^ (GroupBits * m)
             e == w[m] % Group
  <2>4. q = Group * p /\ p \in Nat /\ q \in Nat
    <3>1. GroupBits * n \in Nat /\ GroupBits * m = GroupBits + GroupBits * n
      BY GroupFacts
    <3>2. 2 ^ (GroupBits + GroupBits * n) = 2 ^ GroupBits * 2 ^ (GroupBits * n)
      BY <3>1, GroupFacts, PowerSum
    <3>3. p \in Nat
      BY <3>1, PowerPositive
    <3>4. \A x, y \in Nat : x * y \in Nat
      OBVIOUS
    <3>5. q = 2 ^ GroupBits * p
      BY <3>1, <3>2
    <3>6. Group = 2 ^ GroupBits /\ Group \in Nat
      BY GroupFacts DEF Group
    <3> HIDE DEF p, q
    <3>7. q = Group * p
      BY <3>5, <3>6
    <3> QED
      BY <3>3, <3>4, <3>6, <3>7
  <2>5. GroupSum(w)[m] = GroupSum(w)[n] + e * p
    <3>1. m \in 1 .. Len(w) /\ m - 1 = n
      BY <2>2
    <3> HIDE DEF m
    <3>2. GroupSum(w)[m]
            = GroupSum(w)[m - 1] + (w[m] % Group) * 2 ^ (GroupBits * (m - 1))
      BY <3>1, GroupSumEquation
    <3> QED
      BY <3>1, <3>2
  <2>6. GroupSum(v)[m + 1] = GroupSum(v)[m] + e * q
    <3> DEFINE l == m + 1
    <3>1. l \in 1 .. Len(v) /\ l - 1 = m /\ v[l] = w[m]
      BY <2>2, <2>3
    <3> HIDE DEF m, l
    <3>2. GroupSum(v)[l] = GroupSum(v)[l - 1]
                             + (v[l] % Group) * 2 ^ (GroupBits * (l - 1))
      BY <1>1, <3>1, GroupSumEquation
    <3> QED
      BY <3>1, <3>2 DEF l
  <2>7. GroupSum(w)[n] \in Nat /\ e \in Nat
    BY <2>2, <2>3, GroupSumEquation
  <2>8. \A g, c, s, x, y \in Nat :
          (c + g * s) + x * (g * y) = c + g * (s + x * y)
    OBVIOUS
  <2>9. Group \in Nat
    BY GroupFacts
  <2> HIDE DEF p, q, e, m
  <2> QED
    BY <1>2, <2>1, <2>4, <2>5, <2>6, <2>7, <2>8, <2>9
<1>5. Nat \subseteq T
  <2> HIDE DEF T
  <2> QED
    BY <1>3, <1>4, NatInduct
<1>6. \A n \in 0 .. Len(w) :
        GroupSum(v)[n + 1] = (b % Group) + Group * GroupSum(w)[n]
  BY <1>0, <1>5
<1> QED
  BY <1>1, <1>6 DEF v

-----------------------------------------------------------------------------
(***************************************************************************)
(* What is written: groups whose sum is the value, of which the last one   *)
(* alone says that no other follows, and no more of them than its width    *)
(* asks for.                                                               *)
(***************************************************************************)
Writes(w, x) ==
  /\ w \in Seq(Nat) /\ Len(w) \in Nat /\ Len(w) > 0
  /\ \A i \in 1 .. Len(w) : w[i] \in Byte /\ (w[i] < Group <=> i = Len(w))
  /\ GroupSum(w)[Len(w)] = x
  /\ \A m \in Nat \ {0} : x < 2 ^ (GroupBits * m) => Len(w) <= m

LEMMA WritesOne ==
  ASSUME NEW x \in Nat, x < Group
  PROVE  Writes(<<x>>, x)
<1> DEFINE w == <<x>>
<1>1. w \in Seq(Nat) /\ Len(w) = 1 /\ w[1] = x
  OBVIOUS
<1> HIDE DEF w
<1>2. x \in Byte /\ x % Group = x
  <2>1. x \in 0 .. Group - 1 /\ Group > 0 /\ x = 0 * Group + x
    BY GroupFacts
  <2> QED
    BY <2>1, GroupFacts, Quotient DEF Byte
<1>3. GroupSum(w)[1] = x
  <2> DEFINE m == 1
  <2>1. m \in 1 .. Len(w) /\ m - 1 = 0 /\ w[m] = x
    BY <1>1
  <2> HIDE DEF m
  <2>2. GroupSum(w)[m] = GroupSum(w)[0] + (x % Group) * 2 ^ (GroupBits * 0)
    BY <1>1, <2>1, GroupSumEquation
  <2>3. GroupBits * 0 = 0 /\ GroupSum(w)[0] = 0
    BY <1>1, GroupFacts, GroupSumEquation
  <2>4. GroupSum(w)[m] = 0 + x * 1
    BY <1>2, <2>2, <2>3, PowerOfZero
  <2> QED
    BY <2>4 DEF m
<1> QED
  BY <1>1, <1>2, <1>3 DEF Writes, w

LEMMA WritesMore ==
  ASSUME NEW x \in Nat, x >= Group, NEW w, Writes(w, x \div Group)
  PROVE  Writes(<<Group + (x % Group)>> \o w, x)
<1> DEFINE r == x % Group
           q == x \div Group
           b == Group + r
           v == <<b>> \o w
<1>1. /\ q \in Nat /\ r \in 0 .. Group - 1 /\ x = Group * q + r /\ r \in Nat
      /\ Group \in Nat /\ Group >= 2
  BY GroupFacts
<1> HIDE DEF r, q
<1>2. b \in Nat /\ b % Group = r /\ b \in Byte /\ ~(b < Group)
  <2>1. b = 1 * Group + r /\ b \in Int /\ Group > 0
    BY <1>1
  <2>2. b % Group = r
    <3> HIDE DEF b
    <3> QED
      BY <1>1, <2>1, Quotient
  <2> QED
    BY <1>1, <2>2 DEF Byte
<1>3. Writes(w, q)
  BY DEF q
<1>4. w \in Seq(Nat) /\ Len(w) \in Nat /\ Len(w) > 0
  BY <1>3 DEF Writes
<1> HIDE DEF b
<1>5. /\ v \in Seq(Nat) /\ Len(v) = Len(w) + 1 /\ v[1] = b
      /\ \A i \in 1 .. Len(w) : v[i + 1] = w[i]
      /\ \A n \in 0 .. Len(w) :
           GroupSum(v)[n + 1] = (b % Group) + Group * GroupSum(w)[n]
  BY <1>2, <1>4, GroupSumShift
<1> HIDE DEF v
<1>6. GroupSum(v)[Len(v)] = x
  <2>1. GroupSum(w)[Len(w)] = q
    BY <1>3 DEF Writes
  <2>2. GroupSum(v)[Len(w) + 1] = r + Group * q
    BY <1>2, <1>4, <1>5, <2>1
  <2>3. r + Group * q = x
    BY <1>1
  <2> QED
    BY <1>5, <2>2, <2>3
<1>7. ASSUME NEW i \in 1 .. Len(v)
      PROVE  v[i] \in Byte /\ (v[i] < Group <=> i = Len(v))
  <2>1. CASE i = 1
    BY <1>2, <1>4, <1>5, <2>1
  <2>2. CASE i # 1
    <3>1. i - 1 \in 1 .. Len(w) /\ (i - 1) + 1 = i
          /\ (i - 1 = Len(w) <=> i = Len(v))
      BY <1>4, <1>5, <2>2
    <3>2. v[i] = w[i - 1]
      BY <1>5, <3>1
    <3> QED
      BY <1>3, <3>1, <3>2 DEF Writes
  <2> QED
    BY <2>1, <2>2
<1>8. ASSUME NEW m \in Nat \ {0}, x < 2 ^ (GroupBits * m)
      PROVE  Len(v) <= m
  <2>1. m # 1
    <3> SUFFICES ASSUME m = 1  PROVE FALSE
      OBVIOUS
    <3>1. GroupBits * m = GroupBits
      BY GroupFacts
    <3> QED
      BY <1>1, <1>8, <3>1 DEF Group
  <2>2. m - 1 \in Nat \ {0}
    BY <2>1
  <2> DEFINE p == 2 ^ (GroupBits * (m - 1))
  <2>3. 2 ^ (GroupBits * m) = Group * p /\ p \in Nat
    <3>1. GroupBits * (m - 1) \in Nat
          /\ GroupBits * m = GroupBits + GroupBits * (m - 1)
      BY <2>2, GroupFacts
    <3> QED
      BY <3>1, GroupFacts, PowerSum, PowerPositive DEF Group
  <2> HIDE DEF p
  <2>4. q < p
    <3> SUFFICES ASSUME q >= p  PROVE FALSE
      BY <1>1, <2>3
    <3>1. Group * q >= Group * p
      BY <1>1, <2>3
    <3>2. Group * q <= x
      BY <1>1
    <3>3. Group * q \in Nat /\ Group * p \in Nat
      BY <1>1, <2>3
    <3> QED
      BY <1>8, <2>3, <3>1, <3>2, <3>3
  <2>5. Len(w) <= m - 1
    BY <1>3, <2>2, <2>4 DEF Writes, p
  <2> QED
    BY <1>4, <1>5, <2>5
<1>9. Writes(v, x)
  BY <1>4, <1>5, <1>6, <1>7, <1>8 DEF Writes
<1> QED
  BY <1>9 DEF v, b, r

LEMMA VarintWrites == \A x \in Nat : Writes(Varint[x], x)
<1> DEFINE T == {x \in Nat : Writes(Varint[x], x)}
<1>1. ASSUME NEW x \in Nat, \A y \in Nat : y < x => y \in T
      PROVE  x \in T
  <2>1. CASE x < Group
    <3>1. Varint[x] = <<x>>
      BY <2>1, VarintEquation
    <3> QED
      BY <2>1, <3>1, WritesOne
  <2>2. CASE x >= Group
    <3>0. ~(x < Group)
      BY <2>2, GroupFacts
    <3>1. Varint[x] = <<Group + (x % Group)>> \o Varint[x \div Group]
      BY <3>0, VarintEquation
    <3>2. x \div Group \in Nat /\ x \div Group < x
      BY <2>2, GroupFacts
    <3>3. Writes(Varint[x \div Group], x \div Group)
      BY <1>1, <3>2
    <3> QED
      BY <2>2, <3>1, <3>3, WritesMore
  <2> QED
    BY <2>1, <2>2, GroupFacts
<1>2. Nat \subseteq T
  <2> HIDE DEF T
  <2> QED
    BY <1>1, StrongInduct
<1> QED
  BY <1>2

-----------------------------------------------------------------------------
(***************************************************************************)
(* What is read is what was written, whatever follows it.                  *)
(***************************************************************************)
LEMMA EnoughGroups ==
  ASSUME NEW bits \in Nat \ {0}
  PROVE  MaxGroups(bits) \in Nat \ {0} /\ bits <= GroupBits * MaxGroups(bits)
<1> DEFINE n == bits + GroupBits - 1
           q == n \div GroupBits
           r == n % GroupBits
<1>1. n \in Nat /\ GroupBits \in Nat /\ GroupBits > 0 /\ n >= GroupBits
  BY GroupFacts
<1>2. q \in Int /\ r \in 0 .. GroupBits - 1 /\ n = GroupBits * q + r
  <2> HIDE DEF n
  <2> QED
    BY <1>1, Division
<1>3. bits <= GroupBits * q
  <2> HIDE DEF q, r
  <2>1. GroupBits * q \in Int
    BY <1>1, <1>2
  <2> QED
    BY <1>1, <1>2, <2>1
<1>4. q >= 1
  <2> HIDE DEF n, q, r
  <2> SUFFICES ASSUME q <= 0  PROVE FALSE
    BY <1>2
  <2>1. GroupBits * q \in Int /\ GroupBits * q <= 0
    BY <1>1, <1>2
  <2> QED
    BY <1>3, <2>1
<1>5. MaxGroups(bits) = q
  BY DEF MaxGroups
<1> HIDE DEF q
<1> QED
  BY <1>2, <1>3, <1>4, <1>5

LEMMA WrittenLength ==
  ASSUME NEW bits \in Nat \ {0}, NEW x \in Nat, x < 2 ^ bits
  PROVE  Len(Varint[x]) <= MaxGroups(bits)
<1> DEFINE m == MaxGroups(bits)
<1>1. m \in Nat \ {0} /\ bits <= GroupBits * m
  BY EnoughGroups
<1> HIDE DEF m
<1>2. GroupBits * m \in Nat
  BY <1>1, GroupFacts
<1>3. 2 ^ bits <= 2 ^ (GroupBits * m)
  BY <1>1, <1>2, PowerMonotone
<1>4. x < 2 ^ (GroupBits * m)
  BY <1>2, <1>3, PowerPositive
<1> QED
  BY <1>1, <1>4, VarintWrites DEF Writes, m

\* A sequence that begins with another one.
Begins(bytes, w) == /\ bytes \in Seq(Nat) /\ w \in Seq(Nat)
                    /\ Len(w) <= Len(bytes)
                    /\ \A i \in 1 .. Len(w) : bytes[i] = w[i]

LEMMA ReadWritten ==
  ASSUME NEW bits \in Nat \ {0}, NEW x \in Nat, x < 2 ^ bits,
         NEW bytes, Begins(bytes, Varint[x])
  PROVE  ReadUInt(bits, bytes)
           = [error |-> FALSE, consumed |-> Len(Varint[x]), value |-> x]
<1> DEFINE w == Varint[x]
           n == Len(w)
           last == {i \in DOMAIN bytes : i <= MaxGroups(bits) /\ bytes[i] < Group}
<1>1. /\ w \in Seq(Nat) /\ n \in Nat /\ n > 0
      /\ \A i \in 1 .. n : w[i] < Group <=> i = n
      /\ GroupSum(w)[n] = x
  BY VarintWrites DEF Writes
<1>2. n <= MaxGroups(bits)
  BY WrittenLength
<1> HIDE DEF w
<1>3. /\ bytes \in Seq(Nat) /\ Len(bytes) \in Nat /\ n <= Len(bytes)
      /\ DOMAIN bytes = 1 .. Len(bytes)
      /\ \A i \in 1 .. n : bytes[i] = w[i]
  BY LenProperties DEF Begins, w
<1> HIDE DEF n
<1>4. n \in last
  BY <1>1, <1>2, <1>3
<1>5. \A i \in last : i >= n
  <2> SUFFICES ASSUME NEW i \in last, i < n  PROVE FALSE
    BY <1>1, <1>3
  <2>1. i \in 1 .. n /\ bytes[i] < Group /\ i # n
    BY <1>1, <1>3
  <2> QED
    BY <1>1, <1>3, <2>1
<1>6. last \in SUBSET Nat
  BY <1>3
<1> HIDE DEF last
<1>7. Min(last) = n
  <2>1. \A j \in last : (\A y \in last : j =< y) => j = n
    BY <1>1, <1>4, <1>5, <1>6
  <2>2. \A y \in last : n =< y
    BY <1>1, <1>5, <1>6
  <2> QED
    BY <1>4, <2>1, <2>2 DEF Min
<1>8. GroupSum(bytes)[n] = x
  <2>1. n \in 0 .. n
    BY <1>1
  <2> QED
    BY <1>1, <1>3, <2>1, GroupSumPrefix DEF n
<1>9. x % 2 ^ bits = x
  <2> DEFINE p == 2 ^ bits
  <2>1. p \in Nat /\ p > 0
    BY PowerPositive
  <2>2. x \in 0 .. p - 1 /\ x = 0 * p + x
    BY <2>1
  <2> HIDE DEF p
  <2>3. x % p = x
    BY <2>1, <2>2, Quotient
  <2> QED
    BY <2>3 DEF p
<1>10. last # {}
  BY <1>4
<1> QED
  BY <1>7, <1>8, <1>9, <1>10 DEF ReadUInt, last, n, w

LEMMA VarintDecodes ==
  ASSUME NEW bits \in Nat \ {0}, NEW x \in Nat, x < 2 ^ bits
  PROVE  DecodeVarint(bits, WriteUInt(x)) = Some(x)
<1>1. Begins(Varint[x], Varint[x])
  BY VarintWrites DEF Begins, Writes
<1>2. ReadUInt(bits, Varint[x])
        = [error |-> FALSE, consumed |-> Len(Varint[x]), value |-> x]
  BY <1>1, ReadWritten
<1> QED
  BY <1>2 DEF DecodeVarint, WriteUInt

-----------------------------------------------------------------------------
(***************************************************************************)
(* Signed integers.                                                        *)
(***************************************************************************)
LEMMA Halves ==
  ASSUME NEW bits \in Nat \ {0}
  PROVE  /\ 2 ^ bits = 2 * 2 ^ (bits - 1)
         /\ 2 ^ (bits - 1) \in Nat /\ 2 ^ (bits - 1) > 0
<1>1. bits - 1 \in Nat /\ (bits - 1) + 1 = bits
  OBVIOUS
<1> QED
  BY <1>1, PowerDoubles, PowerPositive

\* A signed integer of a width survives the way through the unsigned ones of
\* that width, or of a wider one.
LEMMA SignedThrough ==
  ASSUME NEW bits \in Nat \ {0}, NEW wide \in Nat \ {0}, bits <= wide,
         NEW i \in Signed(bits)
  PROVE  /\ ToUnsigned(wide, i) \in Nat /\ ToUnsigned(wide, i) < 2 ^ wide
         /\ ToSigned(bits, ToUnsigned(wide, i)) = i
<1> DEFINE h == 2 ^ (bits - 1)
           p == 2 ^ bits
           k == 2 ^ (wide - bits)
           q == 2 ^ wide
           u == i % q
           v == u % p
<1>1. p = 2 * h /\ h \in Nat /\ h > 0 /\ p \in Nat /\ p > 0
  BY Halves, PowerPositive
<1>2. q = p * k /\ k \in Nat /\ k > 0 /\ q \in Nat /\ q > 0
  <2>1. wide - bits \in Nat /\ bits + (wide - bits) = wide
    OBVIOUS
  <2> QED
    BY <2>1, PowerSum, PowerPositive
<1>3. i \in Int /\ -h <= i /\ i < h
  BY <1>1 DEF Signed
<1> HIDE DEF h, p, k, q
<1>4. h <= q
  <2>1. p <= p * k
    BY <1>1, <1>2
  <2> QED
    BY <1>1, <1>2, <2>1
<1>5. u \in Nat /\ u < q
  BY <1>2, <1>3, Division
<1>6. u = IF i >= 0 THEN i ELSE i + q
  <2>1. CASE i >= 0
    <3>1. i \in 0 .. q - 1 /\ i = 0 * q + i
      BY <1>1, <1>2, <1>3, <1>4, <2>1
    <3> QED
      BY <1>2, <1>3, <2>1, <3>1, Quotient
  <2>2. CASE i < 0
    <3>1. i + q \in 0 .. q - 1 /\ i = (-1) * q + (i + q)
      BY <1>1, <1>2, <1>3, <1>4, <2>2
    <3>2. i % q = i + q
      BY <1>2, <1>3, <3>1, Quotient
    <3> QED
      BY <1>3, <2>2, <3>2
  <2> QED
    BY <1>3, <2>1, <2>2
<1>7. v = IF i >= 0 THEN i ELSE i + p
  <2>1. CASE i >= 0
    <3>1. u \in Int /\ i \in 0 .. p - 1 /\ u = 0 * p + i
      BY <1>1, <1>3, <1>5, <1>6, <2>1
    <3> HIDE DEF u
    <3> QED
      BY <1>1, <2>1, <3>1, Quotient
  <2>2. CASE i < 0
    <3>1. (k - 1) * p = p * k - p /\ k - 1 \in Int
      BY <1>1, <1>2
    <3>2. u \in Int /\ i + p \in 0 .. p - 1 /\ u = (k - 1) * p + (i + p)
      BY <1>1, <1>2, <1>3, <1>5, <1>6, <2>2, <3>1
    <3> HIDE DEF u
    <3>3. u % p = i + p
      BY <1>1, <3>1, <3>2, Quotient
    <3> QED
      BY <1>3, <2>2, <3>3
  <2> QED
    BY <1>3, <2>1, <2>2
<1> HIDE DEF v
<1>8. (IF v >= h THEN v - p ELSE v) = i
  BY <1>1, <1>3, <1>7
<1>9. ToSigned(bits, u) = IF v >= h THEN v - p ELSE v
  BY DEF ToSigned, ToUnsigned, v, h, p
<1>10. ToUnsigned(wide, i) = u
  BY DEF ToUnsigned, q
<1> HIDE DEF u
<1> QED
  BY <1>5, <1>8, <1>9, <1>10 DEF q

-----------------------------------------------------------------------------
\* Every value of every type is read as it was written (codec.cpp:7-125).
THEOREM EveryValueReturns == RoundTrip
<1> SUFFICES ASSUME NEW type \in Types, NEW v \in Domain(type)
             PROVE  Decode(type, Encode(type, v)) = Some(v)
  BY DEF RoundTrip
<1>0. /\ Bits32 \in Nat \ {0} /\ Bits64 \in Nat \ {0} /\ Bits32 <= Bits64
      /\ FloatBytes \in Nat /\ DoubleBytes \in Nat
  BY WidthAssumption
<1>1. CASE type = "bool"
  BY <1>1 DEF Domain, Encode, Decode, DecodeBool
<1>2. CASE type = "int64"
  <2>1. PICK i \in Signed(Bits64) : v = <<i>>
    BY <1>2 DEF Domain
  <2> DEFINE u == ToUnsigned(Bits64, i)
  <2>2. u \in Nat /\ u < 2 ^ Bits64 /\ ToSigned(Bits64, u) = i
    BY <1>0, SignedThrough
  <2> HIDE DEF u
  <2>3. DecodeVarint(Bits64, WriteUInt(u)) = {u}
    BY <1>0, <2>2, VarintDecodes DEF Some
  <2>4. Encode(type, v) = WriteUInt(u)
    BY <1>2, <2>1 DEF Encode, u
  <2>5. DecodeInt64(WriteUInt(u)) = {<<i>>}
    BY <2>2, <2>3 DEF DecodeInt64, Integer
  <2> QED
    BY <1>2, <2>1, <2>4, <2>5 DEF Decode, Some
<1>3. CASE type = "int32"
  <2>1. PICK i \in Signed(Bits32) : v = <<i>>
    BY <1>3 DEF Domain
  <2> DEFINE u == ToUnsigned(Bits64, i)
  <2>2. u \in Nat /\ u < 2 ^ Bits64 /\ ToSigned(Bits32, u) = i
    BY <1>0, SignedThrough
  <2> HIDE DEF u
  <2>3. DecodeVarint(Bits64, WriteUInt(u)) = {u}
    BY <1>0, <2>2, VarintDecodes DEF Some
  <2>4. Encode(type, v) = WriteUInt(u)
    BY <1>3, <2>1 DEF Encode, u
  <2>5. DecodeInt32(WriteUInt(u)) = {<<i>>}
    BY <2>2, <2>3 DEF DecodeInt32, Integer
  <2> QED
    BY <1>3, <2>1, <2>4, <2>5 DEF Decode, Some
<1>4. ASSUME NEW bits \in Nat \ {0}, NEW i \in Unsigned(bits)
      PROVE  DecodeUInt(bits, WriteUInt(i)) = {<<i>>}
  <2>1. i \in Nat /\ i < 2 ^ bits
    BY PowerPositive DEF Unsigned
  <2>2. DecodeVarint(bits, WriteUInt(i)) = {i}
    BY <2>1, VarintDecodes DEF Some
  <2> QED
    BY <2>2 DEF DecodeUInt, Integer
<1>5. CASE type = "uint32"
  <2>1. PICK i \in Unsigned(Bits32) : v = <<i>>
    BY <1>5 DEF Domain
  <2>2. Encode(type, v) = WriteUInt(i)
    BY <1>5, <2>1 DEF Encode
  <2> QED
    BY <1>0, <1>4, <1>5, <2>1, <2>2 DEF Decode, Some
<1>6. CASE type = "uint64"
  <2>1. PICK i \in Unsigned(Bits64) : v = <<i>>
    BY <1>6 DEF Domain
  <2>2. Encode(type, v) = WriteUInt(i)
    BY <1>6, <2>1 DEF Encode
  <2> QED
    BY <1>0, <1>4, <1>6, <2>1, <2>2 DEF Decode, Some
<1>7. ASSUME NEW size \in Nat, NEW b \in Fixed(size)
      PROVE  DecodeFixed(size, b) = Some(b)
  <2>1. Len(b) = size
    BY DEF Fixed
  <2> QED
    BY <2>1 DEF DecodeFixed
<1>8. CASE type = "float" \/ type = "double"
  BY <1>0, <1>7, <1>8 DEF Domain, Encode, Decode
<1>9. CASE type = "bytes"
  BY <1>9 DEF Encode, Decode, DecodeBytes
<1> QED
  BY <1>1, <1>2, <1>3, <1>5, <1>6, <1>8, <1>9 DEF Types

-----------------------------------------------------------------------------
(***************************************************************************)
(* varIntSize, and varints that something follows or that are cut short.   *)
(***************************************************************************)
LEMMA GroupsEquation ==
  \A x \in Nat : Groups[x] = IF x < Group THEN 1 ELSE 1 + Groups[x \div Group]
<1> DEFINE B == 0 .. Group - 1
           a == [x \in Nat |-> 1]
           d == [x \in Nat |-> x \div Group]
           h == [x \in Nat |-> [s \in Nat |-> 1 + s]]
           Right(g) == g = [x \in Nat |->
             IF x < Group THEN 1 ELSE 1 + g[x \div Group]]
<1>1. Recursion(Nat, Nat, B, a, d, h)
  <2>1. Nat \in SUBSET Nat /\ a \in [Nat -> Nat]
    OBVIOUS
  <2>2. \A x \in Nat \ B : d[x] \in Nat /\ d[x] < x
    BY GroupFacts
  <2>3. \A x \in Nat \ B : \A s \in Nat : h[x][s] \in Nat
    OBVIOUS
  <2> HIDE DEF B, a, d, h
  <2> QED
    BY <2>1, <2>2, <2>3 DEF Recursion
<1>2. PICK f \in [Nat -> Nat] : \A x \in Nat : f[x] = StepAt(f, x, B, a, d, h)
  <2> HIDE DEF B, a, d, h
  <2> QED
    BY <1>1, RecursiveFunction
<1>3. ASSUME NEW x \in Nat
      PROVE  f[x] = IF x < Group THEN 1 ELSE 1 + f[x \div Group]
  <2>1. x \in B <=> x < Group
    BY GroupFacts
  <2>2. x \div Group \in Nat /\ f[x \div Group] \in Nat
    BY GroupFacts
  <2> QED
    BY <1>2, <2>1, <2>2 DEF StepAt
<1>4. Right(f)
  BY <1>3
<1>5. Right(Groups)
  BY <1>4 DEF Groups
<1> DEFINE g == Groups
<1>6. Right(g)
  BY <1>5
<1> HIDE DEF g
<1>7. \A x \in Nat : g[x] = IF x < Group THEN 1 ELSE 1 + g[x \div Group]
  BY <1>6
<1> QED
  BY <1>7 DEF g

LEMMA VarintLength == \A x \in Nat : Len(Varint[x]) = VarIntSize(x)
<1> DEFINE T == {x \in Nat : Len(Varint[x]) = Groups[x]}
<1>1. ASSUME NEW x \in Nat, \A y \in Nat : y < x => y \in T
      PROVE  x \in T
  <2>1. CASE x < Group
    <3>1. Varint[x] = <<x>> /\ Groups[x] = 1
      BY <2>1, VarintEquation, GroupsEquation
    <3> QED
      BY <3>1
  <2>2. CASE ~(x < Group)
    <3> DEFINE q == x \div Group
               b == Group + (x % Group)
               w == Varint[q]
    <3>1. q \in Nat /\ q < x /\ b \in Nat
      BY <2>2, GroupFacts
    <3>2. Varint[x] = <<b>> \o w
      BY <2>2, VarintEquation
    <3>3. Groups[x] = 1 + Groups[q]
      BY <2>2, GroupsEquation
    <3>4. w \in Seq(Nat) /\ Len(w) \in Nat /\ Len(w) = Groups[q]
      BY <1>1, <3>1, VarintWrites DEF Writes
    <3> HIDE DEF b, w, q
    <3>5. Len(<<b>> \o w) = Len(w) + 1
      BY <3>1, <3>4, GroupSumShift
    <3>6. Len(<<b>> \o w) = Groups[x]
      BY <3>3, <3>4, <3>5
    <3> QED
      BY <3>2, <3>6
  <2> QED
    BY <2>1, <2>2
<1>2. Nat \subseteq T
  <2> HIDE DEF T
  <2> QED
    BY <1>1, StrongInduct
<1> QED
  BY <1>2 DEF VarIntSize

\* Of a varint that is cut short no byte is the last one.
LEMMA CutShort ==
  ASSUME NEW bits, NEW x \in Nat, NEW n \in 0 .. Len(Varint[x]) - 1
  PROVE  ReadUInt(bits, SubSeq(Varint[x], 1, n)).error
<1> DEFINE w == Varint[x]
           s == SubSeq(w, 1, n)
<1>1. /\ w \in Seq(Nat) /\ Len(w) \in Nat
      /\ \A i \in 1 .. Len(w) : w[i] \in Nat /\ (w[i] < Group <=> i = Len(w))
  BY VarintWrites, ElementOfSeq DEF Writes
<1> HIDE DEF w
<1>2. n \in 0 .. Len(w) - 1
  BY DEF w
<1>3. DOMAIN s = 1 .. n /\ \A i \in 1 .. n : s[i] = w[i]
  BY <1>1, <1>2
<1> HIDE DEF s
<1>4. \A i \in DOMAIN s : ~(s[i] < Group)
  <2>1. \A i \in 1 .. n : i \in 1 .. Len(w) /\ i # Len(w)
    BY <1>1, <1>2
  <2> QED
    BY <1>1, <1>3, <2>1
<1>5. {i \in DOMAIN s : i <= MaxGroups(bits) /\ s[i] < Group} = {}
  BY <1>4
<1>6. ReadUInt(bits, s).error
  BY <1>5 DEF ReadUInt
<1> QED
  BY <1>6 DEF s, w

\* A varint ends where it says it does, whatever follows it, and one that is
\* cut short is an error (varint.cpp:5-122).
THEOREM VarintsEndThemselves == VarintSelfDelimiting
<1> SUFFICES ASSUME NEW v \in Unsigned(Bits64), NEW next \in Byte
             PROVE  LET w == WriteUInt(v)
                    IN  /\ Len(w) = VarIntSize(v) /\ Len(w) <= MaxGroups(Bits64)
                        /\ ReadUInt(Bits64, w \o <<next>>)
                             = [error |-> FALSE, consumed |-> Len(w), value |-> v]
                        /\ \A n \in 0 .. Len(w) - 1 :
                             ReadUInt(Bits64, SubSeq(w, 1, n)).error
  BY DEF VarintSelfDelimiting
<1> DEFINE w == Varint[v]
<1>1. v \in Nat /\ v < 2 ^ Bits64 /\ Bits64 \in Nat \ {0}
  BY WidthAssumption, PowerPositive DEF Unsigned
<1>2. Len(w) = VarIntSize(v) /\ Len(w) <= MaxGroups(Bits64)
  BY <1>1, VarintLength, WrittenLength
<1>3. Begins(w \o <<next>>, w)
  <2>1. w \in Seq(Nat) /\ Len(w) \in Nat
    BY <1>1, VarintWrites DEF Writes
  <2> HIDE DEF w
  <2>2. next \in Nat
    BY GroupFacts DEF Byte
  <2>3. <<next>> \in Seq(Nat) /\ Len(<<next>>) = 1
    BY <2>2
  <2> DEFINE u == <<next>>
  <2> HIDE DEF u
  <2>4. /\ w \o u \in Seq(Nat) /\ Len(w \o u) = Len(w) + Len(u)
        /\ \A i \in 1 .. Len(w) + Len(u) :
             (w \o u)[i] = IF i <= Len(w) THEN w[i] ELSE u[i - Len(w)]
    BY <2>1, <2>3, ConcatProperties DEF u
  <2>5. Len(u) = 1
    BY <2>3 DEF u
  <2>6. Begins(w \o u, w)
    BY <2>1, <2>4, <2>5 DEF Begins
  <2> QED
    BY <2>6 DEF u
<1>4. ReadUInt(Bits64, w \o <<next>>)
        = [error |-> FALSE, consumed |-> Len(w), value |-> v]
  BY <1>1, <1>3, ReadWritten
<1>5. \A n \in 0 .. Len(w) - 1 : ReadUInt(Bits64, SubSeq(w, 1, n)).error
  BY <1>1, CutShort
<1> QED
  BY <1>2, <1>4, <1>5 DEF WriteUInt

-----------------------------------------------------------------------------
(***************************************************************************)
(* What the getters make of another type's bytes.                          *)
(***************************************************************************)
\* 0 and 1 are written as themselves, and are themselves when they are read.
LEMMA SmallIntegers ==
  ASSUME NEW b \in {0, 1}
  PROVE  /\ b \in Nat /\ Varint[b] = <<b>> /\ b < 2 ^ Bits64
         /\ ToUnsigned(Bits64, b) = b /\ ToSigned(Bits64, b) = b
<1>1. Bits64 \in Nat \ {0} /\ Bits64 - 1 \in Nat \ {0}
      /\ (Bits64 - 1) - 1 \in Nat
  BY WidthAssumption
<1> DEFINE h == 2 ^ (Bits64 - 1)
           p == 2 ^ Bits64
<1>2. p = 2 * h /\ h \in Nat /\ h >= 2
  <2>1. p = 2 * h
    BY <1>1, Halves
  <2>2. \A k \in Nat : k > 0 => 2 * k \in Nat /\ 2 * k >= 2
    OBVIOUS
  <2>3. h = 2 * 2 ^ ((Bits64 - 1) - 1)
    BY <1>1, Halves
  <2> QED
    BY <1>1, <2>1, <2>2, <2>3, PowerPositive
<1>3. b \in Nat /\ b < Group /\ b < h /\ b < p /\ p \in Nat /\ p > 0
  BY <1>2, GroupFacts
<1>4. Varint[b] = <<b>>
  BY <1>3, VarintEquation
<1> HIDE DEF h, p
<1>5. b % p = b
  <2>1. b \in Int /\ b \in 0 .. p - 1 /\ b = 0 * p + b
    BY <1>3
  <2> QED
    BY <1>3, <2>1, Quotient
<1>6. ~(b >= h)
  BY <1>2, <1>3
<1> QED
  BY <1>3, <1>4, <1>5, <1>6 DEF ToUnsigned, ToSigned, h, p

\* A number is cut to a width whether or not it was cut to a wider one first.
LEMMA CutTwice ==
  ASSUME NEW i \in Int
  PROVE  ToSigned(Bits32, ToUnsigned(Bits64, i)) = ToSigned(Bits32, i)
<1> DEFINE p == 2 ^ Bits32
           k == 2 ^ (Bits64 - Bits32)
           q == 2 ^ Bits64
           u == i % q
           r == i % p
<1>1. Bits32 \in Nat /\ Bits64 \in Nat /\ Bits64 - Bits32 \in Nat
      /\ Bits32 + (Bits64 - Bits32) = Bits64
  BY WidthAssumption
<1>2. q = p * k /\ k \in Nat /\ p \in Nat /\ p > 0 /\ q \in Nat /\ q > 0
  BY <1>1, PowerSum, PowerPositive
<1> HIDE DEF p, k, q
<1>3. u \in Int /\ i \div q \in Int /\ i = q * (i \div q) + u
  BY <1>2, Division
<1>4. r \in 0 .. p - 1 /\ i \div p \in Int /\ i = p * (i \div p) + r
  BY <1>2, Division
<1>5. u % p = r
  <2> DEFINE m == i \div q
             n == i \div p
             l == n - k * m
  <2> HIDE DEF m, n
  <2>1. l \in Int /\ q * m = k * m * p
    BY <1>2, <1>3, <1>4 DEF m, n
  <2>2. l * p = p * n - k * m * p
    BY <1>2, <1>3, <1>4 DEF m, n
  <2>3. u = l * p + r
    <3>1. i = q * m + u /\ i = p * n + r
      BY <1>3, <1>4 DEF m, n
    <3>2. p * n \in Int /\ q * m \in Int /\ l * p = p * n - q * m
      BY <1>2, <1>3, <1>4, <2>1, <2>2 DEF m, n
    <3> HIDE DEF l, u, r
    <3> QED
      BY <1>3, <1>4, <3>1, <3>2 DEF u, r
  <2>4. u \in Int /\ r \in 0 .. p - 1
    BY <1>3, <1>4
  <2> HIDE DEF l, u, r
  <2> QED
    BY <1>2, <2>1, <2>3, <2>4, Quotient
<1> QED
  BY <1>5 DEF ToSigned, ToUnsigned, p, q

\* The bytes of a double are a varint where the last one, and no other, says
\* that no more follow.
LEMMA FixedAsVarint ==
  ASSUME NEW size \in Nat \ {0}, NEW bits, NEW b \in Fixed(size),
         MaxGroups(bits) \in Nat, size <= MaxGroups(bits)
  PROVE  DecodeVarint(bits, b) # None
           <=> \A i \in 1 .. size : b[i] < Group <=> i = size
<1> DEFINE last == {i \in DOMAIN b : i <= MaxGroups(bits) /\ b[i] < Group}
<1>1. DOMAIN b = 1 .. size /\ Len(b) = size
  BY DEF Fixed
<1>2. last = {i \in 1 .. size : b[i] < Group} /\ last \in SUBSET Nat
  BY <1>1
<1>3. DecodeVarint(bits, b) # None <=> last # {} /\ Min(last) = size
  BY <1>1 DEF DecodeVarint, ReadUInt, None, Some
<1>4. last # {} /\ Min(last) = size <=> last = {size}
  <2>1. ASSUME last = {size}  PROVE Min(last) = size
    BY <2>1 DEF Min
  <2>2. ASSUME last # {}, Min(last) = size  PROVE last = {size}
    <3>1. PICK x \in last : \A y \in last : x <= y
      BY <1>2, <2>2, LeastOf
    <3>2. Min(last) \in last /\ \A y \in last : Min(last) <= y
      BY <3>1 DEF Min
    <3> QED
      BY <1>2, <2>2, <3>2
  <2> QED
    BY <2>1, <2>2
<1> HIDE DEF last
<1>5. last = {size} <=> \A i \in 1 .. size : b[i] < Group <=> i = size
  BY <1>2
<1> QED
  BY <1>3, <1>4, <1>5

\* Exactly these bytes are taken for another type's, where a double has as
\* many bytes as some integer, and more than a bool (kv_store.cpp:116-144).
THEOREM MisreadsAreThese ==
  ASSUME 1 < DoubleBytes, DoubleBytes <= MaxGroups(Bits64)
  PROVE  Misreads
<1>0. /\ Bits64 \in Nat \ {0} /\ DoubleBytes \in Nat \ {0}
      /\ MaxGroups(Bits64) \in Nat
  BY WidthAssumption, EnoughGroups
<1>1. ASSUME NEW i \in Signed(Bits64)
      PROVE  /\ DecodeBool(Encode("int64", <<i>>)) =
                  IF i \in {0, 1} THEN Some(<<i>>) ELSE None
             /\ Decode("double", Encode("int64", <<i>>)) # None
                  <=> VarIntSize(ToUnsigned(Bits64, i)) = DoubleBytes
             /\ DecodeInt32(Encode("int64", <<i>>)) = Some(<<ToSigned(Bits32, i)>>)
  <2> DEFINE u == ToUnsigned(Bits64, i)
             w == Varint[u]
  <2>1. u \in Nat /\ u < 2 ^ Bits64 /\ ToSigned(Bits64, u) = i
    BY <1>0, SignedThrough
  <2>2. i \in Int /\ ToSigned(Bits32, u) = ToSigned(Bits32, i)
    <3>1. i \in Int
      BY <1>0, Halves DEF Signed
    <3> QED
      BY <3>1, CutTwice
  <2>3. Encode("int64", <<i>>) = w
    BY DEF Encode, WriteUInt
  <2>4. i \in {0, 1} => w = <<i>>
    BY SmallIntegers
  <2> HIDE DEF u
  <2>5. ASSUME NEW b \in {0, 1}, w = <<b>>  PROVE i = b
    <3>1. Writes(<<b>>, u) /\ Writes(<<b>>, b)
      BY <2>1, <2>5, SmallIntegers, VarintWrites
    <3>2. u = b
      BY <3>1 DEF Writes
    <3> QED
      BY <2>1, <3>2, SmallIntegers
  <2>6. Len(w) = VarIntSize(u)
    BY <2>1, VarintLength
  <2>7. DecodeVarint(Bits64, w) = {u}
    BY <1>0, <2>1, VarintDecodes DEF WriteUInt, Some
  <2> HIDE DEF w
  <2>8. DecodeBool(w) = IF i \in {0, 1} THEN Some(<<i>>) ELSE None
    <3>1. CASE i \in {0, 1}
      BY <2>4, <3>1 DEF DecodeBool
    <3>2. CASE i \notin {0, 1}
      <4>1. w # <<0>> /\ w # <<1>>
        BY <2>5, <3>2
      <4> QED
        BY <3>2, <4>1 DEF DecodeBool
    <3> QED
      BY <3>1, <3>2
  <2>9. Decode("double", w) # None <=> VarIntSize(u) = DoubleBytes
    BY <2>6 DEF Decode, DecodeFixed, Some, None
  <2>10. DecodeInt32(w) = Some(<<ToSigned(Bits32, i)>>)
    BY <2>2, <2>7 DEF DecodeInt32, Integer, Some
  <2> QED
    BY <2>3, <2>8, <2>9, <2>10 DEF u
<1>2. ASSUME NEW b \in Domain("bool")
      PROVE  DecodeInt64(Encode("bool", b)) = Some(b)
  <2>1. PICK n \in {0, 1} : b = <<n>>
    BY DEF Domain
  <2>2. DecodeVarint(Bits64, <<n>>) = {n}
    BY <1>0, SmallIntegers, VarintDecodes DEF WriteUInt, Some
  <2>3. ToSigned(Bits64, n) = n
    BY SmallIntegers
  <2>4. DecodeInt64(<<n>>) = {<<n>>}
    BY <2>2, <2>3 DEF DecodeInt64, Integer
  <2> QED
    BY <2>1, <2>4 DEF Encode, Some
<1>3. ASSUME NEW d \in Fixed(DoubleBytes)
      PROVE  /\ DecodeBool(Encode("double", d)) = None
             /\ DecodeInt64(Encode("double", d)) # None
                  <=> \A i \in 1 .. DoubleBytes : d[i] < Group <=> i = DoubleBytes
  <2>1. Encode("double", d) = d
    BY DEF Encode
  <2>2. Len(d) = DoubleBytes
    BY <1>0 DEF Fixed
  <2>3. d # <<0>> /\ d # <<1>>
    BY <2>2
  <2>4. DecodeInt64(d) # None <=> DecodeVarint(Bits64, d) # None
    BY DEF DecodeInt64, Integer, None
  <2> QED
    BY <1>0, <2>1, <2>3, <2>4, FixedAsVarint DEF DecodeBool
<1> QED
  BY <1>1, <1>2, <1>3 DEF Misreads
=============================================================================
