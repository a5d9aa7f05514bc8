---------------------------- MODULE ReadsProofs ----------------------------
(***************************************************************************)
(* What the lists answer, for any number of rows and any width of an int,  *)
(* and what Slugify returns, for every title, alphabet and length.         *)
(*                                                                         *)
(* Lists: a row's rank, the number of rows that come before it, is its     *)
(* place in every list that the order of the query allows, so a walk that  *)
(* has covered the first k places has shown every row of rank below k.     *)
(* Rows that are added only raise ranks; one that is taken out or moved    *)
(* towards the end lowers others by one, and so brings one row at most     *)
(* among those that were passed unseen.                                    *)
(*                                                                         *)
(* Slugs: after each rune the builder is what the places of the title read *)
(* so far contribute, joined, and a slug that may be cut anywhere.         *)
(***************************************************************************)
EXTENDS Listing, Slugs, FiniteSetTheorems, TLAPS

-----------------------------------------------------------------------------
(* Lists: arithmetic *)

\* Euclid's division, and products of an integer and a natural number.
LEMMA Division ==
  ASSUME NEW n \in Nat, NEW d \in Nat \ {0}
  PROVE  n \div d \in Nat /\ n % d \in 0 .. d - 1 /\ n = (n \div d) * d + (n % d)
  OBVIOUS

LEMMA Monotone ==
  ASSUME NEW x \in Int, NEW y \in Int, NEW c \in Nat, x <= y
  PROVE  x * c \in Int /\ y * c \in Int /\ x * c <= y * c
  OBVIOUS

LEMMA Distribute ==
  ASSUME NEW a \in Int, NEW c \in Int
  PROVE  a * c \in Int /\ (a + 1) * c = a * c + c /\ (a - 1) * c = a * c - c
  OBVIOUS

\* A number that is smaller than the divisor is left as it is.
LEMMA Remainder == ASSUME NEW n \in Nat, NEW d \in Nat, n < d PROVE n % d = n
  OBVIOUS

\* An offset that fits an int is computed as it should be.
LEMMA WrapKeeps == ASSUME NEW x \in 0 .. MaxInt PROVE Wrap(x) = x
<1>1. MaxInt \in Nat
  BY ListingAssumption
<1> DEFINE d == 2 * (MaxInt + 1)
<1>2. x + MaxInt + 1 \in Nat /\ d \in Nat /\ x + MaxInt + 1 < d
  BY <1>1
<1>3. (x + MaxInt + 1) % d = x + MaxInt + 1
  BY <1>2, Remainder
<1> QED
  BY <1>1, <1>3 DEF Wrap

\* The guard of pageOffset lets through the pages whose offset fits, no more and
\* no fewer, and what is multiplied after it does not wrap.
THEOREM FitsExactly ==
  ASSUME NEW p, p.page \in Nat \ {0}, p.limit \in Nat \ {0}
  PROVE  /\ (p.page - 1) * p.limit \in Nat
         /\ OffsetFits(p) <=> (p.page - 1) * p.limit <= MaxInt
         /\ OffsetFits(p) => Product(p) = (p.page - 1) * p.limit
<1>1. ASSUME NEW d \in Nat \ {0}, NEW a \in Nat, NEW M \in Nat, NEW k, k = M \div d
      PROVE  a * d \in Nat /\ (a <= k <=> a * d <= M)
  <2>1. k \in Nat /\ M % d \in 0 .. d - 1 /\ M = k * d + (M % d)
    BY <1>1, Division
  <2>2. (k + 1) * d = k * d + d /\ k * d \in Int /\ a * d \in Nat
    BY <2>1, Distribute
  <2>3. a <= k => a * d <= k * d
    BY <2>1, Monotone
  <2>4. a >= k + 1 => (k + 1) * d <= a * d
    BY <2>1, Monotone
  <2> QED
    BY <2>1, <2>2, <2>3, <2>4
<1>2. p.page - 1 \in Nat /\ MaxInt \in Nat
  BY ListingAssumption
<1>3. (p.page - 1) * p.limit \in Nat /\ (OffsetFits(p) <=> (p.page - 1) * p.limit <= MaxInt)
  BY <1>1, <1>2 DEF OffsetFits
<1>4. OffsetFits(p) => Product(p) = (p.page - 1) * p.limit
  BY <1>2, <1>3, WrapKeeps DEF Product
<1> QED
  BY <1>3, <1>4

\* The number of pages that NewMeta computes is the least that has room for all
\* rows, and a page lies past the end exactly if it is past that number.
THEOREM PageCount ==
  ASSUME NEW p, p.limit \in Nat \ {0}, NEW n \in Nat
  PROVE  /\ Meta(p, n) \in 0 .. n
         /\ n <= Meta(p, n) * p.limit
         /\ Meta(p, n) > 0 => n > (Meta(p, n) - 1) * p.limit
         /\ \A k \in Nat \ {0} : (k - 1) * p.limit >= n <=> k > Meta(p, n)
<1>1. ASSUME NEW d \in Nat \ {0}, NEW M, M = n \div d + (IF n % d # 0 THEN 1 ELSE 0)
      PROVE  /\ M \in 0 .. n /\ n <= M * d /\ (M > 0 => n > (M - 1) * d)
             /\ \A k \in Nat \ {0} : (k - 1) * d >= n <=> k > M
  <2>1. PICK m \in Nat, r \in 0 .. d - 1 : m = n \div d /\ r = n % d /\ n = m * d + r
    BY Division
  <2>2. (m + 1) * d = m * d + d /\ (m - 1) * d = m * d - d /\ m * d \in Int
    BY Distribute
  <2>3. M = IF r # 0 THEN m + 1 ELSE m
    BY <1>1, <2>1
  <2>4. M \in Nat /\ n <= M * d
    BY <2>1, <2>2, <2>3
  <2>5. M > 0 => n > (M - 1) * d
    <3>1. CASE r # 0
      <4>1. M - 1 = m
        BY <2>3, <3>1
      <4> QED
        BY <2>1, <2>2, <3>1, <4>1
    <3>2. CASE r = 0
      BY <2>1, <2>2, <2>3, <3>2
    <3> QED
      BY <3>1, <3>2
  <2>6. ASSUME NEW k \in Nat \ {0} PROVE (k - 1) * d >= n <=> k > M
    <3>1. k > M => M * d <= (k - 1) * d /\ (k - 1) * d \in Int
      BY <2>4, Monotone
    <3>2. k <= M => (k - 1) * d <= (M - 1) * d /\ (k - 1) * d \in Int /\ (M - 1) * d \in Int
      BY <2>4, Monotone
    <3>3. k <= M => M > 0
      BY <2>4
    <3>4. M * d \in Int
      BY <2>4
    <3> QED
      BY <2>4, <2>5, <3>1, <3>2, <3>3, <3>4
  <2>7. M > 0 => M - 1 <= (M - 1) * d
    BY <2>4
  <2>8. M <= n
    BY <2>4, <2>5, <2>7
  <2> QED
    BY <2>4, <2>5, <2>6, <2>8
<1>2. Meta(p, n) = n \div p.limit + (IF n % p.limit # 0 THEN 1 ELSE 0)
  BY DEF Meta
<1> HIDE DEF Meta
<1> QED
  BY <1>1, <1>2

-----------------------------------------------------------------------------
(* Lists: sorted rows *)

\* Ids are bigints, so there are no more rows than a bigint can count.
LEMMA FiniteRows == /\ IsFiniteSet(Rows) /\ Cardinality(Rows) \in Nat /\ Cardinality(Rows) <= MaxInt
                    /\ Rows \subseteq Nat
<1>1. MaxInt \in Nat /\ Rows \subseteq 1 .. MaxInt
  BY ListingAssumption
<1>2. IsFiniteSet(1 .. MaxInt) /\ Cardinality(1 .. MaxInt) = MaxInt
  <2>1. 1 \in Int /\ MaxInt \in Int /\ ~(1 > MaxInt)
    BY ListingAssumption
  <2> QED
    BY <1>1, <2>1, FS_Interval
<1>3. IsFiniteSet(Rows) /\ Cardinality(Rows) <= MaxInt
  BY <1>1, <1>2, FS_Subset
<1>4. Cardinality(Rows) \in Nat
  BY <1>3, FS_CardinalityType
<1> QED
  BY <1>1, <1>2, <1>3, <1>4

\* The same of any of them.
LEMMA FiniteSubset ==
  ASSUME NEW S \in SUBSET Rows
  PROVE  IsFiniteSet(S) /\ Cardinality(S) \in Nat /\ Cardinality(S) <= Cardinality(Rows)
<1>1. IsFiniteSet(S) /\ Cardinality(S) <= Cardinality(Rows)
  BY FiniteRows, FS_Subset
<1> QED
  BY <1>1, FS_CardinalityType

\* Every list has a strict order; all but that of permissions decide between
\* any two rows.
LEMMA StrictOrder ==
  ASSUME kind \in Kinds, key \in [Rows -> Nat], NEW x \in Rows, NEW y \in Rows, NEW z \in Rows
  PROVE  /\ ~Before(x, x)
         /\ Before(x, y) /\ Before(y, z) => Before(x, z)
         /\ kind # "permissions" => x = y \/ Before(x, y) \/ Before(y, x)
<1>1. {x, y, z} \subseteq Nat /\ {key[x], key[y], key[z]} \subseteq Nat
  BY FiniteRows
<1>2. CASE kind = "posts"
  BY <1>1, <1>2 DEF Before, NewestFirst
<1>3. CASE kind = "roles"
  BY <1>1, <1>3 DEF Before, OldestFirst
<1>4. CASE kind = "permissions"
  BY <1>1, <1>4 DEF Before, ByKey
<1>5. CASE kind = "users"
  BY <1>1, <1>5 DEF Before, LatestFirst
<1> QED
  BY <1>2, <1>3, <1>4, <1>5 DEF Kinds

\* A sorted list of rows S has each of them in one place.
LEMMA SortedList ==
  ASSUME NEW S \in SUBSET Rows, NEW s \in Ordered(S)
  PROVE  /\ s \in Seq(S) /\ Len(s) = Cardinality(S) /\ Len(s) \in Nat
         /\ \A i, j \in 1 .. Len(s) : i < j => s[i] # s[j] /\ ~Before(s[j], s[i])
         /\ \A row \in S : \E i \in 1 .. Len(s) : s[i] = row
<1> DEFINE n == Cardinality(S)
<1>1. n \in Nat /\ IsFiniteSet(S)
  BY FiniteSubset
<1>2. /\ s \in [1 .. n -> S]
      /\ \A i, j \in 1 .. n : i # j => s[i] # s[j]
      /\ \A i, j \in DOMAIN s : i < j => ~Before(s[j], s[i])
  BY DEF Ordered, SetToSeqs
<1> HIDE DEF n
<1>3. s \in Seq(S) /\ Len(s) = n /\ DOMAIN s = 1 .. n
  BY <1>1, <1>2
<1>4. s \in Injection(1 .. n, S)
  BY <1>2 DEF Injection, IsInjective
<1>5. IsFiniteSet(1 .. n) /\ Cardinality(1 .. n) = n
  BY <1>1, FS_Interval
<1>6. s \in Surjection(1 .. n, S)
  BY <1>1, <1>4, <1>5, FS_Injection DEF n
<1>7. \A row \in S : \E i \in 1 .. n : s[i] = row
  BY <1>6 DEF Surjection
<1> QED
  BY <1>1, <1>2, <1>3, <1>7 DEF n

\* Of finitely many rows some have no other before them in the reverse order.
LEMMA LastExists ==
  ASSUME kind \in Kinds, key \in [Rows -> Nat], NEW S \in SUBSET Rows, S # {}
  PROVE  \E x \in S : \A y \in S : ~Before(x, y)
<1> DEFINE R == StrictSubsetOrdering(Rows)
           F == FiniteSubsetsOf(Rows)
           Bad == {U \in F : U # {} /\ \A x \in U : \E y \in U : Before(x, y)}
<1>1. SUFFICES ASSUME S \in Bad PROVE FALSE
  BY FiniteSubset DEF FiniteSubsetsOf
<1>2. IsWellFoundedOn(R, F)
  BY FS_StrictSubsetOrderingWellFounded
<1>3. Bad \subseteq F /\ Bad # {}
  BY <1>1
<1> HIDE DEF F, R
<1>4. PICK U \in Bad : \A V \in Bad : <<V, U>> \notin R
  BY <1>2, <1>3, WFMin
<1>5. U \subseteq Rows /\ U # {} /\ \A x \in U : \E y \in U : Before(x, y)
  BY DEF F, FiniteSubsetsOf
<1>6. PICK u \in U : TRUE
  BY <1>5
<1> DEFINE V == U \ {u}
<1>7. V \in F /\ <<V, U>> \in R
  BY <1>5, FiniteSubset DEF F, R, FiniteSubsetsOf, StrictSubsetOrdering
<1>8. V # {}
  BY <1>5, <1>6, StrictOrder
<1>9. PICK x \in V : \A y \in V : ~Before(x, y)
  BY <1>4, <1>7, <1>8
<1>10. Before(x, u)
  BY <1>5, <1>9
<1>11. PICK y \in U : Before(u, y)
  BY <1>5
<1>12. y \in V
  BY <1>5, <1>11, StrictOrder
<1>13. Before(x, y)
  BY <1>5, <1>9, <1>10, <1>11, StrictOrder
<1> QED
  BY <1>9, <1>12, <1>13

\* Any rows can be sorted.
LEMMA SortedListExists ==
  ASSUME kind \in Kinds, key \in [Rows -> Nat], NEW S \in SUBSET Rows
  PROVE  Ordered(S) # {}
<1> DEFINE R == StrictSubsetOrdering(Rows)
           F == FiniteSubsetsOf(Rows)
           Bad == {U \in F : Ordered(U) = {}}
<1>1. SUFFICES ASSUME S \in Bad PROVE FALSE
  BY FiniteSubset DEF FiniteSubsetsOf
<1>2. IsWellFoundedOn(R, F)
  BY FS_StrictSubsetOrderingWellFounded
<1>3. Bad \subseteq F /\ Bad # {}
  BY <1>1
<1> HIDE DEF F, R
<1>4. PICK U \in Bad : \A V \in Bad : <<V, U>> \notin R
  BY <1>2, <1>3, WFMin
<1>5. U \in SUBSET Rows /\ Ordered(U) = {}
  BY DEF F, FiniteSubsetsOf
<1>6. CASE U = {}
  <2>1. Cardinality(U) = 0
    BY <1>6, FS_EmptySet
  <2> DEFINE s == [i \in 1 .. 0 |-> i]
  <2>2. s \in [1 .. 0 -> U] /\ DOMAIN s = 1 .. 0
    OBVIOUS
  <2>3. s \in SetToSeqs(U)
    BY <2>1, <2>2 DEF SetToSeqs
  <2>4. s \in Ordered(U)
    BY <2>2, <2>3 DEF Ordered
  <2> QED
    BY <1>5, <2>4
<1>7. CASE U # {}
  <2>1. PICK x \in U : \A y \in U : ~Before(x, y)
    BY <1>5, <1>7, LastExists
  <2> DEFINE V == U \ {x}
             n == Cardinality(U)
  <2>2. V \in F /\ <<V, U>> \in R /\ V \in SUBSET Rows
    BY <1>5, FiniteSubset DEF F, R, FiniteSubsetsOf, StrictSubsetOrdering
  <2>3. PICK t : t \in Ordered(V)
    BY <1>4, <2>2
  <2>4. n \in Nat /\ Cardinality(V) = n - 1 /\ n >= 1
    <3>1. IsFiniteSet(U) /\ n \in Nat
      BY <1>5, FiniteSubset
    <3>2. Cardinality(V) = n - 1
      BY <3>1, FS_RemoveElement
    <3>3. n # 0
      BY <1>7, <3>1, FS_EmptySet
    <3> QED
      BY <3>1, <3>2, <3>3
  <2>5. /\ t \in [1 .. n - 1 -> V]
        /\ \A i, j \in 1 .. n - 1 : i # j => t[i] # t[j]
        /\ \A i, j \in 1 .. n - 1 : i < j => ~Before(t[j], t[i])
    BY <2>3, <2>4 DEF Ordered, SetToSeqs
  <2> DEFINE s == [i \in 1 .. n |-> IF i = n THEN x ELSE t[i]]
  <2> HIDE DEF n
  <2>6. s \in [1 .. n -> U]
    BY <2>4, <2>5
  <2>7. \A i, j \in 1 .. n : i # j => s[i] # s[j]
    BY <2>4, <2>5
  <2>8. \A i, j \in 1 .. n : i < j => ~Before(s[j], s[i])
    <3> SUFFICES ASSUME NEW i \in 1 .. n, NEW j \in 1 .. n, i < j PROVE ~Before(s[j], s[i])
      OBVIOUS
    <3>1. i \in 1 .. n - 1 /\ s[i] = t[i] /\ t[i] \in U
      BY <2>4, <2>5
    <3>2. CASE j = n
      BY <2>1, <3>1, <3>2
    <3>3. CASE j # n
      <4>1. j \in 1 .. n - 1 /\ s[j] = t[j]
        BY <2>4, <3>3
      <4> QED
        BY <2>5, <3>1, <4>1
    <3> QED
      BY <3>2, <3>3
  <2>9. s \in SetToSeqs(U)
    BY <2>6, <2>7 DEF SetToSeqs, n
  <2>10. s \in Ordered(U)
    BY <2>6, <2>8, <2>9 DEF Ordered
  <2> QED
    BY <1>5, <2>10
<1> QED
  BY <1>6, <1>7

-----------------------------------------------------------------------------
(* Lists: places *)

\* How many rows of S come before a row.
Rank(row, S) == Cardinality({x \in S : Before(x, row)})

\* It is a number.
LEMMA RankType ==
  ASSUME NEW S \in SUBSET Rows, NEW row
  PROVE  Rank(row, S) \in Nat
<1>1. {x \in S : Before(x, row)} \in SUBSET Rows
  OBVIOUS
<1> QED
  BY <1>1, FiniteSubset DEF Rank

\* Fewer rows than there are come before one of them.
LEMMA RankBounded ==
  ASSUME kind \in Kinds, key \in [Rows -> Nat], NEW S \in SUBSET Rows, NEW row \in S
  PROVE  Rank(row, S) < Cardinality(S)
<1> DEFINE X == {x \in S : Before(x, row)}
<1>1. X \in SUBSET S /\ row \notin X
  BY StrictOrder
<1>2. IsFiniteSet(S) /\ Cardinality(S) \in Nat
  BY FiniteSubset
<1>3. Cardinality(X) <= Cardinality(S) /\ (Cardinality(S) = Cardinality(X) => S = X)
  BY <1>1, <1>2, FS_Subset
<1>4. Cardinality(X) \in Nat
  BY <1>1, FiniteSubset
<1>5. S # X
  BY <1>1
<1> QED
  BY <1>2, <1>3, <1>4, <1>5 DEF Rank

\* Where the order decides, a row has its place in every sorted list.
LEMMA PlaceIsRank ==
  ASSUME kind \in Kinds, kind # "permissions", key \in [Rows -> Nat], NEW S \in SUBSET Rows,
         NEW s \in Ordered(S), NEW i \in 1 .. Len(s)
  PROVE  Rank(s[i], S) = i - 1
<1>1. /\ s \in Seq(S) /\ Len(s) \in Nat
      /\ \A j, k \in 1 .. Len(s) : j < k => s[j] # s[k] /\ ~Before(s[k], s[j])
      /\ \A row \in S : \E j \in 1 .. Len(s) : s[j] = row
  BY SortedList
<1> DEFINE X == {x \in S : Before(x, s[i])}
           f == [j \in 1 .. i - 1 |-> s[j]]
<1>2. \A j \in 1 .. Len(s) : s[j] \in S /\ s[j] \in Rows
  BY <1>1
<1>3. \A j \in 1 .. Len(s) : Before(s[j], s[i]) <=> j < i
  <2> SUFFICES ASSUME NEW j \in 1 .. Len(s) PROVE Before(s[j], s[i]) <=> j < i
    OBVIOUS
  <2>1. CASE j < i
    BY <1>1, <1>2, <2>1, StrictOrder
  <2>2. CASE j = i
    BY <1>2, <2>2, StrictOrder
  <2>3. CASE j > i
    BY <1>1, <2>3
  <2> QED
    BY <2>1, <2>2, <2>3
<1>4. f \in [1 .. i - 1 -> X]
  BY <1>2, <1>3
<1>5. \A j, k \in 1 .. i - 1 : f[j] = f[k] => j = k
  <2> SUFFICES ASSUME NEW j \in 1 .. i - 1, NEW k \in 1 .. i - 1, j < k PROVE f[j] # f[k]
    OBVIOUS
  <2>1. f[j] = s[j] /\ f[k] = s[k] /\ j \in 1 .. Len(s) /\ k \in 1 .. Len(s)
    BY <1>1
  <2> QED
    BY <1>1, <2>1
<1>6. \A x \in X : \E j \in 1 .. i - 1 : f[j] = x
  <2> SUFFICES ASSUME NEW x \in X PROVE \E j \in 1 .. i - 1 : f[j] = x
    OBVIOUS
  <2>1. PICK j \in 1 .. Len(s) : s[j] = x
    BY <1>1
  <2>2. j < i
    BY <1>3, <2>1
  <2> QED
    BY <2>1, <2>2
<1>7. f \in Bijection(1 .. i - 1, X)
  BY <1>4, <1>5, <1>6 DEF Bijection, Injection, Surjection, IsInjective
<1>8. IsFiniteSet(1 .. i - 1) /\ Cardinality(1 .. i - 1) = i - 1
  BY FS_Interval
<1>9. Cardinality(X) = i - 1
  BY <1>7, <1>8, FS_Bijection DEF ExistsBijection
<1> QED
  BY <1>9 DEF Rank

\* No two rows have the same place,
LEMMA RankUnique ==
  ASSUME kind \in Kinds, kind # "permissions", key \in [Rows -> Nat], NEW S \in SUBSET Rows,
         NEW x \in S, NEW y \in S, Rank(x, S) = Rank(y, S)
  PROVE  x = y
<1>1. PICK s : s \in Ordered(S)
  BY SortedListExists
<1>2. PICK i \in 1 .. Len(s), j \in 1 .. Len(s) : s[i] = x /\ s[j] = y
  BY <1>1, SortedList
<1>3. Rank(x, S) = i - 1 /\ Rank(y, S) = j - 1
  BY <1>1, <1>2, PlaceIsRank
<1>4. i \in Int /\ j \in Int
  BY <1>1, SortedList
<1>5. i - 1 = j - 1
  BY <1>3
<1>6. i = j
  BY <1>4, <1>5
<1> QED
  BY <1>2, <1>6

\* so at most n places are left from place c on if there are c + n rows at most.
LEMMA PlacesLeft ==
  ASSUME kind \in Kinds, kind # "permissions", key \in [Rows -> Nat], NEW S \in SUBSET Rows,
         NEW c \in Nat, NEW n \in Nat, Cardinality(S) <= c + n
  PROVE  Cardinality({x \in S : Rank(x, S) >= c}) <= n
<1> DEFINE A == {x \in S : Rank(x, S) >= c}
           f == [x \in A |-> Rank(x, S)]
           T == c .. c + n - 1
<1>1. \A x \in A : Rank(x, S) \in T
  <2> SUFFICES ASSUME NEW x \in A PROVE Rank(x, S) \in T
    OBVIOUS
  <2>1. Rank(x, S) \in Nat /\ Rank(x, S) < Cardinality(S) /\ Cardinality(S) \in Nat
    BY RankType, RankBounded, FiniteSubset
  <2> QED
    BY <2>1
<1>2. f \in Injection(A, T)
  BY <1>1, RankUnique DEF Injection, IsInjective
<1>3. IsFiniteSet(T) /\ Cardinality(T) = n
  <2>1. c \in Int /\ c + n - 1 \in Int
    OBVIOUS
  <2> QED
    BY <2>1, FS_Interval
<1> QED
  BY <1>2, <1>3, FS_Injection

\* What is true of the size of a set of rows is true of its subsets.
LEMMA Fewer ==
  ASSUME NEW S \in SUBSET Rows, NEW T \in SUBSET S, NEW n \in Nat, Cardinality(S) <= n
  PROVE  Cardinality(T) <= n
<1>1. IsFiniteSet(S) /\ Cardinality(S) \in Nat /\ Cardinality(T) \in Nat
  BY FiniteSubset
<1>2. Cardinality(T) <= Cardinality(S)
  BY <1>1, FS_Subset
<1> QED
  BY <1>1, <1>2

\* One more element makes a set larger by one at most.
LEMMA OneMore ==
  ASSUME NEW S \in SUBSET Rows, NEW x \in Rows, NEW T \in SUBSET (S \cup {x})
  PROVE  Cardinality(T) <= Cardinality(S) + 1
<1>1. S \cup {x} \in SUBSET Rows /\ IsFiniteSet(S) /\ Cardinality(S) \in Nat
  BY FiniteSubset
<1>2. Cardinality(S \cup {x}) <= Cardinality(S) + 1
  BY <1>1, FS_AddElement
<1> QED
  BY <1>1, <1>2, Fewer

\* What a page is, and which rows are on it.
LEMMA PageElements ==
  ASSUME NEW S \in SUBSET Rows, NEW s \in Ordered(S), NEW offset \in Nat, NEW limit \in Nat \ {0}
  PROVE  /\ Page(s, offset, limit) \in Seq(S)
         /\ Page(s, offset, limit) = <<>> <=> offset >= Cardinality(S)
         /\ \A i \in 1 .. Len(s) : offset < i /\ i <= offset + limit => s[i] \in ToSet(Page(s, offset, limit))
<1> DEFINE end == IF offset + limit < Len(s) THEN offset + limit ELSE Len(s)
           data == SubSeq(s, offset + 1, end)
<1>1. s \in Seq(S) /\ Len(s) = Cardinality(S) /\ Len(s) \in Nat
  BY SortedList
<1>2. end \in 0 .. Len(s) /\ offset + 1 \in Nat \ {0}
  BY <1>1
<1>3. \A i \in 1 .. Len(s) : offset < i /\ i <= offset + limit => i <= end
  BY <1>1
<1>4. (end < offset + 1) <=> offset >= Len(s)
  BY <1>1
<1> HIDE DEF end
<1>5. data \in Seq(S)
  BY <1>1, <1>2
<1>6. Len(data) = IF end < offset + 1 THEN 0 ELSE end - offset
  BY <1>1, <1>2
<1>7. data = <<>> <=> Len(data) = 0
  <2> HIDE DEF data
  <2> QED
    BY <1>5
<1>8. ASSUME NEW i \in 1 .. Len(s), offset < i, i <= end PROVE s[i] \in ToSet(data)
  <2>1. i - offset \in 1 .. Len(data) /\ DOMAIN data = 1 .. Len(data)
    BY <1>2, <1>5, <1>6, <1>8
  <2>2. data[i - offset] = s[i]
    BY <1>1, <1>2, <1>8, <2>1
  <2> QED
    BY <2>1, <2>2 DEF ToSet
<1>9. Page(s, offset, limit) = data
  BY DEF Page, end
<1>10. data = <<>> <=> offset >= Cardinality(S)
  BY <1>1, <1>2, <1>4, <1>6, <1>7
<1> HIDE DEF data
<1> QED
  BY <1>3, <1>5, <1>8, <1>9, <1>10

\* A page shows every row whose rank it covers.
LEMMA PageShows ==
  ASSUME kind \in Kinds, kind # "permissions", key \in [Rows -> Nat],
         NEW S \in SUBSET Rows, NEW s \in Ordered(S),
         NEW offset \in Nat, NEW limit \in Nat \ {0},
         NEW row \in S, offset <= Rank(row, S), Rank(row, S) < offset + limit
  PROVE  row \in ToSet(Page(s, offset, limit))
<1>1. PICK i \in 1 .. Len(s) : s[i] = row
  BY SortedList
<1>2. Rank(row, S) = i - 1
  BY <1>1, PlaceIsRank
<1>3. Len(s) \in Nat
  BY SortedList
<1>4. offset < i /\ i <= offset + limit
  BY <1>2, <1>3
<1> QED
  BY <1>1, <1>4, PageElements

-----------------------------------------------------------------------------
(* Lists: the inductive invariant *)

\* Pages that a walk has been shown: the one it asked for counts from its
\* answer on.
Covered == IF pc = "idle" /\ answer.code = 200 THEN q.page ELSE q.page - 1

\* An offset that a SELECT of posts or of a walk takes is no product that has
\* wrapped.
ListInv ==
  /\ TypeOK
  /\ total <= Cardinality(Rows) /\ answer.total <= Cardinality(Rows)
  /\ answer.code = 200 => answer.pages = Meta(q, answer.total)
  /\ pc = "select" /\ kind = "posts" => OffsetFits(q)
  /\ walk.on => kind # "users" /\ Start <= MaxInt

\* Rows that kept their place, which the walk has passed without showing them.
Passed == {row \in walk.stayed : Rank(row, present) < Covered * q.limit /\ row \notin walk.seen}

\* There are no more of them than rows were taken out or moved towards the end,
\* and no more rows lie behind the last page than were added after its COUNT.
WalkInv ==
  walk.on /\ kind # "permissions" =>
    /\ walk.stayed \subseteq present
    /\ Cardinality(Passed) <= walk.lost
    /\ pc = "select" => Cardinality(present) <= total + walk.late
    /\ WalkOver => Cardinality(walk.stayed \ walk.seen) <= walk.lost + walk.late

\* The numbers of the configuration.
LEMMA Limits == /\ MaxInt \in Nat \ {0} /\ MaxLimit \in Nat \ {0} /\ MaxLimit <= MaxInt
                /\ DefaultLimit \in 1 .. MaxLimit /\ 1 \in 1 .. MaxInt
                /\ RawPages \subseteq Int /\ RawLimits \subseteq Int
  BY ListingAssumption

\* What a client writes is made a page and a limit.
LEMMA ParamsType ==
  ASSUME NEW rawPage \in Int, NEW rawLimit \in Int
  PROVE  /\ Params(rawPage, rawLimit) \in [page : 1 .. MaxInt, limit : 1 .. MaxLimit]
         /\ Params(1, rawLimit).page = 1
         /\ UsersParams(rawLimit) \in [page : 1 .. MaxInt, limit : 1 .. MaxLimit]
<1>1. \A fallback \in -(MaxInt + 1) .. MaxInt : /\ ParseInt(rawPage, fallback) \in -(MaxInt + 1) .. MaxInt
                                                /\ ParseInt(rawLimit, fallback) \in -(MaxInt + 1) .. MaxInt
                                                /\ ParseInt(1, fallback) = 1
  BY Limits DEF ParseInt
<1>2. 1 \in -(MaxInt + 1) .. MaxInt /\ DefaultLimit \in -(MaxInt + 1) .. MaxInt
  BY Limits
<1> DEFINE a == ParseInt(rawPage, 1)
           l == ParseInt(rawLimit, DefaultLimit)
<1>3. a \in -(MaxInt + 1) .. MaxInt /\ l \in -(MaxInt + 1) .. MaxInt /\ ParseInt(1, 1) = 1
  BY <1>1, <1>2
<1> HIDE DEF a, l
<1>4. (IF a < 1 THEN 1 ELSE a) \in 1 .. MaxInt
  BY <1>3, Limits
<1>5. (CASE l < 1 -> DefaultLimit [] l > MaxLimit -> MaxLimit [] OTHER -> l) \in 1 .. MaxLimit
  BY <1>3, Limits
<1>6. (IF l \in 1 .. MaxLimit THEN l ELSE DefaultLimit) \in 1 .. MaxLimit
  BY Limits
<1> QED
  BY <1>3, <1>4, <1>5, <1>6, Limits DEF Params, UsersParams, a, l

\* What page and limit of a request are to arithmetic.
LEMMA Numbers ==
  ASSUME TypeOK
  PROVE  /\ q.page \in Nat \ {0} /\ q.limit \in Nat \ {0} /\ q.page <= MaxInt /\ q.limit <= MaxLimit
         /\ present \in SUBSET Rows /\ Start \in Nat /\ kind \in Kinds
         /\ key \in [Rows -> Nat]
<1>1. q.page \in 1 .. MaxInt /\ q.limit \in 1 .. MaxLimit
  BY DEF TypeOK
<1>2. q.page \in Nat \ {0} /\ q.limit \in Nat \ {0} /\ q.page <= MaxInt /\ q.limit <= MaxLimit
  BY <1>1, Limits
<1>3. Start \in Nat
  BY <1>2, FitsExactly DEF Start
<1>4. key \in [Rows -> Nat]
  <2>1. Keys \cup {0} \subseteq Nat
    BY ListingAssumption
  <2> QED
    BY <2>1 DEF TypeOK
<1> QED
  BY <1>2, <1>3, <1>4 DEF TypeOK

\* A page without rows.
LEMMA NoDataType == <<>> \in Seq(Rows) /\ ToSet(<<>>) = {}
<1>1. <<>> \in Seq(Rows) /\ Len(<<>>) = 0
  OBVIOUS
<1>2. DOMAIN <<>> = {}
  BY <1>1
<1> QED
  BY <1>1, <1>2 DEF ToSet

\* The history counts up to the number of rows.
LEMMA MoreType ==
  ASSUME NEW n \in 0 .. Cardinality(Rows)
  PROVE  /\ More(n) \in 0 .. Cardinality(Rows) /\ n <= More(n)
         /\ More(n) = n + 1 \/ More(n) = Cardinality(Rows)
  BY FiniteRows DEF More

LEMMA ListingInit == Init => ListInv /\ WalkInv
<1> SUFFICES ASSUME Init PROVE ListInv /\ WalkInv
  OBVIOUS
<1>1. q \in [page : 1 .. MaxInt, limit : 1 .. MaxLimit]
  BY ParamsType, Limits DEF Init
<1>2. /\ answer.code = 0 /\ answer.data = <<>> /\ answer.total = 0 /\ answer.pages = 0
      /\ walk \in Walks /\ ~walk.on
  BY FiniteRows DEF Init, NoAnswer, Error, NoWalk, Walks
<1>3. kind \in Kinds /\ present = {} /\ key \in [Rows -> Keys \cup {0}] /\ pc = "idle" /\ total = 0
  BY ListingAssumption DEF Init
<1>4. TypeOK
  BY <1>1, <1>2, <1>3, NoDataType DEF TypeOK
<1> QED
  BY <1>2, <1>3, <1>4, FiniteRows DEF ListInv, WalkInv

-----------------------------------------------------------------------------
(* Lists: requests begin *)

\* A request whose parameters are of their type keeps the types.
LEMMA BeginTypes ==
  ASSUME ListInv, NEW p \in [page : 1 .. MaxInt, limit : 1 .. MaxLimit], Begin(p),
         walk' \in Walks
  PROVE  /\ TypeOK' /\ total' = 0 /\ answer'.total = 0 /\ answer'.code = 0
         /\ kind' = kind /\ present' = present /\ key' = key /\ q' = p
         /\ (pc' = "select" => kind = "users") /\ pc' # "idle"
<1>1. /\ answer'.code = 0 /\ answer'.data = <<>> /\ answer'.total = 0 /\ answer'.pages = 0
      /\ total' = 0 /\ kind' = kind /\ present' = present /\ key' = key /\ q' = p
      /\ pc' = IF kind = "users" THEN "select" ELSE "count"
  BY DEF Begin, NoAnswer, Error
<1>2. TypeOK'
  BY <1>1, NoDataType DEF TypeOK, ListInv
<1> QED
  BY <1>1, <1>2

\* A request outside a walk may ask for any page.
LEMMA AskStep == ASSUME ListInv, Ask PROVE ListInv' /\ WalkInv'
<1>1. PICK p : p \in [page : 1 .. MaxInt, limit : 1 .. MaxLimit] /\ Begin(p)
  <2>1. PICK rawPage \in RawPages, rawLimit \in RawLimits :
          Begin(IF kind = "users" THEN UsersParams(rawLimit) ELSE Params(rawPage, rawLimit))
    BY DEF Ask
  <2>2. rawPage \in Int /\ rawLimit \in Int
    BY Limits
  <2> QED
    BY <2>1, <2>2, ParamsType
<1>2. walk' \in Walks /\ ~walk'.on
  BY FiniteRows DEF Ask, NoWalk, Walks
<1>3. /\ TypeOK' /\ total' = 0 /\ answer'.total = 0 /\ answer'.code = 0
      /\ kind' = kind /\ (pc' = "select" => kind = "users")
  BY <1>1, <1>2, BeginTypes
<1> QED
  BY <1>2, <1>3, FiniteRows DEF ListInv, WalkInv

\* Places in the list change only with its rows and what they are sorted by.
LEMMA SamePlaces ==
  ASSUME kind' = kind, key' = key
  PROVE  \A row : Rank(row, present)' = Rank(row, present')
  BY DEF Rank, Before, NewestFirst, OldestFirst, ByKey, LatestFirst

\* A walk has no page behind it when it starts.
LEMMA StartWalkStep == ASSUME ListInv, StartWalk PROVE ListInv' /\ WalkInv'
<1>1. PICK p : p \in [page : 1 .. MaxInt, limit : 1 .. MaxLimit] /\ p.page = 1 /\ Begin(p)
  <2>1. PICK rawLimit \in RawLimits : Begin(Params(1, rawLimit))
    BY DEF StartWalk
  <2>2. 1 \in Int /\ rawLimit \in Int
    BY Limits
  <2> QED
    BY <2>1, <2>2, ParamsType
<1>2. /\ walk' \in Walks /\ walk'.stayed = present /\ walk'.seen = {}
      /\ walk'.lost = 0 /\ walk'.late = 0
      /\ present \in SUBSET Rows /\ kind # "users"
  <2>1. walk' = [on |-> TRUE, seen |-> {}, stayed |-> present, lost |-> 0, late |-> 0]
    BY DEF StartWalk, NoWalk
  <2>2. present \in SUBSET Rows /\ kind # "users" /\ 0 \in 0 .. Cardinality(Rows)
    BY FiniteRows DEF StartWalk, ListInv, TypeOK
  <2> QED
    BY <2>1, <2>2 DEF Walks
<1>3. /\ TypeOK' /\ total' = 0 /\ answer'.total = 0 /\ answer'.code = 0
      /\ kind' = kind /\ present' = present /\ key' = key /\ q' = p
      /\ (pc' = "select" => kind = "users") /\ pc' # "idle"
  BY <1>1, <1>2, BeginTypes
<1>4. q'.limit \in Nat /\ q'.page = 1
  BY <1>1, <1>3, Limits
<1>5. Start' = 0 /\ Covered' * q'.limit = 0
  BY <1>3, <1>4 DEF Start, Covered
<1>6. Passed' = {}
  <2>1. \A row : Rank(row, present)' \in Nat
    BY <1>2, <1>3, SamePlaces, RankType
  <2> QED
    BY <1>5, <2>1 DEF Passed
<1>7. Cardinality(Passed') = 0
  BY <1>6, FS_EmptySet
<1> QED
  BY <1>2, <1>3, <1>5, <1>7, FiniteRows, Limits DEF ListInv, WalkInv, WalkOver

\* The offset of the next page of a walk is smaller than the COUNT was.
LEMMA ContinueWalkStep == ASSUME ListInv, WalkInv, ContinueWalk PROVE ListInv' /\ WalkInv'
<1> DEFINE p == IF answer.code = 500 THEN q ELSE [q EXCEPT !.page = q.page + 1]
<1>1. /\ pc = "idle" /\ walk.on /\ walk' = [walk EXCEPT !.late = 0] /\ Begin(p)
      /\ answer.code = 500 \/ (answer.code = 200 /\ q.page < answer.pages)
  BY DEF ContinueWalk
<1>2. /\ q.page \in Nat \ {0} /\ q.limit \in Nat \ {0} /\ q.page <= MaxInt /\ q.limit <= MaxLimit
      /\ Start \in Nat /\ present \in SUBSET Rows
      /\ q \in [page : 1 .. MaxInt, limit : 1 .. MaxLimit]
      /\ walk \in Walks
  BY Numbers DEF ListInv, TypeOK
<1>3. /\ p \in [page : 1 .. MaxInt, limit : 1 .. MaxLimit] /\ p.limit = q.limit
      /\ (p.page - 1) * p.limit <= MaxInt /\ p.page - 1 = Covered
  <2>1. CASE answer.code = 500
    BY <1>1, <1>2, <2>1 DEF Covered, ListInv, Start
  <2>2. CASE answer.code # 500
    <3>1. answer.code = 200 /\ q.page < answer.pages /\ p = [q EXCEPT !.page = q.page + 1]
      BY <1>1, <2>2
    <3>2. answer.pages = Meta(q, answer.total) /\ answer.total \in Nat
          /\ answer.total <= Cardinality(Rows)
      BY <3>1 DEF ListInv, TypeOK
    <3>3. /\ answer.pages \in 0 .. answer.total
          /\ answer.pages > 0 => answer.total > (answer.pages - 1) * q.limit
      <4>1. q.limit \in Nat \ {0} /\ answer.total \in Nat
        BY <1>2, <3>2
      <4>2. /\ Meta(q, answer.total) \in 0 .. answer.total
            /\ Meta(q, answer.total) > 0 => answer.total > (Meta(q, answer.total) - 1) * q.limit
        BY <4>1, PageCount
      <4> QED
        BY <3>2, <4>2
    <3>4. answer.total <= MaxInt /\ MaxInt \in Nat /\ MaxLimit \in Nat
      BY <3>2, FiniteRows, Limits
    <3>5. q.page * q.limit <= (answer.pages - 1) * q.limit
          /\ q.page * q.limit \in Int /\ (answer.pages - 1) * q.limit \in Int
      <4>1. q.page \in Int /\ q.limit \in Nat /\ answer.pages - 1 \in Int /\ q.page <= answer.pages - 1
        BY <1>2, <3>1, <3>2, <3>3
      <4> QED
        BY <4>1, Monotone
    <3>6. q.page * q.limit <= MaxInt
      BY <3>1, <3>2, <3>3, <3>4, <3>5, <1>2
    <3>7. q.page + 1 \in 1 .. MaxInt
      BY <3>1, <3>2, <3>3, <3>4, <1>2
    <3>8. p.page = q.page + 1 /\ p.limit = q.limit /\ p \in [page : 1 .. MaxInt, limit : 1 .. MaxLimit]
      BY <1>2, <3>1, <3>7
    <3>9. p.page - 1 = q.page
      BY <1>2, <3>8
    <3>10. Covered = q.page
      BY <1>1, <3>1 DEF Covered
    <3> QED
      BY <3>6, <3>8, <3>9, <3>10
  <2> QED
    BY <2>1, <2>2
<1> HIDE DEF p
<1>0. /\ walk' \in Walks /\ walk'.on = walk.on /\ walk'.seen = walk.seen
      /\ walk'.stayed = walk.stayed /\ walk'.lost = walk.lost
  <2>1. 0 \in 0 .. Cardinality(Rows)
    BY FiniteRows
  <2>2. walk \in Walks /\ walk' = [walk EXCEPT !.late = 0]
    BY <1>1, <1>2
  <2> QED
    BY <2>1, <2>2 DEF Walks
<1>4. /\ TypeOK' /\ total' = 0 /\ answer'.total = 0 /\ answer'.code = 0
      /\ kind' = kind /\ present' = present /\ key' = key /\ q' = p
      /\ (pc' = "select" => kind = "users") /\ pc' # "idle"
  BY <1>0, <1>1, <1>2, <1>3, BeginTypes
<1>5. kind # "users"
  BY <1>1 DEF ListInv
<1>6. ListInv'
  BY <1>0, <1>1, <1>3, <1>4, <1>5, FiniteRows DEF ListInv, Start
<1>7. Covered' = Covered /\ q'.limit = q.limit
  BY <1>3, <1>4 DEF Covered
<1>8. \A row : Rank(row, present)' = Rank(row, present)
  BY <1>4, SamePlaces
<1>9. ~WalkOver' /\ pc' # "select"
  BY <1>4, <1>5 DEF WalkOver
<1>10. Passed' = Passed
  BY <1>0, <1>7, <1>8 DEF Passed
<1>11. WalkInv'
  BY <1>0, <1>4, <1>9, <1>10 DEF WalkInv
<1> QED
  BY <1>6, <1>11

-----------------------------------------------------------------------------
(* Lists: the statements run *)

\* The COUNT of roles and permissions checks no offset, and a walk needs no check:
\* where it is, the offset fits.
LEMMA CountOthersStep == ASSUME ListInv, WalkInv, CountOthers PROVE ListInv' /\ WalkInv'
<1>1. /\ pc = "count" /\ kind \in {"roles", "permissions"} /\ total' = Cardinality(present)
      /\ pc' = "select"
      /\ kind' = kind /\ present' = present /\ key' = key /\ q' = q /\ answer' = answer /\ walk' = walk
  BY DEF CountOthers
<1>2. Cardinality(present) \in Nat /\ Cardinality(present) <= Cardinality(Rows)
  BY FiniteSubset DEF ListInv, TypeOK
<1>3. ListInv'
  BY <1>1, <1>2 DEF ListInv, TypeOK, Start, Meta
<1>4. Covered' = Covered
  BY <1>1 DEF Covered
<1>5. \A row : Rank(row, present)' = Rank(row, present)
  BY <1>1, SamePlaces
<1>6. Passed' = Passed
  BY <1>1, <1>4, <1>5 DEF Passed
<1>7. walk.late \in Nat
  BY DEF ListInv, TypeOK, Walks
<1>8. WalkInv'
  BY <1>1, <1>2, <1>6, <1>7 DEF WalkInv, WalkOver
<1> QED
  BY <1>3, <1>8

\* An answer whose data are rows and whose numbers go together.
Possible(a) ==
  /\ a.code \in {200, 500} /\ a.data \in Seq(Rows) /\ a.pages \in Nat
  /\ a.total \in Nat /\ a.total <= Cardinality(Rows)
  /\ a.code = 200 => a.pages = Meta(q, a.total)

\* Such an answer leaves everything of its type, and adds its rows to the walk.
LEMMA AnswerTypes ==
  ASSUME ListInv, total' \in Nat, total' <= Cardinality(Rows), NEW a, Possible(a), Answer(a)
  PROVE  /\ ListInv'
         /\ kind' = kind /\ present' = present /\ key' = key /\ q' = q /\ answer' = a /\ pc' = "idle"
         /\ walk'.on = walk.on /\ walk'.stayed = walk.stayed
         /\ walk'.lost = walk.lost /\ walk'.late = walk.late
         /\ walk'.seen = IF walk.on THEN walk.seen \cup ToSet(a.data) ELSE walk.seen
<1>1. /\ kind' = kind /\ present' = present /\ key' = key /\ q' = q /\ answer' = a /\ pc' = "idle"
      /\ walk' = [walk EXCEPT !.seen = IF walk.on THEN @ \cup ToSet(a.data) ELSE @]
  BY DEF Answer
<1> USE DEF Possible
<1>2. walk \in Walks
  BY DEF ListInv, TypeOK
<1>3. ToSet(a.data) \subseteq Rows
  BY DEF ToSet
<1>4. /\ walk'.on = walk.on /\ walk'.stayed = walk.stayed
      /\ walk'.lost = walk.lost /\ walk'.late = walk.late
      /\ walk'.seen = IF walk.on THEN walk.seen \cup ToSet(a.data) ELSE walk.seen
      /\ walk' \in Walks
  BY <1>1, <1>2, <1>3 DEF Walks
<1>5. TypeOK'
  BY <1>1, <1>4 DEF ListInv, TypeOK
<1>6. Start' = Start /\ (a.code = 200 => a.pages = Meta(q, a.total)')
  BY <1>1 DEF Start, Meta
<1>7. ListInv'
  BY <1>1, <1>4, <1>5, <1>6 DEF ListInv
<1> QED
  BY <1>1, <1>4, <1>7

\* An error covers no page: the walk stays where it was.
LEMMA FailStep ==
  ASSUME ListInv, WalkInv, pc # "idle", Answer(Error), total' = total
  PROVE  ListInv' /\ WalkInv'
<1>1. Error.code = 500 /\ Error.data = <<>> /\ Error.total = 0 /\ Error.pages = 0
  BY DEF Error
<1>2. total' \in Nat /\ total' <= Cardinality(Rows)
  BY DEF ListInv, TypeOK
<1>3. /\ ListInv'
      /\ kind' = kind /\ present' = present /\ key' = key /\ q' = q /\ answer' = Error /\ pc' = "idle"
      /\ walk'.on = walk.on /\ walk'.stayed = walk.stayed
      /\ walk'.lost = walk.lost /\ walk'.late = walk.late /\ (walk.on => walk'.seen = walk.seen)
  <2>1. Possible(Error)
    BY <1>1, NoDataType, FiniteRows DEF Possible
  <2>2. walk.seen \cup ToSet(Error.data) = walk.seen
    BY <1>1, NoDataType
  <2> QED
    BY <1>2, <2>1, <2>2, AnswerTypes
<1>4. Covered' = Covered /\ ~WalkOver'
  BY <1>1, <1>3 DEF Covered, WalkOver
<1>5. \A row : Rank(row, present)' = Rank(row, present)
  BY <1>3, SamePlaces
<1>6. walk.on => Passed' = Passed
  BY <1>3, <1>4, <1>5 DEF Passed
<1>7. WalkInv'
  BY <1>3, <1>4, <1>6 DEF WalkInv
<1> QED
  BY <1>3, <1>7

\* A walk never gets to a page so far out that its SELECT is left out.
LEMMA CountPostsStep == ASSUME ListInv, WalkInv, CountPosts PROVE ListInv' /\ WalkInv'
<1>1. pc = "count" /\ kind = "posts" /\ total' = Cardinality(present)
  BY DEF CountPosts
<1>2. Cardinality(present) \in Nat /\ Cardinality(present) <= Cardinality(Rows)
  BY FiniteSubset DEF ListInv, TypeOK
<1>3. q.page \in Nat \ {0} /\ q.limit \in Nat \ {0}
  BY Numbers DEF ListInv
<1>4. CASE ~OffsetFits(q) /\ Answer(Ok(q, total', <<>>))
  <2>1. ~walk.on
    BY <1>3, <1>4, FitsExactly DEF ListInv, Start
  <2> DEFINE a == Ok(q, total', <<>>)
  <2>2. a.code = 200 /\ a.data = <<>> /\ a.total = total' /\ a.pages = Meta(q, total')
    BY DEF Ok
  <2>3. Meta(q, total') \in Nat
    BY <1>1, <1>2, <1>3, PageCount
  <2> HIDE DEF a
  <2>4. Answer(a)
    BY <1>4 DEF a
  <2>5. ListInv' /\ walk'.on = walk.on
    <3>1. Possible(a)
      BY <1>1, <1>2, <2>2, <2>3, NoDataType DEF Possible
    <3>2. total' \in Nat /\ total' <= Cardinality(Rows)
      BY <1>1, <1>2
    <3> QED
      BY <2>4, <3>1, <3>2, AnswerTypes
  <2> QED
    BY <2>1, <2>5 DEF WalkInv
<1>5. CASE OffsetFits(q) /\ pc' = "select" /\ UNCHANGED <<kind, present, key, q, answer, walk>>
  <2>1. /\ kind' = kind /\ present' = present /\ key' = key /\ q' = q /\ answer' = answer /\ walk' = walk
        /\ pc' = "select"
    BY <1>5
  <2>2. Start' = Start /\ Covered' = Covered /\ OffsetFits(q)'
        /\ (answer.code = 200 => Meta(q, answer.total)' = Meta(q, answer.total))
    BY <1>1, <1>5, <2>1 DEF Start, Covered, Meta, OffsetFits
  <2>3. ListInv'
    BY <1>1, <1>2, <2>1, <2>2 DEF ListInv, TypeOK
  <2>4. \A row : Rank(row, present)' = Rank(row, present)
    BY <2>1, SamePlaces
  <2>5. Passed' = Passed /\ walk.late \in Nat
    BY <2>1, <2>2, <2>4 DEF Passed, ListInv, TypeOK, Walks
  <2>6. WalkInv'
    BY <1>1, <1>2, <2>1, <2>5 DEF WalkInv, WalkOver
  <2> QED
    BY <2>3, <2>6
<1> QED
  BY <1>4, <1>5 DEF CountPosts

\* A page of a walk shows the rows whose places it covers, and the last page
\* ends behind all rows.
LEMMA SelectStep ==
  ASSUME ListInv, WalkInv, SelectPage
  PROVE  ListInv' /\ WalkInv'
<1>1. pc = "select" /\ total' = total
  BY DEF SelectPage
<1>2. CASE Answer(Error)
  BY <1>1, <1>2, FailStep
<1>3. ASSUME Product(q) >= 0, NEW s \in Ordered(present),
             Answer(Ok(q, total, Page(s, Product(q), q.limit)))
      PROVE  ListInv' /\ WalkInv'
  <2> DEFINE data == Page(s, Product(q), q.limit)
             a == Ok(q, total, data)
  <2>1. /\ q.page \in Nat \ {0} /\ q.limit \in Nat \ {0} /\ Start \in Nat
        /\ present \in SUBSET Rows /\ kind \in Kinds /\ key \in [Rows -> Nat]
        /\ total \in Nat /\ total <= Cardinality(Rows)
    BY Numbers DEF ListInv, TypeOK
  <2>2. Product(q) \in Nat /\ (Start <= MaxInt => Product(q) = Start)
    <3>1. Product(q) \in Int
      <4>1. (q.page - 1) * q.limit \in Nat
        BY <2>1, FitsExactly
      <4>2. MaxInt \in Nat
        BY Limits
      <4> QED
        BY <4>1, <4>2 DEF Product, Wrap
    <3> QED
      BY <1>3, <2>1, <3>1, FitsExactly DEF Start
  <2>3. a.code = 200 /\ a.data = data /\ a.total = total /\ a.pages = Meta(q, total)
    BY DEF Ok
  <2>4. data \in Seq(Rows)
    <3>1. data \in Seq(present)
      BY <2>1, <2>2, PageElements
    <3> QED
      BY <2>1, <3>1
  <2>5. Meta(q, total) \in Nat
    BY <2>1, PageCount
  <2> HIDE DEF a, data
  <2>6. Answer(a)
    BY <1>3 DEF a, data
  <2>7. /\ ListInv'
        /\ kind' = kind /\ present' = present /\ key' = key /\ q' = q /\ answer' = a /\ pc' = "idle"
        /\ walk'.on = walk.on /\ walk'.stayed = walk.stayed
        /\ walk'.lost = walk.lost /\ walk'.late = walk.late
        /\ walk'.seen = IF walk.on THEN walk.seen \cup ToSet(data) ELSE walk.seen
    <3>1. Possible(a)
      BY <2>1, <2>3, <2>4, <2>5 DEF Possible
    <3>2. total' \in Nat /\ total' <= Cardinality(Rows)
      BY <1>1, <2>1
    <3>3. a.data = data
      BY <2>3
    <3> QED
      BY <2>6, <3>1, <3>2, <3>3, AnswerTypes
  <2>8. ASSUME walk.on, kind # "permissions" PROVE WalkInv'
    <3> DEFINE Behind == {row \in present : Rank(row, present) >= q.page * q.limit}
    <3>1. /\ walk.stayed \subseteq present /\ Passed \in SUBSET Rows
          /\ Cardinality(Passed) <= walk.lost /\ Cardinality(present) <= total + walk.late
          /\ walk.lost \in Nat /\ walk.late \in Nat /\ walk.stayed \in SUBSET Rows
      BY <1>1, <2>8 DEF WalkInv, Passed, ListInv, TypeOK, Walks
    <3>2. Product(q) = Start
      BY <2>2, <2>8 DEF ListInv
    <3>3. /\ Start = (q.page - 1) * q.limit /\ q.page * q.limit = Start + q.limit
          /\ q.page * q.limit \in Nat
      BY <2>1, Distribute DEF Start
    <3>4. ASSUME NEW row \in walk.stayed, Rank(row, present) < q.page * q.limit, row \notin walk'.seen
          PROVE  row \in Passed
      <4>1. row \in present /\ Rank(row, present) \in Nat
        BY <2>1, <3>1, RankType
      <4>2. CASE Rank(row, present) < Start
        <5>1. Covered = q.page - 1 /\ row \notin walk.seen
          BY <1>1, <2>7, <3>4 DEF Covered
        <5> QED
          BY <3>3, <4>2, <5>1 DEF Passed
      <4>3. CASE Rank(row, present) >= Start
        <5>1. row \in ToSet(data)
          BY <2>1, <2>8, <3>2, <3>3, <3>4, <4>1, <4>3, PageShows DEF data
        <5> QED
          BY <2>7, <2>8, <3>4, <5>1
      <4> QED
        BY <2>1, <4>1, <4>2, <4>3
    <3>5. \A row : Rank(row, present)' = Rank(row, present)
      BY <2>7, SamePlaces
    <3>6. Covered' = q.page /\ (WalkOver' => q.page >= Meta(q, total))
      BY <2>3, <2>7 DEF Covered, WalkOver
    <3>7. Passed' \subseteq Passed
      BY <2>7, <3>4, <3>5, <3>6 DEF Passed
    <3>8. Cardinality(Passed') <= walk.lost
      BY <3>1, <3>7, Fewer
    <3>9. ASSUME q.page >= Meta(q, total)
          PROVE  Cardinality(walk.stayed \ walk'.seen) <= walk.lost + walk.late
      <4>1. total <= Meta(q, total) * q.limit /\ Meta(q, total) * q.limit <= q.page * q.limit
            /\ Meta(q, total) * q.limit \in Int /\ q.page * q.limit \in Int
        <5>1. total <= Meta(q, total) * q.limit
          BY <2>1, PageCount
        <5>2. Meta(q, total) \in Int /\ q.page \in Int /\ q.limit \in Nat
          BY <2>1, <2>5
        <5> QED
          BY <3>9, <5>1, <5>2, Monotone
      <4>2. Cardinality(present) <= q.page * q.limit + walk.late
        <5>1. Cardinality(present) \in Nat
          BY <2>1, FiniteSubset
        <5> QED
          BY <2>1, <3>1, <4>1, <5>1
      <4>3. Cardinality(Behind) <= walk.late
        BY <2>1, <2>8, <3>1, <3>3, <4>2, PlacesLeft
      <4>4. walk.stayed \ walk'.seen \subseteq Passed \cup Behind
        <5>1. \A row \in walk.stayed : row \in present /\ Rank(row, present) \in Nat
          BY <2>1, <3>1, RankType
        <5> QED
          BY <3>3, <3>4, <5>1
      <4>5. /\ IsFiniteSet(Passed) /\ Cardinality(Passed) \in Nat
            /\ IsFiniteSet(Behind) /\ Cardinality(Behind) \in Nat
        <5>1. Behind \in SUBSET Rows
          BY <2>1
        <5> QED
          BY <3>1, <5>1, FiniteSubset
      <4> HIDE DEF Behind
      <4>6. IsFiniteSet(Passed \cup Behind) /\ IsFiniteSet(Passed \cap Behind)
            /\ Cardinality(Passed \cup Behind)
                 = Cardinality(Passed) + Cardinality(Behind) - Cardinality(Passed \cap Behind)
        BY <4>5, FS_Union, FS_Intersection
      <4>7. Cardinality(Passed \cap Behind) \in Nat
        BY <4>6, FS_CardinalityType
      <4>8. Cardinality(walk.stayed \ walk'.seen) <= Cardinality(Passed \cup Behind)
        BY <4>4, <4>6, FS_Subset
      <4>9. Cardinality(walk.stayed \ walk'.seen) \in Nat
        <5>1. walk.stayed \ walk'.seen \in SUBSET Rows
          BY <3>1
        <5> QED
          BY <5>1, FiniteSubset
      <4> QED
        BY <3>1, <4>3, <4>5, <4>6, <4>7, <4>8, <4>9
    <3> QED
      BY <2>7, <3>1, <3>6, <3>8, <3>9 DEF WalkInv
  <2>9. ~(walk.on /\ kind # "permissions") => WalkInv'
    BY <2>7 DEF WalkInv
  <2> QED
    BY <2>7, <2>8, <2>9
<1> QED
  BY <1>2, <1>3 DEF SelectPage

-----------------------------------------------------------------------------
(* Lists: others write *)

\* A row m that comes, goes or moves changes the place of another by one at most,
\* and moves none up unless it came before it and does so no more.
LEMMA OthersMove ==
  ASSUME kind' = kind, NEW m \in Rows, NEW x \in Rows \ {m},
         present \in SUBSET Rows, present' \in SUBSET Rows, present' \ {m} = present \ {m},
         \A row \in Rows \ {m} : key'[row] = key[row]
  PROVE  /\ Rank(x, present) \in Nat /\ Rank(x, present)' \in Nat
         /\ Rank(x, present) <= Rank(x, present)' + 1
         /\ \/ m \in present /\ Before(m, x) /\ ~(m \in present' /\ Before(m, x)')
            \/ Rank(x, present) <= Rank(x, present)'
<1> DEFINE X == {z \in present : Before(z, x)}
           Y == {z \in present' : Before(z, x)'}
<1>1. \A z \in Rows \ {m} : Before(z, x)' <=> Before(z, x)
  BY DEF Before, NewestFirst, OldestFirst, ByKey, LatestFirst
<1>2. X \in SUBSET Rows /\ Y \in SUBSET Rows /\ X \in SUBSET (Y \cup {m})
  BY <1>1
<1>3. Rank(x, present) = Cardinality(X) /\ Rank(x, present)' = Cardinality(Y)
  BY DEF Rank
<1>4. Cardinality(X) \in Nat /\ Cardinality(Y) \in Nat
  BY <1>2, FiniteSubset
<1>5. (m \in X => m \in Y) => X \in SUBSET Y
  BY <1>2
<1>6. m \in X /\ m \notin Y => m \in present /\ Before(m, x) /\ ~(m \in present' /\ Before(m, x)')
  OBVIOUS
<1> HIDE DEF X, Y
<1>7. Cardinality(X) <= Cardinality(Y) + 1
  BY <1>2, OneMore
<1>8. X \in SUBSET Y => Cardinality(X) <= Cardinality(Y)
  BY <1>2, <1>4, Fewer
<1> QED
  BY <1>3, <1>4, <1>5, <1>6, <1>7, <1>8

\* Whatever a writer does to a row, the walk counts it if it moves others up, and
\* if it makes the total too small.
LEMMA WriterStep ==
  ASSUME ListInv, WalkInv,
         kind' = kind /\ pc' = pc /\ q' = q /\ total' = total /\ answer' = answer,
         NEW m \in Rows, present' \in SUBSET Rows, present' \ {m} = present \ {m},
         key' \in [Rows -> Keys \cup {0}], \A row \in Rows \ {m} : key'[row] = key[row],
         walk' \in Walks, walk'.on = walk.on, walk'.seen = walk.seen,
         walk'.stayed \subseteq walk.stayed, m \in walk'.stayed => m \notin present,
         walk'.lost \in {walk.lost, More(walk.lost)}, walk'.late \in {walk.late, More(walk.late)},
         walk.on /\ pc = "select" /\ m \in present' \ present => walk'.late = More(walk.late),
         \/ walk.on => walk'.lost = More(walk.lost)
         \/ \A x \in present \ {m} : m \in present /\ Before(m, x) => m \in present' /\ Before(m, x)'
  PROVE  ListInv' /\ WalkInv'
<1>1. /\ present \in SUBSET Rows /\ kind \in Kinds /\ key \in [Rows -> Nat] /\ total \in Nat
      /\ walk \in Walks /\ q.limit \in Nat /\ q.page \in Nat
  BY Numbers DEF ListInv, TypeOK
<1>2. Start' = Start /\ Covered' = Covered /\ OffsetFits(q)' = OffsetFits(q)
      /\ Meta(q, answer.total)' = Meta(q, answer.total) /\ WalkOver' = WalkOver
  BY DEF Start, Covered, OffsetFits, Meta, WalkOver
<1>3. ListInv'
  BY <1>2 DEF ListInv, TypeOK
<1>4. SUFFICES ASSUME walk.on, kind # "permissions" PROVE WalkInv'
  BY <1>3 DEF WalkInv
<1> DEFINE N == Cardinality(Rows)
<1>5. /\ N \in Nat /\ walk.lost \in 0 .. N /\ walk.late \in 0 .. N
      /\ walk.lost <= walk'.lost /\ walk'.lost \in 0 .. N
      /\ walk.late <= walk'.late /\ walk'.late \in 0 .. N
  <2>1. N \in Nat /\ walk.lost \in 0 .. N /\ walk.late \in 0 .. N
    BY <1>1, FiniteRows DEF Walks
  <2> QED
    BY <2>1, MoreType
<1>6. /\ walk.stayed \subseteq present /\ walk.stayed \in SUBSET Rows
      /\ Cardinality(Passed) <= walk.lost
      /\ pc = "select" => Cardinality(present) <= total + walk.late
      /\ WalkOver => Cardinality(walk.stayed \ walk.seen) <= walk.lost + walk.late
  BY <1>1, <1>4 DEF WalkInv, Walks
<1>7. m \notin walk'.stayed /\ walk'.stayed \subseteq present'
  BY <1>6
<1>8. Cardinality(Passed') <= walk'.lost
  <2> DEFINE k == Covered * q.limit
  <2>1. k \in Int
    <3>1. Covered \in Int
      BY <1>1 DEF Covered
    <3> QED
      BY <1>1, <3>1
  <2>2. /\ Passed = {row \in walk.stayed : Rank(row, present) < k /\ row \notin walk.seen}
        /\ Passed' = {row \in walk'.stayed : Rank(row, present)' < k /\ row \notin walk.seen}
    BY <1>2 DEF Passed
  <2>3. Passed \in SUBSET Rows /\ Passed' \in SUBSET Rows
    BY <1>6, <1>7, <2>2
  <2>4. ASSUME NEW row \in walk'.stayed
        PROVE  /\ row \in walk.stayed /\ row \in present \ {m} /\ row \in Rows \ {m}
               /\ Rank(row, present) \in Nat /\ Rank(row, present)' \in Nat
               /\ Rank(row, present) <= Rank(row, present)' + 1
               /\ \/ m \in present /\ Before(m, row) /\ ~(m \in present' /\ Before(m, row)')
                  \/ Rank(row, present) <= Rank(row, present)'
    <3>1. row \in walk.stayed /\ row \in present \ {m} /\ row \in Rows \ {m}
      BY <1>6, <1>7
    <3> QED
      BY <1>1, <3>1, OthersMove
  <2> HIDE DEF k
  <2>5. CASE walk'.lost = More(walk.lost)
    <3>1. CASE walk'.lost = N
      BY <2>3, <3>1, FiniteSubset
    <3>2. CASE walk'.lost = walk.lost + 1
      <4>1. CASE \E y \in present : Rank(y, present) = k
        <5>1. PICK y \in present : Rank(y, present) = k
          BY <4>1
        <5>2. ASSUME NEW row \in Passed' PROVE row \in Passed \cup {y}
          <6>1. row \in walk'.stayed /\ Rank(row, present)' < k /\ row \notin walk.seen
            BY <2>2
          <6>2. Rank(row, present) \in Nat /\ Rank(row, present) <= k /\ row \in present
                /\ row \in walk.stayed
            BY <2>1, <2>4, <6>1
          <6>3. CASE Rank(row, present) < k
            BY <2>2, <6>1, <6>2, <6>3
          <6>4. CASE Rank(row, present) = k
            BY <1>1, <1>4, <5>1, <6>2, <6>4, RankUnique
          <6> QED
            BY <2>1, <6>2, <6>3, <6>4
        <5>3. Cardinality(Passed') <= Cardinality(Passed) + 1
          <6>1. Passed' \in SUBSET (Passed \cup {y}) /\ y \in Rows
            BY <1>1, <5>1, <5>2
          <6> QED
            BY <2>3, <6>1, OneMore
        <5>4. Cardinality(Passed') \in Nat /\ Cardinality(Passed) \in Nat
          BY <2>3, FiniteSubset
        <5> QED
          BY <1>5, <1>6, <3>2, <5>3, <5>4
      <4>2. CASE ~\E y \in present : Rank(y, present) = k
        <5>1. Passed' \subseteq Passed
          <6> SUFFICES ASSUME NEW row \in Passed' PROVE row \in Passed
            OBVIOUS
          <6>1. row \in walk'.stayed /\ Rank(row, present)' < k /\ row \notin walk.seen
            BY <2>2
          <6>2. Rank(row, present) \in Nat /\ Rank(row, present) <= k /\ row \in present
                /\ row \in walk.stayed
            BY <2>1, <2>4, <6>1
          <6>3. Rank(row, present) < k
            BY <2>1, <4>2, <6>2
          <6> QED
            BY <2>2, <6>1, <6>2, <6>3
        <5>2. Cardinality(Passed) <= walk'.lost
          BY <1>5, <1>6, <2>3, FiniteSubset
        <5> QED
          BY <1>5, <2>3, <5>1, <5>2, Fewer
      <4> QED
        BY <4>1, <4>2
    <3> QED
      BY <1>5, <2>5, <3>1, <3>2, MoreType
  <2>6. CASE walk'.lost # More(walk.lost)
    <3>1. \A x \in present \ {m} : m \in present /\ Before(m, x) => m \in present' /\ Before(m, x)'
      BY <1>4, <2>6
    <3>2. Passed' \subseteq Passed
      <4> SUFFICES ASSUME NEW row \in Passed' PROVE row \in Passed
        OBVIOUS
      <4>1. row \in walk'.stayed /\ Rank(row, present)' < k /\ row \notin walk.seen
        BY <2>2
      <4>2. row \in walk.stayed /\ Rank(row, present) < k
        BY <2>1, <2>4, <3>1, <4>1
      <4> QED
        BY <2>2, <4>1, <4>2
    <3>3. Cardinality(Passed) <= walk'.lost
      BY <1>5, <1>6, <2>3, FiniteSubset
    <3> QED
      BY <1>5, <2>3, <3>2, <3>3, Fewer
  <2> QED
    BY <2>5, <2>6
<1>9. ASSUME pc = "select" PROVE Cardinality(present') <= total + walk'.late
  <2>1. Cardinality(present) <= total + walk.late /\ Cardinality(present) \in Nat
        /\ Cardinality(present') \in Nat /\ Cardinality(present') <= N
    BY <1>1, <1>6, <1>9, FiniteSubset
  <2>2. CASE m \in present' \ present
    <3>1. present' \in SUBSET (present \cup {m})
      OBVIOUS
    <3>2. Cardinality(present') <= Cardinality(present) + 1
      BY <1>1, <3>1, OneMore
    <3>3. walk'.late = walk.late + 1 \/ walk'.late = N
      BY <1>4, <1>5, <1>9, <2>2, MoreType
    <3> QED
      BY <1>1, <1>5, <2>1, <3>2, <3>3
  <2>3. CASE m \notin present' \ present
    <3>1. present' \in SUBSET present
      BY <2>3
    <3>2. Cardinality(present') <= Cardinality(present)
      BY <1>1, <2>1, <3>1, Fewer
    <3> QED
      BY <1>1, <1>5, <2>1, <3>2
  <2> QED
    BY <2>2, <2>3
<1>10. ASSUME WalkOver PROVE Cardinality(walk'.stayed \ walk'.seen) <= walk'.lost + walk'.late
  <2>1. /\ walk.stayed \ walk.seen \in SUBSET Rows
        /\ walk'.stayed \ walk'.seen \in SUBSET (walk.stayed \ walk.seen)
    BY <1>6
  <2>2. Cardinality(walk.stayed \ walk.seen) \in Nat
    BY <2>1, FiniteSubset
  <2>3. Cardinality(walk.stayed \ walk.seen) <= walk'.lost + walk'.late
    BY <1>5, <1>6, <1>10, <2>2
  <2> QED
    BY <1>5, <2>1, <2>3, Fewer
<1> QED
  BY <1>2, <1>7, <1>8, <1>9, <1>10 DEF WalkInv

\* A row that is added moves others down, past no page that is still to come.
LEMMA AppearStep == ASSUME ListInv, WalkInv, Appear PROVE ListInv' /\ WalkInv'
<1>1. PICK m \in Rows \ present, k \in SortKeys :
        present' = present \cup {m} /\ key' = [key EXCEPT ![m] = k]
  BY DEF Appear
<1>2. /\ kind' = kind /\ pc' = pc /\ q' = q /\ total' = total /\ answer' = answer
      /\ walk' = [walk EXCEPT !.late = IF walk.on /\ pc = "select" THEN More(walk.late) ELSE walk.late]
  BY DEF Appear
<1>3. walk \in Walks /\ present \in SUBSET Rows /\ key \in [Rows -> Keys \cup {0}]
  BY DEF ListInv, TypeOK
<1>4. walk.late \in 0 .. Cardinality(Rows) /\ More(walk.late) \in 0 .. Cardinality(Rows)
  <2>1. walk.late \in 0 .. Cardinality(Rows)
    BY <1>3 DEF Walks
  <2> QED
    BY <2>1, MoreType
<1>5. /\ walk' \in Walks /\ walk'.on = walk.on /\ walk'.seen = walk.seen
      /\ walk'.stayed = walk.stayed /\ walk'.lost = walk.lost
      /\ walk'.late = IF walk.on /\ pc = "select" THEN More(walk.late) ELSE walk.late
  BY <1>2, <1>3, <1>4 DEF Walks
<1>6. /\ key' \in [Rows -> Keys \cup {0}] /\ \A row \in Rows \ {m} : key'[row] = key[row]
  BY <1>1, <1>3 DEF SortKeys
<1>7. /\ present' \in SUBSET Rows /\ present' \ {m} = present \ {m} /\ m \in Rows /\ m \notin present
  BY <1>1, <1>3
<1>8. walk'.lost \in {walk.lost, More(walk.lost)} /\ walk'.late \in {walk.late, More(walk.late)}
  BY <1>5
<1> QED
  BY <1>2, <1>5, <1>6, <1>7, <1>8, WriterStep

\* A row that is taken out moves others up, and is counted.
LEMMA DisappearStep == ASSUME ListInv, WalkInv, Disappear PROVE ListInv' /\ WalkInv'
<1>1. PICK m \in present :
        /\ present' = present \ {m} /\ key' = [key EXCEPT ![m] = 0]
        /\ walk' = [walk EXCEPT !.stayed = walk.stayed \ {m},
                               !.lost = IF walk.on THEN More(walk.lost) ELSE walk.lost]
  BY DEF Disappear
<1>2. kind' = kind /\ pc' = pc /\ q' = q /\ total' = total /\ answer' = answer
  BY DEF Disappear
<1>3. walk \in Walks /\ present \in SUBSET Rows /\ key \in [Rows -> Keys \cup {0}]
  BY DEF ListInv, TypeOK
<1>4. walk.lost \in 0 .. Cardinality(Rows) /\ More(walk.lost) \in 0 .. Cardinality(Rows)
  <2>1. walk.lost \in 0 .. Cardinality(Rows)
    BY <1>3 DEF Walks
  <2> QED
    BY <2>1, MoreType
<1>5. /\ walk' \in Walks /\ walk'.on = walk.on /\ walk'.seen = walk.seen
      /\ walk'.stayed = walk.stayed \ {m} /\ walk'.late = walk.late
      /\ walk'.lost = IF walk.on THEN More(walk.lost) ELSE walk.lost
  BY <1>1, <1>3, <1>4 DEF Walks
<1>6. /\ key' \in [Rows -> Keys \cup {0}] /\ \A row \in Rows \ {m} : key'[row] = key[row]
  BY <1>1, <1>3
<1>7. /\ present' \in SUBSET Rows /\ present' \ {m} = present \ {m} /\ m \in Rows
      /\ m \notin present' \ present /\ m \notin walk'.stayed
  BY <1>1, <1>3, <1>5
<1>8. walk'.lost \in {walk.lost, More(walk.lost)} /\ walk'.late \in {walk.late, More(walk.late)}
      /\ walk'.stayed \subseteq walk.stayed /\ (walk.on => walk'.lost = More(walk.lost))
  BY <1>5
<1> QED
  BY <1>2, <1>5, <1>6, <1>7, <1>8, WriterStep

\* A post that moves towards the front moves others down, and one that moves
\* towards the end is counted.
LEMMA RestampStep == ASSUME ListInv, WalkInv, Restamp PROVE ListInv' /\ WalkInv'
<1>1. PICK m \in present : \E k \in Keys \ {key[m]} :
        /\ key' = [key EXCEPT ![m] = k]
        /\ walk' = [walk EXCEPT !.stayed = walk.stayed \ {m},
                               !.lost = IF walk.on /\ k < key[m] THEN More(walk.lost) ELSE walk.lost]
  BY DEF Restamp
<1>2. PICK k \in Keys \ {key[m]} :
        /\ key' = [key EXCEPT ![m] = k]
        /\ walk' = [walk EXCEPT !.stayed = walk.stayed \ {m},
                               !.lost = IF walk.on /\ k < key[m] THEN More(walk.lost) ELSE walk.lost]
  BY <1>1
<1>3. /\ kind = "posts" /\ kind' = kind /\ pc' = pc /\ q' = q /\ total' = total /\ answer' = answer
      /\ present' = present
  BY DEF Restamp
<1>4. walk \in Walks /\ present \in SUBSET Rows /\ key \in [Rows -> Keys \cup {0}]
      /\ key \in [Rows -> Nat] /\ k \in Nat
  BY Numbers, ListingAssumption DEF ListInv, TypeOK
<1>5. walk.lost \in 0 .. Cardinality(Rows) /\ More(walk.lost) \in 0 .. Cardinality(Rows)
  <2>1. walk.lost \in 0 .. Cardinality(Rows)
    BY <1>4 DEF Walks
  <2> QED
    BY <2>1, MoreType
<1>6. /\ walk' \in Walks /\ walk'.on = walk.on /\ walk'.seen = walk.seen
      /\ walk'.stayed = walk.stayed \ {m} /\ walk'.late = walk.late
      /\ walk'.lost = IF walk.on /\ k < key[m] THEN More(walk.lost) ELSE walk.lost
  BY <1>2, <1>4, <1>5 DEF Walks
<1>7. /\ key' \in [Rows -> Keys \cup {0}] /\ \A row \in Rows \ {m} : key'[row] = key[row]
      /\ key'[m] = k
  BY <1>2, <1>4
<1>8. /\ present' \in SUBSET Rows /\ present' \ {m} = present \ {m} /\ m \in Rows
      /\ m \notin present' \ present /\ m \notin walk'.stayed
  BY <1>3, <1>4, <1>6
<1>9. walk'.lost \in {walk.lost, More(walk.lost)} /\ walk'.late \in {walk.late, More(walk.late)}
      /\ walk'.stayed \subseteq walk.stayed
  BY <1>6
<1>10. \/ walk.on => walk'.lost = More(walk.lost)
       \/ \A x \in present \ {m} : m \in present /\ Before(m, x) => m \in present' /\ Before(m, x)'
  <2>1. CASE k < key[m]
    BY <1>6, <2>1
  <2>2. CASE ~(k < key[m])
    <3>1. key[m] \in Nat /\ key[m] < k /\ \A x \in present : key[x] \in Nat
      BY <1>4, <2>2
    <3>2. ASSUME NEW x \in present \ {m}, Before(m, x) PROVE Before(m, x)'
      <4>1. key[m] >= key[x] /\ key'[x] = key[x]
        BY <1>3, <1>4, <1>7, <3>1, <3>2 DEF Before, NewestFirst
      <4>2. key'[m] > key'[x]
        BY <1>4, <1>7, <3>1, <4>1
      <4> QED
        BY <1>3, <4>2 DEF Before, NewestFirst
    <3> QED
      BY <1>3, <3>2
  <2> QED
    BY <2>1, <2>2
<1> QED
  BY <1>3, <1>6, <1>7, <1>8, <1>9, <1>10, WriterStep

-----------------------------------------------------------------------------
(* Lists: theorems *)

LEMMA ListingNext == ListInv /\ WalkInv /\ [Next]_vars => ListInv' /\ WalkInv'
<1> SUFFICES ASSUME ListInv, WalkInv, [Next]_vars PROVE ListInv' /\ WalkInv'
  OBVIOUS
<1>1. CASE Ask
  BY <1>1, AskStep
<1>2. CASE StartWalk
  BY <1>2, StartWalkStep
<1>3. CASE ContinueWalk
  BY <1>3, ContinueWalkStep
<1>4. CASE CountPosts
  BY <1>4, CountPostsStep
<1>5. CASE CountOthers
  BY <1>5, CountOthersStep
<1>6. CASE SelectPosts \/ SelectRoles \/ SelectPermissions \/ SelectUsers
  BY <1>6, SelectStep DEF SelectPosts, SelectRoles, SelectPermissions, SelectUsers
<1>7. CASE StatementFails
  BY <1>7, FailStep DEF StatementFails
<1>8. CASE Appear
  BY <1>8, AppearStep
<1>9. CASE Disappear
  BY <1>9, DisappearStep
<1>10. CASE Restamp
  BY <1>10, RestampStep
<1>11. CASE UNCHANGED vars
  <2>1. /\ kind' = kind /\ present' = present /\ key' = key /\ pc' = pc /\ q' = q /\ total' = total
        /\ answer' = answer /\ walk' = walk
    BY <1>11 DEF vars
  <2>2. \A row : Rank(row, present)' = Rank(row, present)
    BY <2>1, SamePlaces
  <2>3. Start' = Start /\ Covered' = Covered /\ OffsetFits(q)' = OffsetFits(q)
        /\ Meta(q, answer.total)' = Meta(q, answer.total) /\ WalkOver' = WalkOver
    BY <2>1 DEF Start, Covered, OffsetFits, Meta, WalkOver
  <2>4. ListInv'
    BY <2>1, <2>3 DEF ListInv, TypeOK
  <2>5. Passed' = Passed
    BY <2>1, <2>2, <2>3 DEF Passed
  <2>6. WalkInv'
    BY <2>1, <2>3, <2>5 DEF WalkInv
  <2> QED
    BY <2>4, <2>6
<1> QED
  BY <1>1, <1>2, <1>3, <1>4, <1>5, <1>6, <1>7, <1>8, <1>9, <1>10, <1>11 DEF Next

LEMMA ListingInvariant == Spec => [](ListInv /\ WalkInv)
  BY ListingInit, ListingNext, PTL DEF Spec

\* The parameters of every request are ones that a division or an offset can take,
\* whatever clients write into the query, and however many rows there are.
THEOREM ListingTypeCorrect == Spec => []TypeOK
<1>1. ListInv => TypeOK
  BY DEF ListInv
<1> QED
  BY <1>1, ListingInvariant, PTL

\* A client that walks posts or roles to the end misses no more rows than were
\* taken out or moved towards the end meanwhile, or added behind the last COUNT's
\* back, for any number of rows, limits, instants and width of an int.
THEOREM WalksAlwaysMissLittle == Spec => []WalksMissLittle
<1>1. WalkInv => WalksMissLittle
  BY DEF WalkInv, WalksMissLittle, WalkOver
<1> QED
  BY <1>1, ListingInvariant, PTL

\* Metadata that count the rows the page was cut from agree with it.
LEMMA PageAgrees ==
  ASSUME ListInv, NEW s \in Ordered(present), NEW a, a.data = Page(s, Start, q.limit),
         a.total = Cardinality(present), a.pages = Meta(q, a.total)
  PROVE  MetaAgrees(a)
<1> DEFINE n == Cardinality(present)
<1>1. q.page \in Nat \ {0} /\ q.limit \in Nat \ {0} /\ present \in SUBSET Rows /\ Start \in Nat
  BY Numbers DEF ListInv
<1>2. n \in Nat
  BY <1>1, FiniteSubset
<1> HIDE DEF n
<1>3. /\ n <= Meta(q, n) * q.limit
      /\ Meta(q, n) > 0 => n > (Meta(q, n) - 1) * q.limit
      /\ (q.page - 1) * q.limit >= n <=> q.page > Meta(q, n)
  BY <1>1, <1>2, PageCount
<1>4. a.data = <<>> <=> Start >= n
  BY <1>1, PageElements DEF n
<1>5. a.total = n /\ a.pages = Meta(q, n)
  BY DEF n
<1>6. a.data = <<>> <=> q.page > a.pages
  BY <1>3, <1>4, <1>5 DEF Start
<1> QED
  BY <1>3, <1>5, <1>6 DEF MetaAgrees

\* A page of posts that is too far out for a SELECT is empty.
LEMMA FarPageAgrees == ASSUME ListInv, CountPosts PROVE AnswerIsRight
<1> SUFFICES ASSUME pc' = "idle" PROVE /\ IsThePage(answer'.data)
                                       /\ answer'.total = Cardinality(present) => MetaAgrees(answer')
  BY DEF AnswerIsRight
<1>1. ~OffsetFits(q) /\ Answer(Ok(q, total', <<>>))
  BY DEF CountPosts
<1>2. answer' = Ok(q, total', <<>>)
  BY <1>1 DEF Answer
<1>3. answer'.data = <<>> /\ answer'.total = total' /\ answer'.pages = Meta(q, total')
  BY <1>2 DEF Ok
<1>4. q.page \in Nat \ {0} /\ q.limit \in Nat \ {0} /\ present \in SUBSET Rows /\ Start \in Nat
      /\ kind \in Kinds /\ key \in [Rows -> Nat]
  BY Numbers DEF ListInv
<1>5. ~(Start <= MaxInt)
  BY <1>1, <1>4, FitsExactly DEF Start
<1>6. Start >= Cardinality(present)
  <2>1. Cardinality(present) \in Nat /\ Cardinality(present) <= Cardinality(Rows)
    BY <1>4, FiniteSubset
  <2> QED
    BY <1>4, <1>5, <2>1, FiniteRows, Limits
<1>7. PICK s : s \in Ordered(present)
  BY <1>4, SortedListExists
<1>8. Page(s, Start, q.limit) = <<>>
  BY <1>4, <1>6, <1>7, PageElements
<1>9. IsThePage(answer'.data)
  BY <1>3, <1>7, <1>8 DEF IsThePage
<1>10. answer'.total = Cardinality(present) => MetaAgrees(answer')
  BY <1>3, <1>7, <1>8, PageAgrees
<1> QED
  BY <1>9, <1>10

\* What a SELECT returns is the page, as its offset was computed without loss.
LEMMA SelectAgrees == ASSUME ListInv, SelectPage PROVE AnswerIsRight
<1> SUFFICES ASSUME answer'.code = 200, kind = "posts" \/ Start <= MaxInt
             PROVE  /\ IsThePage(answer'.data)
                    /\ answer'.total = Cardinality(present) => MetaAgrees(answer')
  BY DEF AnswerIsRight
<1>1. pc = "select"
  BY DEF SelectPage
<1>2. ~Answer(Error)
  BY DEF Answer, Error
<1>3. PICK s \in Ordered(present) : Answer(Ok(q, total, Page(s, Product(q), q.limit)))
  BY <1>2 DEF SelectPage
<1>4. answer' = Ok(q, total, Page(s, Product(q), q.limit))
  BY <1>3 DEF Answer
<1>5. q.page \in Nat \ {0} /\ q.limit \in Nat \ {0}
  BY Numbers DEF ListInv
<1>6. Product(q) = Start
  BY <1>1, <1>5, FitsExactly DEF ListInv, Start
<1>7. /\ answer'.data = Page(s, Start, q.limit) /\ answer'.total = total
      /\ answer'.pages = Meta(q, total)
  BY <1>4, <1>6 DEF Ok
<1>8. IsThePage(answer'.data)
  BY <1>7 DEF IsThePage
<1>9. answer'.total = Cardinality(present) => MetaAgrees(answer')
  BY <1>7, PageAgrees
<1> QED
  BY <1>8, <1>9

LEMMA NextAgrees == ListInv /\ [Next]_vars => [AnswerIsRight]_vars
<1> SUFFICES ASSUME ListInv, Next PROVE AnswerIsRight
  OBVIOUS
<1>1. CASE Ask \/ StartWalk \/ ContinueWalk
  BY <1>1 DEF Ask, StartWalk, ContinueWalk, AnswerIsRight
<1>2. CASE CountPosts
  BY <1>2, FarPageAgrees
<1>3. CASE CountOthers
  BY <1>3 DEF CountOthers, AnswerIsRight
<1>4. CASE SelectPosts \/ SelectRoles \/ SelectPermissions \/ SelectUsers
  BY <1>4, SelectAgrees DEF SelectPosts, SelectRoles, SelectPermissions, SelectUsers
<1>5. CASE StatementFails
  BY <1>5 DEF StatementFails, Answer, Error, AnswerIsRight
<1>6. CASE Appear \/ Disappear \/ Restamp
  BY <1>6 DEF Appear, Disappear, Restamp, AnswerIsRight
<1> QED
  BY <1>1, <1>2, <1>3, <1>4, <1>5, <1>6 DEF Next

\* Every page that is answered is the page of the list that was asked for, and
\* agrees with its metadata if they count the rows it was cut from.
THEOREM PagesAlwaysAgree == Spec => PagesAgree
<1>1. Spec => []ListInv
  BY ListingInvariant, PTL
<1> QED
  BY <1>1, NextAgrees, PTL DEF Spec, PagesAgree

-----------------------------------------------------------------------------
(* Slugs: what the builder holds *)

\* Every hyphen has a letter or digit before it.
Slug(s) ==
  /\ s \in Seq(Alphabet)
  /\ \A i \in 1 .. Len(s) : s[i] = Hyphen => i > 1 /\ s[i - 1] # Hyphen

\* The builder holds a slug that does not end in a hyphen, is empty as long as
\* nothing usable has been read, and no separator is due before the first word.
SlugInv ==
  /\ title \in Seq(Runes)
  /\ Slug(b) /\ (b # <<>> => b[Len(b)] # Hyphen) /\ (b = <<>> <=> Empty)
  /\ pendingHyphen \in BOOLEAN /\ (pendingHyphen => b # <<>>)
  /\ slug # NotYet => /\ slug \in Seq(Alphabet) /\ Len(slug) <= MaxSlugBaseLen
                      /\ slug = <<>> <=> Empty

-----------------------------------------------------------------------------
(* Slugs: sequences *)

\* A slug, a hyphen if it does not end in one, and more characters make a slug.
LEMMA SlugExtended ==
  ASSUME NEW s, Slug(s), s # <<>> => s[Len(s)] # Hyphen,
         NEW t \in Seq(Chars), t # <<>>,
         NEW h \in {<<>>, <<Hyphen>>}, s = <<>> => h = <<>>
  PROVE  LET r == s \o h \o t IN Slug(r) /\ r # <<>> /\ r[Len(r)] # Hyphen
<1> DEFINE r == s \o h \o t
<1>1. t \in Seq(Alphabet) /\ Len(t) > 0 /\ Len(t) \in Nat /\ \A i \in 1 .. Len(t) : t[i] # Hyphen
  BY SlugsAssumption DEF Alphabet
<1>2. h \in Seq(Alphabet) /\ Len(h) \in {0, 1} /\ (Len(h) = 1 => h[1] = Hyphen)
      /\ (s = <<>> => Len(h) = 0)
  <2>1. <<Hyphen>> \in Seq(Alphabet) /\ <<>> \in Seq(Alphabet) /\ Len(<<Hyphen>>) = 1
        /\ <<Hyphen>>[1] = Hyphen /\ Len(<<>>) = 0
    BY DEF Alphabet
  <2>2. CASE h = <<>>
    BY <2>1, <2>2
  <2>3. CASE h = <<Hyphen>>
    BY <2>1, <2>3
  <2> QED
    BY <2>2, <2>3
<1>3. s \in Seq(Alphabet) /\ Len(s) \in Nat /\ (s = <<>> <=> Len(s) = 0)
  BY DEF Slug
<1>4. r \in Seq(Alphabet) /\ Len(r) = Len(s) + Len(h) + Len(t)
  BY <1>1, <1>2, <1>3
<1>5. /\ \A i \in 1 .. Len(s) : r[i] = s[i]
      /\ Len(h) = 1 => r[Len(s) + 1] = Hyphen
      /\ \A i \in Len(s) + Len(h) + 1 .. Len(r) : r[i] = t[i - Len(s) - Len(h)]
  BY <1>1, <1>2, <1>3
<1> HIDE DEF r
<1>6. \A i \in Len(s) + Len(h) + 1 .. Len(r) : r[i] # Hyphen
  <2> SUFFICES ASSUME NEW i \in Len(s) + Len(h) + 1 .. Len(r) PROVE r[i] # Hyphen
    OBVIOUS
  <2>1. Len(h) \in Nat /\ i \in Int
    BY <1>2
  <2>2. i - Len(s) - Len(h) \in 1 .. Len(t)
    BY <1>1, <1>3, <1>4, <2>1
  <2> QED
    BY <1>1, <1>5, <2>2
<1>7. ASSUME NEW i \in 1 .. Len(r), r[i] = Hyphen PROVE i > 1 /\ r[i - 1] # Hyphen
  <2>1. CASE i <= Len(s)
    BY <1>3, <1>5, <1>7, <2>1 DEF Slug
  <2>2. CASE i > Len(s)
    <3>1. ~(i \in Len(s) + Len(h) + 1 .. Len(r)) /\ Len(r) \in Nat /\ Len(h) \in Nat /\ i \in Int
      BY <1>2, <1>4, <1>6, <1>7
    <3>2. i <= Len(s) + Len(h)
      BY <1>3, <3>1
    <3>3. Len(h) = 1 /\ i = Len(s) + 1
      <4>1. Len(h) # 0
        BY <1>3, <2>2, <3>1, <3>2
      <4>2. Len(h) = 1
        BY <1>2, <4>1
      <4>3. i <= Len(s) + 1
        BY <3>2, <4>2
      <4> QED
        BY <1>3, <2>2, <3>1, <4>2, <4>3
    <3>4. Len(s) > 0
      BY <1>2, <1>3, <3>3
    <3> QED
      BY <1>3, <1>5, <3>3, <3>4
  <2> QED
    BY <1>3, <2>1, <2>2
<1>8. r # <<>> /\ r[Len(r)] # Hyphen
  BY <1>1, <1>2, <1>3, <1>4, <1>6
<1>9. Slug(r)
  BY <1>4, <1>7 DEF Slug
<1> QED
  BY <1>8, <1>9 DEF r

\* Of a slug at most one hyphen is trimmed, and never the whole of it.
LEMMA TrimRightSlug ==
  ASSUME NEW s, Slug(s), s # <<>>
  PROVE  /\ TrimRight(s) \in Seq(Alphabet) /\ Len(TrimRight(s)) <= Len(s)
         /\ TrimRight(s) # <<>>
<1> DEFINE P(m) == /\ m > 0 => s[m] # Hyphen
                   /\ \A i \in m + 1 .. Len(s) : s[i] = Hyphen
           end == CHOOSE m \in 0 .. Len(s) : P(m)
<1>1. s \in Seq(Alphabet) /\ Len(s) \in Nat /\ Len(s) > 0 /\ s[1] # Hyphen
  BY DEF Slug
<1>2. \E m \in 0 .. Len(s) : P(m)
  <2>1. CASE s[Len(s)] # Hyphen
    <3>1. P(Len(s))
      BY <1>1, <2>1
    <3> QED
      BY <1>1, <3>1
  <2>2. CASE s[Len(s)] = Hyphen
    <3>1. Len(s) > 1 /\ s[Len(s) - 1] # Hyphen
      BY <1>1, <2>2 DEF Slug
    <3>2. P(Len(s) - 1)
      BY <1>1, <2>2, <3>1
    <3> QED
      BY <1>1, <3>1, <3>2
  <2> QED
    BY <2>1, <2>2
<1>3. end \in 0 .. Len(s) /\ P(end)
  BY <1>2
<1>4. TrimRight(s) = SubSeq(s, 1, end)
  BY DEF TrimRight
<1> HIDE DEF end
<1>5. end >= 1
  BY <1>1, <1>3
<1> QED
  BY <1>1, <1>3, <1>4, <1>5

-----------------------------------------------------------------------------
(* Slugs: the builder *)

LEMMA NothingRead == title = <<>> => Empty /\ title \in Seq(Runes)
<1> SUFFICES ASSUME title = <<>> PROVE Empty /\ title \in Seq(Runes)
  OBVIOUS
<1>1. Len(<<>>) = 0 /\ <<>> \in Seq(Runes)
  OBVIOUS
<1>2. DOMAIN title = 1 .. 0
  BY <1>1
<1> QED
  BY <1>1, <1>2 DEF Empty

LEMMA NoSlug == Slug(<<>>)
<1>1. Len(<<>>) = 0 /\ <<>> \in Seq(Alphabet)
  OBVIOUS
<1> QED
  BY <1>1 DEF Slug

LEMMA SlugsInit == SlugInit => SlugInv
  BY NothingRead, NoSlug DEF SlugInit, SlugInv

\* Reading rune r changes Empty only if r is usable.
LEMMA EmptyStep ==
  ASSUME title \in Seq(Runes), NEW r \in Runes, title' = Append(title, r)
  PROVE  title' \in Seq(Runes) /\ (Empty' <=> Empty /\ ~Usable(r))
<1>1. title' \in Seq(Runes) /\ DOMAIN title' = 1 .. Len(title) + 1 /\ Len(title) \in Nat
  BY SlugsAssumption
<1>2. title'[Len(title) + 1] = r /\ \A i \in 1 .. Len(title) : title'[i] = title[i]
  BY <1>1
<1>3. DOMAIN title = 1 .. Len(title)
  BY <1>1
<1>4. Empty => (Empty' <=> ~Usable(r))
  BY <1>1, <1>2, <1>3 DEF Empty, Usable
<1>5. Empty' => Empty
  BY <1>1, <1>2, <1>3 DEF Empty, Usable
<1> QED
  BY <1>1, <1>4, <1>5

LEMMA ReadStep == ASSUME SlugInv, Read PROVE SlugInv'
<1>1. PICK r \in Runes : title' = Append(title, r) /\ (KeepFolds(r) \/ SkipMark(r) \/ Separate(r))
  BY DEF Read
<1>2. title' \in Seq(Runes) /\ (Empty' <=> Empty /\ ~Usable(r))
  BY <1>1, EmptyStep DEF SlugInv
<1>3. slug' = NotYet
  BY DEF Read
<1>4. CASE KeepFolds(r)
  <2> DEFINE h == IF pendingHyphen THEN <<Hyphen>> ELSE <<>>
  <2>1. Fold[r] \in Seq(Chars) /\ Fold[r] # <<>> /\ Usable(r)
    BY <1>4, SlugsAssumption DEF KeepFolds, Usable
  <2>2. h \in {<<>>, <<Hyphen>>} /\ (b = <<>> => h = <<>>)
    BY DEF SlugInv
  <2>3. b' = b \o h \o Fold[r] /\ pendingHyphen' = FALSE
    BY <1>4 DEF KeepFolds
  <2> HIDE DEF h
  <2>4. Slug(b') /\ b' # <<>> /\ b'[Len(b')] # Hyphen
    BY <2>1, <2>2, <2>3, SlugExtended DEF SlugInv
  <2> QED
    BY <1>2, <1>3, <2>1, <2>3, <2>4 DEF SlugInv, Slug
<1>5. CASE SkipMark(r)
  <2>1. ~Usable(r) /\ UNCHANGED <<b, pendingHyphen>>
    BY <1>5, SlugsAssumption DEF SkipMark, Usable
  <2> QED
    BY <1>2, <1>3, <2>1 DEF SlugInv, Slug
<1>6. CASE Separate(r)
  <2>1. ~Usable(r) /\ b' = b /\ pendingHyphen' = (b # <<>>)
    BY <1>6 DEF Separate
  <2> QED
    BY <1>2, <1>3, <2>1 DEF SlugInv, Slug
<1> QED
  BY <1>1, <1>4, <1>5, <1>6

LEMMA ReturnStep == ASSUME SlugInv, Return PROVE SlugInv'
<1>1. slug' = Cut(b) /\ UNCHANGED <<title, b, pendingHyphen>> /\ Empty' = Empty
  BY DEF Return, Empty
<1>2. Cut(b) \in Seq(Alphabet) /\ Len(Cut(b)) <= MaxSlugBaseLen /\ (Cut(b) = <<>> <=> b = <<>>)
  <2>1. CASE Len(b) <= MaxSlugBaseLen
    BY <2>1 DEF Cut, SlugInv, Slug
  <2>2. CASE ~(Len(b) <= MaxSlugBaseLen)
    <3> DEFINE s == SubSeq(b, 1, MaxSlugBaseLen)
    <3>1. b \in Seq(Alphabet) /\ Len(b) \in Nat /\ b # <<>> /\ MaxSlugBaseLen \in Nat \ {0}
      BY <2>2, SlugsAssumption DEF SlugInv, Slug
    <3>2. s \in Seq(Alphabet) /\ Len(s) = MaxSlugBaseLen /\ \A i \in 1 .. Len(s) : s[i] = b[i]
      BY <2>2, <3>1
    <3>3. Slug(s) /\ s # <<>>
      BY <2>2, <3>1, <3>2 DEF Slug, SlugInv
    <3>4. Cut(b) = TrimRight(s)
      BY <2>2 DEF Cut
    <3> HIDE DEF s
    <3> QED
      BY <3>1, <3>2, <3>3, <3>4, TrimRightSlug
  <2> QED
    BY <2>1, <2>2
<1> QED
  BY <1>1, <1>2 DEF SlugInv, Slug

LEMMA SlugsNext == SlugInv /\ [SlugNext]_slugVars => SlugInv'
<1> SUFFICES ASSUME SlugInv, [SlugNext]_slugVars PROVE SlugInv'
  OBVIOUS
<1>1. CASE Call
  <2>1. title' \in Seq(Runes) /\ Empty'
    <3>1. title' = <<>> /\ Len(<<>>) = 0 /\ <<>> \in Seq(Runes)
      BY <1>1 DEF Call
    <3>2. DOMAIN title' = 1 .. 0
      BY <3>1
    <3> QED
      BY <3>1, <3>2 DEF Empty
  <2>2. Slug(b)'
    BY <1>1, NoSlug DEF Call, Slug
  <2> QED
    BY <1>1, <2>1, <2>2 DEF Call, SlugInv
<1>2. CASE Read
  BY <1>2, ReadStep
<1>3. CASE Return
  BY <1>3, ReturnStep
<1>4. CASE UNCHANGED slugVars
  BY <1>4 DEF slugVars, SlugInv, Slug, Empty
<1> QED
  BY <1>1, <1>2, <1>3, <1>4 DEF SlugNext

\* A slug has room for the suffix of every attempt.
LEMMA SuffixFits ==
  ASSUME NEW s \in Seq(Alphabet), s # <<>>, Len(s) <= MaxSlugBaseLen, NEW n \in 1 .. MaxSlugAttempts
  PROVE  ValidSlug(WithSuffix(s, n))
<1>1. Len(s) \in Nat /\ Len(s) > 0 /\ MaxSlugBaseLen \in Nat /\ MaxSlugLen \in Nat /\ MaxSlugBaseLen <= MaxSlugLen
  BY SlugsAssumption
<1>2. CASE n <= 1
  BY <1>1, <1>2 DEF ValidSlug, WithSuffix
<1>3. CASE ~(n <= 1)
  <2> DEFINE t == s \o <<Hyphen>> \o Itoa[n]
  <2>1. Itoa[n] \in Seq(Alphabet) /\ Len(Itoa[n]) \in Nat /\ MaxSlugBaseLen + 1 + Len(Itoa[n]) <= MaxSlugLen
    <3>1. Itoa[n] \in Seq(Chars)
      BY SlugsAssumption
    <3> QED
      BY <3>1, SlugsAssumption DEF Alphabet
  <2>2. <<Hyphen>> \in Seq(Alphabet) /\ Len(<<Hyphen>>) = 1
    BY DEF Alphabet
  <2>3. t \in Seq(Alphabet) /\ Len(t) = Len(s) + 1 + Len(Itoa[n])
    BY <1>1, <2>1, <2>2
  <2>4. WithSuffix(s, n) = t
    BY <1>3 DEF WithSuffix
  <2> HIDE DEF t
  <2>5. Len(t) <= MaxSlugLen /\ Len(t) > 0
    <3>1. ASSUME NEW x \in Nat, NEW y \in Nat, x <= MaxSlugBaseLen, MaxSlugBaseLen + 1 + y <= MaxSlugLen
          PROVE  x + 1 + y <= MaxSlugLen /\ x + 1 + y > 0
      BY <1>1, <3>1
    <3> QED
      BY <1>1, <2>1, <2>3, <3>1
  <2>6. t # <<>> /\ \A i \in DOMAIN t : t[i] \in Alphabet
    <3>1. ASSUME NEW x \in Seq(Alphabet), Len(x) > 0
          PROVE  x # <<>> /\ \A i \in DOMAIN x : x[i] \in Alphabet
      BY <3>1
    <3> QED
      BY <2>3, <2>5, <3>1
  <2>7. ValidSlug(t)
    BY <2>5, <2>6 DEF ValidSlug
  <2> QED
    BY <2>4, <2>7
<1> QED
  BY <1>2, <1>3

\* The attempts of a create try as many slugs: no suffix gives a candidate that
\* was tried before, which Posts takes for granted.
THEOREM AttemptsDiffer ==
  ASSUME NEW s \in Seq(Alphabet), NEW n \in 1 .. MaxSlugAttempts, NEW m \in 1 .. MaxSlugAttempts,
         WithSuffix(s, n) = WithSuffix(s, m)
  PROVE  n = m
<1>1. ASSUME NEW k \in 1 .. MaxSlugAttempts, ~(k <= 1)
      PROVE  /\ Itoa[k] \in Seq(Alphabet)
             /\ Len(WithSuffix(s, k)) = Len(s) + 1 + Len(Itoa[k])
             /\ \A i \in 1 .. Len(Itoa[k]) : WithSuffix(s, k)[Len(s) + 1 + i] = Itoa[k][i]
  <2> DEFINE d == Itoa[k]
  <2>1. d \in Seq(Alphabet)
    BY SlugsAssumption DEF Alphabet
  <2>2. WithSuffix(s, k) = s \o <<Hyphen>> \o d
    BY <1>1 DEF WithSuffix
  <2> HIDE DEF d
  <2>3. <<Hyphen>> \in Seq(Alphabet) /\ Len(<<Hyphen>>) = 1
    BY DEF Alphabet
  <2>4. /\ Len(s \o <<Hyphen>> \o d) = Len(s) + 1 + Len(d)
        /\ \A i \in 1 .. Len(d) : (s \o <<Hyphen>> \o d)[Len(s) + 1 + i] = d[i]
    BY <2>1, <2>3
  <2> QED
    BY <2>1, <2>2, <2>4 DEF d
<1>2. WithSuffix(s, 1) = s /\ Len(s) \in Nat
  BY DEF WithSuffix
<1>3. ASSUME NEW k \in 1 .. MaxSlugAttempts, ~(k <= 1) PROVE WithSuffix(s, k) # s
  <2> DEFINE d == Itoa[k]
             t == WithSuffix(s, k)
  <2>1. d \in Seq(Alphabet) /\ Len(t) = Len(s) + 1 + Len(d)
    BY <1>1, <1>3
  <2> HIDE DEF d, t
  <2>2. Len(d) \in Nat
    BY <2>1
  <2>3. Len(t) # Len(s)
    BY <1>2, <2>1, <2>2
  <2>4. t # s
    BY <2>3
  <2> QED
    BY <2>4 DEF t
<1>4. CASE n <= 1 \/ m <= 1
  <2>1. (n <= 1 => n = 1) /\ (m <= 1 => m = 1)
    BY SlugsAssumption
  <2> QED
    BY <1>2, <1>3, <1>4, <2>1
<1>5. CASE ~(n <= 1) /\ ~(m <= 1)
  <2> DEFINE c == Itoa[n]
             d == Itoa[m]
             t == WithSuffix(s, n)
  <2>1. /\ c \in Seq(Alphabet) /\ Len(t) = Len(s) + 1 + Len(c)
        /\ \A i \in 1 .. Len(c) : t[Len(s) + 1 + i] = c[i]
    BY <1>1, <1>5
  <2>2. /\ d \in Seq(Alphabet) /\ Len(t) = Len(s) + 1 + Len(d)
        /\ \A i \in 1 .. Len(d) : t[Len(s) + 1 + i] = d[i]
    BY <1>1, <1>5
  <2>3. c = d => n = m
    BY SlugsAssumption
  <2> HIDE DEF c, d, t
  <2>4. Len(c) = Len(d)
    <3>1. Len(c) \in Nat /\ Len(d) \in Nat
      BY <2>1, <2>2
    <3> QED
      BY <1>2, <2>1, <2>2, <3>1
  <2>5. c = d
    <3>1. \A i \in 1 .. Len(c) : c[i] = d[i]
      BY <2>1, <2>2, <2>4
    <3> QED
      BY <2>1, <2>2, <2>4, <3>1
  <2> QED
    BY <2>3, <2>5
<1> QED
  BY <1>4, <1>5

\* Whatever the title, what is stored can be read.
THEOREM SlugsAlwaysReadable == SlugSpec => []SlugsReadable
<1>1. SlugInv => SlugsReadable
  BY SuffixFits DEF SlugInv, SlugsReadable
<1> QED
  BY <1>1, SlugsInit, SlugsNext, PTL DEF SlugSpec

-----------------------------------------------------------------------------
(* Slugs: the reference *)

\* f[i] is what the first i of the sequences s make, joined.
Joins(f, s) == f = [i \in 1 .. Len(s) |-> IF i = 1 THEN s[i] ELSE f[i - 1] \o s[i]]

\* There is one way to join sequences s, and it ends in v.
JoinsTo(s, v) == /\ \E f : Joins(f, s)
                 /\ \A f : Joins(f, s) => f[Len(s)] = v

\* FlattenSeq is defined by a recursive function, which has one value if it has any.
LEMMA FlattenIsJoin ==
  ASSUME NEW s, Len(s) # 0, NEW v, JoinsTo(s, v)
  PROVE  FlattenSeq(s) = v
<1> DEFINE g == CHOOSE f : Joins(f, s)
<1>1. FlattenSeq(s) = g[Len(s)]
  BY DEF FlattenSeq, Joins
<1>2. Joins(g, s)
  BY Zenon DEF JoinsTo
<1> QED
  BY <1>1, <1>2 DEF JoinsTo

\* One entry of a recursive function.
LEMMA JoinsByIndex ==
  ASSUME NEW f, NEW s, Joins(f, s), NEW i \in 1 .. Len(s)
  PROVE  f[i] = IF i = 1 THEN s[i] ELSE f[i - 1] \o s[i]
  BY DEF Joins

\* One more sequence.
LEMMA JoinExtended ==
  ASSUME NEW s, NEW t, NEW n \in Nat, Len(s) = n, Len(t) = n + 1, \A i \in 1 .. n : t[i] = s[i],
         NEW v, IF n = 0 THEN t[n + 1] = v \o t[n + 1] ELSE JoinsTo(s, v)
  PROVE  JoinsTo(t, v \o t[n + 1])
<1> DEFINE w == v \o t[n + 1]
<1>1. CASE n = 0
  <2> DEFINE f == [i \in 1 .. 1 |-> t[1]]
  <2>1. f = [i \in 1 .. 1 |-> IF i = 1 THEN t[i] ELSE f[i - 1] \o t[i]]
    OBVIOUS
  <2>2. Joins(f, t)
    BY <1>1, <2>1 DEF Joins
  <2>3. \A g : Joins(g, t) => g[1] = t[1]
    BY <1>1, JoinsByIndex
  <2> QED
    BY <1>1, <2>2, <2>3 DEF JoinsTo
<1>2. CASE n # 0
  <2>1. PICK g : Joins(g, s)
    BY <1>2 DEF JoinsTo
  <2>2. g[n] = v
    BY <1>2, <2>1 DEF JoinsTo
  <2> DEFINE f == [i \in 1 .. n + 1 |-> IF i = n + 1 THEN w ELSE g[i]]
  <2>3. \A i \in 1 .. n + 1 : f[i] = IF i = 1 THEN t[i] ELSE f[i - 1] \o t[i]
    <3> SUFFICES ASSUME NEW i \in 1 .. n + 1 PROVE f[i] = IF i = 1 THEN t[i] ELSE f[i - 1] \o t[i]
      OBVIOUS
    <3>1. CASE i = n + 1
      <4>1. f[i] = w /\ i # 1 /\ i - 1 = n /\ i - 1 \in 1 .. n + 1 /\ i - 1 # n + 1
        BY <1>2, <3>1
      <4>2. f[i - 1] = v
        BY <2>2, <4>1
      <4> QED
        BY <3>1, <4>1, <4>2
    <3>2. CASE i # n + 1
      <4>1. i \in 1 .. n /\ f[i] = g[i] /\ (i # 1 => f[i - 1] = g[i - 1])
        BY <3>2
      <4>2. g[i] = IF i = 1 THEN s[i] ELSE g[i - 1] \o s[i]
        <5>1. i \in 1 .. Len(s)
          BY <4>1
        <5> QED
          BY <2>1, <5>1, JoinsByIndex
      <4> QED
        BY <4>1, <4>2
    <3> QED
      BY <3>1, <3>2
  <2>4. f = [i \in 1 .. n + 1 |-> IF i = 1 THEN t[i] ELSE f[i - 1] \o t[i]]
    <3> DEFINE d == [i \in 1 .. n + 1 |-> IF i = 1 THEN t[i] ELSE f[i - 1] \o t[i]]
    <3>1. \A i \in 1 .. n + 1 : f[i] = d[i]
      BY <2>3
    <3> QED
      BY <3>1
  <2> HIDE DEF f
  <2>5. Joins(f, t)
    BY <2>4 DEF Joins
  <2>6. ASSUME NEW k, Joins(k, t) PROVE k[n + 1] = w
    <3> DEFINE j == [i \in 1 .. n |-> k[i]]
    <3>1. \A i \in 1 .. n : j[i] = IF i = 1 THEN s[i] ELSE j[i - 1] \o s[i]
      BY <2>6, JoinsByIndex
    <3>2. j = [i \in 1 .. n |-> IF i = 1 THEN s[i] ELSE j[i - 1] \o s[i]]
      <4> DEFINE d == [i \in 1 .. n |-> IF i = 1 THEN s[i] ELSE j[i - 1] \o s[i]]
      <4>1. \A i \in 1 .. n : j[i] = d[i]
        BY <3>1
      <4> QED
        BY <4>1
    <3>3. Joins(j, s)
      <4> HIDE DEF j
      <4> QED
        BY <3>2 DEF Joins
    <3>4. k[n] = v
      BY <1>2, <3>3 DEF JoinsTo
    <3>5. n + 1 \in 1 .. Len(t) /\ n + 1 # 1 /\ (n + 1) - 1 = n
      BY <1>2
    <3>6. k[n + 1] = k[n] \o t[n + 1]
      <4> HIDE DEF j, w
      <4>1. PICK i \in 1 .. Len(t) : i = n + 1 /\ i # 1 /\ i - 1 = n
        BY <3>5
      <4>2. k[i] = IF i = 1 THEN t[i] ELSE k[i - 1] \o t[i]
        BY <2>6, JoinsByIndex
      <4> QED
        BY <4>1, <4>2
    <3> QED
      BY <3>4, <3>6
  <2> QED
    BY <2>5, <2>6 DEF JoinsTo
<1> QED
  BY <1>1, <1>2

\* What the places of the title contribute.
Spelled == [i \in 1 .. Len(title) |-> Spelling(i)]

\* The builder holds the reference of what has been read, and a separator is due
\* if the next rune would start another word.
SpellInv ==
  /\ pendingHyphen <=> Gap(Len(title) + 1)
  /\ IF title = <<>> THEN b = <<>> ELSE JoinsTo(Spelled, b)
  /\ slug # NotYet => slug = Cut(b)

\* So what is returned is cut from the reference.
LEMMA BuilderIsReference == ASSUME SlugInv, SpellInv PROVE Reference = b
<1>1. title \in Seq(Runes) /\ Len(title) \in Nat
  BY DEF SlugInv
<1>2. Len(Spelled) = Len(title) /\ Reference = FlattenSeq(Spelled)
  BY <1>1 DEF Spelled, Reference
<1>3. CASE title = <<>>
  <2>1. Len(title) = 0
    BY <1>3
  <2>2. Spelled = <<>>
    BY <2>1 DEF Spelled
  <2>3. FlattenSeq(Spelled) = Spelled
    BY <1>2, <2>1 DEF FlattenSeq
  <2> QED
    BY <1>2, <1>3, <2>2, <2>3 DEF SpellInv
<1>4. CASE title # <<>>
  <2>1. Len(Spelled) # 0
    BY <1>1, <1>2, <1>4
  <2> QED
    BY <1>2, <1>4, <2>1, FlattenIsJoin DEF SpellInv
<1> QED
  BY <1>3, <1>4

\* Nothing read, nothing spelled.
LEMMA SpellInit == title = <<>> /\ b = <<>> /\ pendingHyphen = FALSE /\ slug = NotYet => SpellInv
<1>1. title = <<>> => Len(title) + 1 = 1
  OBVIOUS
<1>2. title = <<>> => ~Gap(Len(title) + 1)
  BY <1>1 DEF Gap
<1> QED
  BY <1>2 DEF SpellInv

\* What a place of the title contributes does not depend on what follows it.
LEMMA SpellingStep ==
  ASSUME title \in Seq(Runes), NEW r \in Runes, title' = Append(title, r), NEW n, n = Len(title)
  PROVE  /\ n \in Nat /\ title' # <<>> /\ Len(title') = n + 1 /\ title'[n + 1] = r
         /\ \A i \in 1 .. n : title'[i] = title[i]
         /\ \A i \in 1 .. n + 1 : Gap(i)' <=> Gap(i)
         /\ \A i \in 1 .. n : Spelling(i)' = Spelling(i)
<1>1. /\ n \in Nat /\ title' # <<>> /\ Len(title') = n + 1 /\ title'[n + 1] = r
      /\ \A i \in 1 .. n : title'[i] = title[i]
  OBVIOUS
<1>2. ASSUME NEW i \in 1 .. n + 1 PROVE Gap(i)' <=> Gap(i)
  <2>1. \A k \in 1 .. i - 1 : title'[k] = title[k] /\ (Usable(title'[k]) <=> Usable(title[k]))
    BY <1>1
  <2>2. \A k \in 1 .. i - 1 : 1 .. k - 1 \subseteq 1 .. i - 1 /\ k + 1 .. i - 1 \subseteq 1 .. i - 1
    BY <1>1
  <2> QED
    BY <2>1, <2>2 DEF Gap, Usable
<1>3. ASSUME NEW i \in 1 .. n PROVE Spelling(i)' = Spelling(i)
  <2>1. title'[i] = title[i] /\ (Gap(i)' <=> Gap(i))
    BY <1>1, <1>2
  <2> QED
    BY <2>1 DEF Spelling, Usable
<1> QED
  BY <1>1, <1>2, <1>3

\* A separator is due after the next rune if it is one that follows a word, or
\* if it is a mark and one was due before it.
LEMMA GapStep ==
  ASSUME title \in Seq(Runes), NEW r \in Runes, title' = Append(title, r), NEW n, n = Len(title)
  PROVE  /\ Usable(r) => ~Gap(n + 2)'
         /\ r \in Marks => (Gap(n + 2)' <=> Gap(n + 1))
         /\ ~Usable(r) /\ r \notin Marks => (Gap(n + 2)' <=> ~Empty)
<1>1. /\ n \in Nat /\ title'[n + 1] = r /\ \A i \in 1 .. n : title'[i] = title[i]
      /\ DOMAIN title = 1 .. n
  BY SpellingStep
<1> DEFINE Due(k, i, t) == /\ ~Usable(t[k]) /\ t[k] \notin Marks
                           /\ \E j \in 1 .. k - 1 : Usable(t[j])
                           /\ \A j \in k + 1 .. i : ~Usable(t[j])
<1>2. Gap(n + 2)' <=> \E k \in 1 .. n + 1 : Due(k, n + 1, title')
  <2>1. (n + 2) - 1 = n + 1
    BY <1>1
  <2> QED
    BY <2>1 DEF Gap, Usable
<1>3. Gap(n + 1) <=> \E k \in 1 .. n : Due(k, n, title)
  <2>1. (n + 1) - 1 = n
    BY <1>1
  <2> QED
    BY <2>1 DEF Gap, Usable
<1>4. Usable(r) => ~Gap(n + 2)'
  <2> SUFFICES ASSUME Usable(r), NEW k \in 1 .. n + 1, Due(k, n + 1, title') PROVE FALSE
    BY <1>2
  <2>1. k = n + 1 \/ n + 1 \in k + 1 .. n + 1
    BY <1>1
  <2> QED
    BY <1>1, <2>1
<1>5. ASSUME ~Usable(r), NEW k \in 1 .. n PROVE Due(k, n + 1, title') <=> Due(k, n, title)
  <2>1. title'[k] = title[k] /\ (\A j \in 1 .. k - 1 : title'[j] = title[j])
        /\ \A j \in k + 1 .. n : title'[j] = title[j]
    BY <1>1
  <2>2. \A j \in k + 1 .. n + 1 : j = n + 1 \/ j \in k + 1 .. n
    BY <1>1
  <2>3. \A j \in k + 1 .. n : j \in k + 1 .. n + 1
    BY <1>1
  <2> QED
    BY <1>1, <1>5, <2>1, <2>2, <2>3
<1>6. r \in Marks => (Gap(n + 2)' <=> Gap(n + 1))
  <2> SUFFICES ASSUME r \in Marks PROVE Gap(n + 2)' <=> Gap(n + 1)
    OBVIOUS
  <2>1. ~Usable(r)
    BY SlugsAssumption DEF Usable
  <2>2. ~Due(n + 1, n + 1, title')
    BY <1>1
  <2>3. \A k \in 1 .. n + 1 : k = n + 1 \/ k \in 1 .. n
    BY <1>1
  <2>4. 1 .. n \subseteq 1 .. n + 1
    BY <1>1
  <2> HIDE DEF Due
  <2> QED
    BY <1>2, <1>3, <1>5, <2>1, <2>2, <2>3, <2>4
<1>7. ~Usable(r) /\ r \notin Marks => (Gap(n + 2)' <=> ~Empty)
  <2> SUFFICES ASSUME ~Usable(r), r \notin Marks PROVE Gap(n + 2)' <=> ~Empty
    OBVIOUS
  <2>1. ASSUME Empty PROVE ~Gap(n + 2)'
    <3> SUFFICES ASSUME NEW k \in 1 .. n + 1, NEW j \in 1 .. k - 1, Usable(title'[j]) PROVE FALSE
      BY <1>2
    <3>1. j \in 1 .. n
      BY <1>1
    <3> QED
      BY <1>1, <2>1, <3>1 DEF Empty
  <2>2. ASSUME ~Empty PROVE Gap(n + 2)'
    <3>1. PICK j \in 1 .. n : Usable(title[j])
      BY <1>1, <2>2 DEF Empty
    <3>2. Usable(title'[j]) /\ j \in 1 .. (n + 1) - 1
      BY <1>1, <3>1
    <3>3. Due(n + 1, n + 1, title') /\ n + 1 \in 1 .. n + 1
      BY <1>1, <3>2
    <3> HIDE DEF Due
    <3> QED
      BY <1>2, <3>3
  <2> QED
    BY <2>1, <2>2
<1> QED
  BY <1>4, <1>6, <1>7

\* The rune that is read adds to the builder what its place contributes.
LEMMA ReadSpells == ASSUME SlugInv, SpellInv, Read PROVE SpellInv'
<1>1. PICK r \in Runes : title' = Append(title, r) /\ (KeepFolds(r) \/ SkipMark(r) \/ Separate(r))
  BY DEF Read
<1>0. PICK n \in Nat : n = Len(title)
  BY DEF SlugInv
<1> DEFINE x == Spelling(n + 1)'
<1>2. title \in Seq(Runes) /\ b \in Seq(Alphabet) /\ (b = <<>> <=> Empty) /\ pendingHyphen \in BOOLEAN
  BY DEF SlugInv, Slug
<1>3. /\ n \in Nat /\ title' # <<>> /\ Len(title') = n + 1 /\ title'[n + 1] = r
      /\ \A i \in 1 .. n + 1 : Gap(i)' <=> Gap(i)
      /\ \A i \in 1 .. n : Spelling(i)' = Spelling(i)
  BY <1>0, <1>1, <1>2, SpellingStep
<1>4. x = IF ~Usable(r) THEN <<>> ELSE (IF pendingHyphen THEN <<Hyphen>> ELSE <<>>) \o Fold[r]
  <2>1. Gap(n + 1)' <=> pendingHyphen
    BY <1>0, <1>3 DEF SpellInv
  <2> QED
    BY <1>3, <2>1 DEF Spelling, Usable
<1>5. x \in Seq(Alphabet)
  <2>1. Fold[r] \in Seq(Alphabet) /\ <<Hyphen>> \in Seq(Alphabet) /\ <<>> \in Seq(Alphabet)
    BY SlugsAssumption DEF Alphabet
  <2> QED
    <3> DEFINE h == IF pendingHyphen THEN <<Hyphen>> ELSE <<>>
    <3>1. h \in Seq(Alphabet)
      BY <2>1
    <3> HIDE DEF h
    <3>2. h \o Fold[r] \in Seq(Alphabet)
      BY <2>1, <3>1
    <3>3. x = IF ~Usable(r) THEN <<>> ELSE h \o Fold[r]
      BY <1>4 DEF h
    <3> HIDE DEF x
    <3> QED
      BY <2>1, <3>2, <3>3
<1> HIDE DEF x
<1>6. b' = b \o x /\ (pendingHyphen' <=> Gap(n + 2)')
  <2>1. CASE KeepFolds(r)
    <3>1. /\ Usable(r) /\ pendingHyphen' = FALSE
          /\ b' = b \o (IF pendingHyphen THEN <<Hyphen>> ELSE <<>>) \o Fold[r]
      BY <2>1 DEF KeepFolds
    <3>2. b' = b \o x
      <4>1. Fold[r] \in Seq(Alphabet) /\ <<Hyphen>> \in Seq(Alphabet) /\ <<>> \in Seq(Alphabet)
        BY SlugsAssumption DEF Alphabet
      <4>2. ASSUME NEW u \in Seq(Alphabet), NEW v \in Seq(Alphabet), NEW w \in Seq(Alphabet)
            PROVE  (u \o v) \o w = u \o (v \o w)
        OBVIOUS
      <4>3. (IF pendingHyphen THEN <<Hyphen>> ELSE <<>>) \in Seq(Alphabet)
        BY <4>1
      <4> DEFINE h == IF pendingHyphen THEN <<Hyphen>> ELSE <<>>
      <4>4. x = h \o Fold[r] /\ b' = (b \o h) \o Fold[r]
        BY <1>4, <3>1
      <4>5. h \in Seq(Alphabet)
        BY <4>3
      <4> HIDE DEF h
      <4> QED
        BY <1>2, <4>1, <4>2, <4>4, <4>5
    <3>3. ~Gap(n + 2)'
      BY <1>0, <1>1, <1>2, <3>1, GapStep
    <3> QED
      BY <3>1, <3>2, <3>3
  <2>2. CASE SkipMark(r)
    <3>1. r \in Marks /\ ~Usable(r) /\ b' = b /\ pendingHyphen' = pendingHyphen
      BY <2>2, SlugsAssumption DEF SkipMark, Usable
    <3>2. b \o <<>> = b
      BY <1>2
    <3>3. Gap(n + 2)' <=> Gap(n + 1)
      BY <1>0, <1>1, <1>2, <3>1, GapStep
    <3> QED
      BY <1>0, <1>4, <3>1, <3>2, <3>3 DEF SpellInv
  <2>3. CASE Separate(r)
    <3>1. r \notin Marks /\ ~Usable(r) /\ b' = b /\ pendingHyphen' = (b # <<>>)
      BY <2>3 DEF Separate
    <3>2. b \o <<>> = b
      BY <1>2
    <3>3. Gap(n + 2)' <=> ~Empty
      BY <1>0, <1>1, <1>2, <3>1, GapStep
    <3> QED
      BY <1>2, <1>4, <3>1, <3>2, <3>3
  <2> QED
    BY <1>1, <2>1, <2>2, <2>3
<1>7. JoinsTo(Spelled', b')
  <2>1. /\ Len(Spelled) = n /\ Len(Spelled') = n + 1
        /\ \A i \in 1 .. n : Spelled'[i] = Spelled[i]
        /\ Spelled'[n + 1] = x
    BY <1>0, <1>3 DEF Spelled, x
  <2>2. IF n = 0 THEN x = b \o x ELSE JoinsTo(Spelled, b)
    <3>1. n = 0 <=> title = <<>>
      BY <1>0, <1>2
    <3>2. <<>> \o x = x
      BY <1>5
    <3> QED
      BY <3>1, <3>2 DEF SpellInv
  <2> QED
    BY <1>3, <1>6, <2>1, <2>2, JoinExtended
<1>8. Gap(Len(title) + 1)' <=> Gap(n + 2)'
  <2>1. Len(title') + 1 = n + 2
    BY <1>3
  <2> QED
    BY <2>1 DEF Gap
<1>9. slug' = NotYet
  BY DEF Read
<1> QED
  BY <1>3, <1>6, <1>7, <1>8, <1>9 DEF SpellInv

LEMMA SpellNext == SlugInv /\ SpellInv /\ [SlugNext]_slugVars => SpellInv'
<1> SUFFICES ASSUME SlugInv, SpellInv, [SlugNext]_slugVars PROVE SpellInv'
  OBVIOUS
<1>1. CASE Call
  <2>1. title' = <<>> /\ b' = <<>> /\ pendingHyphen' = FALSE /\ slug' = NotYet
    BY <1>1 DEF Call
  <2>2. ~Gap(Len(title) + 1)'
    <3>1. Len(title') + 1 = 1
      BY <2>1
    <3> QED
      BY <3>1 DEF Gap
  <2> QED
    BY <2>1, <2>2 DEF SpellInv
<1>2. CASE Read
  BY <1>2, ReadSpells
<1>3. ASSUME UNCHANGED <<title, b, pendingHyphen>>, slug' = Cut(b) \/ slug' = slug PROVE SpellInv'
  <2>1. title' = title /\ b' = b /\ pendingHyphen' = pendingHyphen
    BY <1>3
  <2>2. Spelled' = Spelled /\ (Gap(Len(title) + 1)' <=> Gap(Len(title) + 1))
    BY <2>1 DEF Spelled, Spelling, Gap
  <2> QED
    BY <1>3, <2>1, <2>2 DEF SpellInv, Cut
<1>4. CASE Return \/ UNCHANGED slugVars
  BY <1>3, <1>4 DEF Return, slugVars
<1> QED
  BY <1>1, <1>2, <1>4 DEF SlugNext

\* What is returned is the longest prefix that may be.
LEMMA CutIsLongest ==
  ASSUME NEW s, Slug(s), s # <<>> => s[Len(s)] # Hyphen
  PROVE  LET ends == {m \in 1 .. Len(s) : m <= MaxSlugBaseLen /\ s[m] # Hyphen}
         IN Cut(s) = IF ends = {} THEN <<>> ELSE SubSeq(s, 1, Max(ends))
<1> DEFINE ends == {m \in 1 .. Len(s) : m <= MaxSlugBaseLen /\ s[m] # Hyphen}
<1>1. s \in Seq(Alphabet) /\ Len(s) \in Nat /\ (s = <<>> <=> Len(s) = 0) /\ MaxSlugBaseLen \in Nat \ {0}
  BY SlugsAssumption DEF Slug
<1>2. ASSUME NEW m \in ends, \A k \in ends : m >= k PROVE Max(ends) = m
  <2>1. Max(ends) \in ends /\ \A k \in ends : Max(ends) >= k
    BY <1>2, Zenon DEF Max
  <2> QED
    BY <1>1, <1>2, <2>1
<1>3. CASE s = <<>>
  <2>1. ends = {}
    BY <1>1, <1>3
  <2>2. Cut(s) = s
    BY <1>1, <1>3 DEF Cut
  <2> QED
    BY <1>3, <2>1, <2>2
<1>4. CASE s # <<>> /\ Len(s) <= MaxSlugBaseLen
  <2>1. Len(s) \in ends /\ \A k \in ends : Len(s) >= k
    BY <1>1, <1>4
  <2>2. Max(ends) = Len(s)
    BY <1>2, <2>1
  <2>3. SubSeq(s, 1, Len(s)) = s
    BY <1>1
  <2>4. Cut(s) = s
    BY <1>4 DEF Cut
  <2> QED
    BY <2>1, <2>2, <2>3, <2>4
<1>5. CASE ~(Len(s) <= MaxSlugBaseLen)
  <2> DEFINE t == SubSeq(s, 1, MaxSlugBaseLen)
             P(m) == /\ m > 0 => t[m] # Hyphen
                     /\ \A i \in m + 1 .. Len(t) : t[i] = Hyphen
             end == CHOOSE m \in 0 .. Len(t) : P(m)
  <2>1. Len(t) = MaxSlugBaseLen /\ \A i \in 1 .. MaxSlugBaseLen : t[i] = s[i]
    BY <1>1, <1>5
  <2>2. s[1] # Hyphen
    BY <1>1, <1>5 DEF Slug
  <2>3. \E m \in 0 .. Len(t) : P(m)
    <3>1. CASE s[MaxSlugBaseLen] # Hyphen
      <4>1. P(MaxSlugBaseLen)
        BY <1>1, <2>1, <3>1
      <4> QED
        BY <1>1, <2>1, <4>1
    <3>2. CASE s[MaxSlugBaseLen] = Hyphen
      <4>1. MaxSlugBaseLen > 1 /\ s[MaxSlugBaseLen - 1] # Hyphen
        BY <1>1, <1>5, <3>2 DEF Slug
      <4>2. P(MaxSlugBaseLen - 1)
        BY <1>1, <2>1, <3>2, <4>1
      <4> QED
        BY <1>1, <2>1, <4>1, <4>2
    <3> QED
      BY <3>1, <3>2
  <2>4. end \in 0 .. MaxSlugBaseLen /\ P(end)
    BY <2>1, <2>3
  <2>5. Cut(s) = SubSeq(t, 1, end)
    BY <1>5 DEF Cut, TrimRight
  <2> HIDE DEF end
  <2>6. end \in 1 .. MaxSlugBaseLen /\ s[end] # Hyphen
    BY <1>1, <2>1, <2>2, <2>4
  <2>7. end \in ends /\ \A k \in ends : end >= k
    BY <1>1, <1>5, <2>1, <2>4, <2>6
  <2>8. Max(ends) = end
    BY <1>2, <2>7
  <2>9. SubSeq(t, 1, end) = SubSeq(s, 1, end)
    BY <1>1, <1>5, <2>6
  <2> QED
    BY <2>5, <2>7, <2>8, <2>9
<1> QED
  BY <1>3, <1>4, <1>5

\* Slugify returns the words of the title, joined by single hyphens and cut where
\* they may be, for every title, alphabet and limit.
THEOREM SlugifyAlwaysReference == SlugSpec => []SlugifyIsReference
<1>1. SlugInv /\ SpellInv => SlugifyIsReference
  BY BuilderIsReference, CutIsLongest DEF SlugInv, SpellInv, SlugifyIsReference
<1>2. SlugInit => SpellInv
  BY SpellInit DEF SlugInit
<1> QED
  BY <1>1, <1>2, SlugsInit, SlugsNext, SpellNext, PTL DEF SlugSpec
=============================================================================
