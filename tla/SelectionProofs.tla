--------------------------- MODULE SelectionProofs ---------------------------
(***************************************************************************)
(* What taking rows of a table gives, for every table.  That each number   *)
(* from 1 to the number of rows is the rank of exactly one row is a matter *)
(* of counting; induction over the numbers is an argument about the least  *)
(* counterexample.                                                         *)
(***************************************************************************)
EXTENDS Selection, FiniteSetTheorems, SequenceTheorems, WellFoundedInduction, TLAPS

\* A set of numbers has a least member.
LEMMA Least ==
  ASSUME NEW S \in SUBSET Nat, S # {}
  PROVE  \E m \in S : \A k \in S : m <= k
  <1>1. IsWellFoundedOn(OpToRel(<, Nat), Nat)
    BY NatLessThanWellFounded
  <1>2. PICK m \in S : \A k \in S : <<k, m>> \notin OpToRel(<, Nat)
    BY <1>1, WFMin
  <1>3. \A k \in S : ~(k < m)
    BY <1>2 DEF OpToRel
  <1> QED
    BY <1>3

\* Members of the table that come before k, k among them.
Upto(K, key, k) == {j \in K : Before(key, j, k)}

LEMMA RankOrder ==
  ASSUME NEW K \in SUBSET Int, IsFiniteSet(K), NEW key, \A k \in K : key[k] \in Int,
         NEW j \in K, NEW k \in K, j # k, Before(key, j, k)
  PROVE  Cardinality(Upto(K, key, j)) < Cardinality(Upto(K, key, k))
  <1>1. ASSUME NEW i \in K, Before(key, i, j)
        PROVE  Before(key, i, k)
    <2>1. /\ key[i] \in Int /\ key[j] \in Int /\ key[k] \in Int
          /\ i \in Int /\ j \in Int /\ k \in Int
      OBVIOUS
    <2> QED
      BY <1>1, <2>1 DEF Before
  <1>2. k \in Upto(K, key, k) /\ k \notin Upto(K, key, j)
    BY DEF Upto, Before
  <1>3. IsFiniteSet(Upto(K, key, k))
    BY FS_Subset DEF Upto
  <1>4. /\ IsFiniteSet(Upto(K, key, j))
        /\ Cardinality(Upto(K, key, j)) <= Cardinality(Upto(K, key, k))
        /\ Cardinality(Upto(K, key, j)) # Cardinality(Upto(K, key, k))
    <2>1. Upto(K, key, j) \in SUBSET Upto(K, key, k)
      BY <1>1 DEF Upto
    <2> QED
      BY <2>1, <1>2, <1>3, FS_Subset
  <1>5. Cardinality(Upto(K, key, j)) \in Nat /\ Cardinality(Upto(K, key, k)) \in Nat
    BY <1>3, <1>4, FS_CardinalityType
  <1> QED
    BY <1>4, <1>5

LEMMA RankRange ==
  ASSUME NEW K \in SUBSET Int, IsFiniteSet(K), NEW key, \A k \in K : key[k] \in Int,
         NEW k \in K
  PROVE  Cardinality(Upto(K, key, k)) \in 1..Cardinality(K)
  <1>1. Upto(K, key, k) \in SUBSET K /\ k \in Upto(K, key, k)
    BY DEF Upto, Before
  <1>2. /\ IsFiniteSet(Upto(K, key, k))
        /\ Cardinality(Upto(K, key, k)) <= Cardinality(K)
    BY <1>1, FS_Subset
  <1>3. Cardinality(Upto(K, key, k)) \in Nat /\ Cardinality(Upto(K, key, k)) # 0
        /\ Cardinality(K) \in Nat
    BY <1>1, <1>2, FS_CardinalityType, FS_EmptySet
  <1> QED
    BY <1>2, <1>3

LEMMA RankOne ==
  ASSUME NEW K \in SUBSET Int, IsFiniteSet(K), NEW key, \A k \in K : key[k] \in Int,
         NEW j \in K, NEW k \in K, j # k
  PROVE  Cardinality(Upto(K, key, j)) # Cardinality(Upto(K, key, k))
  <1>1. Before(key, j, k) \/ Before(key, k, j)
    BY DEF Before
  <1>2. Cardinality(Upto(K, key, j)) \in Int /\ Cardinality(Upto(K, key, k)) \in Int
    BY RankRange, FS_CardinalityType
  <1>3. \/ Cardinality(Upto(K, key, j)) < Cardinality(Upto(K, key, k))
        \/ Cardinality(Upto(K, key, k)) < Cardinality(Upto(K, key, j))
    BY <1>1, RankOrder
  <1> QED
    BY <1>2, <1>3

\* Numbering is one to one, onto, and in the order of the key.
LEMMA Arranging ==
  ASSUME NEW K \in SUBSET Int, IsFiniteSet(K), NEW key, \A k \in K : key[k] \in Int
  PROVE  /\ Arranged(K, key) \in [1..Cardinality(K) -> K]
         /\ \A k \in K : \E n \in 1..Cardinality(K) : Arranged(K, key)[n] = k
         /\ \A m, n \in 1..Cardinality(K) :
              /\ Arranged(K, key)[m] = Arranged(K, key)[n] => m = n
              /\ m < n => Before(key, Arranged(K, key)[m], Arranged(K, key)[n])
         /\ \A n \in 1..Cardinality(K) : Cardinality(Upto(K, key, Arranged(K, key)[n])) = n
         /\ Cardinality(K) \in Nat
  <1> DEFINE N == Cardinality(K)
             rank == [k \in K |-> Cardinality(Upto(K, key, k))]
  <1>1. N \in Nat
    BY FS_CardinalityType
  <1>2. rank \in [K -> 1..N]
    BY RankRange
  <1>3. ASSUME NEW j \in K, NEW k \in K, j # k
        PROVE  rank[j] # rank[k]
    BY <1>3, RankOne
  <1>4. rank \in Injection(K, 1..N)
    BY <1>2, <1>3 DEF Injection, IsInjective
  <1>5. IsFiniteSet(1..N) /\ Cardinality(1..N) = N
    BY <1>1, FS_Interval
  <1>6. rank \in Surjection(K, 1..N)
    BY <1>4, <1>5, FS_Injection
  <1>7. ASSUME NEW n \in 1..N
        PROVE  Arranged(K, key)[n] \in K /\ rank[Arranged(K, key)[n]] = n
    <2>1. \E k \in K : rank[k] = n
      BY <1>6 DEF Surjection
    <2>2. \E k \in K : Cardinality({j \in K : Before(key, j, k)}) = n
      BY <2>1 DEF Upto
    <2>3. Arranged(K, key)[n] = CHOOSE k \in K : Cardinality({j \in K : Before(key, j, k)}) = n
      BY DEF Arranged
    <2>4. Arranged(K, key)[n] \in K
          /\ Cardinality({j \in K : Before(key, j, Arranged(K, key)[n])}) = n
      BY <2>2, <2>3
    <2> QED
      BY <2>4 DEF Upto
  <1>8. Arranged(K, key) \in [1..N -> K]
    BY <1>7 DEF Arranged
  <1>9. ASSUME NEW k \in K PROVE \E n \in 1..N : Arranged(K, key)[n] = k
    <2>1. rank[k] \in 1..N
      BY <1>2
    <2>2. Arranged(K, key)[rank[k]] \in K /\ rank[Arranged(K, key)[rank[k]]] = rank[k]
      BY <1>7, <2>1
    <2> QED
      BY <1>3, <2>1, <2>2
  <1>10. ASSUME NEW m \in 1..N, NEW n \in 1..N, m < n
         PROVE  Before(key, Arranged(K, key)[m], Arranged(K, key)[n])
                /\ Arranged(K, key)[m] # Arranged(K, key)[n]
    <2>1. PICK j \in K, k \in K : j = Arranged(K, key)[m] /\ k = Arranged(K, key)[n]
                                  /\ rank[j] = m /\ rank[k] = n
      BY <1>7
    <2>2. j # k /\ ~Before(key, k, j)
      <3>1. j # k
        BY <1>1, <1>10, <2>1
      <3>2. Before(key, k, j) => rank[k] < rank[j]
        BY <3>1, RankOrder
      <3> QED
        BY <1>1, <1>10, <2>1, <3>1, <3>2
    <2>3. Before(key, j, k)
      BY <2>2 DEF Before
    <2> QED
      BY <2>1, <2>2, <2>3
  <1>11. ASSUME NEW m \in 1..N, NEW n \in 1..N, Arranged(K, key)[m] = Arranged(K, key)[n]
         PROVE  m = n
    BY <1>7, <1>11
  <1> QED
    BY <1>1, <1>7, <1>8, <1>9, <1>10, <1>11

LEMMA Arrangement ==
  ASSUME NEW K \in SUBSET Int, IsFiniteSet(K), NEW key, \A k \in K : key[k] \in Int
  PROVE  /\ Arranged(K, key) \in [1..Cardinality(K) -> K]
         /\ \A k \in K : \E n \in 1..Cardinality(K) : Arranged(K, key)[n] = k
         /\ \A m, n \in 1..Cardinality(K) :
              /\ Arranged(K, key)[m] = Arranged(K, key)[n] => m = n
              /\ m < n => Before(key, Arranged(K, key)[m], Arranged(K, key)[n])
         /\ Cardinality(K) \in Nat
  BY Arranging

\* Held gives back the function that it is given.
LEMMA HeldSame ==
  ASSUME NEW n \in Nat, NEW f, f = [i \in 1..n |-> f[i]]
  PROVE  Held(f) = f
  <1> DEFINE S == {f[i] : i \in 1..n}
  <1>1. f \in [1..n -> S]
    OBVIOUS
  <1> HIDE DEF S
  <1>2. f \in Seq(S)
    BY <1>1
  <1>3. f \o <<>> = f
    BY <1>2, ConcatEmptySeq
  <1> QED
    BY <1>3 DEF Held

\* The members of a set of numbers in ascending order, each once.
LEMMA Listing ==
  ASSUME NEW K \in SUBSET Int, IsFiniteSet(K)
  PROVE  /\ Listed(K) \in [1..Cardinality(K) -> K]
         /\ \A k \in K : \E n \in 1..Cardinality(K) : Listed(K)[n] = k
         /\ \A m, n \in 1..Cardinality(K) : m < n => Listed(K)[m] < Listed(K)[n]
         /\ Cardinality(K) \in Nat
  <1> DEFINE id == [k \in K |-> k]
  <1>1. (\A k \in K : id[k] \in Int) /\ Listed(K) = Arranged(K, id)
    <2>1. ASSUME NEW k \in K PROVE Upto(K, id, k) = {j \in K : j <= k}
      <3>1. \A j \in K : Before(id, j, k) <=> j <= k
        BY DEF Before
      <3> QED
        BY <3>1 DEF Upto
    <2>2. \A k \in K : id[k] \in Int
      OBVIOUS
    <2> HIDE DEF id
    <2>3. ASSUME NEW n \in 1..Cardinality(K) PROVE Listed(K)[n] = Arranged(K, id)[n]
      <3>1. PICK a \in K : a = Arranged(K, id)[n] /\ Cardinality(Upto(K, id, a)) = n
        BY <2>2, Arranging
      <3>2. Cardinality({j \in K : j <= a}) = n
        BY <2>1, <3>1
      <3>3. Listed(K)[n] = CHOOSE k \in K : Cardinality({j \in K : j <= k}) = n
        BY DEF Listed
      <3>4. PICK c \in K : c = Listed(K)[n] /\ Cardinality({j \in K : j <= c}) = n
        BY <3>2, <3>3
      <3>5. Cardinality(Upto(K, id, c)) = Cardinality(Upto(K, id, a))
        BY <2>1, <3>1, <3>4
      <3> QED
        BY <2>2, <3>1, <3>4, <3>5, RankOne
    <2>4. Listed(K) = Arranged(K, id)
      BY <2>3 DEF Listed, Arranged
    <2> QED
      BY <2>2, <2>4
  <1> HIDE DEF id
  <1>2. /\ Listed(K) \in [1..Cardinality(K) -> K]
        /\ \A k \in K : \E n \in 1..Cardinality(K) : Listed(K)[n] = k
        /\ Cardinality(K) \in Nat
    BY <1>1, Arrangement
  <1>3. ASSUME NEW m \in 1..Cardinality(K), NEW n \in 1..Cardinality(K), m < n
        PROVE  Listed(K)[m] < Listed(K)[n]
    <2>1. Before(id, Listed(K)[m], Listed(K)[n]) /\ Listed(K)[m] # Listed(K)[n]
      BY <1>1, <1>3, Arrangement, FS_CardinalityType
    <2>2. Listed(K)[m] \in K /\ Listed(K)[n] \in K
      BY <1>2
    <2> QED
      BY <2>1, <2>2 DEF Before, id
  <1> QED
    BY <1>2, <1>3

\* list numbers the members of K in their order, and new holds these rows of s.
Lists(new, s, K, list, m) ==
  /\ DOMAIN new = 1..m
  /\ \A i \in 1..m : list[i] \in K /\ new[i] = s[list[i]]
  /\ \A k \in K : \E i \in 1..m : list[i] = k
  /\ \A i, j \in 1..m : i < j => list[i] < list[j]

\* The rows K of a table: each of them once, in the order of the table.
LEMMA Selected ==
  ASSUME NEW n \in Nat, NEW s, NEW K \in SUBSET (1..n)
  PROVE  Cardinality(K) \in 0..n /\ Lists(Rows(s, K), s, K, Listed(K), Cardinality(K))
  <1>1. IsFiniteSet(1..n) /\ Cardinality(1..n) = n
    BY FS_Interval
  <1>2. IsFiniteSet(K) /\ Cardinality(K) <= n /\ K \in SUBSET Int
    <2>1. IsFiniteSet(K) /\ Cardinality(K) <= Cardinality(1..n)
      BY <1>1, FS_Subset
    <2> QED
      BY <1>1, <2>1
  <1>3. PICK list : list = Listed(K)
    OBVIOUS
  <1>4. PICK m : m = Cardinality(K)
    OBVIOUS
  <1>5. /\ m \in 0..n /\ list \in [1..m -> K]
        /\ \A k \in K : \E i \in 1..m : list[i] = k
        /\ \A i, j \in 1..m : i < j => list[i] < list[j]
    BY <1>2, <1>3, <1>4, Listing
  <1>6. Rows(s, K) = [i \in 1..m |-> s[list[i]]]
    BY <1>3, <1>4, <1>5, HeldSame DEF Rows
  <1>7. Lists(Rows(s, K), s, K, list, m)
    BY <1>5, <1>6 DEF Lists
  <1> QED
    BY <1>3, <1>4, <1>5, <1>7

\* A table arranged by a key holds the same rows, in the order of the key.
LEMMA Sorted ==
  ASSUME NEW n \in Nat, NEW s, DOMAIN s = 1..n,
         NEW key, Held(key) = key, \A i \in 1..n : key[i] \in Int,
         NEW order, order = Arranged(1..n, key)
  PROVE  /\ SortedBy(s, key) = [i \in 1..n |-> s[order[i]]] /\ order \in Surjection(1..n, 1..n)
         /\ \A i, j \in 1..n : (order[i] = order[j] => i = j) /\ (i < j => Before(key, order[i], order[j]))
  <1>1. IsFiniteSet(1..n) /\ Cardinality(1..n) = n
    BY FS_Interval
  <1>3. /\ order \in [1..n -> 1..n] /\ \A k \in 1..n : \E i \in 1..n : order[i] = k
        /\ \A i, j \in 1..n : (order[i] = order[j] => i = j) /\ (i < j => Before(key, order[i], order[j]))
    <2>1. PICK K : K = 1..n
      OBVIOUS
    <2>2. K \in SUBSET Int /\ IsFiniteSet(K) /\ Cardinality(K) = n /\ \A k \in K : key[k] \in Int
      BY <1>1, <2>1
    <2>3. order = Arranged(K, key)
      BY <2>1
    <2>4. /\ order \in [1..Cardinality(K) -> K]
          /\ \A k \in K : \E i \in 1..Cardinality(K) : order[i] = k
          /\ \A i, j \in 1..Cardinality(K) :
               (order[i] = order[j] => i = j) /\ (i < j => Before(key, order[i], order[j]))
      BY <2>2, <2>3, Arrangement
    <2> QED
      BY <2>1, <2>2, <2>4
  <1>5. SortedBy(s, key) = Held([i \in 1..n |-> s[order[i]]])
    BY DEF SortedBy
  <1>6. SortedBy(s, key) = [i \in 1..n |-> s[order[i]]]
    BY <1>5, HeldSame
  <1> QED
    BY <1>3, <1>6 DEF Surjection

-----------------------------------------------------------------------------
(* How often a row is in a table, and cutting a table in two.              *)

\* The places of a row in a table, and how many they are.
Places(s, row) == {i \in DOMAIN s : s[i] = row}
Occ(s, row)    == Cardinality(Places(s, row))

LEMMA PlacesFinite ==
  ASSUME NEW S, NEW s \in Seq(S), NEW row
  PROVE  IsFiniteSet(Places(s, row)) /\ Occ(s, row) \in Nat /\ DOMAIN s = 1..Len(s) /\ Len(s) \in Nat
  <1>1. DOMAIN s = 1..Len(s) /\ Len(s) \in Nat
    BY LenProperties
  <1>2. IsFiniteSet(1..Len(s))
    BY <1>1, FS_Interval
  <1>3. IsFiniteSet(Places(s, row))
    BY <1>1, <1>2, FS_Subset DEF Places
  <1> QED
    BY <1>1, <1>3, FS_CardinalityType DEF Occ

LEMMA OccMember ==
  ASSUME NEW S, NEW s \in Seq(S), NEW row
  PROVE  Occ(s, row) >= 1 <=> \E i \in DOMAIN s : s[i] = row
  <1>1. IsFiniteSet(Places(s, row)) /\ Occ(s, row) \in Nat
    BY PlacesFinite
  <1>2. Occ(s, row) = 0 <=> Places(s, row) = {}
    BY <1>1, FS_EmptySet DEF Occ
  <1> QED
    BY <1>1, <1>2 DEF Places

LEMMA OccDistinct ==
  ASSUME NEW S, NEW s \in Seq(S), NEW row, \A i, j \in DOMAIN s : s[i] = s[j] => i = j
  PROVE  Occ(s, row) <= 1
  <1>1. CASE Places(s, row) = {}
    <2>1. Cardinality({}) = 0
      BY FS_EmptySet
    <2> QED
      BY <1>1, <2>1 DEF Occ
  <1>2. CASE Places(s, row) # {}
    <2>1. PICK i : Places(s, row) = {i}
      BY <1>2 DEF Places
    <2>2. Cardinality({i}) = 1
      BY FS_Singleton
    <2> QED
      BY <2>1, <2>2 DEF Occ
  <1> QED
    BY <1>1, <1>2

LEMMA OccConcat ==
  ASSUME NEW S, NEW s \in Seq(S), NEW u \in Seq(S), NEW row
  PROVE  Occ(s \o u, row) = Occ(s, row) + Occ(u, row)
  <1>1. /\ DOMAIN s = 1..Len(s) /\ Len(s) \in Nat
        /\ DOMAIN u = 1..Len(u) /\ Len(u) \in Nat
        /\ IsFiniteSet(Places(s, row)) /\ IsFiniteSet(Places(u, row))
        /\ Occ(s, row) \in Nat /\ Occ(u, row) \in Nat
    BY PlacesFinite
  <1>2. /\ DOMAIN (s \o u) = 1..(Len(s) + Len(u))
        /\ \A i \in 1..(Len(s) + Len(u)) : (s \o u)[i] = IF i <= Len(s) THEN s[i] ELSE u[i - Len(s)]
    BY <1>1, ConcatProperties, LenProperties
  <1>3. PICK n \in Nat : n = Len(s)
    BY <1>1
  <1>4. PICK shifted : shifted = {i \in 1..(Len(s) + Len(u)) : i > n /\ i - n \in Places(u, row)}
    OBVIOUS
  <1>5. \A i \in Places(u, row) : i \in Nat /\ i >= 1 /\ i <= Len(u) /\ i + n \in shifted
    BY <1>1, <1>3, <1>4 DEF Places
  <1>6. Places(s \o u, row) = Places(s, row) \cup shifted
    <2>1. ASSUME NEW i \in 1..(Len(s) + Len(u)), i <= n
          PROVE  (i \in Places(s \o u, row) <=> i \in Places(s, row)) /\ i \notin shifted
      BY <1>1, <1>2, <1>3, <1>4, <2>1 DEF Places
    <2>2. ASSUME NEW i \in 1..(Len(s) + Len(u)), i > n
          PROVE  (i \in Places(s \o u, row) <=> i \in shifted) /\ i \notin Places(s, row)
      <3>1. i - n \in 1..Len(u) /\ (s \o u)[i] = u[i - n]
        BY <1>1, <1>2, <1>3, <2>2
      <3> QED
        BY <1>1, <1>2, <1>3, <1>4, <2>2, <3>1 DEF Places
    <2>3. /\ Places(s \o u, row) \in SUBSET (1..(Len(s) + Len(u)))
          /\ Places(s, row) \in SUBSET (1..(Len(s) + Len(u)))
          /\ shifted \in SUBSET (1..(Len(s) + Len(u)))
      BY <1>1, <1>2, <1>4 DEF Places
    <2>4. \A i \in 1..(Len(s) + Len(u)) : i <= n \/ i > n
      BY <1>1, <1>3
    <2> QED
      BY <2>1, <2>2, <2>3, <2>4
  <1>7. Places(s, row) \cap shifted = {}
    BY <1>1, <1>3, <1>4 DEF Places
  <1>8. IsFiniteSet(shifted) /\ Cardinality(shifted) = Occ(u, row)
    <2>1. PICK f : f = [i \in Places(u, row) |-> i + n]
      OBVIOUS
    <2>2. f \in [Places(u, row) -> shifted] /\ \A i, j \in Places(u, row) : f[i] = f[j] => i = j
      BY <1>5, <2>1
    <2>3. \A k \in shifted : k - n \in Places(u, row) /\ f[k - n] = k
      BY <1>1, <1>4, <2>1
    <2>4. f \in Bijection(Places(u, row), shifted)
      BY <2>2, <2>3 DEF Bijection, Injection, Surjection, IsInjective
    <2> QED
      BY <1>1, <2>4, FS_Bijection DEF ExistsBijection, Occ
  <1>9. Cardinality(Places(s, row) \cap shifted) = 0
    BY <1>7, FS_EmptySet
  <1>10. Cardinality(Places(s, row) \cup shifted)
            = Cardinality(Places(s, row)) + Cardinality(shifted) - Cardinality(Places(s, row) \cap shifted)
    BY <1>1, <1>8, FS_Union
  <1> QED
    BY <1>1, <1>6, <1>8, <1>9, <1>10 DEF Occ

\* first is the first n rows of s, rest the others.
Halves(first, rest, s, S, n) ==
  /\ first \in Seq(S) /\ rest \in Seq(S) /\ s = first \o rest
  /\ Len(first) = n /\ \A i \in 1..n : first[i] = s[i]
  /\ Len(rest) = Len(s) - n /\ \A i \in 1..(Len(s) - n) : rest[i] = s[n + i]

\* A sequence cut after its n-th place.
LEMMA Slices ==
  ASSUME NEW S, NEW s \in Seq(S), NEW n \in 1..Len(s)
  PROVE  Halves(SubSeq(s, 1, n), SubSeq(s, n + 1, Len(s)), s, S, n)
  <1>1. PICK l \in Nat : l = Len(s)
    BY LenProperties
  <1>2. \A i \in 1..l : s[i] \in S
    BY <1>1, ElementOfSeq
  <1>3. n \in Nat /\ 1 <= n /\ n <= l
    BY <1>1
  <1>4. PICK first : first = SubSeq(s, 1, n)
    OBVIOUS
  <1>5. PICK rest : rest = SubSeq(s, n + 1, l)
    OBVIOUS
  <1>6. first \in Seq(S) /\ Len(first) = n /\ \A i \in 1..n : first[i] = s[i]
    <2>1. \A i \in 1..n : s[i] \in S
      BY <1>2, <1>3
    <2>2. PICK m \in Int : m = 1
      OBVIOUS
    <2>3. /\ SubSeq(s, m, n) \in Seq(S)
          /\ Len(SubSeq(s, m, n)) = IF m <= n THEN n - m + 1 ELSE 0
          /\ \A i \in 1..(n - m + 1) : SubSeq(s, m, n)[i] = s[m + i - 1]
      BY <1>3, <2>1, <2>2, SubSeqProperties
    <2> QED
      BY <1>3, <1>4, <2>2, <2>3
  <1>7. rest \in Seq(S) /\ Len(rest) = l - n /\ \A i \in 1..(l - n) : rest[i] = s[n + i]
    <2>1. PICK m \in Int : m = n + 1
      BY <1>3
    <2>2. \A i \in m..l : s[i] \in S
      BY <1>2, <1>3, <2>1
    <2>3. /\ SubSeq(s, m, l) \in Seq(S)
          /\ Len(SubSeq(s, m, l)) = IF m <= l THEN l - m + 1 ELSE 0
          /\ \A i \in 1..(l - m + 1) : SubSeq(s, m, l)[i] = s[m + i - 1]
      BY <2>2, SubSeqProperties
    <2>4. rest = SubSeq(s, m, l)
      BY <1>5, <2>1
    <2>5. Len(rest) = l - n
      BY <1>3, <2>1, <2>3, <2>4
    <2>6. \A i \in 1..(l - n) : i \in 1..(l - m + 1) /\ m + i - 1 = n + i
      BY <1>3, <2>1
    <2> QED
      BY <2>3, <2>4, <2>5, <2>6
  <1>8. s = first \o rest
    <2>1. PICK m \in Int : m = 1
      OBVIOUS
    <2>2. m \in 1..(l + 1) /\ n \in (m - 1)..l /\ l \in n..l
      BY <1>3, <2>1
    <2>3. SubSeq(s, m, n) \o SubSeq(s, n + 1, l) = SubSeq(s, m, l)
      BY <1>1, <2>2, ConcatAdjacentSubSeq
    <2>4. SubSeq(s, 1, l) = s
      BY <1>1, SubSeqFull
    <2> QED
      BY <1>4, <1>5, <2>1, <2>3, <2>4
  <1>9. Halves(first, rest, s, S, n)
    BY <1>1, <1>6, <1>7, <1>8 DEF Halves
  <1> QED
    BY <1>1, <1>4, <1>5, <1>9

-----------------------------------------------------------------------------
(* Rows that are kept.                                                     *)

Distinct(s) == \A i, j \in DOMAIN s : s[i] = s[j] => i = j

\* The rows of a selection are rows of the table, each at most as often.
LEMMA RowsKept ==
  ASSUME NEW S, NEW s \in Seq(S), NEW K \in SUBSET DOMAIN s
  PROVE  /\ Rows(s, K) \in Seq(S)
         /\ \A i \in DOMAIN Rows(s, K) : \E k \in K : Rows(s, K)[i] = s[k]
         /\ \A k \in K : \E i \in DOMAIN Rows(s, K) : Rows(s, K)[i] = s[k]
         /\ Distinct(s) => Distinct(Rows(s, K))
  <1>1. Len(s) \in Nat /\ DOMAIN s = 1..Len(s) /\ \A i \in 1..Len(s) : s[i] \in S
    BY LenProperties, ElementOfSeq
  <1>2. PICK n : n = Cardinality(K)
    OBVIOUS
  <1>3. PICK list : list = Listed(K)
    OBVIOUS
  <1>4. /\ n \in Nat /\ DOMAIN Rows(s, K) = 1..n
        /\ \A i \in 1..n : list[i] \in K /\ Rows(s, K)[i] = s[list[i]]
        /\ \A k \in K : \E i \in 1..n : list[i] = k
        /\ \A i, j \in 1..n : i < j => list[i] < list[j]
    <2>1. K \in SUBSET (1..Len(s)) /\ Len(s) \in Nat
      BY <1>1
    <2>2. n \in 0..Len(s) /\ Lists(Rows(s, K), s, K, list, n)
      BY <1>2, <1>3, <2>1, Selected
    <2> QED
      BY <1>1, <2>2 DEF Lists
  <1>5. Rows(s, K) \in Seq(S)
    <2>1. Rows(s, K) = [i \in 1..n |-> s[list[i]]]
      BY <1>2, <1>3, <1>4, HeldSame DEF Rows
    <2>2. Rows(s, K) \in [1..n -> S]
      BY <1>1, <1>4, <2>1
    <2> QED
      BY <1>4, <2>2
  <1>6. Distinct(s) => Distinct(Rows(s, K))
    <2> SUFFICES ASSUME Distinct(s), NEW i \in 1..n, NEW j \in 1..n, Rows(s, K)[i] = Rows(s, K)[j]
                 PROVE  i = j
      BY <1>4 DEF Distinct
    <2>1. list[i] = list[j] /\ list[i] \in Int
      BY <1>1, <1>4 DEF Distinct
    <2>2. ~(i < j) /\ ~(j < i)
      BY <1>4, <2>1
    <2> QED
      BY <1>4, <2>2
  <1>7. \A i \in 1..n : \E k \in K : Rows(s, K)[i] = s[k]
    BY <1>4
  <1>8. \A k \in K : \E i \in 1..n : Rows(s, K)[i] = s[k]
    <2> SUFFICES ASSUME NEW k \in K PROVE \E i \in 1..n : Rows(s, K)[i] = s[k]
      OBVIOUS
    <2>1. PICK i \in 1..n : list[i] = k
      BY <1>4
    <2> QED
      BY <1>4, <2>1
  <1> QED
    BY <1>4, <1>5, <1>6, <1>7, <1>8

\* Two rows that are kept are kept in their order.
LEMMA RowsOrder ==
  ASSUME NEW S, NEW s \in Seq(S), NEW K \in SUBSET DOMAIN s
  PROVE  \A i, j \in DOMAIN Rows(s, K) : i < j =>
           \E k, l \in K : k < l /\ Rows(s, K)[i] = s[k] /\ Rows(s, K)[j] = s[l]
  <1>1. Len(s) \in Nat /\ DOMAIN s = 1..Len(s)
    BY LenProperties
  <1>2. PICK n : n = Cardinality(K)
    OBVIOUS
  <1>3. PICK list : list = Listed(K)
    OBVIOUS
  <1>4. K \in SUBSET (1..Len(s))
    BY <1>1
  <1>5. Lists(Rows(s, K), s, K, list, n)
    BY <1>1, <1>2, <1>3, <1>4, Selected
  <1> QED
    BY <1>5 DEF Lists

\* Who keeps every row keeps the table.
LEMMA RowsAll ==
  ASSUME NEW S, NEW s \in Seq(S)
  PROVE  Rows(s, DOMAIN s) = s
  <1>1. PICK n \in Nat : n = Len(s) /\ DOMAIN s = 1..n
    BY LenProperties
  <1>2. IsFiniteSet(1..n) /\ Cardinality(1..n) = n
    BY FS_Interval
  <1>3. PICK list : list = Listed(1..n)
    OBVIOUS
  <1>4. PICK K : K = 1..n
    OBVIOUS
  <1>5. K \in SUBSET (1..n)
    BY <1>4
  <1>6. Lists(Rows(s, K), s, K, Listed(K), Cardinality(K))
    BY <1>5, Selected
  <1>7. /\ DOMAIN Rows(s, 1..n) = 1..n
        /\ \A i \in 1..n : list[i] \in 1..n /\ Rows(s, 1..n)[i] = s[list[i]]
        /\ \A k \in 1..n : \E i \in 1..n : list[i] = k
        /\ \A i, j \in 1..n : i < j => list[i] < list[j]
    BY <1>2, <1>3, <1>4, <1>6 DEF Lists
  <1>8. \A i \in 1..n : list[i] = i
    <2> DEFINE B == {i \in 1..n : list[i] # i}
    <2> SUFFICES ASSUME B # {} PROVE FALSE
      OBVIOUS
    <2>1. PICK i \in B : \A j \in B : i <= j
      <3>1. B \in SUBSET Nat
        OBVIOUS
      <3> QED
        BY <3>1, Least
    <2>2. i \in 1..n /\ list[i] # i /\ \A j \in 1..n : j < i => list[j] = j
      BY <2>1
    <2>3. PICK m \in 1..n : list[m] = i
      BY <1>7, <2>2
    <2>4. i < m
      BY <2>2, <2>3
    <2>5. list[i] \in 1..n /\ list[i] < i
      BY <1>7, <2>2, <2>3, <2>4
    <2>6. list[list[i]] = list[i] /\ list[list[i]] < list[i]
      BY <1>7, <2>2, <2>5
    <2> QED
      BY <2>5, <2>6
  <1>9. Rows(s, DOMAIN s) \in Seq(S)
    BY RowsKept
  <1>10. Rows(s, 1..n) = s
    <2>1. \A i \in 1..n : Rows(s, 1..n)[i] = s[i]
      BY <1>7, <1>8
    <2>2. Rows(s, 1..n) \in [1..n -> S]
      <3>1. Rows(s, 1..n) \in Seq(S)
        BY <1>1, <1>9
      <3>2. Rows(s, 1..n) \in [1..Len(Rows(s, 1..n)) -> S]
        BY <3>1
      <3> QED
        BY <1>7, <3>2
    <2>3. s \in [1..n -> S]
      BY <1>1
    <2> QED
      BY <2>1, <2>2, <2>3
  <1> QED
    BY <1>1, <1>10
=============================================================================
