-------------------------- MODULE ScanOrderProofs --------------------------
(***************************************************************************)
(* A scan visits every member of a finite set of slots once, lowest first. *)
(* The position of a member is the number of members below it: a member    *)
(* has fewer below it than a higher one has, so that no two share a        *)
(* position, and as many positions as members leave no position empty.     *)
(***************************************************************************)
EXTENDS ScanOrder, Sequences, Functions, FiniteSetTheorems, TLAPS

\* There is a function that lists S upwards, so that Upwards(S) is one.
LEMMA UpwardsLists ==
    ASSUME NEW S \in SUBSET Nat, IsFiniteSet(S)
    PROVE  /\ Upwards(S) \in [1..Cardinality(S) -> S]
           /\ \A i, j \in 1..Cardinality(S) : i < j => Upwards(S)[i] < Upwards(S)[j]
<1> DEFINE n == Cardinality(S)
           Below(x) == {y \in S : y < x}
           f == [x \in S |-> Cardinality(Below(x)) + 1]
           g == [i \in 1..n |-> CHOOSE x \in S : f[x] = i]
<1>0. n \in Nat
  BY FS_CardinalityType
<1>1. ASSUME NEW x \in S
      PROVE  f[x] \in 1..n
  <2>1. Below(x) \in SUBSET S /\ x \notin Below(x)
    OBVIOUS
  <2>2. /\ IsFiniteSet(Below(x)) /\ Cardinality(Below(x)) <= n
        /\ n = Cardinality(Below(x)) => S = Below(x)
    BY <2>1, FS_Subset
  <2>3. Cardinality(Below(x)) \in Nat
    BY <2>2, FS_CardinalityType
  <2>4. S # Below(x)
    BY <2>1
  <2> HIDE DEF n, Below
  <2> QED
    BY <1>0, <2>2, <2>3, <2>4
<1>2. ASSUME NEW x \in S, NEW y \in S, x < y
      PROVE  f[x] < f[y]
  <2>1. Below(x) \in SUBSET Below(y)
    <3>1. \A z \in S : z < x => z < y
      BY <1>2
    <3> QED
      BY Zenon, <3>1
  <2>2. x \in Below(y) /\ x \notin Below(x) /\ Below(y) \in SUBSET S
    BY <1>2
  <2>3. IsFiniteSet(Below(y))
    BY <2>2, FS_Subset
  <2>4. /\ IsFiniteSet(Below(x)) /\ Cardinality(Below(x)) <= Cardinality(Below(y))
        /\ Cardinality(Below(y)) = Cardinality(Below(x)) => Below(y) = Below(x)
    BY <2>1, <2>3, FS_Subset
  <2>5. Cardinality(Below(x)) \in Nat /\ Cardinality(Below(y)) \in Nat
    BY <2>3, <2>4, FS_CardinalityType
  <2>6. Below(y) # Below(x)
    BY <2>2
  <2> HIDE DEF Below
  <2> QED
    BY <2>4, <2>5, <2>6
<1>3. f \in Injection(S, 1..n)
  <2>1. f \in [S -> 1..n]
    BY <1>1
  <2>2. ASSUME NEW x \in S, NEW y \in S, f[x] = f[y] PROVE x = y
    <3>1. f[x] \in Nat /\ f[y] \in Nat
      BY <1>1
    <3> HIDE DEF f
    <3>2. ~(x < y) /\ ~(y < x)
      BY <1>2, <2>2, <3>1
    <3> QED
      BY <3>2
  <2> HIDE DEF f, n
  <2> QED
    BY <2>1, <2>2 DEF Injection, IsInjective
<1>4. f \in Surjection(S, 1..n)
  <2>1. IsFiniteSet(1..n) /\ Cardinality(1..n) = n
    BY <1>0, FS_Interval
  <2> HIDE DEF f
  <2> QED
    BY <1>3, <2>1, FS_Injection
<1>5. ASSUME NEW i \in 1..n PROVE g[i] \in S /\ f[g[i]] = i
  <2>1. \E x \in S : f[x] = i
    BY Zenon, <1>4 DEF Surjection
  <2> HIDE DEF f
  <2> QED
    BY <2>1
<1> HIDE DEF f
<1>6. g \in [1..n -> S]
  BY <1>5
<1>7. ASSUME NEW i \in 1..n, NEW j \in 1..n, i < j
      PROVE  g[i] < g[j]
  <2>1. g[i] \in S /\ g[j] \in S /\ f[g[i]] = i /\ f[g[j]] = j
    BY <1>5
  <2> HIDE DEF g
  <2>2. ~(g[j] < g[i])
    <3>1. g[j] < g[i] => f[g[j]] < f[g[i]]
      BY Zenon, <1>2, <2>1
    <3> QED
      BY <1>0, <1>7, <2>1, <3>1
  <2>3. g[i] # g[j]
    BY <1>7, <2>1
  <2>4. g[i] \in Nat /\ g[j] \in Nat
    BY Zenon, <2>1
  <2> QED
    BY <2>2, <2>3, <2>4
<1> HIDE DEF g
<1>8. \E s \in [1..n -> S] : \A i, j \in 1..n : i < j => s[i] < s[j]
  BY Zenon, <1>6, <1>7
<1> QED
  BY Zenon, <1>8 DEF Upwards

\* The scan is a sequence without repetition whose elements are the members.
LEMMA UpwardsOrder ==
    ASSUME NEW S \in SUBSET Nat, IsFiniteSet(S)
    PROVE  /\ Upwards(S) \in Seq(S) /\ Len(Upwards(S)) = Cardinality(S)
           /\ \A i, j \in 1..Len(Upwards(S)) : Upwards(S)[i] = Upwards(S)[j] => i = j
           /\ \A x \in S : \E i \in 1..Len(Upwards(S)) : Upwards(S)[i] = x
<1> DEFINE n == Cardinality(S)
           s == Upwards(S)
<1>0. n \in Nat
  BY FS_CardinalityType
<1>1. s \in [1..n -> S] /\ \A i, j \in 1..n : i < j => s[i] < s[j]
  BY UpwardsLists
<1> HIDE DEF s
<1>2. s \in Seq(S) /\ Len(s) = n
  BY <1>0, <1>1
<1>3. ASSUME NEW i \in 1..n, NEW j \in 1..n, s[i] = s[j] PROVE i = j
  <2>1. s[i] \in Nat /\ s[j] \in Nat
    BY Zenon, <1>1
  <2>2. ~(i < j) /\ ~(j < i)
    BY <1>1, <1>3, <2>1
  <2> QED
    BY <1>0, <2>2
<1>4. s \in Injection(1..n, S)
  BY <1>1, <1>3 DEF Injection, IsInjective
<1>5. Cardinality(1..n) = n
  BY <1>0, FS_Interval
<1>6. s \in Surjection(1..n, S)
  BY <1>4, <1>5, FS_Injection
<1>7. \A x \in S : \E i \in 1..n : s[i] = x
  BY <1>6 DEF Surjection
<1> QED
  BY <1>2, <1>3, <1>7 DEF s

\* The last one visited is the highest.
LEMMA HighestVisited ==
    ASSUME NEW S \in SUBSET Nat, IsFiniteSet(S), S # {}
    PROVE  \E m \in S : \A x \in S : m >= x
<1> DEFINE n == Cardinality(S)
           s == Upwards(S)
<1>1. n \in Nat /\ n # 0
  BY FS_CardinalityType, FS_EmptySet
<1>2. s \in [1..n -> S] /\ \A i, j \in 1..n : i < j => s[i] < s[j]
  BY UpwardsLists
<1>3. \A x \in S : \E i \in 1..n : s[i] = x
  BY UpwardsOrder
<1> HIDE DEF n, s
<1>a. n \in 1..n
  BY <1>1
<1>b. s[n] \in S
  BY <1>2, <1>a
<1>4. ASSUME NEW x \in S PROVE s[n] >= x
  <2>1. PICK i \in 1..n : s[i] = x
    BY <1>3
  <2>2. s[n] \in Nat /\ s[i] \in Nat
    BY Zenon, <1>b, <2>1
  <2>3. CASE i = n
    BY <2>1, <2>2, <2>3
  <2>4. CASE i # n
    <3>1. i < n /\ n \in 1..n
      BY <1>1, <2>4
    <3>2. s[i] < s[n]
      BY <1>2, <3>1
    <3> QED
      BY <2>1, <2>2, <3>2
  <2> QED
    BY <2>3, <2>4
<1> QED
  BY Zenon, <1>b, <1>4
=============================================================================
