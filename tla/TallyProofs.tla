---------------------------- MODULE TallyProofs ----------------------------
(***************************************************************************)
(* How the total of a storage map moves when one of its entries is written.*)
(* This stands in for the sum over a map, which would need induction.      *)
(***************************************************************************)
EXTENDS Tally, FiniteSetTheorems, FunctionTheorems, TLAPS

\* A unit of a map is a key together with a number up to the key's value.
LEMMA UnitsMember ==
  ASSUME NEW f, NEW u
  PROVE  u \in Units(f) <=> \E k \in DOMAIN f : \E i \in 1..f[k] : u = <<k, i>>
BY DEF Units

\* A map over a finite set with bounded values has finitely many units.
LEMMA UnitsFinite ==
  ASSUME NEW S, IsFiniteSet(S), NEW B \in Nat, NEW f \in [S -> 0..B]
  PROVE  IsFiniteSet(Units(f)) /\ Total(f) \in Nat
PROOF
<1>1. IsFiniteSet(1..B)
  BY FS_Interval
<1>2. IsFiniteSet(S \X (1..B))
  BY <1>1, FS_Product
<1>3. Units(f) \in SUBSET (S \X (1..B))
  <2> SUFFICES ASSUME NEW u \in Units(f) PROVE u \in S \X (1..B)
    OBVIOUS
  <2>1. PICK k \in S : \E i \in 1..f[k] : u = <<k, i>>
    BY UnitsMember
  <2>2. f[k] \in 0..B
    OBVIOUS
  <2> QED
    BY <2>1, <2>2
<1>4. IsFiniteSet(Units(f))
  BY <1>2, <1>3, FS_Subset
<1> QED
  BY <1>4, FS_CardinalityType DEF Total

\* An entry contributes its value to the total.
LEMMA EntrySize ==
  ASSUME NEW k, NEW v \in Nat
  PROVE  IsFiniteSet({k} \X (1..v)) /\ Cardinality({k} \X (1..v)) = v
PROOF
<1>1. IsFiniteSet({k}) /\ Cardinality({k}) = 1
  BY FS_Singleton
<1>2. IsFiniteSet(1..v) /\ Cardinality(1..v) = v
  BY FS_Interval
<1>3. /\ IsFiniteSet({k} \X (1..v))
      /\ Cardinality({k} \X (1..v)) = Cardinality({k}) * Cardinality(1..v)
  BY <1>1, <1>2, FS_Product
<1> QED
  BY <1>1, <1>2, <1>3

\* A map over a finite set has finitely many units, whatever its values.
LEMMA UnitsOfFinite ==
  ASSUME NEW S, IsFiniteSet(S), NEW f \in [S -> Nat]
  PROVE  IsFiniteSet(Units(f)) /\ Total(f) \in Nat
PROOF
<1> DEFINE Entries == {{k} \X (1..f[k]) : k \in S}
           entry == [k \in S |-> {k} \X (1..f[k])]
<1>1. entry \in Surjection(S, Entries)
  BY DEF Surjection
<1>2. IsFiniteSet(Entries)
  BY <1>1, FS_Surjection
<1>3. \A k \in S : IsFiniteSet({k} \X (1..f[k]))
  BY EntrySize
<1>4. \A T \in Entries : IsFiniteSet(T)
  BY <1>3
<1>5. IsFiniteSet(UNION Entries)
  <2> HIDE DEF Entries
  <2> QED
    BY <1>2, <1>4, FS_UNION
<1>6. Units(f) = UNION Entries
  BY DEF Units
<1> QED
  BY <1>5, <1>6, FS_CardinalityType DEF Total

\* Nothing adds up to nothing.
LEMMA TotalEmpty ==
  ASSUME NEW f, DOMAIN f = {}
  PROVE  Total(f) = 0
PROOF
<1>1. Units(f) = {}
  BY UnitsMember
<1> QED
  BY <1>1, FS_EmptySet DEF Total

\* Writing one entry changes the total by the difference of the values.
THEOREM TotalPut ==
  ASSUME NEW f, IsFiniteSet(Units(f)), \A x \in DOMAIN f : f[x] \in Nat,
         NEW k, NEW v \in Nat
  PROVE  /\ Total(Put(f, k, v)) \in Nat
         /\ Total(Put(f, k, v)) = Total(f) - GetOr(f, k, 0) + v
PROOF
<1> DEFINE g == Put(f, k, v)
           Rest == {u \in Units(f) : u[1] # k}
           old == GetOr(f, k, 0)
<1>2. old \in Nat
  BY DEF GetOr
<1>4. IsFiniteSet(Rest) /\ Cardinality(Rest) \in Nat
  BY FS_Subset, FS_CardinalityType
<1>5. Units(f) = Rest \cup ({k} \X (1..old))
  <2>1. ASSUME NEW u \in Units(f), u[1] = k PROVE u \in {k} \X (1..old)
    <3>1. PICK x \in DOMAIN f : \E i \in 1..f[x] : u = <<x, i>>
      BY UnitsMember
    <3>2. x = k /\ k \in DOMAIN f
      BY <2>1, <3>1
    <3> QED
      BY <3>1, <3>2 DEF GetOr
  <2>2. ASSUME NEW u \in {k} \X (1..old) PROVE u \in Units(f)
    <3>1. PICK i \in 1..old : u = <<k, i>>
      OBVIOUS
    <3>2. k \in DOMAIN f /\ old = f[k]
      BY <3>1 DEF GetOr
    <3> QED
      BY <3>1, <3>2, UnitsMember
  <2> QED
    BY <2>1, <2>2
<1>6. Units(g) = Rest \cup ({k} \X (1..v))
  <2>0. DOMAIN g = DOMAIN f \cup {k} /\ g[k] = v /\ \A x \in DOMAIN f : x # k => g[x] = f[x]
    BY DEF Put
  <2>1. ASSUME NEW u \in Units(g) PROVE u \in Rest \cup ({k} \X (1..v))
    <3>1. PICK x \in DOMAIN g : \E i \in 1..g[x] : u = <<x, i>>
      BY UnitsMember
    <3>2. CASE x = k
      BY <2>0, <3>1, <3>2
    <3>3. CASE x # k
      <4>1. x \in DOMAIN f /\ g[x] = f[x]
        BY <2>0, <3>1, <3>3
      <4>2. u \in Units(f) /\ u[1] # k
        BY <3>1, <3>3, <4>1, UnitsMember
      <4> QED
        BY <4>2
    <3> QED
      BY <3>2, <3>3
  <2>2. ASSUME NEW u \in Rest PROVE u \in Units(g)
    <3>1. PICK x \in DOMAIN f : \E i \in 1..f[x] : u = <<x, i>>
      BY <2>2, UnitsMember
    <3>2. x # k
      BY <2>2, <3>1
    <3>3. x \in DOMAIN g /\ g[x] = f[x]
      BY <2>0, <3>1, <3>2
    <3> HIDE DEF g
    <3> QED
      BY <3>1, <3>3, UnitsMember
  <2>3. ASSUME NEW u \in {k} \X (1..v) PROVE u \in Units(g)
    <3>1. PICK i \in 1..v : u = <<k, i>>
      OBVIOUS
    <3> HIDE DEF g
    <3> QED
      BY <2>0, <3>1, UnitsMember
  <2> QED
    BY <2>1, <2>2, <2>3
<1>7. \A n \in Nat : Rest \cap ({k} \X (1..n)) = {}
  OBVIOUS
<1>8. \A n \in Nat : /\ IsFiniteSet({k} \X (1..n))
                     /\ Cardinality({k} \X (1..n)) = n
  BY EntrySize
<1>9. \A n \in Nat : Cardinality(Rest \cup ({k} \X (1..n))) = Cardinality(Rest) + n
  <2> HIDE DEF Rest
  <2> SUFFICES ASSUME NEW n \in Nat
               PROVE  Cardinality(Rest \cup ({k} \X (1..n))) = Cardinality(Rest) + n
    OBVIOUS
  <2>1. Cardinality(Rest \cup ({k} \X (1..n)))
          = Cardinality(Rest) + n - Cardinality(Rest \cap ({k} \X (1..n)))
    BY <1>4, <1>8, FS_Union
  <2>2. Cardinality(Rest \cap ({k} \X (1..n))) = 0
    BY <1>7, FS_EmptySet
  <2> QED
    BY <1>4, <2>1, <2>2
<1>11. Total(f) = Cardinality(Rest) + old
  BY <1>2, <1>5, <1>9 DEF Total
<1>12. Total(g) = Cardinality(Rest) + v
  BY <1>6, <1>9 DEF Total
<1> HIDE DEF g, old, Rest
<1> QED
  BY <1>2, <1>4, <1>11, <1>12 DEF g, old

\* A total does not grow when entries are removed or get smaller.
LEMMA TotalMono ==
  ASSUME NEW S, IsFiniteSet(S), NEW T \in SUBSET S,
         NEW f \in [S -> Nat], NEW g \in [T -> Nat], \A x \in T : g[x] <= f[x]
  PROVE  Total(g) <= Total(f)
PROOF
<1>1. IsFiniteSet(Units(f))
  BY UnitsOfFinite
<1>2. Units(g) \in SUBSET Units(f)
  <2> SUFFICES ASSUME NEW u \in Units(g) PROVE u \in Units(f)
    OBVIOUS
  <2>1. PICK k \in T : \E i \in 1..g[k] : u = <<k, i>>
    BY UnitsMember
  <2>2. PICK i \in 1..g[k] : u = <<k, i>>
    BY <2>1
  <2>3. g[k] \in Nat /\ f[k] \in Nat /\ g[k] <= f[k]
    OBVIOUS
  <2>4. i \in 1..f[k]
    BY <2>3
  <2> QED
    BY <2>2, <2>4, UnitsMember
<1> QED
  BY <1>1, <1>2, FS_Subset DEF Total

\* u is a map over R; F has, for each group b of R by key, the group's total
\* under row[b].
GroupsOf(R, u, K, key, V, F, row) ==
    /\ IsFiniteSet(R) /\ u \in [R -> Nat] /\ key \in [R -> K]
    /\ IsFiniteSet(V) /\ F \in [V -> Nat] /\ row \in [K -> V]
    /\ \A b, c \in K : row[b] = row[c] => b = c
    /\ \A b \in K :
          F[row[b]] = Total([i \in {j \in R : key[j] = b} |-> u[i]])

\* The units of a map are those of its parts: adding up the totals of groups
\* loses nothing.
LEMMA TotalByGroups ==
  ASSUME NEW R, NEW u, NEW K, NEW key, NEW V, NEW F, NEW row,
         GroupsOf(R, u, K, key, V, F, row)
  PROVE  Total(u) <= Total(F)
PROOF
<1> DEFINE part(b) == [i \in {j \in R : key[j] = b} |-> u[i]]
           Numbering(b) == Bijection(Units(part(b)), 1..F[row[b]])
           num == [b \in K |-> CHOOSE f : f \in Numbering(b)]
           group(x) == key[x[1]]
           h == [x \in Units(u) |-> <<row[group(x)], num[group(x)][x]>>]
<1> USE DEF GroupsOf
<1>1. ASSUME NEW b \in K
      PROVE  num[b] \in Numbering(b)
  <2>1. part(b) \in [{j \in R : key[j] = b} -> Nat]
    OBVIOUS
  <2>2. IsFiniteSet({j \in R : key[j] = b})
    <3>1. {j \in R : key[j] = b} \in SUBSET R
      OBVIOUS
    <3> QED
      BY <3>1, FS_Subset
  <2>3. IsFiniteSet(Units(part(b)))
    <3> HIDE DEF part
    <3> QED
      BY <2>1, <2>2, UnitsOfFinite
  <2>4. F[row[b]] = Cardinality(Units(part(b)))
    BY DEF Total
  <2>5. ExistsBijection(Units(part(b)), 1..F[row[b]])
    <3> HIDE DEF part
    <3> QED
      BY <2>3, <2>4, FS_CardinalityType, Fun_ExistsBijSymmetric
  <2>6. \E f : f \in Numbering(b)
    BY <2>5 DEF ExistsBijection
  <2> HIDE DEF Numbering
  <2> QED
    BY <2>6
<1>2. ASSUME NEW x \in Units(u)
      PROVE  /\ group(x) \in K
             /\ x \in Units(part(group(x)))
  <2>1. PICK k \in R : \E n \in 1..u[k] : x = <<k, n>>
    BY UnitsMember
  <2>2. group(x) = key[k] /\ key[k] \in K
    BY <2>1
  <2>3. k \in DOMAIN part(key[k]) /\ part(key[k])[k] = u[k]
    OBVIOUS
  <2>4. x \in Units(part(key[k]))
    <3> HIDE DEF part
    <3> QED
      BY <2>1, <2>3, UnitsMember
  <2> QED
    BY <2>2, <2>4
<1> HIDE DEF part, num
<1>3. ASSUME NEW x \in Units(u)
      PROVE  h[x] \in Units(F)
  <2>1. PICK b \in K : b = group(x) /\ x \in Units(part(b))
    BY <1>2
  <2>2. num[b][x] \in 1..F[row[b]]
    BY <1>1, <2>1, Fun_BijectionProperties
  <2>3. h[x] = <<row[b], num[b][x]>>
    BY <2>1
  <2>4. row[b] \in V /\ DOMAIN F = V
    OBVIOUS
  <2> QED
    BY <2>2, <2>3, <2>4, UnitsMember
<1>4. ASSUME NEW x \in Units(u), NEW y \in Units(u), h[x] = h[y]
      PROVE  x = y
  <2>1. PICK b \in K : b = group(x) /\ x \in Units(part(b))
    BY <1>2
  <2>2. PICK c \in K : c = group(y) /\ y \in Units(part(c))
    BY <1>2
  <2>3. h[x] = <<row[b], num[b][x]>> /\ h[y] = <<row[c], num[c][y]>>
    BY <2>1, <2>2
  <2>4. b = c /\ num[b][x] = num[b][y]
    BY <1>4, <2>3
  <2> QED
    BY <1>1, <2>1, <2>2, <2>4, Fun_BijectionProperties
<1>5. h \in Injection(Units(u), Units(F))
  <2>1. h \in [Units(u) -> Units(F)]
    BY <1>3
  <2>2. \A x, y \in Units(u) : h[x] = h[y] => x = y
    BY <1>4
  <2> HIDE DEF h
  <2> QED
    BY <2>1, <2>2, Fun_IsInj
<1>6. IsFiniteSet(Units(F))
  BY UnitsOfFinite
<1> HIDE DEF h
<1> QED
  BY <1>5, <1>6, FS_Injection DEF Total
============================================================================
