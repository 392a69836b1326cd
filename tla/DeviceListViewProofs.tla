----------------------- MODULE DeviceListViewProofs ------------------------
(***************************************************************************)
(* Proofs about the API's answers and the device table, for any number of  *)
(* devices, requests and effects and any order of rows and queries.        *)
(***************************************************************************)
EXTENDS DeviceListView, TallyProofs, WellFoundedInduction

\* A set of natural numbers has a least one.
LEMMA LeastExists ==
  ASSUME NEW S \in SUBSET Nat, S # {}
  PROVE  \E m \in S : \A x \in S : m <= x
PROOF
<1> DEFINE R == StrictSubsetOrdering(Nat)
           T == {0..x : x \in S}
<1>1. IsWellFoundedOn(R, FiniteSubsetsOf(Nat))
  BY FS_StrictSubsetOrderingWellFounded
<1>2. T \subseteq FiniteSubsetsOf(Nat) /\ T # {}
  <2>1. \A x \in S : 0..x \in SUBSET Nat /\ IsFiniteSet(0..x)
    BY FS_Interval
  <2> QED
    BY <2>1 DEF FiniteSubsetsOf
<1>3. PICK t \in T : \A u \in T : ~(<<u, t>> \in R)
  <2> HIDE DEF R, T
  <2> QED
    BY <1>1, <1>2, WFMin
<1>4. PICK m \in S : t = 0..m
  OBVIOUS
<1>5. ASSUME NEW x \in S, x < m PROVE FALSE
  <2>1. 0..x \subseteq 0..m /\ 0..x # 0..m
    BY <1>5
  <2>2. <<0..x, t>> \in R
    BY <1>4, <2>1 DEF StrictSubsetOrdering
  <2> QED
    BY <1>3, <2>2
<1> QED
  BY <1>5

\* A bounded set of natural numbers has a greatest one: its least bound.
LEMMA GreatestExists ==
  ASSUME NEW S \in SUBSET Nat, S # {}, NEW n \in Nat, \A x \in S : x <= n
  PROVE  \E m \in S : \A x \in S : x <= m
PROOF
<1> DEFINE B == {b \in Nat : \A x \in S : x <= b}
<1>1. n \in B /\ B \in SUBSET Nat
  OBVIOUS
<1>2. PICK m \in B : \A b \in B : m <= b
  BY <1>1, LeastExists
<1>3. CASE m \in S
  BY <1>2, <1>3
<1>4. CASE m \notin S
  <2>1. PICK x \in S : TRUE
    OBVIOUS
  <2>2. x <= m /\ x # m
    BY <1>2, <1>4
  <2>3. m - 1 \in B
    BY <1>2, <1>4, <2>1, <2>2
  <2> QED
    BY <1>2, <2>3
<1> QED
  BY <1>3, <1>4

\* MAX of SQL.
LEMMA MaxOf ==
  ASSUME NEW S \in SUBSET Nat, S # {}, NEW n \in Nat, \A x \in S : x <= n
  PROVE  Max(S) \in S /\ \A x \in S : x <= Max(S)
PROOF
<1>1. PICK m \in S : \A x \in S : m >= x
  BY GreatestExists
<1> QED
  BY <1>1 DEF Max

\* MIN of SQL.
LEMMA MinOf ==
  ASSUME NEW S \in SUBSET Nat, S # {}
  PROVE  Min(S) \in S /\ \A x \in S : Min(S) <= x
PROOF
<1>1. PICK m \in S : \A x \in S : m =< x
  BY LeastExists
<1> QED
  BY <1>1 DEF Min

----------------------------------------------------------------------------
(* Positions, numbers and totals of the log.                               *)

Reading == [device : Device, seq : Nat, units : Unit, cost : Unit,
            balance_after : Nat]

\* MeterLog counts and adds up as DeviceApi does.
LEMMA MeterCounts ==
  ASSUME NEW S
  PROVE  Meter!Cardinality(S) = Cardinality(S)
BY Zenon DEF Meter!Cardinality, Cardinality

LEMMA MeterAdds ==
  ASSUME NEW f
  PROVE  Meter!Total(f) = Total(f)
BY MeterCounts DEF Meter!Total, Meter!Units, Total, Units

\* What the fields of a reading are.
LEMMA Entries ==
  ASSUME ChainInv, NEW i \in DOMAIN log
  PROVE  /\ i \in Nat /\ i >= 1 /\ i <= Len(log)
         /\ log[i].device \in Device
         /\ log[i].seq \in Nat
         /\ log[i].units \in Nat
         /\ log[i].cost \in Nat
         /\ log[i].balance_after \in Nat
         /\ funded[log[i].device] \in Nat
PROOF
<1>1. log \in Seq(Reading)
  BY DEF ChainInv, Reading
<1>2. log[i] \in Reading /\ i \in 1..Len(log) /\ Len(log) \in Nat
  BY <1>1
<1>3. /\ log[i].device \in Device
      /\ log[i].seq \in Nat
      /\ log[i].units \in Unit
      /\ log[i].cost \in Unit
      /\ log[i].balance_after \in Nat
  BY <1>2 DEF Reading
<1>4. funded \in [Device -> Nat]
  BY DEF ChainInv
<1>5. Unit \subseteq Nat
  BY ApiAssumption
<1>6. i \in Nat /\ i >= 1 /\ i <= Len(log)
  BY <1>2
<1>7. log[i].units \in Nat /\ log[i].cost \in Nat
  BY <1>3, <1>5
<1>8. funded[log[i].device] \in Nat
  BY <1>3, <1>4
<1> QED
  BY <1>3, <1>6, <1>7, <1>8

\* The totals of rows of the log, and of fewer of them.
LEMMA RowTotals ==
  ASSUME ChainInv, NEW S \in SUBSET DOMAIN log
  PROVE  /\ IsFiniteSet(S)
         /\ Cardinality(S) \in Nat /\ UnitsOf(S) \in Nat /\ CostOf(S) \in Nat
         /\ \A T \in SUBSET S : /\ Cardinality(T) <= Cardinality(S)
                                /\ UnitsOf(T) <= UnitsOf(S)
                                /\ CostOf(T) <= CostOf(S)
PROOF
<1>1. IsFiniteSet(S)
  <2>1. log \in Seq(Reading)
    BY DEF ChainInv, Reading
  <2>2. S \in SUBSET (1..Len(log)) /\ Len(log) \in Nat
    BY <2>1
  <2>3. IsFiniteSet(1..Len(log))
    BY <2>2, FS_Interval
  <2> QED
    BY <2>2, <2>3, FS_Subset
<1> DEFINE u == [i \in S |-> log[i].units]
           c == [i \in S |-> log[i].cost]
<1>2. u \in [S -> Nat] /\ c \in [S -> Nat]
  BY Entries
<1>3. UnitsOf(S) = Total(u) /\ CostOf(S) = Total(c)
  BY DEF UnitsOf, CostOf
<1>4. /\ IsFiniteSet(S) /\ Cardinality(S) \in Nat
      /\ UnitsOf(S) \in Nat /\ CostOf(S) \in Nat
  <2> HIDE DEF u, c
  <2> QED
    BY <1>1, <1>2, <1>3, UnitsOfFinite, FS_CardinalityType
<1>5. ASSUME NEW T \in SUBSET S
      PROVE  /\ Cardinality(T) <= Cardinality(S)
             /\ UnitsOf(T) <= UnitsOf(S)
             /\ CostOf(T) <= CostOf(S)
  <2> DEFINE v == [i \in T |-> log[i].units]
             e == [i \in T |-> log[i].cost]
  <2>1. v \in [T -> Nat] /\ e \in [T -> Nat]
    BY Entries
  <2>2. UnitsOf(T) = Total(v) /\ CostOf(T) = Total(e)
    BY DEF UnitsOf, CostOf
  <2>3. \A x \in T : v[x] <= u[x] /\ e[x] <= c[x]
    BY Entries
  <2>4. Cardinality(T) <= Cardinality(S)
    BY <1>1, FS_Subset
  <2> HIDE DEF u, c, v, e
  <2> QED
    BY <1>1, <1>2, <1>3, <2>1, <2>2, <2>3, <2>4, TotalMono
<1> QED
  BY <1>4, <1>5

\* A reading is among those up to itself.
LEMMA BeforeFacts ==
  ASSUME ChainInv, NEW i \in DOMAIN log
  PROVE  /\ Before(i) \in SUBSET DOMAIN log
         /\ i \in Before(i)
         /\ \A j \in DOMAIN log : j \in Before(i) <=>
               j <= i /\ log[j].device = log[i].device
PROOF
<1>1. log \in Seq(Reading)
  BY DEF ChainInv, Reading
<1>2. DOMAIN log = 1..Len(log) /\ Len(log) \in Nat
  BY <1>1
<1> QED
  BY <1>2 DEF Before

\* Of two readings of a device the later one has the higher number.
LEMMA SeqOrder ==
  ASSUME ChainInv, NEW i \in DOMAIN log, NEW j \in DOMAIN log,
         log[i].device = log[j].device, i < j
  PROVE  log[i].seq < log[j].seq
PROOF
<1>1. Before(i) \in SUBSET Before(j) /\ j \notin Before(i) /\ j \in Before(j)
  BY BeforeFacts, Entries
<1>2. IsFiniteSet(Before(j)) /\ Cardinality(Before(i)) \in Nat
                             /\ Cardinality(Before(j)) \in Nat
  BY BeforeFacts, RowTotals
<1>3. /\ log[i].seq = Cardinality(Before(i))
      /\ log[j].seq = Cardinality(Before(j))
  BY DEF ChainInv
<1> QED
  BY <1>1, <1>2, <1>3, FS_Subset

\* The readings up to a number are those up to the reading with the number.
LEMMA UpToIs ==
  ASSUME ChainInv, NEW i \in DOMAIN log
  PROVE  UpTo(log[i].device, log[i].seq) = Before(i)
PROOF
<1>1. ASSUME NEW j \in DOMAIN log, log[j].device = log[i].device
      PROVE  log[j].seq <= log[i].seq <=> j <= i
  <2>1. log[j].seq \in Nat /\ log[i].seq \in Nat /\ i \in Nat /\ j \in Nat
    BY Entries
  <2>2. /\ i < j => log[i].seq < log[j].seq
        /\ j < i => log[j].seq < log[i].seq
    BY <1>1, SeqOrder
  <2> QED
    BY <2>1, <2>2
<1>2. \A j : j \in UpTo(log[i].device, log[i].seq) <=>
               /\ j \in DOMAIN log
               /\ log[j].device = log[i].device
               /\ log[j].seq <= log[i].seq
  BY DEF UpTo, Meter!ReadingsOf
<1> QED
  BY <1>1, <1>2, BeforeFacts

\* The row with the highest number is the last one.
LEMMA LatestOf ==
  ASSUME ChainInv, NEW d, NEW R \in SUBSET DOMAIN log, R # {},
         \A i \in R : log[i].device = d
  PROVE  Latest(R) \in R /\ \A j \in R : j <= Latest(R)
PROOF
<1>1. /\ Len(log) \in Nat
      /\ R \in SUBSET Nat /\ \A i \in R : i <= Len(log)
  BY Entries DEF ChainInv
<1>2. PICK p \in R : \A j \in R : j <= p
  BY <1>1, GreatestExists
<1>3. \A j \in R : log[j].seq <= log[p].seq
  <2> TAKE j \in R
  <2>1. j = p \/ j < p
    BY <1>1, <1>2
  <2>2. j < p => log[j].seq < log[p].seq
    BY SeqOrder
  <2> QED
    BY <2>1, <2>2, Entries
<1>4. Latest(R) \in R /\ \A j \in R : log[j].seq <= log[Latest(R)].seq
  BY <1>3 DEF Latest
<1>5. ~(Latest(R) < p)
  <2>1. Latest(R) < p => log[Latest(R)].seq < log[p].seq
    BY <1>4, SeqOrder
  <2>2. log[Latest(R)].seq \in Nat /\ log[p].seq \in Nat
    BY <1>4, Entries
  <2> QED
    BY <1>4, <2>1, <2>2
<1>6. p \in Nat /\ Latest(R) \in Nat
  BY <1>1, <1>4
<1>7. Latest(R) = p
  BY <1>2, <1>4, <1>5, <1>6
<1> QED
  BY <1>2, <1>7

\* Rows that contain all earlier rows of the device are those up to the last.
LEMMA ClosedRows ==
  ASSUME ChainInv, NEW d, NEW R \in SUBSET DOMAIN log, R # {},
         \A i \in R : log[i].device = d /\ Before(i) \subseteq R
  PROVE  R = Before(Latest(R))
PROOF
<1>1. Latest(R) \in R /\ \A j \in R : j <= Latest(R)
  BY LatestOf
<1>2. Before(Latest(R)) \subseteq R
  BY <1>1
<1>3. R \subseteq Before(Latest(R))
  BY <1>1, BeforeFacts
<1> QED
  BY <1>2, <1>3

----------------------------------------------------------------------------
(* The world only grows.                                                   *)

CacheTypes ==
    /\ cached \subseteq DOMAIN log
    /\ emitted_at \in [cached -> 0..MaxHour]
    /\ hour \in 0..MaxHour

WorldInv == CacheTypes /\ ChainInv

\* What every step does to the world: rows and readings stay what they are.
Grows ==
    /\ DOMAIN log \subseteq DOMAIN log'
    /\ \A i \in DOMAIN log : log'[i] = log[i]
    /\ \A i \in DOMAIN log' \ DOMAIN log :
          log'[i].seq = Cardinality(Meter!ReadingsOf(log'[i].device)) + 1
    /\ cached \subseteq cached' /\ cached' \subseteq DOMAIN log
    /\ \A i \in cached : emitted_at'[i] = emitted_at[i]
    /\ \A d \in Device : funded[d] <= funded'[d]

\* Totals of rows that are there do not change.
LEMMA TotalsSame ==
  ASSUME NEW R, \A i \in R : log'[i] = log[i]
  PROVE  UnitsOf(R)' = UnitsOf(R) /\ CostOf(R)' = CostOf(R)
PROOF
<1>1. [i \in R |-> log'[i].units] = [i \in R |-> log[i].units]
  OBVIOUS
<1>2. [i \in R |-> log'[i].cost] = [i \in R |-> log[i].cost]
  OBVIOUS
<1> QED
  BY <1>1, <1>2 DEF UnitsOf, CostOf

\* Neither do the readings up to one of them.
LEMMA BeforeSame ==
  ASSUME ChainInv, NEW i \in DOMAIN log, \A j \in DOMAIN log : log'[j] = log[j]
  PROVE  Before(i)' = Before(i) /\ CostOf(Before(i))' = CostOf(Before(i))
PROOF
<1>1. \A j \in 1..i : j \in DOMAIN log
  <2>1. log \in Seq(Reading)
    BY DEF ChainInv, Reading
  <2> QED
    BY <2>1
<1>2. PICK B : B = Before(i)
  OBVIOUS
<1>3. Before(i)' = B
  BY <1>1, <1>2 DEF Before
<1>4. CostOf(B)' = CostOf(B)
  <2>1. \A j \in B : log'[j] = log[j]
    BY <1>2, BeforeFacts
  <2> QED
    BY <2>1, TotalsSame
<1>5. CostOf(Before(i))' = CostOf(B)'
  BY <1>3 DEF CostOf
<1> QED
  BY <1>2, <1>3, <1>4, <1>5

\* deposit_funds
LEMMA DepositGrows ==
  ASSUME WorldInv, NEW d \in Device, NEW amount \in Amount, Deposit(d, amount)
  PROVE  WorldInv' /\ Grows
PROOF
<1>1. /\ log' = log /\ cached' = cached /\ emitted_at' = emitted_at
      /\ hour' = hour /\ funded' = [funded EXCEPT ![d] = @ + amount]
  BY DEF Deposit, Meter!Fund
<1>2. funded \in [Device -> Nat] /\ amount \in Nat
  BY ApiAssumption DEF WorldInv, ChainInv
<1>3. funded' \in [Device -> Nat] /\ \A x \in Device : funded[x] <= funded'[x]
  BY <1>1, <1>2
<1>4. ChainInv
  BY DEF WorldInv
<1>5. ASSUME NEW i \in DOMAIN log
      PROVE  /\ log[i].seq = Cardinality(Before(i)')
             /\ log[i].balance_after + CostOf(Before(i))' <= funded'[log[i].device]
  <2>1. Before(i)' = Before(i) /\ CostOf(Before(i))' = CostOf(Before(i))
    BY <1>1, <1>4, BeforeSame
  <2>2. /\ log[i].seq = Cardinality(Before(i))
        /\ log[i].balance_after + CostOf(Before(i)) <= funded[log[i].device]
    BY <1>4 DEF ChainInv
  <2>3. CostOf(Before(i)) \in Nat
    BY <1>4, BeforeFacts, RowTotals
  <2>4. log[i].balance_after \in Nat /\ log[i].device \in Device
    BY <1>4, Entries
  <2> QED
    BY <1>2, <1>3, <2>1, <2>2, <2>3, <2>4
<1>6. ChainInv'
  BY <1>1, <1>3, <1>4, <1>5 DEF ChainInv
<1>7. CacheTypes'
  BY <1>1 DEF WorldInv, CacheTypes
<1> QED
  BY <1>1, <1>3, <1>6, <1>7 DEF WorldInv, CacheTypes, Grows

\* submit_reading
LEMMA SubmitGrows ==
  ASSUME WorldInv, NEW d \in Device, NEW units \in Unit, SubmitReading(d, units)
  PROVE  WorldInv' /\ Grows
PROOF
<1> DEFINE R == Meter!ReadingsOf(d)
           e == [device |-> d, seq |-> Cardinality(R) + 1,
                 units |-> units, cost |-> units,
                 balance_after |-> funded[d] - CostOf(R) - units]
<1>1. ChainInv /\ CacheTypes
  BY DEF WorldInv
<1>2. log \in Seq(Reading) /\ Len(log) \in Nat /\ DOMAIN log = 1..Len(log)
  BY <1>1 DEF ChainInv, Reading
<1>3. R \in SUBSET DOMAIN log /\ \A i \in DOMAIN log : i \in R <=> log[i].device = d
  BY DEF Meter!ReadingsOf
<1>4. IsFiniteSet(R) /\ Cardinality(R) \in Nat /\ CostOf(R) \in Nat
  BY <1>1, <1>3, RowTotals
<1>5. Meter!Spent(d) = CostOf(R)
  BY MeterAdds DEF Meter!Spent, CostOf
<1>6. /\ log' = Append(log, e) /\ units <= funded[d] - CostOf(R)
      /\ funded' = funded /\ cached' = cached
      /\ emitted_at' = emitted_at /\ hour' = hour
  BY <1>5, MeterCounts DEF SubmitReading, Meter!Bill
<1>7. funded[d] \in Nat /\ units \in Nat
  BY <1>1, ApiAssumption DEF ChainInv
<1>8. e \in Reading
  BY <1>4, <1>6, <1>7 DEF Reading
<1>9. /\ e.device = d /\ e.seq = Cardinality(R) + 1 /\ e.cost = units
      /\ e.balance_after = funded[d] - CostOf(R) - units
  OBVIOUS
<1> HIDE DEF R, e
<1>n. PICK n \in Nat : n = Len(log) + 1
  BY <1>2
<1>10. /\ log' \in Seq(Reading) /\ DOMAIN log' = 1..n
       /\ \A i \in DOMAIN log : log'[i] = log[i]
       /\ log'[n] = e
  BY <1>2, <1>6, <1>8, <1>n
<1>11. DOMAIN log' = DOMAIN log \cup {n} /\ n \notin DOMAIN log
  BY <1>2, <1>10, <1>n
<1>12. Before(n)' = R \cup {n}
  <2>1. \A j \in 1..n : log'[j].device = d <=> j \in R \cup {n}
    BY <1>2, <1>3, <1>9, <1>10, <1>11
  <2>2. R \cup {n} \subseteq 1..n
    BY <1>2, <1>3, <1>n
  <2> QED
    BY <1>9, <1>10, <2>1, <2>2 DEF Before
<1>13. Cardinality(R \cup {n}) = Cardinality(R) + 1
  BY <1>3, <1>4, <1>11, FS_AddElement
<1>14. CostOf(Before(n))' = CostOf(R) + units
  <2> DEFINE f == [i \in R |-> log[i].cost]
  <2>1. f \in [R -> Nat] /\ DOMAIN f = R /\ n \notin R
    BY <1>1, <1>3, <1>11, Entries
  <2>2. [i \in R \cup {n} |-> log'[i].cost] = Put(f, n, units)
    BY <1>3, <1>9, <1>10, <1>11 DEF Put
  <2>3. GetOr(f, n, 0) = 0
    BY <2>1 DEF GetOr
  <2>4. CostOf(R) = Total(f)
    BY DEF CostOf
  <2> HIDE DEF f
  <2>5. IsFiniteSet(Units(f)) /\ \A x \in DOMAIN f : f[x] \in Nat
    BY <1>4, <2>1, UnitsOfFinite
  <2>6. Total(Put(f, n, units)) = Total(f) - 0 + units
    BY <1>7, <2>3, <2>5, TotalPut
  <2>7. CostOf(Before(n))' = Total(Put(f, n, units))
    BY <1>12, <2>2 DEF CostOf
  <2> QED
    BY <1>4, <1>7, <2>4, <2>6, <2>7
<1>15. ASSUME NEW i \in DOMAIN log'
       PROVE  /\ log'[i].seq = Cardinality(Before(i)')
              /\ log'[i].balance_after + CostOf(Before(i))'
                    <= funded'[log'[i].device]
  <2>1. CASE i \in DOMAIN log
    BY <1>1, <1>6, <1>10, <2>1, BeforeSame DEF ChainInv
  <2>2. CASE i = n
    <3>1. log'[i].seq = Cardinality(Before(i)')
      BY <1>9, <1>10, <1>12, <1>13, <2>2
    <3>2. log'[i].balance_after + CostOf(Before(i))' = funded[d]
      BY <1>4, <1>7, <1>9, <1>10, <1>14, <2>2
    <3> QED
      BY <1>6, <1>7, <1>9, <1>10, <2>2, <3>1, <3>2
  <2> QED
    BY <1>11, <2>1, <2>2
<1>16. ChainInv'
  BY <1>1, <1>6, <1>10, <1>15 DEF ChainInv, Reading
<1>17. CacheTypes'
  BY <1>1, <1>6, <1>11 DEF CacheTypes
<1>18. Grows
  <2>1. \A x \in Device : funded[x] <= funded'[x]
    BY <1>1, <1>6 DEF ChainInv
  <2>2. \A i \in DOMAIN log' \ DOMAIN log :
          log'[i].seq = Cardinality(Meter!ReadingsOf(log'[i].device)) + 1
    BY <1>9, <1>10, <1>11 DEF R
  <2> QED
    BY <1>1, <1>6, <1>10, <1>11, <2>1, <2>2 DEF CacheTypes, Grows
<1> QED
  BY <1>16, <1>17, <1>18 DEF WorldInv

\* A step that leaves the log alone.
LEMMA SameChain ==
  ASSUME ChainInv, log' = log, funded' = funded,
         \A i \in cached' : 1..i \subseteq cached'
  PROVE  ChainInv'
PROOF
<1>1. ASSUME NEW i \in DOMAIN log
      PROVE  /\ log[i].seq = Cardinality(Before(i)')
             /\ log[i].balance_after + CostOf(Before(i))' <= funded[log[i].device]
  BY <1>1, BeforeSame DEF ChainInv
<1> QED
  BY <1>1 DEF ChainInv

\* The indexer's insertion.
LEMMA CacheRowGrows ==
  ASSUME WorldInv, NEW i \in DOMAIN log, CacheRow(i)
  PROVE  WorldInv' /\ Grows
PROOF
<1>1. /\ ChainInv
      /\ cached \subseteq DOMAIN log
      /\ emitted_at \in [cached -> 0..MaxHour]
      /\ hour \in 0..MaxHour
  BY DEF WorldInv, CacheTypes
<1>2. /\ log' = log /\ funded' = funded /\ hour' = hour
      /\ emitted_at' = Put(emitted_at, i, hour)
      /\ i \notin cached /\ cached' = cached \cup {i}
      /\ \A j \in DOMAIN log \ cached : i <= j
  BY DEF CacheRow, Feed!Store, Feed!FirstNotIn
<1>3. DOMAIN log = 1..Len(log) /\ Len(log) \in Nat
  BY <1>1 DEF ChainInv
<1>4. 1..i \subseteq cached'
  BY <1>2, <1>3
<1>5. \A j \in cached' : 1..j \subseteq cached'
  BY <1>1, <1>2, <1>4 DEF ChainInv
<1>6. ChainInv'
  BY <1>1, <1>2, <1>5, SameChain
<1>7. emitted_at' \in [cached' -> 0..MaxHour]
  BY <1>1, <1>2 DEF Put
<1>8. \A j \in cached : emitted_at'[j] = emitted_at[j]
  BY <1>1, <1>2 DEF Put
<1>9. \A d \in Device : funded[d] <= funded'[d]
  BY <1>1, <1>2 DEF ChainInv
<1> QED
  BY <1>1, <1>2, <1>6, <1>7, <1>8, <1>9 DEF WorldInv, CacheTypes, Grows

\* The clock, and whatever is not the world's.
LEMMA OthersGrow ==
  ASSUME WorldInv, UNCHANGED <<log, funded, cached, emitted_at>>,
         hour' \in 0..MaxHour
  PROVE  WorldInv' /\ Grows
PROOF
<1>1. ChainInv /\ CacheTypes
  BY DEF WorldInv
<1>2. ChainInv'
  BY <1>1, SameChain DEF ChainInv
<1>3. \A d \in Device : funded[d] <= funded'[d]
  BY <1>1 DEF ChainInv
<1> QED
  BY <1>1, <1>2, <1>3 DEF WorldInv, CacheTypes, Grows

LEMMA WorldGrows ==
  ASSUME WorldInv, World
  PROVE  WorldInv' /\ Grows /\ UNCHANGED <<up, request, answer>>
PROOF
<1>1. CASE \E d \in Device, amount \in Amount : Deposit(d, amount)
  BY <1>1, DepositGrows DEF Deposit
<1>2. CASE \E d \in Device, units \in Unit : SubmitReading(d, units)
  BY <1>2, SubmitGrows DEF SubmitReading
<1>3. CASE \E i \in DOMAIN log : CacheRow(i)
  BY <1>3, CacheRowGrows DEF CacheRow
<1>4. CASE PassHour
  <2>1. hour' \in 0..MaxHour
    BY <1>4, ApiAssumption DEF PassHour, WorldInv, CacheTypes
  <2> QED
    BY <1>4, <2>1, OthersGrow DEF PassHour
<1> QED
  BY <1>1, <1>2, <1>3, <1>4 DEF World

----------------------------------------------------------------------------
(* What handlers and answers say stays true.                               *)

\* Rows of a device in the table, whenever they came.
LEMMA AllRows ==
  ASSUME WorldInv, NEW d
  PROVE  metricsFor(d, AnyTime) = {i \in cached : log[i].device = d}
BY ApiAssumption DEF WorldInv, CacheTypes, metricsFor, InWindow, AnyTime

LEMMA HandlerStays ==
  ASSUME WorldInv, Grows, NEW q, q.rows \subseteq cached, HandlerInv(q)
  PROVE  HandlerInv(q)' /\ q.rows \subseteq cached'
PROOF
<1>1. /\ ChainInv /\ cached \subseteq DOMAIN log /\ cached \subseteq cached'
      /\ \A i \in DOMAIN log : log'[i] = log[i]
      /\ \A i \in cached : emitted_at'[i] = emitted_at[i]
  BY DEF WorldInv, CacheTypes, Grows
<1>2. ASSUME q.kind = "metrics"
      PROVE  q.rows \subseteq metricsFor(q.device, q.window)'
  BY <1>1, <1>2 DEF HandlerInv, metricsFor, InWindow
<1>3. ASSUME q.kind = "balance", NEW i \in q.rows
      PROVE  log'[i].device = q.device /\ Before(i)' \subseteq q.rows
  BY <1>1, <1>3, BeforeSame DEF HandlerInv
<1> QED
  BY <1>1, <1>2, <1>3 DEF HandlerInv, AnyTime

\* A line of the list is below the rows it counted, and below more rows.
LEMMA BelowMore ==
  ASSUME ChainInv, NEW info, info.event_count \in Nat,
         info.total_units \in Nat, info.total_cost \in Nat,
         NEW S \in SUBSET DOMAIN log, NEW R \in SUBSET S, Below(info, R)
  PROVE  Below(info, S)
PROOF
<1>1. /\ Cardinality(S) \in Nat /\ UnitsOf(S) \in Nat /\ CostOf(S) \in Nat
      /\ Cardinality(R) <= Cardinality(S)
      /\ UnitsOf(R) <= UnitsOf(S)
      /\ CostOf(R) <= CostOf(S)
  BY RowTotals
<1>2. Cardinality(R) \in Nat /\ UnitsOf(R) \in Nat /\ CostOf(R) \in Nat
  <2>1. R \in SUBSET DOMAIN log
    OBVIOUS
  <2> QED
    BY <2>1, RowTotals
<1> QED
  BY <1>1, <1>2 DEF Below

LEMMA BelowStays ==
  ASSUME Grows, NEW info, NEW R \in SUBSET DOMAIN log, Below(info, R)
  PROVE  Below(info, R)'
PROOF
<1>1. UnitsOf(R)' = UnitsOf(R) /\ CostOf(R)' = CostOf(R)
  BY TotalsSame DEF Grows
<1> QED
  BY <1>1 DEF Below

LEMMA ListStays ==
  ASSUME WorldInv, WorldInv', Grows, NEW list, ListInv(list)
  PROVE  ListInv(list)'
PROOF
<1> SUFFICES ASSUME NEW d \in DOMAIN list
             PROVE  Below(list[d], metricsFor(d, AnyTime))'
  BY DEF ListInv
<1>1. PICK S : S = metricsFor(d, AnyTime)'
  OBVIOUS
<1>2. S = {i \in cached' : log'[i].device = d}
  BY <1>1, ApiAssumption DEF WorldInv, CacheTypes, metricsFor, InWindow, AnyTime
<1>3. PICK R : R = metricsFor(d, AnyTime)
  OBVIOUS
<1>4. R = {i \in cached : log[i].device = d}
  BY <1>3, AllRows
<1>5. S \in SUBSET DOMAIN log /\ R \in SUBSET S
  BY <1>2, <1>4 DEF WorldInv, CacheTypes, Grows
<1>6. Below(list[d], S)
  BY <1>3, <1>5, BelowMore DEF ListInv, WorldInv
<1>7. UnitsOf(S)' = UnitsOf(S) /\ CostOf(S)' = CostOf(S)
  BY <1>5, TotalsSame DEF Grows
<1> QED
  BY <1>1, <1>6, <1>7 DEF Below, UnitsOf, CostOf

\* A device's readings up to a number that was given stay the same.
LEMMA UpToStays ==
  ASSUME WorldInv, Grows, NEW d, NEW n \in Nat,
         n <= Cardinality(Meter!ReadingsOf(d))
  PROVE  /\ UpTo(d, n)' = UpTo(d, n)
         /\ UnitsOf(UpTo(d, n))' = UnitsOf(UpTo(d, n))
         /\ CostOf(UpTo(d, n))' = CostOf(UpTo(d, n))
PROOF
<1>1. Cardinality(Meter!ReadingsOf(d)) \in Nat
  <2>1. Meter!ReadingsOf(d) \in SUBSET DOMAIN log
    BY DEF Meter!ReadingsOf
  <2> QED
    BY <2>1, RowTotals DEF WorldInv
<1>2. PICK U : U = UpTo(d, n)
  OBVIOUS
<1>3. U = {i \in DOMAIN log : log[i].device = d /\ log[i].seq <= n}
  BY <1>2 DEF UpTo, Meter!ReadingsOf
<1>4. ASSUME NEW i \in DOMAIN log' \ DOMAIN log, log'[i].device = d
      PROVE  ~(log'[i].seq <= n)
  BY <1>1, <1>4 DEF Grows
<1>5. UpTo(d, n)' = U
  BY <1>3, <1>4 DEF UpTo, Meter!ReadingsOf, Grows
<1>6. UnitsOf(U)' = UnitsOf(U) /\ CostOf(U)' = CostOf(U)
  BY <1>3, TotalsSame DEF Grows
<1>7. UnitsOf(UpTo(d, n))' = UnitsOf(U)' /\ CostOf(UpTo(d, n))' = CostOf(U)'
  BY <1>5 DEF UnitsOf, CostOf
<1> QED
  BY <1>2, <1>5, <1>6, <1>7

LEMMA OneMomentStays ==
  ASSUME WorldInv, WorldInv', Grows, NEW a, a.device \in Device,
         a.last_reading \in cached \cup {0}, a.latest_seq \in Nat,
         a.on_chain_balance \subseteq Nat, OneMoment(a)
  PROVE  OneMoment(a)'
PROOF
<1>1. ChainInv /\ cached \subseteq DOMAIN log
      /\ \A i \in DOMAIN log : log'[i] = log[i]
  BY DEF WorldInv, CacheTypes, Grows
<1>2. PICK n : n = IF a.last_reading = 0 THEN 0 ELSE log[a.last_reading].seq
  OBVIOUS
<1>3. n \in Nat /\ n = IF a.last_reading = 0 THEN 0 ELSE log'[a.last_reading].seq
  BY <1>1, <1>2, Entries
<1>4. /\ a.total_units = UnitsOf(UpTo(a.device, n))
      /\ a.total_billed = CostOf(UpTo(a.device, n))
      /\ n <= a.latest_seq
      /\ a.latest_seq <= Cardinality(Meter!ReadingsOf(a.device))
      /\ \A b \in a.on_chain_balance : b + a.total_billed <= funded[a.device]
  BY <1>2 DEF OneMoment
<1>5. PICK R : R = Meter!ReadingsOf(a.device)
  OBVIOUS
<1>6. PICK S : S = Meter!ReadingsOf(a.device)'
  OBVIOUS
<1>7. Cardinality(R) \in Nat
  <2>1. R \in SUBSET DOMAIN log
    BY <1>5 DEF Meter!ReadingsOf
  <2> QED
    BY <1>1, <2>1, RowTotals
<1>8. Cardinality(R) <= Cardinality(S) /\ Cardinality(S) \in Nat
  <2>1. R \in SUBSET S /\ S \in SUBSET DOMAIN log'
    BY <1>5, <1>6 DEF Meter!ReadingsOf, Grows
  <2>2. DOMAIN log' = 1..Len(log') /\ Len(log') \in Nat
    BY DEF WorldInv, ChainInv
  <2>3. IsFiniteSet(1..Len(log'))
    BY <2>2, FS_Interval
  <2>4. IsFiniteSet(S)
    BY <2>1, <2>2, <2>3, FS_Subset
  <2> QED
    BY <2>1, <2>4, FS_Subset, FS_CardinalityType
<1>9. n <= Cardinality(R)
  BY <1>3, <1>4, <1>5, <1>7
<1>10. /\ UnitsOf(UpTo(a.device, n))' = UnitsOf(UpTo(a.device, n))
       /\ CostOf(UpTo(a.device, n))' = CostOf(UpTo(a.device, n))
  BY <1>3, <1>5, <1>9, UpToStays
<1>11. a.latest_seq <= Cardinality(S)
  BY <1>4, <1>5, <1>7, <1>8
<1>12. a.total_billed \in Nat
  <2>1. UpTo(a.device, n) \in SUBSET DOMAIN log
    BY DEF UpTo, Meter!ReadingsOf
  <2> QED
    BY <1>1, <1>4, <2>1, RowTotals
<1>13. \A b \in a.on_chain_balance : b + a.total_billed <= funded'[a.device]
  <2>1. /\ funded[a.device] \in Nat /\ funded'[a.device] \in Nat
        /\ funded[a.device] <= funded'[a.device]
    BY DEF WorldInv, ChainInv, Grows
  <2> QED
    BY <1>4, <1>12, <2>1
<1> QED
  BY <1>3, <1>4, <1>6, <1>10, <1>11, <1>13 DEF OneMoment

\* The bucket of a row is that of its hour, for good.
LEMMA BucketStays ==
  ASSUME Grows, NEW i \in cached, NEW g
  PROVE  bucket(i, g)' = bucket(i, g)
BY DEF Grows, bucket

Samples(a, b) == {i \in a.samples : bucket(i, a.granularity) = b}

\* SamplesCovered for one bucket.
InBucket(a, b, s) ==
    /\ s.bucket = b
    /\ s.event_count >= Cardinality(Samples(a, b))
    /\ s.total_units >= UnitsOf(Samples(a, b))
    /\ s.total_cost >= CostOf(Samples(a, b))
    /\ \A i \in Samples(a, b) :
          log[i].balance_after \in s.min_balance..s.max_balance

LEMMA CoveredStays ==
  ASSUME WorldInv, Grows, NEW a, a.samples \subseteq cached, SamplesCovered(a)
  PROVE  SamplesCovered(a)'
PROOF
<1>1. /\ cached \subseteq DOMAIN log
      /\ \A i \in DOMAIN log : log'[i] = log[i]
  BY DEF WorldInv, CacheTypes, Grows
<1>2. \A i \in a.samples : bucket(i, a.granularity)' = bucket(i, a.granularity)
  BY BucketStays
<1>3. ASSUME NEW b \in {bucket(i, a.granularity) : i \in a.samples}
      PROVE  \E s \in a.series : InBucket(a, b, s)
  BY <1>3 DEF SamplesCovered, InBucket, Samples
<1>4. ASSUME NEW b, NEW s, InBucket(a, b, s)
      PROVE  InBucket(a, b, s)'
  <2>1. PICK B : B = Samples(a, b)
    OBVIOUS
  <2>2. Samples(a, b)' = B
    BY <1>2, <2>1 DEF Samples
  <2>3. B \subseteq DOMAIN log
    BY <1>1, <2>1 DEF Samples
  <2>4. UnitsOf(B)' = UnitsOf(B) /\ CostOf(B)' = CostOf(B)
    BY <1>1, <2>3, TotalsSame
  <2>5. UnitsOf(Samples(a, b))' = UnitsOf(B)' /\ CostOf(Samples(a, b))' = CostOf(B)'
    BY <2>2 DEF UnitsOf, CostOf
  <2> QED
    BY <1>1, <1>4, <2>1, <2>2, <2>3, <2>4, <2>5 DEF InBucket
<1>5. ASSUME NEW b, b \in {bucket(i, a.granularity)' : i \in a.samples}
      PROVE  \E s \in a.series : InBucket(a, b, s)'
  <2>1. b \in {bucket(i, a.granularity) : i \in a.samples}
    BY <1>2, <1>5
  <2>2. PICK s \in a.series : InBucket(a, b, s)
    BY <1>3, <2>1
  <2> QED
    BY <1>4, <2>2
<1> QED
  BY <1>5 DEF SamplesCovered, InBucket, Samples

LEMMA AnswerStays ==
  ASSUME WorldInv, WorldInv', Grows, NEW a, AnswerInv(a)
  PROVE  AnswerInv(a)'
PROOF
<1>1. ASSUME a.kind = "devices" PROVE ListInv(a.devices)'
  BY <1>1, ListStays DEF AnswerInv
<1>2. ASSUME a.kind = "balance" PROVE OneMoment(a)'
  BY <1>2, OneMomentStays DEF AnswerInv
<1>3. ASSUME a.kind = "metrics" PROVE SamplesCovered(a)'
  BY <1>3, CoveredStays DEF AnswerInv
<1>4. cached \subseteq cached'
  BY DEF Grows
<1> QED
  BY <1>1, <1>2, <1>3, <1>4 DEF AnswerInv, Failed

----------------------------------------------------------------------------
(* What the queries return.                                                *)

\* GROUP BY device_id counts what is in the table.
LEMMA ListIs ==
  ASSUME WorldInv
  PROVE  ListInv(listDevices)
PROOF
<1>1. ChainInv /\ cached \subseteq DOMAIN log
  BY DEF WorldInv, CacheTypes
<1>2. DOMAIN listDevices = {log[i].device : i \in cached}
  BY DEF listDevices
<1>3. ASSUME NEW d \in DOMAIN listDevices
      PROVE  /\ d \in Device
             /\ listDevices[d].event_count \in Nat \ {0}
             /\ listDevices[d].total_units \in Nat
             /\ listDevices[d].total_cost \in Nat
             /\ Below(listDevices[d], metricsFor(d, AnyTime))
  <2>1. PICK i \in cached : d = log[i].device
    BY <1>2
  <2>2. PICK R : R = metricsFor(d, AnyTime)
    OBVIOUS
  <2>3. i \in R /\ R \in SUBSET DOMAIN log
    BY <1>1, <2>1, <2>2, AllRows
  <2>4. /\ listDevices[d].event_count = Cardinality(R)
        /\ listDevices[d].total_units = UnitsOf(R)
        /\ listDevices[d].total_cost = CostOf(R)
    BY <1>2, <2>2 DEF listDevices
  <2>5. IsFiniteSet(R) /\ Cardinality(R) \in Nat
        /\ UnitsOf(R) \in Nat /\ CostOf(R) \in Nat
    BY <1>1, <2>3, RowTotals
  <2>6. Cardinality(R) # 0
    BY <2>3, <2>5, FS_EmptySet
  <2>7. d \in Device
    BY <1>1, <2>1, Entries
  <2> QED
    BY <2>2, <2>4, <2>5, <2>6, <2>7 DEF Below
<1> QED
  BY <1>3 DEF ListInv

\* metricsFor, with the rows kept for later.
LEMMA RowsRead ==
  ASSUME WorldInv, NEW q, HandlerInv(q), NEW n,
         n = [q EXCEPT !.pc = "second", !.rows = metricsFor(q.device, q.window)]
  PROVE  /\ n.kind = q.kind /\ n.device = q.device /\ n.window = q.window
         /\ n.pc = "second" /\ n.rows = metricsFor(q.device, q.window)
         /\ n.rows \subseteq cached
         /\ HandlerInv(n)
PROOF
<1>1. PICK R : R = metricsFor(q.device, q.window)
  OBVIOUS
<1>2. DOMAIN q = {"kind", "device", "window", "granularity", "pc", "rows"}
  BY DEF HandlerInv
<1>3. n = [q EXCEPT !.pc = "second", !.rows = R]
  BY <1>1
<1>4. /\ n.kind = q.kind /\ n.device = q.device /\ n.window = q.window
      /\ n.pc = "second" /\ n.rows = R /\ DOMAIN n = DOMAIN q
  BY <1>2, <1>3
<1>5. R \subseteq cached
  BY <1>1 DEF metricsFor
<1>6. ASSUME q.kind = "balance", NEW i \in R
      PROVE  log[i].device = q.device /\ Before(i) \subseteq R
  <2>1. q.window = AnyTime
    BY <1>6 DEF HandlerInv
  <2>2. R = {j \in cached : log[j].device = q.device}
    BY <1>1, <2>1, AllRows
  <2>3. 1..i \subseteq cached /\ i \in DOMAIN log
    BY <2>2 DEF WorldInv, CacheTypes, ChainInv
  <2> QED
    BY <2>2, <2>3 DEF Before
<1> QED
  BY <1>1, <1>2, <1>4, <1>5, <1>6 DEF HandlerInv

\* MAX(seq) is between the rows of the table and the readings on the chain.
LEMMA LatestSequenceIs ==
  ASSUME WorldInv, NEW d
  PROVE  /\ latestSequence(d) \in Nat
         /\ latestSequence(d) <= Cardinality(Meter!ReadingsOf(d))
         /\ \A i \in metricsFor(d, AnyTime) : log[i].seq <= latestSequence(d)
         /\ Cardinality(metricsFor(d, AnyTime)) <= latestSequence(d)
PROOF
<1>1. ChainInv /\ cached \subseteq DOMAIN log
  BY DEF WorldInv, CacheTypes
<1> DEFINE R == metricsFor(d, AnyTime)
           D == Meter!ReadingsOf(d)
           M == {log[i].seq : i \in R} \cup {0}
<1>2. R = {i \in cached : log[i].device = d}
  BY AllRows
<1>3. D = {i \in DOMAIN log : log[i].device = d}
  BY DEF Meter!ReadingsOf
<1>4. R \in SUBSET DOMAIN log /\ D \in SUBSET DOMAIN log
  BY <1>1, <1>2, <1>3
<1>5. latestSequence(d) = Max(M)
  BY DEF latestSequence
<1> HIDE DEF R, D
<1>6. IsFiniteSet(R) /\ Cardinality(D) \in Nat /\ Cardinality(R) \in Nat
  BY <1>1, <1>4, RowTotals
<1>7. ASSUME NEW i \in R
      PROVE  log[i].seq \in Nat /\ log[i].seq <= Cardinality(D)
  <2>1. i \in DOMAIN log /\ log[i].device = d
    BY <1>2, <1>4
  <2>2. Before(i) \in SUBSET D
    BY <1>1, <1>3, <2>1, BeforeFacts
  <2>3. log[i].seq = Cardinality(Before(i))
    BY <1>1, <2>1 DEF ChainInv
  <2> QED
    BY <1>1, <1>4, <2>1, <2>2, <2>3, RowTotals, Entries
<1>8. M \in SUBSET Nat /\ M # {} /\ \A x \in M : x <= Cardinality(D)
  BY <1>6, <1>7
<1>9. Max(M) \in M /\ \A x \in M : x <= Max(M)
  <2> HIDE DEF M
  <2> QED
    BY <1>6, <1>8, MaxOf
<1>10. Cardinality(R) <= Max(M)
  <2>1. CASE R = {}
    BY <1>8, <1>9, <2>1, FS_EmptySet
  <2>2. CASE R # {}
    <3>1. ASSUME NEW i \in R
          PROVE  log[i].device = d /\ Before(i) \subseteq R
      <4>1. 1..i \subseteq cached
        BY <1>1, <1>2 DEF ChainInv
      <4> QED
        BY <1>2, <4>1 DEF Before
    <3>2. R = Before(Latest(R)) /\ Latest(R) \in R
      BY <1>1, <1>4, <2>2, <3>1, ClosedRows, LatestOf
    <3>3. log[Latest(R)].seq = Cardinality(R)
      BY <1>1, <1>4, <3>2 DEF ChainInv
    <3> QED
      BY <1>9, <3>2, <3>3
  <2> QED
    BY <2>1, <2>2
<1>11. \A i \in R : log[i].seq <= Max(M)
  BY <1>9
<1> QED
  BY <1>5, <1>8, <1>9, <1>10, <1>11 DEF R, D

\* GET /api/devices/:id/balance: the rows read first and the number read then.
LEMMA BalanceIs ==
  ASSUME WorldInv, NEW q, HandlerInv(q), q.kind = "balance",
         q.device \in Device, q.rows \subseteq cached,
         NEW a, a = Balance(q.device, q.rows, latestSequence(q.device))
  PROVE  /\ AnswerInv(a) /\ a.kind = "balance"
         /\ a.total_units = UnitsOf(q.rows) /\ a.total_billed = CostOf(q.rows)
         /\ a.latest_seq = latestSequence(q.device)
         /\ q.rows # {} => a.on_chain_balance # {}
PROOF
<1>1. ChainInv /\ cached \subseteq DOMAIN log
  BY DEF WorldInv, CacheTypes
<1>2. PICK R : R = q.rows
  OBVIOUS
<1>3. PICK d : d = q.device
  OBVIOUS
<1>4. /\ R \in SUBSET DOMAIN log /\ R \subseteq cached /\ d \in Device
      /\ \A i \in R : log[i].device = d /\ Before(i) \subseteq R
  BY <1>1, <1>2, <1>3 DEF HandlerInv
<1>5. /\ a.kind = "balance" /\ a.device = d
      /\ a.last_reading = IF R = {} THEN 0 ELSE Latest(R)
      /\ a.on_chain_balance = IF R = {} THEN {} ELSE {log[Latest(R)].balance_after}
      /\ a.latest_seq = latestSequence(d)
      /\ a.total_units = UnitsOf(R) /\ a.total_billed = CostOf(R)
  BY <1>2, <1>3 DEF Balance
<1>6. /\ latestSequence(d) \in Nat
      /\ latestSequence(d) <= Cardinality(Meter!ReadingsOf(d))
      /\ \A i \in metricsFor(d, AnyTime) : log[i].seq <= latestSequence(d)
  BY LatestSequenceIs
<1>7. CASE R = {}
  <2>1. UpTo(d, 0) = {}
    <3>1. ASSUME NEW i \in DOMAIN log PROVE log[i].seq # 0 /\ log[i].seq \in Nat
      <4>1. IsFiniteSet(Before(i)) /\ i \in Before(i)
        BY <1>1, BeforeFacts, RowTotals
      <4>2. Cardinality(Before(i)) # 0
        BY <4>1, FS_EmptySet
      <4> QED
        BY <1>1, <4>2, Entries DEF ChainInv
    <3> QED
      BY <3>1 DEF UpTo, Meter!ReadingsOf
  <2>2. OneMoment(a)
    BY <1>5, <1>6, <1>7, <2>1 DEF OneMoment
  <2> QED
    BY <1>2, <1>3, <1>4, <1>5, <1>6, <1>7, <2>2 DEF AnswerInv
<1>8. CASE R # {}
  <2>1. Latest(R) \in R /\ R = Before(Latest(R))
    BY <1>1, <1>4, <1>8, LatestOf, ClosedRows
  <2>2. PICK p : p = Latest(R)
    OBVIOUS
  <2>3. /\ p \in cached /\ p \in DOMAIN log /\ p # 0
        /\ log[p].device = d /\ Before(p) = R
        /\ log[p].balance_after \in Nat
    BY <1>1, <1>4, <2>1, <2>2, Entries
  <2>4. UpTo(d, log[p].seq) = R
    BY <1>1, <2>3, UpToIs
  <2>5. log[p].seq <= latestSequence(d)
    BY <1>6, <2>3, AllRows
  <2>6. log[p].balance_after + CostOf(R) <= funded[d]
    BY <1>1, <2>3 DEF ChainInv
  <2>7. a.last_reading = p /\ a.on_chain_balance = {log[p].balance_after}
    BY <1>5, <1>8, <2>2
  <2>8. OneMoment(a)
    BY <1>5, <1>6, <2>3, <2>4, <2>5, <2>6, <2>7 DEF OneMoment
  <2> QED
    BY <1>2, <1>3, <1>4, <1>5, <1>6, <2>3, <2>7, <2>8 DEF AnswerInv
<1> QED
  BY <1>7, <1>8

Group(R, g, b) == {i \in R : bucket(i, g) = b}
BalancesIn(R, g, b) == {log[i].balance_after : i \in Group(R, g, b)}
BucketRow(R, g, b) ==
    [bucket |-> b, total_units |-> UnitsOf(Group(R, g, b)),
     total_cost |-> CostOf(Group(R, g, b)),
     event_count |-> Cardinality(Group(R, g, b)),
     min_balance |-> Min(BalancesIn(R, g, b)),
     max_balance |-> Max(BalancesIn(R, g, b))]

\* SELECT ... GROUP BY bucket, in these names.
LEMMA GroupedIs ==
  ASSUME NEW R, NEW g
  PROVE  Grouped(R, g) = {BucketRow(R, g, b) : b \in {bucket(i, g) : i \in R}}
BY DEF Grouped, BucketRow, BalancesIn, Group

\* The least and the greatest balance of a bucket.
LEMMA BalanceRange ==
  ASSUME ChainInv, NEW d, NEW B \in SUBSET DOMAIN log,
         \A i \in B : log[i].device = d, NEW i \in B,
         NEW S, S = {log[j].balance_after : j \in B}
  PROVE  log[i].balance_after \in Min(S)..Max(S)
PROOF
<1>1. S \in SUBSET Nat /\ S # {}
  BY Entries
<1>2. funded[d] \in Nat
  BY Entries
<1>3. ASSUME NEW j \in B PROVE log[j].balance_after <= funded[d]
  <2>1. log[j].balance_after + CostOf(Before(j)) <= funded[d]
    BY DEF ChainInv
  <2>2. CostOf(Before(j)) \in Nat
    BY BeforeFacts, RowTotals
  <2> QED
    BY <1>2, <2>1, <2>2, Entries
<1>4. \A x \in S : x <= funded[d]
  BY <1>3
<1>5. Max(S) \in S /\ \A x \in S : x <= Max(S)
  BY <1>1, <1>2, <1>4, MaxOf
<1>6. Min(S) \in S /\ \A x \in S : Min(S) <= x
  BY <1>1, MinOf
<1>7. PICK x : x = log[i].balance_after
  OBVIOUS
<1>8. x \in S /\ x \in Nat /\ Min(S) \in Nat /\ Max(S) \in Nat
  BY <1>1, <1>5, <1>6, <1>7
<1>9. x \in Min(S)..Max(S)
  BY <1>5, <1>6, <1>8
<1> QED
  BY <1>7, <1>9

\* GET /api/devices/:id/metrics: samples first, the series then.
LEMMA MetricsIs ==
  ASSUME WorldInv, NEW q, HandlerInv(q), q.kind = "metrics",
         NEW a, a = [kind |-> "metrics", device |-> q.device,
                     samples |-> q.rows, granularity |-> q.granularity,
                     series |-> aggregate(q.device, q.window, q.granularity)]
  PROVE  /\ AnswerInv(a) /\ a.kind = "metrics"
         /\ a.series = Grouped(metricsFor(q.device, q.window), q.granularity)
PROOF
<1>1. ChainInv /\ cached \subseteq DOMAIN log
  BY DEF WorldInv, CacheTypes
<1>2. PICK g : g = q.granularity
  OBVIOUS
<1>3. PICK R : R = metricsFor(q.device, q.window)
  OBVIOUS
<1>4. /\ a.kind = "metrics" /\ a.samples = q.rows /\ a.granularity = g
      /\ a.series = Grouped(R, g)
  BY <1>2, <1>3 DEF aggregate, metricsFor
<1>5. /\ q.rows \subseteq R /\ R \subseteq cached
      /\ \A i \in R : log[i].device = q.device
  BY <1>3 DEF HandlerInv, metricsFor
<1>6. ASSUME NEW b \in {bucket(i, g) : i \in q.rows}
      PROVE  BucketRow(R, g, b) \in a.series /\ InBucket(a, b, BucketRow(R, g, b))
  <2>1. PICK B : B = Group(R, g, b)
    OBVIOUS
  <2>2. PICK T : T = Samples(a, b)
    OBVIOUS
  <2>3. PICK S : S = BalancesIn(R, g, b)
    OBVIOUS
  <2>4. T \in SUBSET B /\ B \in SUBSET DOMAIN log /\ B \subseteq R
    BY <1>1, <1>4, <1>5, <2>1, <2>2 DEF Samples, Group
  <2>5. BucketRow(R, g, b) \in a.series
    BY <1>4, <1>5, GroupedIs
  <2>6. PICK s : s = BucketRow(R, g, b)
    OBVIOUS
  <2>7. /\ s.bucket = b /\ s.event_count = Cardinality(B)
        /\ s.total_units = UnitsOf(B) /\ s.total_cost = CostOf(B)
        /\ s.min_balance = Min(S) /\ s.max_balance = Max(S)
    BY <2>1, <2>3, <2>6 DEF BucketRow
  <2>8. /\ Cardinality(T) <= Cardinality(B)
        /\ UnitsOf(T) <= UnitsOf(B)
        /\ CostOf(T) <= CostOf(B)
    BY <1>1, <2>4, RowTotals
  <2>9. /\ Cardinality(B) \in Nat /\ UnitsOf(B) \in Nat /\ CostOf(B) \in Nat
        /\ Cardinality(T) \in Nat /\ UnitsOf(T) \in Nat /\ CostOf(T) \in Nat
    <3>1. T \in SUBSET DOMAIN log
      BY <2>4
    <3> QED
      BY <1>1, <2>4, <3>1, RowTotals
  <2>10. ASSUME NEW i \in T PROVE log[i].balance_after \in Min(S)..Max(S)
    <3>1. S = {log[j].balance_after : j \in B}
      BY <2>1, <2>3 DEF BalancesIn
    <3>2. i \in B /\ \A j \in B : log[j].device = q.device
      BY <1>5, <2>4
    <3> QED
      BY <1>1, <2>4, <3>1, <3>2, BalanceRange
  <2>11. InBucket(a, b, s)
    BY <2>2, <2>7, <2>8, <2>9, <2>10 DEF InBucket
  <2> QED
    BY <2>5, <2>6, <2>11
<1>7. SamplesCovered(a)
  <2>1. \A b \in {bucket(i, a.granularity) : i \in a.samples} :
           \E s \in a.series : InBucket(a, b, s)
    BY <1>4, <1>6
  <2> QED
    BY <2>1 DEF SamplesCovered, InBucket, Samples
<1> QED
  BY <1>2, <1>3, <1>4, <1>5, <1>7 DEF AnswerInv

\* The buckets of a series add up to no less than the rows they group.
LEMMA SeriesTotal ==
  ASSUME ChainInv, NEW R \in SUBSET DOMAIN log, NEW g, NEW series,
         series = Grouped(R, g)
  PROVE  /\ UnitsOf(R) <= Total([s \in series |-> s.total_units])
         /\ Total([s \in series |-> s.total_units]) \in Nat
PROOF
<1> DEFINE key == [i \in R |-> bucket(i, g)]
           K == {bucket(i, g) : i \in R}
           row == [b \in K |-> BucketRow(R, g, b)]
           u == [i \in R |-> log[i].units]
           F == [s \in series |-> s.total_units]
<1>1. IsFiniteSet(R)
  BY RowTotals
<1>2. series = {BucketRow(R, g, b) : b \in K}
  BY GroupedIs
<1>3. \A b : BucketRow(R, g, b).bucket = b
  BY DEF BucketRow
<1>4. ASSUME NEW b
      PROVE  /\ BucketRow(R, g, b).total_units = UnitsOf(Group(R, g, b))
             /\ UnitsOf(Group(R, g, b)) \in Nat
  <2>1. Group(R, g, b) \in SUBSET DOMAIN log
    BY DEF Group
  <2> QED
    BY <2>1, RowTotals DEF BucketRow
<1>5. u \in [R -> Nat] /\ key \in [R -> K] /\ row \in [K -> series]
  BY <1>2, Entries
<1>6. F \in [series -> Nat]
  BY <1>2, <1>4
<1>7. IsFiniteSet(series)
  <2>1. key \in Surjection(R, K)
    BY DEF Surjection
  <2>2. row \in Surjection(K, series)
    BY <1>2, <1>5 DEF Surjection
  <2> HIDE DEF key, K, row
  <2> QED
    BY <1>1, <2>1, <2>2, FS_Surjection
<1>8. \A b, c \in K : row[b] = row[c] => b = c
  BY <1>3
<1>9. ASSUME NEW b \in K
      PROVE  F[row[b]] = Total([i \in {j \in R : key[j] = b} |-> u[i]])
  <2>1. F[row[b]] = UnitsOf(Group(R, g, b))
    BY <1>2, <1>4
  <2>2. {j \in R : key[j] = b} = Group(R, g, b)
    BY DEF Group
  <2>3. [i \in {j \in R : key[j] = b} |-> u[i]]
          = [i \in Group(R, g, b) |-> log[i].units]
    BY <2>2
  <2> QED
    BY <2>1, <2>3 DEF UnitsOf
<1>10. UnitsOf(R) = Total(u)
  BY DEF UnitsOf
<1> HIDE DEF key, K, row, u, F
<1>11. Total(u) <= Total(F)
  <2>1. \A b \in K : F[row[b]] = Total([i \in {j \in R : key[j] = b} |-> u[i]])
    BY <1>9
  <2>2. GroupsOf(R, u, K, key, series, F, row)
    BY <1>1, <1>5, <1>6, <1>7, <1>8, <2>1 DEF GroupsOf
  <2> QED
    BY <2>2, TotalByGroups
<1>12. Total(F) \in Nat
  BY <1>6, <1>7, UnitsOfFinite
<1> QED
  BY <1>10, <1>11, <1>12 DEF F

----------------------------------------------------------------------------
(* The server's steps.                                                     *)

GoodHandler(q) ==
    /\ q.kind \in {"devices", "balance", "metrics"}
    /\ q.device \in Device
    /\ q.pc \in {"first", "second"}
    /\ q.rows \subseteq cached
    /\ HandlerInv(q)

GoodAnswer(a) ==
    /\ a.kind \in {"failed", "devices", "balance", "metrics"}
    /\ AnswerInv(a)

LEMMA ApiGives ==
  ASSUME ApiInv
  PROVE  /\ WorldInv
         /\ \A r \in DOMAIN request : r \in Request /\ GoodHandler(request[r])
         /\ \A r \in DOMAIN answer : r \in Request /\ GoodAnswer(answer[r])
PROOF
<1>1. \A r \in DOMAIN request : request[r] \in Range(request)
  BY DEF Range
<1>2. \A r \in DOMAIN answer : answer[r] \in Range(answer)
  BY DEF Range
<1> QED
  BY <1>1, <1>2 DEF ApiInv, TypeOK, WorldInv, CacheTypes, GoodHandler, GoodAnswer

\* A step after which every handler and every answer is one that the world
\* before it justifies.
LEMMA ApiStep ==
  ASSUME ApiInv, WorldInv', Grows, up' \in BOOLEAN,
         \A r \in DOMAIN request' : r \in Request /\ GoodHandler(request'[r]),
         \A r \in DOMAIN answer' : r \in Request /\ GoodAnswer(answer'[r])
  PROVE  ApiInv'
PROOF
<1>1. WorldInv
  BY ApiGives
<1>2. ASSUME NEW r \in DOMAIN request'
      PROVE  /\ request'[r].kind \in {"devices", "balance", "metrics"}
             /\ request'[r].device \in Device
             /\ request'[r].pc \in {"first", "second"}
             /\ request'[r].rows \subseteq cached'
  BY DEF GoodHandler, Grows
<1>3. ASSUME NEW q \in Range(request')
      PROVE  HandlerInv(q)'
  <2>1. GoodHandler(q)
    BY DEF Range
  <2> QED
    BY <1>1, <2>1, HandlerStays DEF GoodHandler
<1>4. ASSUME NEW a \in Range(answer')
      PROVE  AnswerInv(a)'
  <2>1. GoodAnswer(a)
    BY DEF Range
  <2> QED
    BY <1>1, <2>1, AnswerStays DEF GoodAnswer
<1>5. \A r \in DOMAIN answer' :
         answer'[r].kind \in {"failed", "devices", "balance", "metrics"}
  BY DEF GoodAnswer
<1>6. TypeOK'
  BY <1>2, <1>5 DEF TypeOK, WorldInv, CacheTypes
<1> QED
  BY <1>3, <1>4, <1>6 DEF ApiInv, WorldInv

\* A fetch that fails.
LEMMA FailedIsGood == GoodAnswer(Failed)
BY DEF GoodAnswer, AnswerInv, Failed

\* A handler that has just started.
LEMMA HandlerIsGood ==
  ASSUME NEW kind \in {"devices", "balance", "metrics"}, NEW d \in Device,
         NEW w, kind = "balance" => w = AnyTime, NEW g
  PROVE  GoodHandler(Handler(kind, d, w, g))
BY DEF GoodHandler, HandlerInv, Handler

\* World and clock stand still.
LEMMA WorldStill ==
  ASSUME ApiInv, UNCHANGED world
  PROVE  WorldInv' /\ Grows
PROOF
<1>1. WorldInv
  BY ApiGives
<1>2. UNCHANGED <<log, funded, cached, emitted_at>> /\ hour' = hour
  BY DEF world
<1> QED
  BY <1>1, <1>2, OthersGrow DEF WorldInv, CacheTypes

\* The answer to a request replaces its handler.
LEMMA RespondKeeps ==
  ASSUME ApiInv, NEW r \in DOMAIN request, NEW body, GoodAnswer(body),
         Respond(r, body)
  PROVE  ApiInv' /\ Grows
PROOF
<1>1. /\ answer' = Put(answer, r, body) /\ request' = Drop(request, {r})
      /\ UNCHANGED world /\ up' = up
  BY DEF Respond
<1>2. WorldInv' /\ Grows
  BY <1>1, WorldStill
<1>3. \A x \in DOMAIN request' : x \in Request /\ GoodHandler(request'[x])
  BY <1>1, ApiGives DEF Drop
<1>4. \A x \in DOMAIN answer' : x \in Request /\ GoodAnswer(answer'[x])
  BY <1>1, ApiGives DEF Put
<1>5. up' \in BOOLEAN
  BY <1>1 DEF ApiInv, TypeOK
<1> QED
  BY <1>2, <1>3, <1>4, <1>5, ApiStep

\* A request comes, or does not.
LEMMA GetKeeps ==
  ASSUME ApiInv, NEW r \in Request, NEW handler, GoodHandler(handler),
         Get(r, handler), UNCHANGED <<world, up>>
  PROVE  ApiInv' /\ Grows
PROOF
<1>1. /\ request' = IF up THEN Put(request, r, handler) ELSE request
      /\ answer' = IF up THEN Drop(answer, {r}) ELSE Put(answer, r, Failed)
      /\ UNCHANGED world /\ up' = up
  BY DEF Get
<1>2. WorldInv' /\ Grows
  BY <1>1, WorldStill
<1>3. \A x \in DOMAIN request' : x \in Request /\ GoodHandler(request'[x])
  BY <1>1, ApiGives DEF Put
<1>4. \A x \in DOMAIN answer' : x \in Request /\ GoodAnswer(answer'[x])
  BY <1>1, ApiGives, FailedIsGood DEF Put, Drop
<1>5. up' \in BOOLEAN
  BY <1>1 DEF ApiInv, TypeOK
<1> QED
  BY <1>2, <1>3, <1>4, <1>5, ApiStep

----------------------------------------------------------------------------
(* The page's requests.                                                    *)

\* What every step does to the effects: once its list has come an effect keeps
\* it.
EffectsGrow ==
    /\ 1..effects \subseteq 1..effects'
    /\ \A e \in 1..effects :
          effect[e].pc # "list" => /\ effect'[e].pc # "list"
                                   /\ effect'[e].devices = effect[e].devices

LEMMA AskedStays ==
  ASSUME EffectsGrow, NEW r, Asked(r)
  PROVE  Asked(r)' /\ (r[2] # "devices" => Listed(r)' = Listed(r))
BY DEF EffectsGrow, Asked, Listed

LEMMA RequestLinkStays ==
  ASSUME WorldInv, Grows, EffectsGrow, NEW r, NEW q, q.rows \subseteq cached,
         RequestLink(r, q)
  PROVE  RequestLink(r, q)'
PROOF
<1>1. Asked(r)' /\ (r[2] # "devices" => Listed(r)' = Listed(r))
  BY AskedStays DEF RequestLink
<1>2. ASSUME q.kind = "balance", q.pc = "second"
      PROVE  Below(Listed(r), q.rows)'
  <2>1. Below(Listed(r), q.rows) /\ r[2] # "devices"
    BY <1>2 DEF RequestLink
  <2>2. PICK info : info = Listed(r)
    OBVIOUS
  <2>3. q.rows \in SUBSET DOMAIN log
    BY DEF WorldInv, CacheTypes
  <2>4. Below(info, q.rows)'
    BY <2>1, <2>2, <2>3, BelowStays
  <2>5. Listed(r)' = info
    BY <1>1, <2>1, <2>2
  <2> QED
    BY <2>4, <2>5 DEF Below
<1> QED
  BY <1>1, <1>2 DEF RequestLink, AnyTime

LEMMA AnswerLinkStays ==
  ASSUME EffectsGrow, NEW r, NEW a, AnswerLink(r, a)
  PROVE  AnswerLink(r, a)'
PROOF
<1>1. Asked(r)' /\ (r[2] # "devices" => Listed(r)' = Listed(r))
  BY AskedStays DEF AnswerLink
<1> QED
  BY <1>1 DEF AnswerLink

\* A step after which each request and answer of the page is linked.
LEMMA LinksStep ==
  ASSUME \A r \in ViewRequest : \A q :
            r \in DOMAIN request' /\ q = request'[r] => RequestLink(r, q)',
         \A r \in ViewRequest : \A a :
            r \in DOMAIN answer' /\ a = answer'[r] => AnswerLink(r, a)'
  PROVE  LinksInv'
PROOF
<1>1. ASSUME NEW r \in ViewRequest \cap DOMAIN request'
      PROVE  RequestLink(r, request[r])'
  <2>1. PICK q : q = request'[r]
    OBVIOUS
  <2>2. RequestLink(r, q)'
    BY <2>1
  <2> QED
    BY <2>1, <2>2 DEF RequestLink, Below, UnitsOf, CostOf
<1>2. ASSUME NEW r \in ViewRequest \cap DOMAIN answer'
      PROVE  AnswerLink(r, answer[r])'
  <2>1. PICK a : a = answer'[r]
    OBVIOUS
  <2>2. AnswerLink(r, a)'
    BY <2>1
  <2> QED
    BY <2>1, <2>2 DEF AnswerLink
<1> QED
  BY <1>1, <1>2 DEF LinksInv

LEMMA LinksKept ==
  ASSUME WorldInv, Grows, EffectsGrow,
         \A r \in ViewRequest \cap DOMAIN request' :
            request'[r].rows \subseteq cached /\ RequestLink(r, request'[r]),
         \A r \in ViewRequest \cap DOMAIN answer' : AnswerLink(r, answer'[r])
  PROVE  LinksInv'
PROOF
<1>1. ASSUME NEW r \in ViewRequest, NEW q, r \in DOMAIN request', q = request'[r]
      PROVE  RequestLink(r, q)'
  <2>1. q.rows \subseteq cached /\ RequestLink(r, q)
    BY <1>1
  <2> QED
    BY <2>1, RequestLinkStays
<1>2. ASSUME NEW r \in ViewRequest, NEW a, r \in DOMAIN answer', a = answer'[r]
      PROVE  AnswerLink(r, a)'
  <2>1. AnswerLink(r, a)
    BY <1>2
  <2> QED
    BY <2>1, AnswerLinkStays
<1> QED
  BY <1>1, <1>2, LinksStep

\* The page does nothing.
LEMMA ViewStill ==
  ASSUME UNCHANGED view
  PROVE  EffectsGrow
BY DEF view, EffectsGrow

\* The line of the list an effect asks details for.
LEMMA ListedIs ==
  ASSUME EffectsInv, NEW r, Asked(r), r[2] # "devices"
  PROVE  /\ Listed(r).event_count \in Nat \ {0}
         /\ Listed(r).total_units \in Nat
         /\ Listed(r).total_cost \in Nat
         /\ Below(Listed(r), metricsFor(r[3], AnyTime))
PROOF
<1>1. PICK list : list = effect[r[1]].devices
  OBVIOUS
<1>2. r[1] \in 1..effects /\ r[3] \in DOMAIN list
  BY <1>1 DEF Asked
<1>3. ListInv(list)
  BY <1>1, <1>2 DEF EffectsInv
<1> QED
  BY <1>1, <1>2, <1>3 DEF ListInv, Listed

\* A request is answered.
LEMMA RespondLinks ==
  ASSUME ApiInv, LinksInv, UNCHANGED view, NEW r \in DOMAIN request, NEW body,
         GoodAnswer(body), r \in ViewRequest => AnswerLink(r, body),
         Respond(r, body)
  PROVE  ApiInv' /\ Grows /\ LinksInv'
PROOF
<1>1. ApiInv' /\ Grows
  BY RespondKeeps
<1>2. WorldInv
  BY ApiGives
<1>3. \A x \in ViewRequest \cap DOMAIN request' :
         request'[x].rows \subseteq cached /\ RequestLink(x, request'[x])
  BY ApiGives DEF Respond, Drop, LinksInv, GoodHandler
<1>4. \A x \in ViewRequest \cap DOMAIN answer' : AnswerLink(x, answer'[x])
  BY DEF Respond, Put, LinksInv
<1> QED
  BY <1>1, <1>2, <1>3, <1>4, LinksKept, ViewStill

\* GET /api/devices
LEMMA GetDevicesKeeps ==
  ASSUME ApiInv, LinksInv, UNCHANGED view,
         NEW r \in DOMAIN request, GetDevices(r)
  PROVE  ApiInv' /\ Grows /\ LinksInv'
PROOF
<1>1. PICK body : body = [kind |-> "devices", devices |-> listDevices]
  OBVIOUS
<1>2. Respond(r, body) /\ request[r].kind = "devices"
  BY <1>1 DEF GetDevices
<1>3. body.kind = "devices" /\ body.devices = listDevices
  BY <1>1
<1>4. GoodAnswer(body)
  BY <1>3, ApiGives, ListIs DEF GoodAnswer, AnswerInv
<1>5. r \in ViewRequest => AnswerLink(r, body)
  BY <1>2, <1>3 DEF LinksInv, RequestLink, AnswerLink
<1> QED
  BY <1>2, <1>4, <1>5, RespondLinks

\* GET /api/devices/:id/balance
LEMMA GetBalanceKeeps ==
  ASSUME ApiInv, EffectsInv, LinksInv, UNCHANGED view,
         NEW r \in DOMAIN request, GetBalance(r)
  PROVE  ApiInv' /\ Grows /\ LinksInv'
PROOF
<1>1. PICK q : q = request[r]
  OBVIOUS
<1>2. PICK body : body = Balance(q.device, q.rows, latestSequence(q.device))
  OBVIOUS
<1>3. Respond(r, body) /\ q.kind = "balance" /\ q.pc = "second"
  BY <1>1, <1>2 DEF GetBalance
<1>4. GoodHandler(q) /\ WorldInv
  BY <1>1, ApiGives
<1>5. /\ AnswerInv(body) /\ body.kind = "balance"
      /\ body.total_units = UnitsOf(q.rows)
      /\ body.total_billed = CostOf(q.rows)
      /\ body.latest_seq = latestSequence(q.device)
      /\ q.rows # {} => body.on_chain_balance # {}
  BY <1>2, <1>3, <1>4, BalanceIs DEF GoodHandler
<1>6. GoodAnswer(body)
  BY <1>5 DEF GoodAnswer
<1>7. ASSUME r \in ViewRequest PROVE AnswerLink(r, body)
  <2>1. /\ Asked(r) /\ r[2] = "balance" /\ q.device = r[3]
        /\ Below(Listed(r), q.rows)
    BY <1>1, <1>3, <1>7 DEF LinksInv, RequestLink
  <2>2. /\ Listed(r).event_count \in Nat \ {0}
        /\ Below(Listed(r), metricsFor(q.device, AnyTime))
    BY <2>1, ListedIs
  <2>3. /\ latestSequence(q.device) \in Nat
        /\ Cardinality(metricsFor(q.device, AnyTime)) <= latestSequence(q.device)
    BY <1>4, LatestSequenceIs
  <2>4. /\ q.rows \in SUBSET DOMAIN log
        /\ metricsFor(q.device, AnyTime) \in SUBSET DOMAIN log
    BY <1>4 DEF GoodHandler, WorldInv, CacheTypes, metricsFor
  <2>5. /\ Cardinality(q.rows) \in Nat
        /\ Cardinality(metricsFor(q.device, AnyTime)) \in Nat
    BY <1>4, <2>4, RowTotals DEF WorldInv
  <2>6. q.rows # {}
    <3>1. Listed(r).event_count <= Cardinality(q.rows)
      BY <2>1 DEF Below
    <3> QED
      BY <2>2, <2>5, <3>1, FS_EmptySet
  <2>7. Listed(r).event_count <= latestSequence(q.device)
    BY <2>2, <2>3, <2>5 DEF Below
  <2>8. /\ Listed(r).total_units <= body.total_units
        /\ Listed(r).total_cost <= body.total_billed
    BY <1>5, <2>1 DEF Below
  <2> QED
    BY <1>5, <2>1, <2>6, <2>7, <2>8 DEF AnswerLink
<1> QED
  BY <1>3, <1>6, <1>7, RespondLinks

\* GET /api/devices/:id/metrics
LEMMA GetMetricsKeeps ==
  ASSUME ApiInv, EffectsInv, LinksInv, UNCHANGED view,
         NEW r \in DOMAIN request, GetMetrics(r)
  PROVE  ApiInv' /\ Grows /\ LinksInv'
PROOF
<1>1. PICK q : q = request[r]
  OBVIOUS
<1>2. PICK body : body = [kind |-> "metrics", device |-> q.device,
                   samples |-> q.rows, granularity |-> q.granularity,
                   series |-> aggregate(q.device, q.window, q.granularity)]
  OBVIOUS
<1>3. Respond(r, body) /\ q.kind = "metrics" /\ q.pc = "second"
  BY <1>1, <1>2 DEF GetMetrics
<1>4. GoodHandler(q) /\ WorldInv
  BY <1>1, ApiGives
<1>5. /\ AnswerInv(body) /\ body.kind = "metrics"
      /\ body.series = Grouped(metricsFor(q.device, q.window), q.granularity)
  BY <1>2, <1>3, <1>4, MetricsIs DEF GoodHandler
<1>6. GoodAnswer(body)
  BY <1>5 DEF GoodAnswer
<1>7. ASSUME r \in ViewRequest PROVE AnswerLink(r, body)
  <2>1. /\ Asked(r) /\ r[2] = "metrics" /\ q.device = r[3] /\ q.window = AnyTime
    BY <1>1, <1>3, <1>7 DEF LinksInv, RequestLink
  <2>2. PICK R : R = metricsFor(q.device, AnyTime)
    OBVIOUS
  <2>3. Listed(r).total_units \in Nat /\ Below(Listed(r), R)
    BY <2>1, <2>2, ListedIs
  <2>4. R \in SUBSET DOMAIN log /\ ChainInv
    BY <1>4, <2>2 DEF WorldInv, CacheTypes, metricsFor
  <2>5. UnitsOf(R) \in Nat
    BY <2>4, RowTotals
  <2>6. PICK series : series = body.series
    OBVIOUS
  <2>7. series = Grouped(R, q.granularity)
    BY <1>5, <2>1, <2>2, <2>6
  <2>8. /\ UnitsOf(R) <= Total([s \in series |-> s.total_units])
        /\ Total([s \in series |-> s.total_units]) \in Nat
    BY <2>4, <2>7, SeriesTotal
  <2>9. Listed(r).total_units <= Total([s \in series |-> s.total_units])
    BY <2>3, <2>5, <2>8 DEF Below
  <2> QED
    BY <1>5, <2>1, <2>6, <2>9 DEF AnswerLink
<1> QED
  BY <1>3, <1>6, <1>7, RespondLinks

\* The first await of balance and metrics.
LEMMA ReadRowsKeeps ==
  ASSUME ApiInv, EffectsInv, LinksInv, UNCHANGED view,
         NEW r \in DOMAIN request, ReadRows(r)
  PROVE  ApiInv' /\ Grows /\ LinksInv'
PROOF
<1>1. PICK q : q = request[r]
  OBVIOUS
<1>2. PICK n : n = [q EXCEPT !.pc = "second",
                             !.rows = metricsFor(q.device, q.window)]
  OBVIOUS
<1>3. GoodHandler(q) /\ WorldInv
  BY <1>1, ApiGives
<1>4. /\ UNCHANGED world /\ up' = up /\ answer' = answer
      /\ request' = [request EXCEPT ![r].pc = "second",
                        ![r].rows = metricsFor(request[r].device,
                                               request[r].window)]
  BY DEF ReadRows
<1>5. /\ DOMAIN request' = DOMAIN request /\ request'[r] = n
      /\ \A x \in DOMAIN request \ {r} : request'[x] = request[x]
  BY <1>1, <1>2, <1>4
<1>6. /\ n.kind = q.kind /\ n.device = q.device /\ n.window = q.window
      /\ n.pc = "second" /\ n.rows = metricsFor(q.device, q.window)
      /\ n.rows \subseteq cached
      /\ HandlerInv(n)
  BY <1>2, <1>3, RowsRead DEF GoodHandler
<1>7. GoodHandler(n)
  BY <1>3, <1>6 DEF GoodHandler
<1>8. r \in ViewRequest => RequestLink(r, n)
  <2> SUFFICES ASSUME r \in ViewRequest PROVE RequestLink(r, n)
    OBVIOUS
  <2>1. RequestLink(r, q)
    BY <1>1 DEF LinksInv
  <2>2. ASSUME n.kind = "balance" PROVE Below(Listed(r), n.rows)
    BY <1>6, <2>1, <2>2, ListedIs DEF RequestLink
  <2> QED
    BY <1>6, <2>1, <2>2 DEF RequestLink
<1>9. WorldInv' /\ Grows
  BY <1>4, WorldStill
<1>10. \A x \in DOMAIN request' : x \in Request /\ GoodHandler(request'[x])
  BY <1>5, <1>7, ApiGives
<1>11. \A x \in DOMAIN answer' : x \in Request /\ GoodAnswer(answer'[x])
  BY <1>4, ApiGives
<1>12. ApiInv'
  BY <1>4, <1>9, <1>10, <1>11, ApiStep DEF ApiInv, TypeOK
<1>13. \A x \in ViewRequest \cap DOMAIN request' :
          request'[x].rows \subseteq cached /\ RequestLink(x, request'[x])
  BY <1>5, <1>8, <1>10 DEF LinksInv, GoodHandler
<1>14. \A x \in ViewRequest \cap DOMAIN answer' : AnswerLink(x, answer'[x])
  BY <1>4 DEF LinksInv
<1> QED
  BY <1>3, <1>9, <1>12, <1>13, <1>14, LinksKept, ViewStill

\* A connection breaks.
LEMMA ConnectionBreaksKeeps ==
  ASSUME ApiInv, LinksInv, UNCHANGED view,
         NEW r \in DOMAIN request, ConnectionBreaks(r)
  PROVE  ApiInv' /\ Grows /\ LinksInv'
PROOF
<1>1. Respond(r, Failed)
  BY DEF ConnectionBreaks, Respond
<1>2. r \in ViewRequest => AnswerLink(r, Failed)
  BY DEF LinksInv, RequestLink, AnswerLink, Failed
<1> QED
  BY <1>1, <1>2, FailedIsGood, RespondLinks

\* The process ends, or is started again.
LEMMA CrashKeeps ==
  ASSUME ApiInv, LinksInv, UNCHANGED view, Crash \/ Restart
  PROVE  ApiInv' /\ Grows /\ LinksInv'
PROOF
<1>1. UNCHANGED world /\ up' \in BOOLEAN
  BY DEF Crash, Restart
<1>2. WorldInv /\ WorldInv' /\ Grows
  BY <1>1, WorldStill, ApiGives
<1>3. \A x \in DOMAIN request' : x \in DOMAIN request /\ request'[x] = request[x]
  BY DEF Crash, Restart
<1>4. \A x \in DOMAIN answer' : \/ x \in DOMAIN answer /\ answer'[x] = answer[x]
                                \/ x \in DOMAIN request /\ answer'[x] = Failed
  BY DEF Crash, Restart
<1>5. \A x \in DOMAIN request' : x \in Request /\ GoodHandler(request'[x])
  BY <1>3, ApiGives
<1>6. \A x \in DOMAIN answer' : x \in Request /\ GoodAnswer(answer'[x])
  BY <1>4, ApiGives, FailedIsGood
<1>7. \A x \in ViewRequest \cap DOMAIN request' :
         request'[x].rows \subseteq cached /\ RequestLink(x, request'[x])
  BY <1>3, <1>5 DEF LinksInv, GoodHandler
<1>8. \A x \in ViewRequest \cap DOMAIN request : AnswerLink(x, Failed)
  BY DEF LinksInv, RequestLink, AnswerLink, Failed
<1>9. \A x \in ViewRequest \cap DOMAIN answer' : AnswerLink(x, answer'[x])
  BY <1>4, <1>8 DEF LinksInv
<1> QED
  BY <1>1, <1>2, <1>5, <1>6, <1>7, <1>9, ApiStep, LinksKept, ViewStill

\* Everything that is not the page's.
LEMMA WorldKeeps ==
  ASSUME ApiInv, LinksInv, UNCHANGED view, World
  PROVE  ApiInv' /\ Grows /\ LinksInv'
PROOF
<1>1. WorldInv /\ WorldInv' /\ Grows /\ UNCHANGED <<up, request, answer>>
  BY WorldGrows, ApiGives
<1>2. ApiInv'
  BY <1>1, ApiGives, ApiStep DEF ApiInv, TypeOK
<1>3. \A x \in ViewRequest \cap DOMAIN request' :
         request'[x].rows \subseteq cached /\ RequestLink(x, request'[x])
  BY <1>1, ApiGives DEF LinksInv, GoodHandler
<1> QED
  BY <1>1, <1>2, <1>3, LinksKept, ViewStill DEF LinksInv

LEMMA ServerKeeps ==
  ASSUME ApiInv, EffectsInv, LinksInv, UNCHANGED view, Server
  PROVE  ApiInv' /\ Grows /\ LinksInv'
PROOF
<1>1. ASSUME NEW r \in DOMAIN request, HandlerStep(r)
      PROVE  ApiInv' /\ Grows /\ LinksInv'
  BY <1>1, GetDevicesKeeps, ReadRowsKeeps, GetBalanceKeeps, GetMetricsKeeps
  DEF HandlerStep
<1> QED
  BY <1>1, ConnectionBreaksKeeps, CrashKeeps DEF Server

\* Another client of the API.
LEMMA AskKeeps ==
  ASSUME ApiInv, LinksInv, UNCHANGED view,
         NEW r \in Request \ ViewRequest, Ask(r)
  PROVE  ApiInv' /\ Grows /\ LinksInv'
PROOF
<1>1. PICK handler : GoodHandler(handler) /\ Get(r, handler)
  BY HandlerIsGood DEF Ask
<1>2. UNCHANGED <<world, up>>
  BY DEF Ask
<1>3. ApiInv' /\ Grows /\ WorldInv
  BY <1>1, <1>2, GetKeeps, ApiGives
<1>4. ASSUME NEW x \in ViewRequest
      PROVE  /\ x \in DOMAIN request' =>
                   x \in DOMAIN request /\ request'[x] = request[x]
             /\ x \in DOMAIN answer' =>
                   x \in DOMAIN answer /\ answer'[x] = answer[x]
  BY <1>1 DEF Get, Put, Drop
<1>5. \A x \in ViewRequest \cap DOMAIN request' :
         request'[x].rows \subseteq cached /\ RequestLink(x, request'[x])
  BY <1>4, ApiGives DEF LinksInv, GoodHandler
<1>6. \A x \in ViewRequest \cap DOMAIN answer' : AnswerLink(x, answer'[x])
  BY <1>4 DEF LinksInv
<1> QED
  BY <1>3, <1>5, <1>6, LinksKept, ViewStill

----------------------------------------------------------------------------
(* Answers stay.                                                           *)

Disjoint == DOMAIN request \cap DOMAIN answer = {}

\* What came for a device of the table is not replaced.
DetailsStay ==
    \A r \in ViewRequest \cap DOMAIN answer :
        r[2] # "devices" => r \in DOMAIN answer' /\ answer'[r] = answer[r]

LEMMA ServerAnswers ==
  ASSUME Disjoint, Server
  PROVE  Disjoint' /\ DetailsStay
PROOF
<1>1. ASSUME NEW r \in DOMAIN request, NEW body, Respond(r, body)
      PROVE  Disjoint' /\ DetailsStay
  BY <1>1 DEF Disjoint, DetailsStay, Respond, Put, Drop
<1>2. ASSUME NEW r \in DOMAIN request, HandlerStep(r) \/ ConnectionBreaks(r)
      PROVE  Disjoint' /\ DetailsStay
  <2>1. CASE ReadRows(r)
    <3>1. DOMAIN request' = DOMAIN request /\ answer' = answer
      BY <2>1 DEF ReadRows
    <3> QED
      BY <3>1 DEF Disjoint, DetailsStay
  <2>2. CASE GetDevices(r)
    BY <1>1, <2>2 DEF GetDevices
  <2>3. CASE GetBalance(r)
    BY <1>1, <2>3 DEF GetBalance
  <2>4. CASE GetMetrics(r)
    BY <1>1, <2>4 DEF GetMetrics
  <2>5. CASE ConnectionBreaks(r)
    <3>1. Respond(r, Failed)
      BY <2>5 DEF ConnectionBreaks, Respond
    <3> QED
      BY <1>1, <3>1
  <2> QED
    BY <1>2, <2>1, <2>2, <2>3, <2>4, <2>5 DEF HandlerStep
<1>3. CASE Crash
  <2>1. DOMAIN request' = {}
    BY <1>3 DEF Crash
  <2>2. \A r \in DOMAIN answer : r \in DOMAIN answer' /\ answer'[r] = answer[r]
    BY <1>3 DEF Crash, Disjoint
  <2> QED
    BY <2>1, <2>2 DEF Disjoint, DetailsStay
<1>4. CASE Restart
  BY <1>4 DEF Restart, Disjoint, DetailsStay
<1> QED
  BY <1>2, <1>3, <1>4 DEF Server

\* A request of another client, or for a list, is none for a device's details.
LEMMA GetAnswers ==
  ASSUME Disjoint, NEW r, r \in ViewRequest => r[2] = "devices",
         NEW handler, Get(r, handler)
  PROVE  Disjoint' /\ DetailsStay
PROOF
<1>1. CASE up
  BY <1>1 DEF Get, Put, Drop, Disjoint, DetailsStay
<1>2. CASE ~up
  BY <1>2 DEF Get, Put, Disjoint, DetailsStay
<1> QED
  BY <1>1, <1>2

LEMMA AskAnswers ==
  ASSUME Disjoint, NEW r \in Request \ ViewRequest, Ask(r)
  PROVE  Disjoint' /\ DetailsStay
PROOF
<1>1. PICK handler : Get(r, handler)
  BY DEF Ask
<1> QED
  BY <1>1, GetAnswers

\* So does the table that was made of them.
LEMMA MapsStay ==
  ASSUME EffectsInv, NEW e \in 1..effects, AllCame(e), DetailsStay,
         effect'[e].devices = effect[e].devices
  PROVE  /\ AllCame(e)'
         /\ BalMap(e)' = BalMap(e) /\ SeriesMap(e)' = SeriesMap(e)
PROOF
<1>1. PICK list : list = effect[e].devices
  OBVIOUS
<1>2. e \in Effect /\ DOMAIN list \subseteq Device
  BY <1>1, ViewAssumption DEF EffectsInv, Effect, ListInv
<1>3. ASSUME NEW d \in DOMAIN list, NEW kind \in {"balance", "metrics"}
      PROVE  /\ <<e, kind, d>> \in DOMAIN answer'
             /\ answer'[<<e, kind, d>>] = answer[<<e, kind, d>>]
  <2>1. <<e, kind, d>> \in ViewRequest /\ <<e, kind, d>>[2] # "devices"
    BY <1>2 DEF ViewRequest
  <2>2. <<e, kind, d>> \in DOMAIN answer
    BY <1>1 DEF AllCame
  <2> QED
    BY <2>1, <2>2 DEF DetailsStay
<1>4. AllCame(e)'
  BY <1>1, <1>3 DEF AllCame
<1>5. BalMap(e)' = BalMap(e)
  BY <1>1, <1>3 DEF BalMap
<1>6. SeriesMap(e)' = SeriesMap(e)
  BY <1>1, <1>3 DEF SeriesMap
<1> QED
  BY <1>4, <1>5, <1>6

\* A step that leaves the page and its latest effect alone.
LEMMA StateStays ==
  ASSUME EffectsInv, StateInv, Disjoint', DetailsStay,
         UNCHANGED <<effects, mounted, state>>,
         mounted => effect'[effects] = effect[effects]
  PROVE  StateInv'
PROOF
<1>1. RowsConsistent'
  BY DEF StateInv, RowsConsistent, Shown, ShownRow, SeriesOf
<1>2. CASE ~mounted
  BY <1>1, <1>2 DEF StateInv, AnswersInv, NothingStale, Disjoint, Fresh
<1>3. CASE mounted
  <2>1. PICK n \in 1..effects : n = effects
    BY <1>3 DEF EffectsInv
  <2>2. effect'[n] = effect[n] /\ effects' = n /\ mounted' = mounted /\ state' = state
    BY <1>3, <2>1
  <2>3. CASE AllCame(n)
    <3>1. /\ AllCame(n)'
          /\ BalMap(n)' = BalMap(n) /\ SeriesMap(n)' = SeriesMap(n)
      BY <2>2, <2>3, MapsStay
    <3>2. NothingStale'
      BY <1>3, <2>1, <2>2, <3>1 DEF StateInv, NothingStale, Fresh, ErrorState
    <3> QED
      BY <1>1, <2>1, <2>2, <3>1, <3>2 DEF StateInv, AnswersInv, Disjoint, Fresh
  <2>4. CASE ~AllCame(n)
    <3>1. effect[n].pc = "done" => state.error
      BY <1>3, <2>1, <2>4 DEF StateInv, AnswersInv
    <3>2. effect[n].pc = "done" => state = ErrorState(Fresh)
      BY <1>3, <2>1, <3>1 DEF StateInv, NothingStale, Fresh
    <3>3. NothingStale'
      BY <1>3, <2>1, <2>2, <3>2 DEF StateInv, NothingStale, Fresh, ErrorState
    <3> QED
      BY <1>1, <2>1, <2>2, <3>1, <3>3 DEF StateInv, AnswersInv, Disjoint, Fresh
  <2> QED
    BY <2>3, <2>4
<1> QED
  BY <1>2, <1>3

----------------------------------------------------------------------------
(* The page's steps.                                                       *)

\* What EffectsInv says of one effect.
EffectOK(x) ==
    /\ DOMAIN x = {"pc", "cancelled", "component", "devices"}
    /\ x.pc \in {"list", "details", "done"}
    /\ x.cancelled \in BOOLEAN

LEMMA EffectsGive ==
  ASSUME EffectsInv
  PROVE  /\ effects \in Nat /\ effects <= MaxEffects /\ MaxEffects \in Nat
         /\ effect \in Seq(Range(effect)) /\ Len(effect) = effects
         /\ DOMAIN effect = 1..effects
         /\ \A e \in 1..effects : /\ EffectOK(effect[e])
                                  /\ ListInv(effect[e].devices)
                                  /\ ~effect[e].cancelled => mounted /\ e = effects
         /\ mounted => effects \in 1..effects /\ ~effect[effects].cancelled
PROOF
<1>1. /\ effects \in Nat /\ effects <= MaxEffects /\ MaxEffects \in Nat
      /\ effect \in [1..effects -> Range(effect)]
  BY ViewAssumption DEF EffectsInv
<1>2. effect \in Seq(Range(effect)) /\ Len(effect) = effects
      /\ DOMAIN effect = 1..effects
  BY <1>1
<1>3. \A e \in 1..effects : /\ EffectOK(effect[e])
                            /\ ListInv(effect[e].devices)
                            /\ ~effect[e].cancelled => mounted /\ e = effects
  BY DEF EffectsInv, EffectOK, Live
<1>4. mounted => effects \in 1..effects /\ ~effect[effects].cancelled
  BY <1>1 DEF EffectsInv, Live
<1> QED
  BY <1>1, <1>2, <1>3, <1>4

\* The lists of all effects, after a step after which each is one that the
\* world before it justifies.
LEMMA EffectsStep ==
  ASSUME WorldInv, WorldInv', Grows,
         effects' \in 0..MaxEffects, mounted' \in BOOLEAN,
         effect' \in [1..effects' -> Range(effect')],
         mounted' => effects' > 0 /\ ~effect'[effects'].cancelled,
         \A e \in 1..effects' :
            /\ EffectOK(effect'[e])
            /\ ListInv(effect'[e].devices)
            /\ ~effect'[e].cancelled => mounted' /\ e = effects'
  PROVE  EffectsInv'
PROOF
<1>1. ASSUME NEW list \in {effect'[e].devices : e \in 1..effects'}
      PROVE  ListInv(list)'
  <2>1. ListInv(list)
    OBVIOUS
  <2> QED
    BY <2>1, ListStays
<1> QED
  BY <1>1 DEF EffectsInv, EffectOK, Live

\* The page does nothing.
LEMMA ViewKept ==
  ASSUME EffectsInv, StateInv, WorldInv, WorldInv', Grows, UNCHANGED view,
         Disjoint', DetailsStay
  PROVE  EffectsInv' /\ StateInv'
PROOF
<1>1. effects' = effects /\ effect' = effect /\ mounted' = mounted /\ state' = state
  BY DEF view
<1>2. EffectsInv'
  BY <1>1, EffectsGive, EffectsStep DEF EffectsInv
<1>3. StateInv'
  BY <1>1, StateStays
<1> QED
  BY <1>2, <1>3

\* Running an effect: the list is asked for.
LEMMA RunEffectAsks ==
  ASSUME ApiInv, EffectsInv, LinksInv, Disjoint, NEW k \in {effects, effects + 1},
         k = effects => effects > 0, RunEffect(k)
  PROVE  /\ ApiInv' /\ Grows /\ WorldInv'
         /\ LinksInv' /\ Disjoint'
         /\ effects' = effects + 1 /\ effects' \in 0..MaxEffects
         /\ effect' \in [1..effects' -> Range(effect')]
         /\ \A e \in 1..effects : /\ EffectOK(effect'[e])
                                  /\ effect'[e].pc = effect[e].pc
                                  /\ effect'[e].devices = effect[e].devices
                                  /\ effect'[e].cancelled =
                                       (effect[e].cancelled
                                          \/ (e = effects /\ k = effects))
         /\ effect'[effects'] = [pc |-> "list", cancelled |-> FALSE,
                                 component |-> k, devices |-> << >>]
PROOF
<1>1. /\ effects \in Nat /\ effects <= MaxEffects /\ MaxEffects \in Nat
      /\ effect \in Seq(Range(effect)) /\ Len(effect) = effects
      /\ DOMAIN effect = 1..effects
      /\ \A e \in 1..effects : EffectOK(effect[e])
  BY EffectsGive
<1>2. PICK new : new = [pc |-> "list", cancelled |-> FALSE,
                        component |-> k, devices |-> << >>]
  OBVIOUS
<1>3. PICK old : old = IF k = effects + 1 THEN effect
                       ELSE [effect EXCEPT ![effects].cancelled = TRUE]
  OBVIOUS
<1>4. /\ effects < MaxEffects /\ effects' = effects + 1
      /\ effect' = Append(old, new)
      /\ Get(ListOf(effects + 1), Handler("devices", AnyDevice, AnyTime, "day"))
      /\ UNCHANGED <<world, up>>
  BY <1>2, <1>3 DEF RunEffect
<1>5. /\ old \in [1..effects -> Range(old)]
      /\ \A e \in 1..effects : /\ EffectOK(old[e])
                               /\ old[e].pc = effect[e].pc
                               /\ old[e].devices = effect[e].devices
                               /\ old[e].cancelled =
                                    (effect[e].cancelled
                                       \/ (e = effects /\ k = effects))
  <2>1. CASE k = effects + 1
    BY <1>1, <1>3, <2>1 DEF EffectOK, Range
  <2>2. CASE k = effects
    <3>1. effects \in 1..effects /\ k # effects + 1
      BY <1>1, <2>2
    <3>2. PICK x : x = [effect[effects] EXCEPT !.cancelled = TRUE]
      OBVIOUS
    <3>3. /\ EffectOK(x) /\ x.pc = effect[effects].pc
          /\ x.devices = effect[effects].devices /\ x.cancelled = TRUE
      BY <1>1, <3>1, <3>2 DEF EffectOK
    <3>4. old = [effect EXCEPT ![effects] = x]
      BY <1>3, <3>1, <3>2
    <3>5. /\ DOMAIN old = 1..effects /\ old[effects] = x
          /\ \A e \in 1..effects : e # effects => old[e] = effect[e]
      BY <1>1, <3>1, <3>4
    <3>6. old \in [1..effects -> Range(old)]
      BY <1>1, <3>4, <3>5 DEF Range
    <3> QED
      BY <1>1, <2>2, <3>1, <3>3, <3>5, <3>6 DEF EffectOK
  <2> QED
    BY <2>1, <2>2
<1>6. old \in Seq(Range(old)) /\ Len(old) = effects
  BY <1>1, <1>5
<1>7. /\ DOMAIN effect' = 1..(effects + 1) /\ effect'[effects + 1] = new
      /\ \A e \in 1..effects : effect'[e] = old[e]
      /\ effect' \in [1..(effects + 1) -> Range(effect')]
  <2>1. old \in Seq(Range(old) \cup {new})
    BY <1>6
  <2>2. effect' \in Seq(Range(old) \cup {new}) /\ Len(effect') = effects + 1
    BY <1>1, <1>4, <1>6, <2>1
  <2>3. effect' \in [1..(effects + 1) -> Range(old) \cup {new}]
    BY <1>1, <2>2
  <2>4. effect' \in [1..(effects + 1) -> Range(effect')]
    BY <2>3 DEF Range
  <2> QED
    BY <1>1, <1>4, <1>6, <2>1, <2>2, <2>4
<1>8. EffectsGrow
  <2>1. 1..effects \subseteq 1..effects'
    BY <1>1, <1>4
  <2> QED
    BY <1>5, <1>7, <2>1 DEF EffectsGrow
<1>9. AnyDevice \in Device
  BY ViewAssumption DEF AnyDevice
<1>10. ListOf(effects + 1) \in ViewRequest /\ ListOf(effects + 1) \in Request
  <2>1. effects + 1 \in Effect
    BY <1>1, <1>4 DEF Effect
  <2> QED
    BY <1>9, <2>1, ViewAssumption DEF ViewRequest, ListOf
<1>11. PICK r : r = ListOf(effects + 1)
  OBVIOUS
<1>12. PICK q : q = Handler("devices", AnyDevice, AnyTime, "day")
  OBVIOUS
<1>13. GoodHandler(q)
  BY <1>9, <1>12, HandlerIsGood
<1>14. ApiInv' /\ Grows /\ WorldInv
  BY <1>4, <1>10, <1>11, <1>12, <1>13, GetKeeps, ApiGives
<1>15. RequestLink(r, q) /\ AnswerLink(r, Failed)
  BY <1>11, <1>12 DEF RequestLink, AnswerLink, Asked, ListOf, Handler, Failed
<1>16. /\ request' = IF up THEN Put(request, r, q) ELSE request
       /\ answer' = IF up THEN Drop(answer, {r}) ELSE Put(answer, r, Failed)
  BY <1>4, <1>11, <1>12 DEF Get
<1>17. \A x \in ViewRequest \cap DOMAIN request' :
          request'[x].rows \subseteq cached /\ RequestLink(x, request'[x])
  BY <1>13, <1>15, <1>16, ApiGives DEF LinksInv, GoodHandler, Put
<1>18. \A x \in ViewRequest \cap DOMAIN answer' : AnswerLink(x, answer'[x])
  BY <1>15, <1>16 DEF LinksInv, Put, Drop
<1>19. LinksInv'
  BY <1>8, <1>14, <1>17, <1>18, LinksKept
<1>20. WorldInv'
  BY <1>4, WorldStill
<1>21. effects' = effects + 1 /\ effects' \in 0..MaxEffects
  BY <1>1, <1>4
<1>22. ASSUME NEW e \in 1..effects
       PROVE  /\ EffectOK(effect'[e])
              /\ effect'[e].pc = effect[e].pc
              /\ effect'[e].devices = effect[e].devices
              /\ effect'[e].cancelled =
                    (effect[e].cancelled \/ (e = effects /\ k = effects))
  <2>1. effect'[e] = old[e]
    BY <1>7
  <2> QED
    BY <1>5, <2>1, Zenon
<1>23. effect'[effects'] = [pc |-> "list", cancelled |-> FALSE,
                            component |-> k, devices |-> << >>]
  BY <1>2, <1>7, <1>21
<1>24. effect' \in [1..effects' -> Range(effect')]
  BY <1>7, <1>21
<1>25. Disjoint'
  <2>1. r[2] = "devices"
    BY <1>11 DEF ListOf
  <2> QED
    BY <1>4, <1>11, <1>12, <2>1, GetAnswers
<1> QED
  BY <1>14, <1>19, <1>20, <1>21, <1>22, <1>23, <1>24, <1>25, Zenon

LEMMA EmptyList ==
  ListInv(<< >>)
BY DEF ListInv

LEMMA MountKeeps ==
  ASSUME ViewInv, Mount
  PROVE  ViewInv'
PROOF
<1>1. ApiInv /\ EffectsInv /\ LinksInv /\ Disjoint
  BY DEF ViewInv, StateInv, AnswersInv, Disjoint
<1>2. ~mounted /\ mounted' = TRUE /\ state' = Fresh /\ RunEffect(effects + 1)
  BY DEF Mount
<1>3. /\ effects \in Nat
      /\ \A e \in 1..effects : ListInv(effect[e].devices) /\ effect[e].cancelled
  BY <1>1, <1>2, EffectsGive DEF EffectOK
<1>4. /\ ApiInv' /\ Grows /\ WorldInv' /\ LinksInv' /\ Disjoint'
      /\ effects' = effects + 1 /\ effects' \in 0..MaxEffects
      /\ effect' \in [1..effects' -> Range(effect')]
      /\ \A e \in 1..effects : /\ EffectOK(effect'[e])
                               /\ effect'[e].devices = effect[e].devices
                               /\ effect'[e].cancelled
      /\ effect'[effects'] = [pc |-> "list", cancelled |-> FALSE,
                              component |-> effects + 1, devices |-> << >>]
  <2>1. PICK k \in {effects, effects + 1} : k = effects + 1
    OBVIOUS
  <2>2. k # effects /\ RunEffect(k)
    BY <1>2, <1>3, <2>1
  <2> QED
    BY <1>1, <1>3, <2>1, <2>2, RunEffectAsks
<1>5. /\ EffectOK(effect'[effects']) /\ ~effect'[effects'].cancelled
      /\ effect'[effects'].devices = << >> /\ effect'[effects'].pc = "list"
  BY <1>4 DEF EffectOK
<1>6. \A e \in 1..effects' : e \in 1..effects \/ e = effects'
  BY <1>3, <1>4
<1>7. ASSUME NEW e \in 1..effects'
      PROVE  /\ EffectOK(effect'[e])
             /\ ListInv(effect'[e].devices)
             /\ ~effect'[e].cancelled => mounted' /\ e = effects'
  BY <1>2, <1>3, <1>4, <1>5, <1>6, EmptyList
<1>8. WorldInv
  BY <1>1, ApiGives
<1>9. EffectsInv'
  BY <1>2, <1>3, <1>4, <1>5, <1>7, <1>8, EffectsStep
<1>10. state'.loading = TRUE /\ DOMAIN state' = DOMAIN Fresh
  BY <1>2 DEF Fresh
<1>11. StateInv'
  BY <1>2, <1>4, <1>5, <1>10
  DEF StateInv, AnswersInv, Disjoint, NothingStale, RowsConsistent, Shown, Fresh
<1> QED
  BY <1>4, <1>9, <1>11 DEF ViewInv

LEMMA StrictRemountKeeps ==
  ASSUME ViewInv, StrictRemount
  PROVE  ViewInv'
PROOF
<1>1. ApiInv /\ EffectsInv /\ LinksInv /\ StateInv /\ Disjoint
  BY DEF ViewInv, StateInv, AnswersInv, Disjoint
<1>2. /\ mounted /\ mounted' = mounted /\ state' = state /\ RunEffect(effects)
      /\ effect[effects].pc = "list"
  BY DEF StrictRemount
<1>3. /\ effects \in Nat /\ effects > 0
      /\ \A e \in 1..effects : /\ ListInv(effect[e].devices)
                               /\ e # effects => effect[e].cancelled
  BY <1>1, <1>2, EffectsGive DEF EffectOK
<1>4. /\ ApiInv' /\ Grows /\ WorldInv' /\ LinksInv' /\ Disjoint'
      /\ effects' = effects + 1 /\ effects' \in 0..MaxEffects
      /\ effect' \in [1..effects' -> Range(effect')]
      /\ \A e \in 1..effects : /\ EffectOK(effect'[e])
                               /\ effect'[e].devices = effect[e].devices
                               /\ effect'[e].cancelled
      /\ effect'[effects'] = [pc |-> "list", cancelled |-> FALSE,
                              component |-> effects, devices |-> << >>]
  BY <1>1, <1>2, <1>3, RunEffectAsks
<1>5. /\ EffectOK(effect'[effects']) /\ ~effect'[effects'].cancelled
      /\ effect'[effects'].devices = << >> /\ effect'[effects'].pc = "list"
  BY <1>4 DEF EffectOK
<1>6. \A e \in 1..effects' : e \in 1..effects \/ e = effects'
  BY <1>3, <1>4
<1>7. ASSUME NEW e \in 1..effects'
      PROVE  /\ EffectOK(effect'[e])
             /\ ListInv(effect'[e].devices)
             /\ ~effect'[e].cancelled => mounted' /\ e = effects'
  BY <1>2, <1>3, <1>4, <1>5, <1>6, EmptyList
<1>8. WorldInv /\ mounted' \in BOOLEAN
  BY <1>1, <1>2, ApiGives DEF EffectsInv
<1>9. EffectsInv'
  BY <1>3, <1>4, <1>5, <1>7, <1>8, EffectsStep
<1>10. state = Fresh
  BY <1>1, <1>2 DEF StateInv, NothingStale
<1>11. state' = Fresh /\ state'.loading = TRUE /\ DOMAIN state' = DOMAIN Fresh
  BY <1>2, <1>10 DEF Fresh
<1>12. StateInv'
  BY <1>4, <1>5, <1>11
  DEF StateInv, AnswersInv, Disjoint, NothingStale, RowsConsistent, Shown, Fresh
<1> QED
  BY <1>4, <1>9, <1>12 DEF ViewInv

\* An effect changes, the others stay.
LEMMA EffectChanges ==
  ASSUME EffectsInv, NEW e \in 1..effects, NEW x,
         effect' = [effect EXCEPT ![e] = x], effects' = effects
  PROVE  /\ effect' \in [1..effects' -> Range(effect')]
         /\ effect'[e] = x
         /\ \A i \in 1..effects : i # e => effect'[i] = effect[i]
PROOF
<1>1. DOMAIN effect = 1..effects
  BY EffectsGive
<1>2. DOMAIN effect' = 1..effects /\ effect' = [i \in DOMAIN effect' |-> effect'[i]]
  BY <1>1
<1> QED
  BY <1>1, <1>2 DEF Range

LEMMA UnmountKeeps ==
  ASSUME ViewInv, Unmount
  PROVE  ViewInv'
PROOF
<1>1. ApiInv /\ EffectsInv /\ LinksInv /\ StateInv
  BY DEF ViewInv
<1>2. /\ mounted /\ mounted' = FALSE /\ state' = state /\ effects' = effects
      /\ effect' = [effect EXCEPT ![effects].cancelled = TRUE]
      /\ UNCHANGED vars
  BY DEF Unmount
<1>3. /\ effects \in 1..effects /\ EffectOK(effect[effects])
      /\ \A e \in 1..effects : /\ EffectOK(effect[e])
                               /\ ListInv(effect[e].devices)
                               /\ e # effects => effect[e].cancelled
  BY <1>1, <1>2, EffectsGive DEF EffectOK
<1>4. PICK x : x = [effect[effects] EXCEPT !.cancelled = TRUE]
  OBVIOUS
<1>5. /\ EffectOK(x) /\ x.pc = effect[effects].pc /\ x.cancelled
      /\ x.devices = effect[effects].devices
  BY <1>3, <1>4 DEF EffectOK
<1>6. effect' = [effect EXCEPT ![effects] = x]
  BY <1>2, <1>4
<1>7. /\ effect' \in [1..effects' -> Range(effect')]
      /\ effect'[effects] = x
      /\ \A i \in 1..effects : i # effects => effect'[i] = effect[i]
  BY <1>1, <1>2, <1>3, <1>6, EffectChanges
<1>8. UNCHANGED world /\ up' = up /\ request' = request /\ answer' = answer
  BY <1>2 DEF vars, world
<1>9. WorldInv /\ WorldInv' /\ Grows
  BY <1>1, <1>8, ApiGives, WorldStill
<1>10. ApiInv'
  BY <1>1, <1>8, <1>9, ApiGives, ApiStep DEF ApiInv, TypeOK
<1>11. EffectsGrow
  BY <1>2, <1>3, <1>5, <1>7 DEF EffectsGrow
<1>12. LinksInv'
  BY <1>1, <1>8, <1>9, <1>11, ApiGives, LinksKept DEF LinksInv, GoodHandler
<1>13. ASSUME NEW e \in 1..effects'
       PROVE  /\ EffectOK(effect'[e])
              /\ ListInv(effect'[e].devices)
              /\ ~effect'[e].cancelled => mounted' /\ e = effects'
  BY <1>2, <1>3, <1>5, <1>7
<1>14. EffectsInv'
  BY <1>1, <1>2, <1>7, <1>9, <1>13, EffectsStep DEF EffectsInv
<1>15. StateInv'
  BY <1>1, <1>2, <1>8
  DEF StateInv, AnswersInv, NothingStale, RowsConsistent, Shown, Fresh
<1> QED
  BY <1>10, <1>12, <1>14, <1>15 DEF ViewInv

\* An effect that ends: requests, answers and lists are as they were.
LEMMA EffectEnds ==
  ASSUME ViewInv, NEW e \in 1..effects, Goto(e, "done"),
         UNCHANGED <<vars, effects, mounted>>
  PROVE  /\ ApiInv' /\ EffectsInv' /\ LinksInv'
         /\ Disjoint' /\ DetailsStay
         /\ effect'[e].pc = "done" /\ effect'[e].devices = effect[e].devices
         /\ \A i \in 1..effects : i # e => effect'[i] = effect[i]
PROOF
<1>1. ApiInv /\ EffectsInv /\ LinksInv /\ StateInv
  BY DEF ViewInv
<1>2. /\ mounted' = mounted /\ effects' = effects
      /\ effect' = [effect EXCEPT ![e].pc = "done"]
  BY DEF Goto
<1>3. /\ EffectOK(effect[e])
      /\ \A i \in 1..effects : /\ EffectOK(effect[i])
                               /\ ListInv(effect[i].devices)
                               /\ ~effect[i].cancelled => mounted /\ i = effects
      /\ mounted => effects > 0 /\ ~effect[effects].cancelled
  BY <1>1, EffectsGive
<1>4. PICK x : x = [effect[e] EXCEPT !.pc = "done"]
  OBVIOUS
<1>5. /\ EffectOK(x) /\ x.pc = "done" /\ x.cancelled = effect[e].cancelled
      /\ x.devices = effect[e].devices
  BY <1>3, <1>4 DEF EffectOK
<1>6. effect' = [effect EXCEPT ![e] = x]
  BY <1>2, <1>4
<1>7. /\ effect' \in [1..effects' -> Range(effect')]
      /\ effect'[e] = x
      /\ \A i \in 1..effects : i # e => effect'[i] = effect[i]
  BY <1>1, <1>2, <1>6, EffectChanges
<1>8. UNCHANGED world /\ up' = up /\ request' = request /\ answer' = answer
  BY DEF vars, world
<1>9. WorldInv /\ WorldInv' /\ Grows
  BY <1>1, <1>8, ApiGives, WorldStill
<1>10. ApiInv'
  BY <1>1, <1>8, <1>9, ApiGives, ApiStep DEF ApiInv, TypeOK
<1>11. EffectsGrow
  BY <1>2, <1>5, <1>7 DEF EffectsGrow
<1>12. LinksInv'
  BY <1>1, <1>8, <1>9, <1>11, ApiGives, LinksKept DEF LinksInv, GoodHandler
<1>13. ASSUME NEW i \in 1..effects'
       PROVE  /\ EffectOK(effect'[i])
              /\ ListInv(effect'[i].devices)
              /\ effect'[i].cancelled = effect[i].cancelled
  BY <1>2, <1>3, <1>5, <1>7
<1>14. /\ mounted' => effects' > 0 /\ ~effect'[effects'].cancelled
       /\ \A i \in 1..effects' : ~effect'[i].cancelled => mounted' /\ i = effects'
  <2>1. effects > 0 => effects \in 1..effects
    BY <1>1, EffectsGive
  <2> QED
    BY <1>2, <1>3, <1>13, <2>1
<1>15. EffectsInv'
  BY <1>1, <1>2, <1>7, <1>9, <1>13, <1>14, EffectsStep DEF EffectsInv
<1>16. Disjoint' /\ DetailsStay
  BY <1>1, <1>8 DEF StateInv, AnswersInv, Disjoint, DetailsStay
<1> QED
  BY <1>5, <1>7, <1>10, <1>12, <1>15, <1>16

\* What setState does: a cancelled effect changes nothing.
LEMMA SetStateIs ==
  ASSUME EffectsInv, NEW e \in 1..effects, NEW s, SetState(e, s)
  PROVE  /\ Live(e) => mounted /\ e = effects /\ state' = s
         /\ ~Live(e) => state' = state /\ (mounted => e # effects)
PROOF
<1>1. /\ Live(e) => mounted /\ e = effects
      /\ mounted => Live(effects)
  BY DEF EffectsInv
<1> QED
  BY <1>1 DEF SetState

\* A cancelled effect that ends does not show.
LEMMA CancelledEnds ==
  ASSUME EffectsInv, StateInv, NEW e \in 1..effects,
         state' = state, mounted => e # effects,
         UNCHANGED <<effects, mounted>>, Disjoint', DetailsStay,
         \A i \in 1..effects : i # e => effect'[i] = effect[i]
  PROVE  StateInv'
PROOF
<1>1. mounted => effect'[effects] = effect[effects]
  BY DEF EffectsInv
<1> QED
  BY <1>1, StateStays

LEMMA ListFailsKeeps ==
  ASSUME ViewInv, NEW e \in 1..effects, ListFails(e)
  PROVE  ViewInv'
PROOF
<1>1. EffectsInv /\ StateInv
  BY DEF ViewInv
<1>2. /\ Goto(e, "done") /\ UNCHANGED <<vars, effects, mounted>>
      /\ SetState(e, ErrorState(state)) /\ effect[e].pc = "list"
  BY DEF ListFails
<1>3. /\ ApiInv' /\ EffectsInv' /\ LinksInv'
      /\ Disjoint' /\ DetailsStay
      /\ effect'[e].pc = "done"
      /\ \A i \in 1..effects : i # e => effect'[i] = effect[i]
  BY <1>2, EffectEnds
<1>4. StateInv'
  <2>1. CASE Live(e)
    <3>1. e = effects /\ mounted' = mounted /\ effects' = effects
          /\ state' = ErrorState(state)
      BY <1>1, <1>2, <2>1, SetStateIs
    <3>2. state = Fresh
      BY <1>1, <1>2, <2>1, <3>1 DEF EffectsInv, StateInv, NothingStale
    <3>3. /\ state' = ErrorState(Fresh) /\ state'.error = TRUE
          /\ DOMAIN state' = DOMAIN Fresh
      BY <3>1, <3>2 DEF ErrorState, Fresh
    <3> QED
      BY <1>3, <3>1, <3>3
      DEF StateInv, AnswersInv, Disjoint, NothingStale, RowsConsistent, Shown,
          Fresh, ErrorState
  <2>2. CASE ~Live(e)
    <3>1. state' = state /\ (mounted => e # effects)
      BY <1>1, <1>2, <2>2, SetStateIs
    <3> QED
      BY <1>1, <1>2, <1>3, <3>1, CancelledEnds
  <2> QED
    BY <2>1, <2>2
<1> QED
  BY <1>3, <1>4 DEF ViewInv

\* The row of a device in a table, and what RowsConsistent asks of it.
RowOK(s, d) ==
    LET info == s.devices[d]
        bal == GetOr(s.balances, d, Failed)
        ser == GetOr(s.series, d, {})
    IN /\ bal # Failed => /\ info.total_units <= bal.total_units
                          /\ info.total_cost <= bal.total_billed
                          /\ info.event_count <= bal.latest_seq
                          /\ bal.on_chain_balance # {}
       /\ info.total_units \in Nat /\ info.total_cost \in Nat
       /\ ser # {} => info.total_units <= Total([x \in ser |-> x.total_units])

LEMMA RowsAreOK ==
  ASSUME NEW s, state' = s, \A d \in DOMAIN s.devices : RowOK(s, d)
  PROVE  RowsConsistent'
PROOF
<1> SUFFICES ASSUME NEW d \in DOMAIN s.devices
             PROVE  LET info == s.devices[d]
                        row == ShownRow(d)' IN
                    /\ info.total_units <= row.units
                    /\ info.total_cost <= row.billed
                    /\ \A seq \in row.latest_seq :
                          row.records <= seq /\ row.balance # {}
                    /\ SeriesOf(d)' # {} =>
                          info.total_units <=
                              Total([x \in SeriesOf(d)' |-> x.total_units])
  BY DEF RowsConsistent
<1>1. PICK bal : bal = GetOr(s.balances, d, Failed)
  OBVIOUS
<1>2. PICK info : info = s.devices[d]
  OBVIOUS
<1>3. PICK ser : ser = GetOr(s.series, d, {})
  OBVIOUS
<1>4. SeriesOf(d)' = ser
  BY <1>3 DEF SeriesOf
<1>5. /\ bal # Failed => /\ info.total_units <= bal.total_units
                         /\ info.total_cost <= bal.total_billed
                         /\ info.event_count <= bal.latest_seq
                         /\ bal.on_chain_balance # {}
      /\ info.total_units \in Nat /\ info.total_cost \in Nat
      /\ ser # {} => info.total_units <= Total([x \in ser |-> x.total_units])
  BY <1>1, <1>2, <1>3 DEF RowOK
<1>6. PICK row : row = ShownRow(d)'
  OBVIOUS
<1>7. CASE bal = Failed
  <2>1. row = [balance |-> {}, units |-> info.total_units,
               billed |-> info.total_cost, latest_seq |-> {},
               records |-> info.event_count]
    BY <1>1, <1>2, <1>6, <1>7 DEF ShownRow, Failed
  <2>2. row.units = info.total_units /\ row.billed = info.total_cost
        /\ row.latest_seq = {}
    BY <2>1
  <2> QED
    BY <1>2, <1>4, <1>5, <1>6, <2>2
<1>8. CASE bal # Failed
  <2>1. row = [balance |-> bal.on_chain_balance, units |-> bal.total_units,
               billed |-> bal.total_billed, latest_seq |-> {bal.latest_seq},
               records |-> info.event_count]
    BY <1>1, <1>2, <1>6, <1>8 DEF ShownRow, Failed
  <2>2. /\ row.units = bal.total_units /\ row.billed = bal.total_billed
        /\ row.latest_seq = {bal.latest_seq} /\ row.records = info.event_count
        /\ row.balance = bal.on_chain_balance
    BY <2>1
  <2> QED
    BY <1>2, <1>4, <1>5, <1>6, <1>8, <2>2
<1> QED
  BY <1>7, <1>8

LEMMA DetailsArriveKeeps ==
  ASSUME ViewInv, NEW e \in 1..effects, DetailsArrive(e)
  PROVE  ViewInv'
PROOF
<1>1. ApiInv /\ EffectsInv /\ LinksInv /\ StateInv
  BY DEF ViewInv
<1>2. PICK list : list = effect[e].devices
  OBVIOUS
<1>3. PICK bals : bals = [d \in DOMAIN list |-> answer[<<e, "balance", d>>]]
  OBVIOUS
<1>4. PICK sers : sers = [d \in DOMAIN list |->
                            LET a == answer[<<e, "metrics", d>>] IN
                            IF a = Failed THEN {} ELSE a.series]
  OBVIOUS
<1>5. PICK s : s = [state EXCEPT !.balances = bals, !.series = sers,
                                 !.loading = FALSE]
  OBVIOUS
<1>6. /\ effect[e].pc = "details"
      /\ Goto(e, "done") /\ UNCHANGED <<vars, effects, mounted>>
      /\ SetState(e, s)
      /\ \A d \in DOMAIN list : <<e, "balance", d>> \in DOMAIN answer
      /\ \A d \in DOMAIN list : <<e, "metrics", d>> \in DOMAIN answer
  BY <1>2, <1>3, <1>4, <1>5 DEF DetailsArrive, AllCame, BalMap, SeriesMap
<1>7. /\ ApiInv' /\ EffectsInv' /\ LinksInv'
      /\ Disjoint' /\ DetailsStay
      /\ effect'[e].pc = "done" /\ effect'[e].devices = effect[e].devices
      /\ \A i \in 1..effects : i # e => effect'[i] = effect[i]
  BY <1>6, EffectEnds
<1>8. CASE ~Live(e)
  <2>1. state' = state /\ (mounted => e # effects)
    BY <1>1, <1>6, <1>8, SetStateIs
  <2>2. StateInv'
    BY <1>1, <1>6, <1>7, <2>1, CancelledEnds
  <2> QED
    BY <1>7, <2>2 DEF ViewInv
<1>9. CASE Live(e)
  <2>1. e = effects /\ mounted /\ state' = s
    BY <1>1, <1>6, <1>9, SetStateIs
  <2>2. /\ state = [Fresh EXCEPT !.devices = list]
        /\ DOMAIN state = {"devices", "balances", "series", "error", "loading"}
        /\ state.devices = list
    BY <1>1, <1>2, <1>6, <2>1 DEF StateInv, NothingStale, Fresh
  <2>3. /\ s.devices = list /\ s.balances = bals /\ s.series = sers
        /\ DOMAIN s = DOMAIN state
    BY <1>5, <2>2
  <2>4. ASSUME NEW d \in DOMAIN list PROVE RowOK(s, d)
    <3>1. PICK b : b = answer[<<e, "balance", d>>]
      OBVIOUS
    <3>2. PICK m : m = answer[<<e, "metrics", d>>]
      OBVIOUS
    <3>3. e \in Effect /\ d \in Device /\ ListInv(list)
      BY <1>1, <1>2, EffectsGive DEF Effect, ListInv
    <3>4. <<e, "balance", d>> \in ViewRequest /\ <<e, "metrics", d>> \in ViewRequest
      BY <3>3 DEF ViewRequest
    <3>5. AnswerLink(<<e, "balance", d>>, b) /\ AnswerLink(<<e, "metrics", d>>, m)
      BY <1>1, <1>6, <3>1, <3>2, <3>4 DEF LinksInv
    <3>6. GoodAnswer(b) /\ GoodAnswer(m)
      BY <1>1, <1>6, <3>1, <3>2, ApiGives
    <3>7. Listed(<<e, "balance", d>>) = list[d] /\ Listed(<<e, "metrics", d>>) = list[d]
      BY <1>2 DEF Listed
    <3>8. b # Failed => /\ list[d].total_units <= b.total_units
                        /\ list[d].total_cost <= b.total_billed
                        /\ list[d].event_count <= b.latest_seq
                        /\ b.on_chain_balance # {}
      BY <3>5, <3>6, <3>7 DEF AnswerLink, GoodAnswer, AnswerInv
    <3>9. PICK ser : ser = m.series
      OBVIOUS
    <3>10. m # Failed => list[d].total_units <= Total([x \in ser |-> x.total_units])
      BY <3>5, <3>6, <3>7, <3>9 DEF AnswerLink, GoodAnswer, AnswerInv
    <3>11. list[d].total_units \in Nat /\ list[d].total_cost \in Nat
      BY <3>3 DEF ListInv
    <3>12. GetOr(s.balances, d, Failed) = b
      BY <1>3, <2>3, <3>1 DEF GetOr
    <3>13. GetOr(s.series, d, {}) = IF m = Failed THEN {} ELSE ser
      BY <1>4, <2>3, <3>2, <3>9 DEF GetOr
    <3>14. PICK shown : shown = GetOr(s.series, d, {})
      OBVIOUS
    <3>15. shown # {} => list[d].total_units <=
                           Total([x \in shown |-> x.total_units])
      BY <3>10, <3>13, <3>14
    <3> QED
      BY <2>3, <3>8, <3>11, <3>12, <3>14, <3>15 DEF RowOK
  <2>5. RowsConsistent'
    BY <2>1, <2>3, <2>4, RowsAreOK
  <2>6. AllCame(e) /\ BalMap(e) = bals /\ SeriesMap(e) = sers
    BY <1>2, <1>3, <1>4 DEF DetailsArrive, AllCame, BalMap, SeriesMap
  <2>7. AllCame(e)' /\ BalMap(e)' = bals /\ SeriesMap(e)' = sers
    BY <1>1, <1>7, <2>6, MapsStay
  <2>8. effects' = e /\ effect'[e].devices = list
    BY <1>2, <1>6, <1>7, <2>1
  <2>9. NothingStale'
    BY <1>5, <1>7, <2>1, <2>2, <2>7, <2>8 DEF NothingStale
  <2>10. AnswersInv'
    BY <1>7, <2>7, <2>8 DEF AnswersInv, Disjoint
  <2>11. StateInv'
    BY <2>1, <2>2, <2>3, <2>5, <2>9, <2>10 DEF StateInv, Fresh
  <2> QED
    BY <1>7, <2>11 DEF ViewInv
<1> QED
  BY <1>8, <1>9

LEMMA ListArrivesKeeps ==
  ASSUME ViewInv, NEW e \in 1..effects, ListArrives(e)
  PROVE  ViewInv'
PROOF
<1>1. ApiInv /\ EffectsInv /\ LinksInv /\ StateInv
  BY DEF ViewInv
<1>2. PICK list : list = answer[ListOf(e)].devices
  OBVIOUS
<1> DEFINE details == {<<e, kind, d>> : kind \in {"balance", "metrics"},
                                        d \in DOMAIN list}
<1> HIDE DEF details
<1>3. PICK asked : asked = details
  OBVIOUS
<1>4. /\ effect[e].pc = "list"
      /\ ListOf(e) \in DOMAIN answer /\ answer[ListOf(e)].kind = "devices"
      /\ effects' = effects /\ mounted' = mounted
      /\ UNCHANGED world /\ up' = up
  BY DEF ListArrives, Answers
<1>5. CASE ~Live(e)
  <2>1. /\ Goto(e, "done") /\ state' = state
        /\ UNCHANGED <<vars, effects, mounted>>
    BY <1>5 DEF ListArrives, vars, world
  <2>2. /\ ApiInv' /\ EffectsInv' /\ LinksInv' /\ Disjoint' /\ DetailsStay
        /\ \A i \in 1..effects : i # e => effect'[i] = effect[i]
    BY <2>1, EffectEnds
  <2>3. mounted => e # effects
    BY <1>1, <1>5 DEF EffectsInv
  <2>4. StateInv'
    BY <1>1, <1>4, <2>1, <2>2, <2>3, CancelledEnds
  <2> QED
    BY <2>2, <2>4 DEF ViewInv
<1>6. CASE Live(e)
  <2>1. /\ SetState(e, [state EXCEPT !.devices = list])
        /\ effect' = [effect EXCEPT ![e].pc = "details", ![e].devices = list]
        /\ request' = IF ~up THEN request
                      ELSE [r \in DOMAIN request \cup asked |->
                              IF r \in asked
                              THEN Handler(r[2], r[3], AnyTime, "day")
                              ELSE request[r]]
        /\ answer' = IF up THEN answer
                     ELSE [r \in DOMAIN answer \cup asked |->
                             IF r \in asked THEN Failed ELSE answer[r]]
    BY <1>2, <1>3, <1>6 DEF ListArrives, details
  <2>2. ListInv(list)
    BY <1>1, <1>2, <1>4, ApiGives DEF GoodAnswer, AnswerInv
  <2>3. e \in Effect /\ DOMAIN list \subseteq Device
    BY <1>1, <2>2, EffectsGive DEF Effect, ListInv
  <2>4. ASSUME NEW r \in asked
        PROVE  /\ r \in ViewRequest /\ r \in Request
               /\ r[1] = e /\ r[2] \in {"balance", "metrics"}
               /\ r[3] \in DOMAIN list /\ r[3] \in Device
    <3>1. PICK kind \in {"balance", "metrics"}, d \in DOMAIN list :
             r = <<e, kind, d>>
      BY <1>3 DEF details
    <3> QED
      BY <2>3, <3>1, ViewAssumption DEF ViewRequest
  <2>5. WorldInv /\ WorldInv' /\ Grows
    BY <1>1, <1>4, ApiGives, WorldStill
  <2>6. ASSUME NEW r \in DOMAIN request'
        PROVE  \/ r \in DOMAIN request /\ request'[r] = request[r]
               \/ r \in asked /\ request'[r] = Handler(r[2], r[3], AnyTime, "day")
    BY <2>1
  <2>7. ASSUME NEW r \in DOMAIN answer'
        PROVE  \/ r \in DOMAIN answer /\ answer'[r] = answer[r]
               \/ r \in asked /\ answer'[r] = Failed
    BY <2>1
  <2>8. \A r \in asked : GoodHandler(Handler(r[2], r[3], AnyTime, "day"))
    BY <2>4, HandlerIsGood
  <2>9. \A r \in DOMAIN request' : r \in Request /\ GoodHandler(request'[r])
    BY <1>1, <2>4, <2>6, <2>8, ApiGives
  <2>10. \A r \in DOMAIN answer' : r \in Request /\ GoodAnswer(answer'[r])
    BY <1>1, <2>4, <2>7, ApiGives, FailedIsGood
  <2>11. ApiInv'
    BY <1>1, <1>4, <2>5, <2>9, <2>10, ApiStep DEF ApiInv, TypeOK
  <2>12. PICK x : x = [effect[e] EXCEPT !.pc = "details", !.devices = list]
    OBVIOUS
  <2>13. /\ EffectOK(x) /\ x.pc = "details" /\ x.devices = list
         /\ x.cancelled = effect[e].cancelled
    BY <1>1, <2>12, EffectsGive DEF EffectOK
  <2>14. effect' = [effect EXCEPT ![e] = x]
    BY <2>1, <2>12
  <2>15. /\ effect' \in [1..effects' -> Range(effect')]
         /\ effect'[e] = x
         /\ \A i \in 1..effects : i # e => effect'[i] = effect[i]
    BY <1>1, <1>4, <2>14, EffectChanges
  <2>16. EffectsGrow
    BY <1>4, <2>15 DEF EffectsGrow
  <2>17. \A r \in asked : Asked(r)'
    BY <1>4, <2>4, <2>13, <2>15 DEF Asked
  <2>18. ASSUME NEW r \in ViewRequest, NEW q, r \in DOMAIN request',
                q = request'[r]
         PROVE  RequestLink(r, q)'
    <3>1. CASE r \in DOMAIN request /\ request'[r] = request[r]
      <4>1. RequestLink(r, q) /\ GoodHandler(q)
        BY <1>1, <2>18, <3>1, ApiGives DEF LinksInv
      <4> QED
        BY <2>5, <2>16, <4>1, RequestLinkStays DEF GoodHandler
    <3>2. CASE r \in asked /\ request'[r] = Handler(r[2], r[3], AnyTime, "day")
      <4>1. q = Handler(r[2], r[3], AnyTime, "day")
        BY <2>18, <3>2
      <4>2. q.kind = r[2] /\ q.device = r[3] /\ q.window = AnyTime /\ q.pc = "first"
        BY <4>1 DEF Handler
      <4> QED
        BY <2>17, <3>2, <4>2 DEF RequestLink, AnyTime
    <3> QED
      BY <2>6, <2>18, <3>1, <3>2
  <2>19. ASSUME NEW r \in ViewRequest, NEW a, r \in DOMAIN answer', a = answer'[r]
         PROVE  AnswerLink(r, a)'
    <3>1. CASE r \in DOMAIN answer /\ answer'[r] = answer[r]
      BY <1>1, <2>16, <2>19, <3>1, AnswerLinkStays DEF LinksInv
    <3>2. CASE r \in asked /\ answer'[r] = Failed
      <4>1. a.kind = "failed"
        BY <2>19, <3>2 DEF Failed
      <4> QED
        BY <2>17, <3>2, <4>1 DEF AnswerLink
    <3> QED
      BY <2>7, <2>19, <3>1, <3>2
  <2>20. LinksInv'
    BY <2>18, <2>19, LinksStep
  <2>21. /\ \A i \in 1..effects : /\ EffectOK(effect[i])
                                  /\ ListInv(effect[i].devices)
                                  /\ ~effect[i].cancelled => mounted /\ i = effects
         /\ mounted => effects \in 1..effects /\ ~effect[effects].cancelled
         /\ effects \in Nat
    BY <1>1, EffectsGive
  <2>22. ASSUME NEW i \in 1..effects'
         PROVE  /\ EffectOK(effect'[i])
                /\ ListInv(effect'[i].devices)
                /\ effect'[i].cancelled = effect[i].cancelled
    BY <1>4, <2>2, <2>13, <2>15, <2>21
  <2>23. /\ mounted' => effects' > 0 /\ ~effect'[effects'].cancelled
         /\ \A i \in 1..effects' : ~effect'[i].cancelled => mounted' /\ i = effects'
    BY <1>4, <2>21, <2>22
  <2>24. EffectsInv'
    BY <1>1, <1>4, <2>5, <2>15, <2>22, <2>23, EffectsStep DEF EffectsInv
  <2>25. e = effects /\ mounted /\ state' = [state EXCEPT !.devices = list]
    BY <1>1, <1>6, <2>1, SetStateIs
  <2>26. state = Fresh
    BY <1>1, <1>4, <2>25 DEF StateInv, NothingStale
  <2>27. state'.loading = TRUE /\ state' = [Fresh EXCEPT !.devices = list]
         /\ DOMAIN state' = DOMAIN Fresh
    BY <2>25, <2>26 DEF Fresh
  <2>28. Disjoint'
    <3>1. \A r \in asked : r \notin DOMAIN request /\ r \notin DOMAIN answer
      BY <1>1, <1>4, <2>4 DEF LinksInv, RequestLink, AnswerLink, Asked
    <3> QED
      BY <1>1, <2>1, <3>1 DEF StateInv, AnswersInv, Disjoint
  <2>29. effects' = e /\ effect'[e].pc = "details" /\ effect'[e].devices = list
    BY <1>4, <2>13, <2>15, <2>25
  <2>30. NothingStale'
    BY <2>27, <2>29 DEF NothingStale
  <2>31. StateInv'
    BY <2>27, <2>28, <2>29, <2>30
    DEF StateInv, AnswersInv, Disjoint, RowsConsistent, Shown, Fresh
  <2> QED
    BY <2>11, <2>20, <2>24, <2>31 DEF ViewInv
<1> QED
  BY <1>5, <1>6

----------------------------------------------------------------------------
(* The invariant, and what follows from it.                                *)

LEMMA ViewInitially ==
  ASSUME ViewInit
  PROVE  ViewInv
PROOF
<1>1. /\ log = << >> /\ funded = [d \in Device |-> 0] /\ cached = {}
      /\ emitted_at = << >> /\ hour = 0 /\ up = TRUE
      /\ request = << >> /\ answer = << >>
      /\ effects = 0 /\ effect = << >> /\ mounted = FALSE /\ state = Fresh
  BY DEF ViewInit, Init, Meter!Init
<1>2. DOMAIN log = {} /\ DOMAIN request = {} /\ DOMAIN answer = {}
      /\ DOMAIN emitted_at = {}
  BY <1>1
<1>3. log \in Seq(Reading)
  BY <1>1
<1>4. ChainInv
  BY <1>1, <1>2, <1>3 DEF ChainInv, Reading
<1>5. emitted_at \in [cached -> 0..MaxHour] /\ hour \in 0..MaxHour
  BY <1>1, <1>2, ApiAssumption
<1>6. TypeOK
  BY <1>1, <1>2, <1>5 DEF TypeOK
<1>7. ApiInv
  BY <1>2, <1>4, <1>6 DEF ApiInv, Range
<1>8. EffectsInv
  <2>1. effect \in [1..effects -> Range(effect)]
    BY <1>1
  <2>2. 1..effects = {} /\ effects \in 0..MaxEffects
    BY <1>1, ViewAssumption
  <2>3. {effect[e].devices : e \in 1..effects} = {}
    BY <2>2
  <2> QED
    BY <1>1, <2>1, <2>2, <2>3 DEF EffectsInv
<1>9. LinksInv
  BY <1>2 DEF LinksInv
<1>10. StateInv
  BY <1>1, <1>2 DEF StateInv, AnswersInv, NothingStale, RowsConsistent, Shown
<1> QED
  BY <1>7, <1>8, <1>9, <1>10 DEF ViewInv

LEMMA ViewInduction ==
  ASSUME ViewInv, [ViewNext]_allvars
  PROVE  ViewInv'
PROOF
<1>1. ApiInv /\ EffectsInv /\ LinksInv /\ StateInv /\ WorldInv /\ Disjoint
  BY ApiGives DEF ViewInv, StateInv, AnswersInv, Disjoint
<1>2. ASSUME UNCHANGED view, ApiInv', Grows, LinksInv', Disjoint', DetailsStay
      PROVE  ViewInv'
  <2>1. WorldInv'
    BY <1>2 DEF ApiInv, TypeOK, WorldInv, CacheTypes
  <2> QED
    BY <1>1, <1>2, <2>1, ViewKept DEF ViewInv
<1>3. CASE World /\ UNCHANGED view
  <2>1. UNCHANGED <<request, answer>>
    BY <1>1, <1>3, WorldGrows
  <2>2. Disjoint' /\ DetailsStay
    BY <1>1, <2>1 DEF Disjoint, DetailsStay
  <2> QED
    BY <1>1, <1>2, <1>3, <2>2, WorldKeeps
<1>4. CASE Server /\ UNCHANGED view
  BY <1>1, <1>2, <1>4, ServerKeeps, ServerAnswers
<1>5. ASSUME NEW r \in Request \ ViewRequest, Ask(r), UNCHANGED view
      PROVE  ViewInv'
  BY <1>1, <1>2, <1>5, AskKeeps, AskAnswers
<1>6. ASSUME NEW e \in 1..effects, EffectStep(e) PROVE ViewInv'
  BY <1>6, ListFailsKeeps, ListArrivesKeeps, DetailsArriveKeeps DEF EffectStep
<1>7. CASE UNCHANGED allvars
  <2>1. /\ UNCHANGED world /\ up' = up /\ request' = request
        /\ answer' = answer /\ UNCHANGED view
    BY <1>7 DEF allvars, vars, world
  <2>2. WorldInv' /\ Grows
    BY <1>1, <2>1, WorldStill
  <2>3. ApiInv'
    BY <1>1, <2>1, <2>2, ApiGives, ApiStep DEF ApiInv, TypeOK
  <2>4. LinksInv'
    BY <1>1, <2>1, <2>2, ApiGives, LinksKept, ViewStill DEF LinksInv, GoodHandler
  <2>5. Disjoint' /\ DetailsStay
    BY <1>1, <2>1 DEF Disjoint, DetailsStay
  <2> QED
    BY <1>2, <2>1, <2>2, <2>3, <2>4, <2>5
<1> QED
  BY <1>3, <1>4, <1>5, <1>6, <1>7, MountKeeps, StrictRemountKeeps, UnmountKeeps
  DEF ViewNext

LEMMA ViewAlways == ViewSpec => []ViewInv
PROOF
<1>1. ViewInit => ViewInv
  BY ViewInitially
<1>2. ViewInv /\ [ViewNext]_allvars => ViewInv'
  BY ViewInduction
<1> QED
  BY <1>1, <1>2, PTL DEF ViewSpec

\* The API's tables and handlers have their types.
THEOREM ApiTypes == ViewSpec => []TypeOK
PROOF
<1>1. ViewInv => TypeOK
  BY DEF ViewInv, ApiInv
<1> QED
  BY <1>1, ViewAlways, PTL

\* GET /api/devices/:id/balance adds up the rows of its first query and takes
\* latest_seq from its second, while readings are billed and cached: the
\* answer still describes one moment on the chain, for any number of devices
\* and requests.
THEOREM BalanceOfOneMoment == ViewSpec => []BalanceIsOneMoment
PROOF
<1>1. ViewInv => BalanceIsOneMoment
  BY ApiGives DEF ViewInv, BalanceIsOneMoment, Answers, GoodAnswer, AnswerInv
<1> QED
  BY <1>1, ViewAlways, PTL

\* GET /api/devices/:id/metrics reads samples and series one after the other:
\* no sample is missing from the bucket of the series it belongs to.
THEOREM SamplesInSeries == ViewSpec => []SeriesCoversSamples
PROOF
<1>1. ViewInv => SeriesCoversSamples
  BY ApiGives DEF ViewInv, SeriesCoversSamples, Answers, GoodAnswer, AnswerInv
<1> QED
  BY <1>1, ViewAlways, PTL

\* A cancelled effect of DeviceList.tsx, of an earlier mounting or of
\* StrictMode's first run, never writes to the table: what is on the page is
\* what the latest effect fetched, in every phase of it.
THEOREM CancelledNeverShown == ViewSpec => []NothingStale
PROOF
<1>1. ViewInv => NothingStale
  BY DEF ViewInv, StateInv
<1> QED
  BY <1>1, ViewAlways, PTL

\* The rows of the device table, put together from three requests per device,
\* do not contradict themselves, whatever was billed, cached, refused or
\* crashed in between.
THEOREM TableConsistent == ViewSpec => []RowsConsistent
PROOF
<1>1. ViewInv => RowsConsistent
  BY DEF ViewInv, StateInv
<1> QED
  BY <1>1, ViewAlways, PTL
============================================================================
