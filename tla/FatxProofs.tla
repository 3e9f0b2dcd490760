----------------------------- MODULE FatxProofs ----------------------------
(* Fatx for any number of clusters and entries, any files and any sizes: the *)
(* free count of a partition, which decides whether the disk is full, misses *)
(* no cluster that is free.  Of the writes of each operation is said what    *)
(* they take from the FAT (Takes) and what they are counted for, up to the   *)
(* write that fails or the end of the process.                               *)
EXTENDS Fatx, FiniteSetTheorems, FunctionTheorems, TLAPS

-----------------------------------------------------------------------------
(* The FAT and its search *)

\* the contents a FAT may have
Fats == [Clusters -> 0 .. ROOT]

\* The FAT has more entries than the root and its neighbour, and the two marks are no clusters.
LEMMA Sized == /\ FatLength \in Nat /\ FatLength > 2 /\ TotClusters \in Nat /\ TotClusters > 2 /\ FatLength = TotClusters + Padding
               /\ IsFiniteSet(Clusters) /\ 1 \in Clusters /\ ROOT \in Nat /\ EOC \in 0 .. ROOT /\ EOC # FREE
               /\ Clusters \subseteq 0 .. ROOT /\ FREE \notin Clusters
<1>1. FatLength \in Nat /\ TotClusters \in Nat /\ TotClusters > 2 /\ FatLength = TotClusters + Padding /\ FatLength > 2
  BY SizesAssumption DEF FatLength
<1>2. PICK n \in Nat : n = FatLength /\ n > 2
  BY <1>1
<1>3. IsFiniteSet(Clusters)
  BY <1>2, FS_Interval DEF Clusters
<1> QED BY <1>1, <1>2, <1>3 DEF Clusters, ROOT, EOC, FREE

\* Free clusters can be counted.
LEMMA FreeTyped == ASSUME NEW fat PROVE FreeClusters(fat) \subseteq Clusters /\ IsFiniteSet(FreeClusters(fat)) /\ Cardinality(FreeClusters(fat)) \in Nat
<1>1. FreeClusters(fat) \subseteq Clusters
  BY DEF FreeClusters
<1> QED BY <1>1, Sized, FS_Subset, FS_CardinalityType

\* A cluster is as far from the last one as it has to be searched for.
LEMMA DistanceIs == ASSUME NEW c \in Clusters, NEW last \in Clusters
                    PROVE Distance(c, last) = IF c >= last THEN c - last ELSE (c + FatLength) - last
<1>1. PICK n \in Nat : n = FatLength /\ n > 0
  BY Sized
<1>2. c \in 1 .. n /\ last \in 1 .. n
  BY <1>1 DEF Clusters
<1>3. PICK a \in Nat : a = (c + n) - last /\ a < n + n
  BY <1>2
<1>4. Distance(c, last) = a % n
  BY <1>1, <1>2, <1>3 DEF Distance
<1>5. CASE c >= last
  <2>1. PICK r \in Nat : r = c - last /\ r < n /\ a = n + r
    BY <1>2, <1>3, <1>5
  <2>2. r % n = r /\ (n + r) % n = r
    BY <1>1, <2>1
  <2> QED BY <1>4, <1>5, <2>1, <2>2
<1>6. CASE ~(c >= last)
  <2>1. a < n
    BY <1>2, <1>3, <1>6
  <2>2. a % n = a
    BY <1>1, <1>3, <2>1
  <2> QED BY <1>1, <1>3, <1>4, <1>6, <2>2
<1> QED BY <1>5, <1>6

\* No two clusters are equally far.
LEMMA DistancesDiffer == ASSUME NEW c \in Clusters, NEW b \in Clusters, NEW last \in Clusters
                         PROVE Distance(c, last) \in Nat /\ (Distance(c, last) = Distance(b, last) => c = b)
<1>1. PICK n \in Nat : n = FatLength
  BY Sized
<1>2. c \in 1 .. n /\ b \in 1 .. n /\ last \in 1 .. n
  BY <1>1 DEF Clusters
<1>3. Distance(c, last) = IF c >= last THEN c - last ELSE (c + n) - last
  BY <1>1, DistanceIs
<1>4. Distance(b, last) = IF b >= last THEN b - last ELSE (b + n) - last
  BY <1>1, DistanceIs
<1> QED BY <1>2, <1>3, <1>4

\* the free clusters that are found before c
Nearer(free, last, c) == {b \in free : Distance(b, last) < Distance(c, last)}

\* Every free cluster is found in its turn, and every turn finds one.
LEMMA Turns ==
    ASSUME NEW free \in SUBSET Clusters, NEW last \in Clusters
    PROVE  /\ \A c \in free : Cardinality(Nearer(free, last, c)) \in 0 .. Cardinality(free) - 1
           /\ \A b, c \in free : Distance(b, last) < Distance(c, last)
                 => Cardinality(Nearer(free, last, b)) < Cardinality(Nearer(free, last, c))
           /\ \A i \in 0 .. Cardinality(free) - 1 : \E c \in free : Cardinality(Nearer(free, last, c)) = i
<1> DEFINE turn == [c \in free |-> Cardinality(Nearer(free, last, c))]
<1>1. IsFiniteSet(free) /\ Cardinality(free) \in Nat
  BY Sized, FS_Subset, FS_CardinalityType
<1>2. \A c \in free : Distance(c, last) \in Nat
  BY DistancesDiffer
<1>3. ASSUME NEW c \in free PROVE Nearer(free, last, c) \subseteq free /\ IsFiniteSet(Nearer(free, last, c)) /\ Cardinality(Nearer(free, last, c)) \in Nat
  <2>1. Nearer(free, last, c) \subseteq free
    BY DEF Nearer
  <2> QED BY <1>1, <2>1, FS_Subset, FS_CardinalityType
<1>4. ASSUME NEW c \in free PROVE Cardinality(Nearer(free, last, c)) < Cardinality(free)
  <2>1. c \notin Nearer(free, last, c)
    BY <1>2 DEF Nearer
  <2>2. Cardinality(Nearer(free, last, c)) <= Cardinality(free) /\ Cardinality(Nearer(free, last, c)) # Cardinality(free)
    BY <1>1, <1>3, <2>1, FS_Subset
  <2> QED BY <1>1, <1>3, <2>2
<1>5. ASSUME NEW b \in free, NEW c \in free, Distance(b, last) < Distance(c, last)
      PROVE  Cardinality(Nearer(free, last, b)) < Cardinality(Nearer(free, last, c))
  <2>1. Nearer(free, last, b) \in SUBSET Nearer(free, last, c)
    BY <1>2, <1>5 DEF Nearer
  <2>2. b \in Nearer(free, last, c) /\ b \notin Nearer(free, last, b)
    BY <1>2, <1>5 DEF Nearer
  <2>3. Cardinality(Nearer(free, last, b)) <= Cardinality(Nearer(free, last, c))
    BY <1>3, <2>1, FS_Subset
  <2>4. Cardinality(Nearer(free, last, b)) # Cardinality(Nearer(free, last, c))
    BY <1>3, <2>1, <2>2, FS_Subset
  <2> QED BY <1>3, <2>3, <2>4
<1>6. \A c \in free : turn[c] \in 0 .. Cardinality(free) - 1
  BY <1>1, <1>3, <1>4
<1>7. turn \in [free -> 0 .. Cardinality(free) - 1]
  BY <1>6
<1>8. \A b, c \in free : turn[b] = turn[c] => b = c
  <2> SUFFICES ASSUME NEW b \in free, NEW c \in free, turn[b] = turn[c] PROVE b = c
    OBVIOUS
  <2>1. ~(Distance(b, last) < Distance(c, last)) /\ ~(Distance(c, last) < Distance(b, last))
    BY <1>3, <1>5
  <2>2. Distance(b, last) = Distance(c, last)
    BY <1>2, <2>1
  <2> QED BY <2>2, DistancesDiffer
<1>9. turn \in Injection(free, 0 .. Cardinality(free) - 1)
  BY <1>7, <1>8 DEF Injection, IsInjective
<1>10. IsFiniteSet(0 .. Cardinality(free) - 1) /\ Cardinality(0 .. Cardinality(free) - 1) = Cardinality(free)
  <2>1. PICK n \in Nat : n = Cardinality(free)
    BY <1>1
  <2>2. IsFiniteSet(0 .. n - 1) /\ Cardinality(0 .. n - 1) = IF 0 > n - 1 THEN 0 ELSE (n - 1) - 0 + 1
    BY FS_Interval
  <2> QED BY <2>1, <2>2
<1>11. turn \in Surjection(free, 0 .. Cardinality(free) - 1)
  BY <1>1, <1>9, <1>10, FS_Injection
<1>12. \A i \in 0 .. Cardinality(free) - 1 : \E c \in free : turn[c] = i
  BY <1>11 DEF Surjection
<1> QED BY <1>1, <1>5, <1>6, <1>12

\* What is found: n different free clusters, in the order of their distances.
LEMMA FoundAre ==
    ASSUME NEW fat, NEW last \in Clusters, NEW n \in Nat, n <= Cardinality(FreeClusters(fat)),
           NEW found, found = FoundClusters(fat, last, n)
    PROVE  /\ found \in [1 .. n -> FreeClusters(fat)] /\ Len(found) = n
           /\ \A i \in 1 .. n : Cardinality(Nearer(FreeClusters(fat), last, found[i])) = i - 1
           /\ \A i, j \in 1 .. n : i < j => Distance(found[i], last) < Distance(found[j], last) /\ found[i] # found[j]
           /\ \A c \in FreeClusters(fat) : (\A i \in 1 .. n : found[i] # c)
                 => \A i \in 1 .. n : Distance(found[i], last) < Distance(c, last)
<1>1. PICK free \in SUBSET Clusters : free = FreeClusters(fat) /\ Cardinality(free) \in Nat
  BY FreeTyped
<1>2. found = [i \in 1 .. n |-> CHOOSE c \in free : Cardinality(Nearer(free, last, c)) = i - 1]
  BY <1>1 DEF FoundClusters, With, Nearer
<1>3. PICK m \in Nat : m = Cardinality(free) /\ n <= m
  BY <1>1
<1> DEFINE turn(c) == Cardinality(Nearer(free, last, c))
           far(c) == Distance(c, last)
<1>a. \A c \in free : turn(c) \in 0 .. Cardinality(free) - 1
  BY Turns
<1>b. \A b, c \in free : far(b) < far(c) => turn(b) < turn(c)
  BY Turns
<1>4. ASSUME NEW i \in 1 .. n PROVE found[i] \in free /\ Cardinality(Nearer(free, last, found[i])) = i - 1
  <2>1. i - 1 \in 0 .. Cardinality(free) - 1
    BY <1>3
  <2>2. \E c \in free : Cardinality(Nearer(free, last, c)) = i - 1
    BY <2>1, Turns
  <2> QED BY <1>2, <2>2
<1>5. found \in [1 .. n -> free] /\ Len(found) = n
  <2>1. found \in [1 .. n -> free]
    BY <1>2, <1>4
  <2> QED BY <2>1
<1>6. \A c \in free : Distance(c, last) \in Nat
  BY DistancesDiffer
<1>7. ASSUME NEW i \in 1 .. n, NEW j \in 1 .. n, i < j PROVE Distance(found[i], last) < Distance(found[j], last)
  <2>1. found[i] \in free /\ found[j] \in free
    BY <1>4
  <2>2. ~(Distance(found[j], last) < Distance(found[i], last))
    <3>1. turn(found[i]) = i - 1 /\ turn(found[j]) = j - 1
      BY <1>4
    <3>2. ~(turn(found[j]) < turn(found[i]))
      BY <1>7, <3>1
    <3> HIDE DEF turn
    <3> QED BY <1>b, <2>1, <3>2
  <2>3. Distance(found[j], last) # Distance(found[i], last)
    <3>1. found[i] # found[j]
      BY <1>4, <1>7
    <3> QED BY <2>1, <3>1, DistancesDiffer
  <2> QED BY <1>6, <2>1, <2>2, <2>3
<1>8. ASSUME NEW c \in free, \A i \in 1 .. n : found[i] # c, NEW i \in 1 .. n
      PROVE  Distance(found[i], last) < Distance(c, last)
  <2>1. PICK k \in Nat : k = Cardinality(Nearer(free, last, c)) /\ k <= m - 1
    BY <1>3, Turns
  <2>2. found[i] \in free /\ found[i] # c
    BY <1>4, <1>8
  <2>3. ~(Distance(c, last) < Distance(found[i], last))
    <3> SUFFICES ASSUME Distance(c, last) < Distance(found[i], last) PROVE FALSE
      OBVIOUS
    <3>1. k < i - 1
      <4>1. turn(found[i]) = i - 1 /\ turn(c) = k
        BY <1>4, <2>1
      <4>2. turn(c) < turn(found[i])
        <5> HIDE DEF turn
        <5> QED BY <1>b, <2>2
      <4> QED BY <4>1, <4>2
    <3>2. k + 1 \in 1 .. n /\ (k + 1) - 1 = k
      BY <3>1
    <3>3. found[k + 1] \in free /\ Cardinality(Nearer(free, last, found[k + 1])) = k /\ found[k + 1] # c
      BY <1>4, <1>8, <3>2
    <3>4. Distance(found[k + 1], last) = Distance(c, last)
      <4>1. turn(found[k + 1]) = turn(c) /\ turn(c) \in Nat
        BY <2>1, <3>3
      <4>2. ~(turn(c) < turn(c))
        BY <2>1
      <4>3. ~(turn(found[k + 1]) < turn(c)) /\ ~(turn(c) < turn(found[k + 1]))
        BY <4>1, <4>2
      <4>4. ~(far(found[k + 1]) < far(c)) /\ ~(far(c) < far(found[k + 1]))
        <5> HIDE DEF turn
        <5> QED BY <1>b, <3>3, <4>3
      <4> QED BY <1>6, <3>3, <4>4
    <3> QED BY <3>3, <3>4, DistancesDiffer
  <2>4. Distance(c, last) # Distance(found[i], last)
    BY <2>2, DistancesDiffer
  <2> QED BY <1>6, <2>2, <2>3, <2>4
<1>9. \A i, j \in 1 .. n : i < j => found[i] # found[j]
  BY <1>4, <1>6, <1>7
<1> QED BY <1>1, <1>4, <1>5, <1>7, <1>8, <1>9

\* the free clusters that are left when n different ones are taken
LEMMA LessFound ==
    ASSUME NEW free \in SUBSET Clusters, NEW n \in Nat, NEW found \in [1 .. n -> free],
           \A i, j \in 1 .. n : i < j => found[i] # found[j],
           NEW rest, rest = {c \in free : \A i \in 1 .. n : found[i] # c}
    PROVE  Cardinality(rest) \in Nat /\ Cardinality(rest) + n = Cardinality(free)
<1> DEFINE taken == {c \in free : \E i \in 1 .. n : found[i] = c}
<1>1. IsFiniteSet(free) /\ IsFiniteSet(taken) /\ Cardinality(free) \in Nat
  BY Sized, FS_Subset, FS_CardinalityType
<1>2. IsFiniteSet(1 .. n) /\ Cardinality(1 .. n) = n
  BY FS_Interval
<1>3. \A i, j \in 1 .. n : found[i] = found[j] => i = j
  OBVIOUS
<1>4. found \in [1 .. n -> taken]
  OBVIOUS
<1>5. found \in Injection(1 .. n, taken) /\ found \in Surjection(1 .. n, taken)
  BY <1>3, <1>4 DEF Injection, IsInjective, Surjection
<1>6. Cardinality(taken) = n
  BY <1>1, <1>2, <1>5, FS_Injection
<1>7. rest = free \ taken /\ free \cap taken = taken
  OBVIOUS
<1>8. IsFiniteSet(free \ taken) /\ Cardinality(free \ taken) = Cardinality(free) - Cardinality(free \cap taken)
  BY <1>1, FS_Difference
<1>9. Cardinality(rest) = Cardinality(free) - n /\ IsFiniteSet(rest)
  BY <1>6, <1>7, <1>8
<1>10. Cardinality(rest) \in Nat
  BY <1>9, FS_CardinalityType
<1> QED BY <1>1, <1>9, <1>10

\* what the driver has to count: the free clusters, and one more while some are before
\* the last one allocated, since the allocation that goes round to them will count one
\* cluster more than it takes
Owed(fat, last) == Cardinality(FreeClusters(fat)) + IF \E c \in FreeClusters(fat) : c < last THEN 1 ELSE 0

\* Less is owed of a FAT with fewer free clusters.
LEMMA OwedLess ==
    ASSUME NEW fat, NEW last, NEW less, FreeClusters(less) \subseteq FreeClusters(fat)
    PROVE  /\ Owed(fat, last) \in Nat /\ Owed(fat, last) >= Cardinality(FreeClusters(fat))
           /\ Owed(fat, last) <= Cardinality(FreeClusters(fat)) + 1
           /\ Owed(less, last) \in Nat /\ Owed(less, last) <= Owed(fat, last)
<1>1. Cardinality(FreeClusters(less)) <= Cardinality(FreeClusters(fat))
  BY FreeTyped, FS_Subset
<1>2. PICK x \in Nat, y \in Nat : x = Cardinality(FreeClusters(less)) /\ y = Cardinality(FreeClusters(fat))
  BY FreeTyped
<1>3. (\E c \in FreeClusters(less) : c < last) => \E c \in FreeClusters(fat) : c < last
  OBVIOUS
<1> QED BY <1>1, <1>2, <1>3 DEF Owed

\* An allocation takes clusters that are free, and no more than it is asked for.  One that
\* goes round takes one less, but then nothing is left before the last one.
LEMMA Allocates ==
    ASSUME NEW fat \in Fats, NEW last \in Clusters, NEW n \in Nat, n > 0, n <= Cardinality(FreeClusters(fat)),
           NEW a, a = Chained(fat, last, n)
    PROVE  /\ a.fat \in Fats /\ a.found[1] \in Clusters /\ LastOf(a.found) \in Clusters
           /\ FreeClusters(a.fat) \subseteq FreeClusters(fat)
           /\ Cardinality(FreeClusters(a.fat)) + n >= Cardinality(FreeClusters(fat))
           /\ Owed(a.fat, LastOf(a.found)) + n <= Owed(fat, last)
<1>1. PICK found : found = FoundClusters(fat, last, n)
  OBVIOUS
<1>2. a = [fat |-> Linked(fat, last, found), found |-> found]
  BY <1>1 DEF Chained, With
<1>3. a.fat = Linked(fat, last, found) /\ a.found = found
  BY <1>2
<1>4. PICK free \in SUBSET Clusters : free = FreeClusters(fat) /\ Cardinality(free) \in Nat
  BY FreeTyped
<1>5. /\ found \in [1 .. n -> free] /\ Len(found) = n
      /\ \A i, j \in 1 .. n : i < j => Distance(found[i], last) < Distance(found[j], last) /\ found[i] # found[j]
      /\ \A c \in free : (\A i \in 1 .. n : found[i] # c) => \A i \in 1 .. n : Distance(found[i], last) < Distance(c, last)
  BY <1>1, <1>4, FoundAre
<1>6. \A i \in 1 .. n : found[i] \in Clusters /\ found[i] \in free
  BY <1>5
<1> DEFINE Split(i) == i < n /\ found[i] >= last /\ found[i + 1] < last
<1>7. ASSUME NEW j \in 1 .. n, NEW k \in 1 .. n, j < k, found[j] < last PROVE found[k] < last
  <2>1. PICK x \in Nat, y \in Nat, l \in Nat, f \in Nat : x = found[j] /\ y = found[k] /\ l = last /\ f = FatLength /\ x > 0 /\ y > 0 /\ y <= f
    <3>1. found[j] \in 1 .. FatLength /\ found[k] \in 1 .. FatLength /\ last \in 1 .. FatLength
      BY <1>6 DEF Clusters
    <3> QED BY <3>1, Sized
  <2>2. Distance(found[j], last) < Distance(found[k], last)
    BY <1>5, <1>7
  <2>3. Distance(found[j], last) = (x + f) - l
    BY <1>6, <1>7, <2>1, DistanceIs
  <2>4. y >= l => Distance(found[k], last) = y - l
    BY <1>6, <2>1, DistanceIs
  <2>5. SUFFICES ASSUME y >= l PROVE FALSE
    BY <2>1
  <2> QED BY <2>1, <2>2, <2>3, <2>4, <2>5
<1> DEFINE At(c) == CHOOSE i \in 1 .. n : found[i] = c
           Taken(c) == \E i \in 1 .. n : found[i] = c
           round == CHOOSE i \in 1 .. n : Split(i)
\* a search that goes round finds the first cluster if it is free
<1>16. ASSUME NEW i \in 1 .. n, Split(i), 1 \in free PROVE Taken(1)
  <2>1. SUFFICES ASSUME ~Taken(1) PROVE FALSE
    OBVIOUS
  <2>2. i + 1 \in 1 .. n
    BY <1>16
  <2>3. PICK m \in Nat : m = found[i + 1] /\ m < last /\ m \in Clusters
    BY <1>6, <1>16, <2>2 DEF Clusters
  <2>4. Distance(m, last) < Distance(1, last)
    BY <1>5, <1>16, <2>1, <2>2, <2>3
  <2>5. PICK l \in Nat, f \in Nat : l = last /\ f = FatLength /\ m < l
    BY <2>3, Sized DEF Clusters
  <2>6. ~(m >= l) /\ m >= 1 /\ ~(1 >= l)
    BY <2>3, <2>5 DEF Clusters
  <2>7. Distance(m, last) = (m + f) - l /\ Distance(1, last) = (1 + f) - l
    BY <2>3, <2>5, <2>6, Sized, DistanceIs
  <2> QED BY <2>4, <2>5, <2>6, <2>7
<1>8. Linked(fat, last, found) = [c \in Clusters |->
          IF Taken(c) THEN (IF At(c) = n THEN EOC ELSE IF Split(At(c)) THEN FREE ELSE found[At(c) + 1])
          ELSE IF c = 1 /\ \E i \in 1 .. n : Split(i) THEN found[1 + round] ELSE fat[c]]
  BY <1>5 DEF Linked
<1>9. ASSUME NEW c \in Clusters
      PROVE  /\ a.fat[c] \in 0 .. ROOT
             /\ a.fat[c] = FREE => c \in free
             /\ c \in free /\ ~Taken(c) => a.fat[c] = FREE
             /\ Taken(c) /\ a.fat[c] = FREE => \E i \in 1 .. n : found[i] = c /\ Split(i)
  <2>1. ~Taken(c) /\ ~(c = 1 /\ \E i \in 1 .. n : Split(i)) => a.fat[c] = fat[c]
    BY <1>3, <1>8
  <2>2. ASSUME Taken(c) PROVE c \in free /\ a.fat[c] \in 0 .. ROOT /\ (a.fat[c] = FREE => \E i \in 1 .. n : found[i] = c /\ Split(i))
    <3>1. At(c) \in 1 .. n /\ found[At(c)] = c
      BY <2>2
    <3>2. a.fat[c] = IF At(c) = n THEN EOC ELSE IF Split(At(c)) THEN FREE ELSE found[At(c) + 1]
      BY <1>3, <1>8, <2>2
    <3> HIDE DEF At
    <3>3. At(c) # n => At(c) + 1 \in 1 .. n
      BY <3>1
    <3>4. At(c) # n => found[At(c) + 1] \in Clusters
      BY <1>6, <3>3
    <3> HIDE DEF Split
    <3>5. c \in free
      BY <1>6, <3>1
    <3>6. FREE \in 0 .. ROOT
      BY Sized DEF FREE
    <3> QED BY <3>1, <3>2, <3>4, <3>5, <3>6, Sized
  <2>3. ASSUME ~Taken(c), c = 1, \E i \in 1 .. n : Split(i) PROVE a.fat[c] \in 0 .. ROOT /\ a.fat[c] # FREE /\ c \notin free
    <3>1. round \in 1 .. n /\ Split(round)
      BY <2>3
    <3>2. 1 + round \in 1 .. n
      BY <3>1
    <3>3. a.fat[c] = found[1 + round]
      BY <1>3, <1>8, <2>3
    <3> HIDE DEF round
    <3>4. found[1 + round] \in Clusters
      BY <1>6, <3>2
    <3>5. c \notin free
      BY <1>16, <2>3
    <3> QED BY <3>3, <3>4, <3>5, Sized
  <2>4. fat[c] \in 0 .. ROOT /\ (fat[c] = FREE <=> c \in free)
    BY <1>4 DEF Fats, FreeClusters
  <2> HIDE DEF Taken, Split
  <2> QED BY <2>1, <2>2, <2>3, <2>4
<1>10. a.fat \in Fats
  <2>1. a.fat = [c \in Clusters |-> a.fat[c]]
    BY <1>3, <1>8
  <2> QED BY <1>9, <2>1 DEF Fats
<1> DEFINE rest == {c \in free : \A i \in 1 .. n : found[i] # c}
<1>11. /\ FreeClusters(a.fat) \subseteq free /\ rest \subseteq FreeClusters(a.fat)
       /\ \A c \in FreeClusters(a.fat) : c \in rest \/ \E i \in 1 .. n : found[i] = c /\ Split(i)
  <2>1. ASSUME NEW c \in Clusters
        PROVE  /\ a.fat[c] = FREE => c \in free
               /\ c \in rest => a.fat[c] = FREE
               /\ a.fat[c] = FREE => c \in rest \/ \E i \in 1 .. n : found[i] = c /\ Split(i)
    BY <1>9
  <2>2. \A c : c \in FreeClusters(a.fat) <=> c \in Clusters /\ a.fat[c] = FREE
    BY DEF FreeClusters
  <2>3. rest \subseteq Clusters
    OBVIOUS
  <2> HIDE DEF rest
  <2> QED BY <2>1, <2>2, <2>3
<1>12. Cardinality(rest) \in Nat /\ Cardinality(rest) + n = Cardinality(free)
  <2>1. \A i, j \in 1 .. n : i < j => found[i] # found[j]
    BY <1>5
  <2>2. found \in [1 .. n -> free]
    BY <1>5
  <2>3. PICK r : r = rest /\ r = {c \in free : \A i \in 1 .. n : found[i] # c}
    OBVIOUS
  <2> HIDE DEF rest
  <2> QED BY <2>1, <2>2, <2>3, LessFound
<1>13. 1 \in 1 .. n /\ n \in 1 .. n
  OBVIOUS
<1>14. a.found[1] \in Clusters /\ LastOf(a.found) = found[n] /\ found[n] \in Clusters /\ found[n] \in free
  BY <1>3, <1>5, <1>6, <1>13 DEF LastOf
\* what is left is behind the last cluster found, as the search goes
<1>15. ASSUME NEW c \in rest PROVE c \in free /\ Distance(found[n], last) < Distance(c, last)
  BY <1>5, <1>13
<1>17. PICK x \in Nat, y \in Nat, r \in Nat : x = Cardinality(FreeClusters(a.fat)) /\ y = Cardinality(free) /\ r = Cardinality(rest) /\ r + n = y
  BY <1>4, <1>12, FreeTyped
<1> DEFINE low == \E c \in free : c < last
           left == \E c \in FreeClusters(a.fat) : c < LastOf(a.found)
<1>18. PICK p \in Nat, q \in Nat : p = (IF low THEN 1 ELSE 0) /\ q = (IF left THEN 1 ELSE 0)
                               /\ Owed(fat, last) = y + p /\ Owed(a.fat, LastOf(a.found)) = x + q
  BY <1>4, <1>17 DEF Owed
<1>19. x >= r
  BY <1>11, <1>17, FreeTyped, FS_Subset
<1>20. ASSUME \A i \in 1 .. n : ~Split(i) PROVE Owed(a.fat, LastOf(a.found)) + n <= Owed(fat, last)
  <2>1. FreeClusters(a.fat) = rest
    BY <1>11, <1>20
  <2>2. ASSUME NEW c \in rest, c < found[n], ~low PROVE FALSE
    <3>1. c \in free /\ Distance(found[n], last) < Distance(c, last)
      BY <1>15, <2>2
    <3>2. c \in Clusters /\ Clusters \subseteq Nat /\ last \in Clusters
      BY <3>1 DEF Clusters
    <3>3. ~(c < last) /\ ~(found[n] < last)
      BY <1>14, <2>2, <3>1
    <3>4. PICK d \in Nat, f \in Nat, l \in Nat : d = c /\ f = found[n] /\ l = last
      BY <1>14, <3>2
    <3>5. Distance(c, last) = d - l /\ Distance(found[n], last) = f - l
      BY <1>14, <3>2, <3>3, <3>4, DistanceIs
    <3> QED BY <2>2, <3>1, <3>4, <3>5
  <2>3. left => low
    BY <1>14, <2>1, <2>2
  <2>4. x = r
    BY <1>17, <2>1
  <2>5. q <= p
    <3> HIDE DEF low, left
    <3> QED BY <1>18, <2>3
  <2>6. x + q + n <= y + p
    BY <1>17, <2>4, <2>5
  <2>7. Owed(a.fat, LastOf(a.found)) = x + q /\ Owed(fat, last) = y + p
    BY <1>18
  <2> HIDE DEF low, left
  <2> QED BY <1>17, <2>6, <2>7
<1>21. ASSUME NEW i \in 1 .. n, Split(i) PROVE Owed(a.fat, LastOf(a.found)) + n <= Owed(fat, last)
  <2>1. i + 1 \in 1 .. n
    BY <1>21
  <2>2. low
    BY <1>6, <1>21, <2>1
  <2>3. found[n] < last
    BY <1>7, <1>13, <1>21, <2>1
  <2>4. ASSUME NEW j \in 1 .. n, Split(j) PROVE j = i
    <3>1. PICK h \in Nat, k \in Nat, l \in Nat, b \in Nat, e \in Nat : h = found[i] /\ k = found[i + 1] /\ l = last /\ b = found[j] /\ e = found[j + 1]
      <4>1. j + 1 \in 1 .. n
        BY <2>4
      <4>2. found[i] \in Clusters /\ found[i + 1] \in Clusters /\ found[j] \in Clusters /\ found[j + 1] \in Clusters /\ last \in Clusters
        BY <1>6, <2>1, <4>1
      <4>3. Clusters \subseteq Nat
        BY DEF Clusters
      <4> QED BY <4>2, <4>3
    <3>2. h >= l /\ k < l /\ b >= l /\ e < l
      BY <1>21, <2>4, <3>1
    <3>3. ~(i < j)
      <4>1. SUFFICES ASSUME i < j PROVE FALSE
        OBVIOUS
      <4>2. i + 1 = j \/ i + 1 < j
        BY <4>1
      <4>3. b < l
        BY <1>7, <2>1, <3>1, <3>2, <4>2
      <4> QED BY <3>2, <4>3
    <3>4. ~(j < i)
      <4>1. SUFFICES ASSUME j < i PROVE FALSE
        OBVIOUS
      <4>2. (j + 1 = i \/ j + 1 < i) /\ j + 1 \in 1 .. n
        BY <4>1
      <4>3. h < l
        BY <1>7, <3>1, <3>2, <4>2
      <4> QED BY <3>2, <4>3
    <3> QED BY <3>3, <3>4
  <2>5. \A c \in FreeClusters(a.fat) : c \in rest \/ c = found[i]
    BY <1>11, <2>4
  <2>6. ~left
    <3>1. SUFFICES ASSUME NEW c \in FreeClusters(a.fat), c < found[n] PROVE FALSE
      BY <1>14
    <3>2. PICK d \in Nat, f \in Nat, l \in Nat, h \in Nat : d = c /\ f = found[n] /\ l = last /\ h = FatLength
      <4>1. c \in Clusters /\ found[n] \in Clusters /\ last \in Clusters
        BY <1>4, <1>11, <1>14
      <4>2. Clusters \subseteq Nat
        BY DEF Clusters
      <4> QED BY <4>1, <4>2, Sized
    <3>3. d < f /\ f < l
      BY <2>3, <3>1, <3>2
    <3>4. CASE c \in rest
      <4>1. c \in Clusters /\ ~(c >= last) /\ ~(found[n] >= last)
        BY <3>2, <3>3, <3>4
      <4>2. Distance(c, last) = (d + h) - l /\ Distance(found[n], last) = (f + h) - l
        BY <1>14, <3>2, <4>1, DistanceIs
      <4>3. (f + h) - l < (d + h) - l
        BY <1>15, <3>4, <4>2
      <4> QED BY <3>3, <4>3
    <3>5. CASE c = found[i]
      BY <1>21, <3>2, <3>3, <3>5
    <3> QED BY <2>5, <3>4, <3>5
  <2>7. x <= r + 1
    <3>1. FreeClusters(a.fat) \subseteq rest \cup {found[i]}
      BY <2>5
    <3>2. IsFiniteSet(rest)
      <4>1. rest \subseteq free
        OBVIOUS
      <4> QED BY <1>4, <4>1, FreeTyped, FS_Subset
    <3> HIDE DEF rest
    <3>3. IsFiniteSet(rest \cup {found[i]}) /\ Cardinality(rest \cup {found[i]}) <= r + 1
      <4>1. PICK e : e = found[i]
        OBVIOUS
      <4>2. IsFiniteSet(rest \cup {e}) /\ Cardinality(rest \cup {e}) = IF e \in rest THEN Cardinality(rest) ELSE Cardinality(rest) + 1
        BY <3>2, FS_AddElement
      <4>3. Cardinality(rest \cup {e}) <= r + 1
        BY <1>17, <4>2
      <4> QED BY <4>1, <4>2, <4>3
    <3>4. Cardinality(FreeClusters(a.fat)) <= Cardinality(rest \cup {found[i]}) /\ Cardinality(rest \cup {found[i]}) \in Nat
      BY <3>1, <3>3, FS_Subset, FS_CardinalityType
    <3> QED BY <1>17, <3>3, <3>4
  <2>8. p = 1 /\ q = 0
    <3> HIDE DEF low, left
    <3> QED BY <1>18, <2>2, <2>6
  <2>9. x + q + n <= y + p
    BY <1>17, <2>7, <2>8
  <2>10. Owed(a.fat, LastOf(a.found)) = x + q /\ Owed(fat, last) = y + p
    BY <1>18
  <2> QED BY <2>9, <2>10
<1> HIDE DEF rest, low, left, Split
<1>22. Owed(a.fat, LastOf(a.found)) + n <= Owed(fat, last)
  BY <1>20, <1>21
<1> QED BY <1>4, <1>10, <1>11, <1>14, <1>17, <1>19, <1>22

-----------------------------------------------------------------------------
(* Chains and what is freed of them *)

\* A chain is a sequence, and not longer than the FAT.
LEMMA ChainTyped == ASSUME NEW fat, NEW first, NEW chain, chain = ChainOf(fat, first)
                    PROVE  \E len \in Nat : chain = [k \in 1 .. len |-> chain[k]] /\ Len(chain) = len
<1> DEFINE next == [c \in 0 .. ROOT |-> IF c \in Clusters THEN fat[c] ELSE c]
           places[k \in Clusters] == IF k = 1 THEN first ELSE next[places[k - 1]]
<1>1. chain = [k \in 1 .. Cardinality({k \in Clusters : places[k] \in Clusters}) |-> places[k]]
  BY DEF ChainOf
<1>2. PICK at : chain = [k \in 1 .. Cardinality({k \in Clusters : at[k] \in Clusters}) |-> at[k]]
  <2> HIDE DEF places
  <2> QED BY <1>1
<1>3. {k \in Clusters : at[k] \in Clusters} \in SUBSET Clusters
  OBVIOUS
<1>4. PICK len \in Nat : len = Cardinality({k \in Clusters : at[k] \in Clusters})
  BY <1>3, Sized, FS_Subset, FS_CardinalityType
<1>5. chain = [k \in 1 .. len |-> at[k]]
  BY <1>2, <1>4
<1> QED BY <1>5

\* A chain that is cut off gives back one cluster less than it has, because the entry
\* of its last one stays an end of chain.
LEMMA Frees ==
    ASSUME NEW fat \in Fats, NEW len \in Nat, NEW chain, chain = [k \in 1 .. len |-> chain[k]], Len(chain) = len,
           NEW left \in 0 .. len, NEW cut, cut = Unchained(fat, chain, left)
    PROVE  cut \in Fats /\ \A last : Owed(cut, last) <= Owed(fat, last) + (len - left)
<1> DEFINE turns == {i \in left + 1 .. len - 1 : chain[i] \in Clusters}
           gone == {c \in Clusters : \E i \in left + 1 .. len - 1 : chain[i] = c}
<1>1. PICK most \in Nat : most = len - left
  OBVIOUS
<1>2. IsFiniteSet(turns) /\ Cardinality(turns) \in Nat /\ (Cardinality(turns) < most \/ Cardinality(turns) = 0)
  <2>1. IsFiniteSet(left + 1 .. len - 1) /\ (Cardinality(left + 1 .. len - 1) < most \/ Cardinality(left + 1 .. len - 1) = 0)
    <3>1. left + 1 \in Int /\ len - 1 \in Int
      OBVIOUS
    <3>2. PICK x \in Int, y \in Int : x = left + 1 /\ y = len - 1
      BY <3>1
    <3>3. IsFiniteSet(x .. y) /\ Cardinality(x .. y) = IF x > y THEN 0 ELSE y - x + 1
      BY FS_Interval
    <3>4. (IF x > y THEN 0 ELSE y - x + 1) < most \/ (IF x > y THEN 0 ELSE y - x + 1) = 0
      BY <1>1, <3>2
    <3> QED BY <3>2, <3>3, <3>4
  <2>2. turns \in SUBSET (left + 1 .. len - 1)
    OBVIOUS
  <2>3. IsFiniteSet(turns) /\ Cardinality(turns) <= Cardinality(left + 1 .. len - 1)
    BY <2>1, <2>2, FS_Subset
  <2>4. Cardinality(turns) \in Nat /\ Cardinality(left + 1 .. len - 1) \in Nat
    BY <2>1, <2>3, FS_CardinalityType
  <2> HIDE DEF turns
  <2> QED BY <2>1, <2>3, <2>4
<1>3. [i \in turns |-> chain[i]] \in Surjection(turns, gone)
  BY DEF Surjection
<1>4. IsFiniteSet(gone) /\ Cardinality(gone) <= Cardinality(turns)
  BY <1>2, <1>3, FS_Surjection
<1>5. cut = [c \in Clusters |-> IF left > 0 /\ c = chain[left] THEN EOC
                                ELSE IF \E i \in left + 1 .. len - 1 : chain[i] = c THEN FREE ELSE fat[c]]
  BY DEF Unchained
<1>6. ASSUME NEW c \in Clusters PROVE cut[c] \in 0 .. ROOT /\ (cut[c] = FREE => fat[c] = FREE \/ c \in gone)
  <2>1. fat[c] \in 0 .. ROOT /\ FREE \in 0 .. ROOT
    BY Sized DEF Fats, FREE
  <2> QED BY <1>5, <2>1, Sized
<1>7. cut \in Fats
  BY <1>5, <1>6 DEF Fats
<1>8. FreeClusters(cut) \in SUBSET (FreeClusters(fat) \cup gone)
  BY <1>6 DEF FreeClusters
<1>9. Cardinality(FreeClusters(cut)) <= Cardinality(FreeClusters(fat)) + Cardinality(gone)
  <2> HIDE DEF gone
  <2>1. PICK f, g : f = FreeClusters(fat) /\ g = gone
    OBVIOUS
  <2>2. IsFiniteSet(f) /\ IsFiniteSet(g) /\ Cardinality(f) \in Nat /\ Cardinality(g) \in Nat
    BY <1>4, <2>1, FreeTyped, FS_CardinalityType
  <2>3. IsFiniteSet(f \cup g) /\ Cardinality(f \cup g) = Cardinality(f) + Cardinality(g) - Cardinality(f \cap g)
    BY <2>2, FS_Union
  <2>4. IsFiniteSet(f \cap g) /\ Cardinality(f \cap g) \in Nat
    BY <2>2, FS_Intersection, FS_CardinalityType
  <2>5. Cardinality(f \cup g) <= Cardinality(f) + Cardinality(g)
    BY <2>2, <2>3, <2>4
  <2>6. Cardinality(FreeClusters(cut)) <= Cardinality(f \cup g)
    BY <1>8, <2>1, <2>3, FS_Subset
  <2>7. Cardinality(FreeClusters(cut)) \in Nat /\ Cardinality(f \cup g) \in Nat
    BY <2>3, FreeTyped, FS_CardinalityType
  <2> QED BY <2>1, <2>2, <2>5, <2>6, <2>7
<1>10. ASSUME NEW last PROVE Owed(cut, last) <= Owed(fat, last) + (len - left)
  <2> HIDE DEF gone, turns
  <2>1. PICK x \in Nat, y \in Nat, g \in Nat, t \in Nat : x = Cardinality(FreeClusters(cut)) /\ y = Cardinality(FreeClusters(fat))
            /\ g = Cardinality(gone) /\ t = Cardinality(turns)
    BY <1>2, <1>4, FreeTyped, FS_CardinalityType
  <2>2. x <= y + g /\ g <= t /\ (t < most \/ t = 0)
    BY <1>2, <1>4, <1>9, <2>1
  <2>3. PICK o \in Nat, e \in Nat : o = Owed(fat, last) /\ e = Owed(cut, last) /\ y <= o /\ e <= x + 1
    <3>1. Owed(fat, last) \in Nat /\ Owed(cut, last) \in Nat /\ Owed(fat, last) >= y /\ Owed(cut, last) <= x + 1
      BY <2>1, OwedLess
    <3> QED BY <3>1
  <2>4. CASE t < most
    <3>1. e <= o + most
      BY <1>1, <2>2, <2>3, <2>4
    <3> QED BY <1>1, <2>3, <3>1
  <2>5. CASE t = 0
    <3>1. gone = {}
      BY <1>4, <2>1, <2>2, <2>5, FS_EmptySet
    <3>2. FreeClusters(cut) \subseteq FreeClusters(fat)
      BY <1>8, <3>1
    <3>3. Owed(cut, last) <= Owed(fat, last)
      BY <3>2, OwedLess
    <3> QED BY <1>1, <2>3, <3>3
  <2> QED BY <2>2, <2>4, <2>5
<1> HIDE DEF gone, turns
<1> QED BY <1>7, <1>10

-----------------------------------------------------------------------------
(* What the writes of an operation take *)

\* what the proofs need to know of the two records
DiskOK(d) == {"fat", "last"} \subseteq DOMAIN d /\ d.fat \in Fats /\ d.last \in Clusters
MemOK(m) == {"run", "free", "last", "corrupted"} \subseteq DOMAIN m /\ m.free \in Nat /\ m.last \in Clusters /\ m.corrupted \in BOOLEAN

\* e has the FAT and the stored mark of d
Alike(d, e) == DOMAIN e = DOMAIN d /\ e.fat = d.fat /\ e.last = d.last

\* a write of an operation that began with d and m, after which n clusters may be counted
Takes(d, m, w, n) ==
    /\ DOMAIN w.disk = DOMAIN d /\ w.disk.last = d.last /\ w.disk.fat \in Fats
    /\ DOMAIN w.mem = DOMAIN m /\ w.mem.free = m.free /\ w.mem.run = m.run /\ w.mem.corrupted = m.corrupted
    /\ w.mem.last \in Clusters
    /\ Owed(w.disk.fat, w.mem.last) + n <= Owed(d.fat, m.last)

\* Writes to anything but the FAT.
LEMMA PutsAlike ==
    ASSUME NEW d, DiskOK(d)
    PROVE  /\ \A slot, e : Alike(d, PutDirent(d, slot, e))
           /\ Alike(d, AppendStream(d))
           /\ \A cs, es : Alike(d, PutTable(d, cs, es))
           /\ \A cs, path, base : Alike(d, PutFile(d, cs, path, base))
<1>1. ASSUME NEW slot, NEW e PROVE Alike(d, PutDirent(d, slot, e))
  BY DEF Alike, PutDirent, DiskOK
<1>2. Alike(d, AppendStream(d))
  <2>1. AppendStream(d) = [d EXCEPT !.streams[d.end + 1] = BlankStream, !.end = @ + 1]
    BY DEF AppendStream, With
  <2> QED BY <2>1 DEF Alike, DiskOK
<1>3. ASSUME NEW cs, NEW es PROVE Alike(d, PutTable(d, cs, es))
  <2>1. PICK t : PutTable(d, cs, es) = [d EXCEPT !.table = t]
    BY DEF PutTable
  <2> QED BY <2>1 DEF Alike, DiskOK
<1>4. ASSUME NEW cs, NEW path, NEW base PROVE Alike(d, PutFile(d, cs, path, base))
  BY <1>3 DEF PutFile
<1> QED BY <1>1, <1>2, <1>3, <1>4

\* A FAT with n free clusters less, in the place of the old one.
LEMMA PutFatTakes ==
    ASSUME NEW d, NEW m, DiskOK(d), MemOK(m), NEW n \in Nat, n > 0, n <= Cardinality(FreeClusters(d.fat)),
           NEW a, a = Chained(d.fat, m.last, n),
           NEW k, DOMAIN k = DOMAIN m, k.free = m.free, k.run = m.run, k.corrupted = m.corrupted, k.last = LastOf(a.found),
           NEW e, Alike(PutFat(d, a.fat), e)
    PROVE  /\ Takes(d, m, Write(e, k), n) /\ DiskOK(e)
           /\ Cardinality(FreeClusters(e.fat)) + n >= Cardinality(FreeClusters(d.fat))
<1>1. d.fat \in Fats /\ m.last \in Clusters
  BY DEF DiskOK, MemOK
<1>2. /\ a.fat \in Fats /\ LastOf(a.found) \in Clusters
      /\ Cardinality(FreeClusters(a.fat)) + n >= Cardinality(FreeClusters(d.fat))
      /\ Owed(a.fat, LastOf(a.found)) + n <= Owed(d.fat, m.last)
  BY <1>1, Allocates
<1>3. DOMAIN e = DOMAIN d /\ e.fat = a.fat /\ e.last = d.last
  BY DEF Alike, PutFat, DiskOK
<1>4. Write(e, k).disk = e /\ Write(e, k).mem = k
  BY DEF Write
<1>5. DiskOK(e)
  BY <1>1, <1>2, <1>3 DEF DiskOK
<1> QED BY <1>2, <1>3, <1>4, <1>5 DEF Takes

\* What is written besides the FAT takes nothing more.
LEMMA AlikeTakes == ASSUME NEW d, NEW m, NEW x, NEW k, NEW n, NEW e, Takes(d, m, Write(x, k), n), DiskOK(x), Alike(x, e)
                    PROVE  Takes(d, m, Write(e, k), n) /\ DiskOK(e)
BY DEF Takes, Write, Alike, DiskOK

\* The entry of an allocated cluster is written, which takes one more if it was free.
LEMMA LinkTakes ==
    ASSUME NEW d, NEW m, NEW x, NEW k, NEW n \in Nat, NEW stream, NEW c \in Clusters, NEW e, e = [x EXCEPT !.fat[stream] = c],
           Takes(d, m, Write(x, k), n), DiskOK(x)
    PROVE  Takes(d, m, Write(e, k), n) /\ DiskOK(e)
<1>1. Write(x, k).disk = x /\ Write(x, k).mem = k /\ Write(e, k).disk = e /\ Write(e, k).mem = k
  BY DEF Write
<1>2. DOMAIN e = DOMAIN x /\ e.last = x.last /\ e.fat = [x.fat EXCEPT ![stream] = c]
  BY DEF DiskOK
<1>3. x.fat \in Fats /\ c \in 0 .. ROOT /\ c # FREE
  BY Sized DEF DiskOK
<1>4. e.fat \in Fats
  BY <1>2, <1>3 DEF Fats
<1>5. FreeClusters(e.fat) \subseteq FreeClusters(x.fat)
  BY <1>2, <1>3 DEF FreeClusters, Fats
<1>6. Owed(e.fat, k.last) + n <= Owed(d.fat, m.last)
  <2>1. Owed(x.fat, k.last) + n <= Owed(d.fat, m.last)
    BY <1>1 DEF Takes
  <2>2. Owed(e.fat, k.last) <= Owed(x.fat, k.last) /\ Owed(e.fat, k.last) \in Nat /\ Owed(x.fat, k.last) \in Nat /\ Owed(d.fat, m.last) \in Nat
    BY <1>5, OwedLess
  <2> QED BY <2>1, <2>2
<1>7. DiskOK(e)
  BY <1>2, <1>4 DEF DiskOK
<1> QED BY <1>1, <1>2, <1>4, <1>6, <1>7 DEF Takes

\* what is asked for is there
Fits(d, m, n) == DiskOK(d) /\ MemOK(m) /\ n <= Cardinality(FreeClusters(d.fat))

\* The cluster of a directory that grows is taken and counted.
LEMMA StreamTakes ==
    ASSUME NEW d, NEW m, NEW stream, Fits(d, m, 1), NEW ws, ws = StreamWrites(d, m, stream)
    PROVE  /\ ws = <<ws[1], ws[2], ws[3], ws[4]>> /\ Len(ws) = 4
           /\ Takes(d, m, ws[1], 1) /\ Takes(d, m, ws[2], 1) /\ Takes(d, m, ws[3], 1) /\ Takes(d, m, ws[4], 1)
           /\ ws[2].mem = ws[1].mem /\ ws[4].mem = ws[1].mem
<1>1. PICK a : a = Chained(d.fat, m.last, 1)
  OBVIOUS
<1>2. PICK k : k = [m EXCEPT !.last = a.found[1]]
  OBVIOUS
<1>3. PICK x : x = PutFat(d, a.fat)
  OBVIOUS
<1>4. PICK y : y = AppendStream(x)
  OBVIOUS
<1>5. PICK z : z = [y EXCEPT !.fat[stream] = a.found[1]]
  OBVIOUS
<1>6. PICK u : u = PutTable(z, a.found, [i \in DOMAIN a.found |-> DirectoryAt(m.size + 1)])
  OBVIOUS
<1>7. ws = <<Write(x, k), Write(y, k), Write(z, k), Write(u, k)>>
  BY <1>1, <1>2, <1>3, <1>4, <1>5, <1>6 DEF StreamWrites, With
<1>8. DiskOK(d) /\ MemOK(m) /\ 1 <= Cardinality(FreeClusters(d.fat)) /\ d.fat \in Fats /\ m.last \in Clusters
  BY DEF Fits, DiskOK, MemOK
<1>9. a.found[1] \in Clusters /\ Len(a.found) = 1
  <2>1. a.found[1] \in Clusters
    BY <1>1, <1>8, Allocates
  <2>2. PICK fat \in Fats, last \in Clusters, n \in Nat : fat = d.fat /\ last = m.last /\ n = 1 /\ n <= Cardinality(FreeClusters(fat))
    BY <1>8
  <2>3. PICK found : found = FoundClusters(fat, last, n)
    OBVIOUS
  <2>4. found \in [1 .. n -> FreeClusters(fat)]
    BY <2>2, <2>3, FoundAre
  <2>5. Len(found) = n
    BY <2>4
  <2>6. a = [fat |-> Linked(d.fat, m.last, found), found |-> found]
    BY <1>1, <2>2, <2>3 DEF Chained, With
  <2> QED BY <2>1, <2>2, <2>5, <2>6
<1>10. LastOf(a.found) = a.found[1]
  BY <1>9 DEF LastOf
<1>11. DOMAIN k = DOMAIN m /\ k.free = m.free /\ k.run = m.run /\ k.corrupted = m.corrupted /\ k.last = LastOf(a.found)
  BY <1>2, <1>8, <1>10 DEF MemOK
<1>12. Takes(d, m, Write(x, k), 1) /\ DiskOK(x)
  <2>1. Alike(PutFat(d, a.fat), x)
    BY <1>3 DEF Alike
  <2> QED BY <1>1, <1>8, <1>11, <2>1, PutFatTakes
<1>13. Takes(d, m, Write(y, k), 1) /\ DiskOK(y)
  <2>1. Alike(x, y)
    BY <1>4, <1>12, PutsAlike
  <2> QED BY <1>12, <2>1, AlikeTakes
<1>14. Takes(d, m, Write(z, k), 1) /\ DiskOK(z)
  BY <1>5, <1>9, <1>13, LinkTakes
<1>15. Takes(d, m, Write(u, k), 1) /\ DiskOK(u)
  <2>1. Alike(z, u)
    BY <1>6, <1>14, PutsAlike
  <2> QED BY <1>14, <2>1, AlikeTakes
<1>16. Write(x, k).mem = k /\ Write(y, k).mem = k /\ Write(u, k).mem = k
  BY DEF Write
<1> HIDE DEF Takes
<1> QED BY <1>7, <1>12, <1>13, <1>14, <1>15, <1>16

\* The clusters of a new file are taken; its dirent and the table follow.
LEMMA FileTakes ==
    ASSUME NEW d, NEW m, NEW path, NEW entry, NEW slot, NEW n \in Nat, n > 0, Fits(d, m, n),
           NEW ws, ws = FileWrites(d, m, path, entry, slot, n)
    PROVE  /\ ws = <<ws[1], ws[2], ws[3], ws[4]>> /\ Len(ws) = 4
           /\ Takes(d, m, ws[1], n) /\ Takes(d, m, ws[2], n) /\ Takes(d, m, ws[3], n) /\ Takes(d, m, ws[4], n)
           /\ DiskOK(ws[4].disk) /\ Cardinality(FreeClusters(ws[4].disk.fat)) + n >= Cardinality(FreeClusters(d.fat))
<1>1. PICK a : a = Chained(d.fat, m.last, n)
  OBVIOUS
<1>2. PICK k : k = [m EXCEPT !.last = LastOf(a.found)]
  OBVIOUS
<1>3. PICK x : x = PutFat(d, a.fat)
  OBVIOUS
<1>4. PICK y : y = PutDirent(x, slot, [entry EXCEPT !.first = a.found[1]])
  OBVIOUS
<1>5. PICK z : z = IF entry.dir THEN AppendStream(y) ELSE y
  OBVIOUS
<1>6. PICK u : u = IF entry.dir THEN PutTable(z, a.found, [i \in DOMAIN a.found |-> DirectoryAt(m.size + 1)])
                   ELSE PutFile(z, a.found, path, 0)
  OBVIOUS
<1>7. ws = <<Write(x, k), Write(y, k), Write(z, k), Write(u, k)>>
  BY <1>1, <1>2, <1>3, <1>4, <1>5, <1>6 DEF FileWrites, With
<1>8. DiskOK(d) /\ MemOK(m) /\ n <= Cardinality(FreeClusters(d.fat))
  BY DEF Fits
<1>9. DOMAIN k = DOMAIN m /\ k.free = m.free /\ k.run = m.run /\ k.corrupted = m.corrupted /\ k.last = LastOf(a.found)
  BY <1>2, <1>8 DEF MemOK
<1>10. Takes(d, m, Write(x, k), n) /\ DiskOK(x) /\ Cardinality(FreeClusters(x.fat)) + n >= Cardinality(FreeClusters(d.fat))
  <2>1. Alike(PutFat(d, a.fat), x)
    BY <1>3 DEF Alike
  <2> QED BY <1>1, <1>8, <1>9, <2>1, PutFatTakes
<1>11. Takes(d, m, Write(y, k), n) /\ DiskOK(y) /\ y.fat = x.fat
  <2>1. Alike(x, y)
    BY <1>4, <1>10, PutsAlike
  <2> QED BY <1>10, <2>1, AlikeTakes DEF Alike
<1>12. Takes(d, m, Write(z, k), n) /\ DiskOK(z) /\ z.fat = x.fat
  <2>1. Alike(y, z)
    BY <1>5, <1>11, PutsAlike DEF Alike
  <2> QED BY <1>11, <2>1, AlikeTakes DEF Alike
<1>13. Takes(d, m, Write(u, k), n) /\ DiskOK(u) /\ u.fat = x.fat
  <2>1. Alike(z, u)
    BY <1>6, <1>12, PutsAlike
  <2> QED BY <1>12, <2>1, AlikeTakes DEF Alike
<1>14. Write(u, k).disk = u
  BY DEF Write
<1> HIDE DEF Takes
<1> QED BY <1>7, <1>10, <1>11, <1>12, <1>13, <1>14

\* Writes of an operation that fails there and goes on: the mark of the last
\* cluster is not ahead of the FAT.
Steady(ws, k) == Owed(Before(ws, k).fat, ws[k].mem.last) <= Owed(disk.fat, mem.last)

\* One sequence of writes and another.
Joined(a, b) == a \o b
LEMMA Joins ==
    ASSUME NEW S, NEW a \in Seq(S), NEW b \in Seq(S)
    PROVE  /\ a \o b \in Seq(S) /\ Len(a \o b) = Len(a) + Len(b)
           /\ \A j \in 1 .. Len(a) : (a \o b)[j] = a[j]
           /\ \A j \in 1 .. Len(b) : (a \o b)[j + Len(a)] = b[j]
<1>1. a \o b \in Seq(S) /\ Len(a \o b) = Len(a) + Len(b)
 OBVIOUS
<1>2. \A j \in 1 .. Len(a) : (a \o b)[j] = a[j]
  OBVIOUS
<1>3. \A j \in 1 .. Len(b) : (a \o b)[j + Len(a)] = b[j]
  OBVIOUS
<1> QED BY <1>1, <1>2, <1>3

\* The first sequence comes first.
LEMMA JoinsFirst == ASSUME NEW S, NEW a \in Seq(S), NEW b \in Seq(S), NEW c, c = Joined(a, b), NEW j \in 1 .. Len(a) PROVE c[j] = a[j]
BY Joins DEF Joined
LEMMA JoinsLast == ASSUME NEW S, NEW a \in Seq(S), NEW b \in Seq(S), NEW c, c = Joined(a, b), NEW j \in 1 .. Len(b), NEW k, k = j + Len(a) PROVE c[k] = b[j]
BY Joins DEF Joined

\* The eight writes are the members of one set.
LEMMA EightAre ==
    ASSUME NEW S, NEW own \in Seq(S), NEW more \in Seq(S), Len(own) = 4, Len(more) = 4, NEW all, all = Joined(own, more)
    PROVE  DOMAIN all = 1 .. 8 /\ Len(all) = 8 /\ \A i \in 1 .. 4 : all[i] = own[i] /\ all[i + 4] = more[i]
<1>1. all \in Seq(S) /\ Len(all) = Len(own) + Len(more)
  BY Joins DEF Joined
<1>2. Len(all) = 8
  BY <1>1
<1>3. DOMAIN all = 1 .. 8
  BY <1>1, <1>2
<1>4. ASSUME NEW j \in 1 .. 4 PROVE all[j] = own[j]
  <2>1. j \in 1 .. Len(own)
    OBVIOUS
  <2> QED BY <2>1, JoinsFirst
<1>5. ASSUME NEW j \in 1 .. 4 PROVE all[j + 4] = more[j]
  <2>1. PICK n : n = Len(own)
    OBVIOUS
  <2>2. PICK k : k = j + n
    OBVIOUS
  <2>3. j \in 1 .. Len(more) /\ k = j + Len(own) /\ k = j + 4
    BY <2>1, <2>2
  <2>4. all[k] = more[j]
    <3>1. all = Joined(own, more) /\ own \in Seq(S) /\ more \in Seq(S)
      OBVIOUS
    <3> QED BY ONLY <3>1, <2>3, JoinsLast
  <2> QED BY <2>3, <2>4
<1> QED BY <1>2, <1>3, <1>4, <1>5

\* What a write takes after one that has taken some.
LEMMA MoreTakes ==
    ASSUME NEW d, NEW m, NEW w, NEW v, NEW size, NEW n \in Nat, NEW l \in Nat, NEW k, MemOK(m),
           Takes(d, m, w, n), k = [w.mem EXCEPT !.size = size], Takes(w.disk, k, v, l)
    PROVE  Takes(d, m, v, n + l)
<1>1. {"run", "free", "last", "corrupted"} \subseteq DOMAIN w.mem
  BY DEF Takes, MemOK
<1>2. DOMAIN k = DOMAIN m /\ k.free = m.free /\ k.run = m.run /\ k.corrupted = m.corrupted /\ k.last = w.mem.last
  BY <1>1 DEF Takes
<1>3. Owed(v.disk.fat, v.mem.last) + (n + l) <= Owed(d.fat, m.last)
  <2>1. PICK x \in Nat, y \in Nat, z \in Nat : x = Owed(v.disk.fat, v.mem.last)
            /\ y = Owed(w.disk.fat, w.mem.last) /\ z = Owed(d.fat, m.last)
    BY OwedLess
  <2>2. x + l <= y /\ y + n <= z
    BY <1>2, <2>1 DEF Takes
  <2>3. x + (n + l) <= z
    BY <2>2
  <2> QED BY <2>1, <2>3
<1> QED BY <1>2, <1>3 DEF Takes

-----------------------------------------------------------------------------
(* create_dirent_for_file *)

\* What the whole operation of create_dirent_for_file takes, write by write.
LEMMA CreateTakes ==
    ASSUME NEW p, NEW entry, NEW s, NEW n \in Nat, NEW extra \in Nat, extra = (IF s.boundary THEN 1 ELSE 0),
           DiskOK(disk), MemOK(mem), n + extra <= Cardinality(FreeClusters(disk.fat)),
           NEW ws, ws = CreateWrites(p, entry, s, n)
    PROVE  /\ DOMAIN ws \subseteq Nat \ {0} /\ Len(ws) \in DOMAIN ws
           /\ \A k \in DOMAIN ws : Takes(disk, mem, ws[k], 0) /\ (k > 1 => k - 1 \in DOMAIN ws)
           /\ Takes(disk, mem, LastOf(ws), n + extra)
           /\ \A k \in DOMAIN ws \cap (IF n = 0 THEN {1 + extra} ELSE {6}) : Steady(ws, k)
<1>1. CASE n = 0 /\ ~s.boundary
  <2>1. ws = <<Write(PutDirent(disk, s.at, entry), mem)>> /\ extra = 0
    BY <1>1 DEF CreateWrites
  <2>2. PICK d : d = PutDirent(disk, s.at, entry)
    OBVIOUS
  <2>3. ws[1] = Write(d, mem) /\ DOMAIN ws = {1} /\ Len(ws) = 1 /\ LastOf(ws) = ws[1]
    BY <2>1, <2>2 DEF LastOf
  <2>4. Takes(disk, mem, Write(d, mem), 0)
    <3>1. Takes(disk, mem, Write(disk, mem), 0)
      BY OwedLess DEF Takes, Write, DiskOK, MemOK
    <3>2. Alike(disk, d)
      BY <2>2, PutsAlike
    <3> QED BY <3>1, <3>2, AlikeTakes
  <2>5. Steady(ws, 1)
    BY <2>3, OwedLess DEF Steady, Before, Write
  <2> QED BY <1>1, <2>1, <2>3, <2>4, <2>5
<1>2. CASE n = 0 /\ s.boundary
  <2>1. ws = StreamWrites(disk, mem, s.stream) /\ extra = 1 /\ Fits(disk, mem, 1)
    <3>1. ws = StreamWrites(disk, mem, s.stream)
      BY <1>2 DEF CreateWrites
    <3>2. extra = 1 /\ 1 <= Cardinality(FreeClusters(disk.fat))
      BY <1>2
    <3> QED BY <3>1, <3>2 DEF Fits
  <2>2. /\ ws = <<ws[1], ws[2], ws[3], ws[4]>> /\ Len(ws) = 4
        /\ Takes(disk, mem, ws[1], 1) /\ Takes(disk, mem, ws[2], 1) /\ Takes(disk, mem, ws[3], 1) /\ Takes(disk, mem, ws[4], 1)
        /\ ws[2].mem = ws[1].mem
    BY <2>1, StreamTakes
  <2>3. DOMAIN ws = {1, 2, 3, 4} /\ LastOf(ws) = ws[4]
    BY <2>2 DEF LastOf
  <2>4. \A k \in DOMAIN ws : Takes(disk, mem, ws[k], 1)
    BY <2>2, <2>3
  <2>5. \A w : Takes(disk, mem, w, 1) => Takes(disk, mem, w, 0)
    BY OwedLess DEF Takes
  <2>6. Steady(ws, 2)
    <3>1. Before(ws, 2) = ws[1].disk
      BY DEF Before
    <3> QED BY <2>2, <3>1, OwedLess DEF Steady, Takes
  <2> QED BY <1>2, <2>1, <2>2, <2>3, <2>4, <2>5, <2>6
<1>3. CASE n > 0
  <2>1. PICK own : own = FileWrites(disk, mem, p, entry, s.at, n)
    OBVIOUS
  <2>2. Fits(disk, mem, n)
    <3>1. PICK f \in Nat : f = Cardinality(FreeClusters(disk.fat))
      BY FreeTyped
    <3>2. n <= f /\ (n = 1 \/ n > 1)
      BY <1>3, <3>1
    <3> QED BY <3>1, <3>2 DEF Fits
  <2>3. /\ own = <<own[1], own[2], own[3], own[4]>> /\ Len(own) = 4
        /\ Takes(disk, mem, own[1], n) /\ Takes(disk, mem, own[2], n) /\ Takes(disk, mem, own[3], n) /\ Takes(disk, mem, own[4], n)
        /\ DiskOK(own[4].disk) /\ Cardinality(FreeClusters(own[4].disk.fat)) + n >= Cardinality(FreeClusters(disk.fat))
    BY <1>3, <2>1, <2>2, FileTakes
  <2>4. \A w, l : l \in Nat /\ Takes(disk, mem, w, l) => Takes(disk, mem, w, 0)
    BY OwedLess DEF Takes
  <2>5. LastOf(own) = own[4]
    BY <2>3 DEF LastOf
  <2>6. CASE ~s.boundary
    <3>1. ws = own /\ extra = 0
      BY <1>3, <2>1, <2>6 DEF CreateWrites, With
    <3>2. DOMAIN ws = {1, 2, 3, 4}
      BY <2>3, <3>1
    <3> QED BY <1>3, <2>3, <2>4, <2>5, <3>1, <3>2
  <2>7. CASE s.boundary
    <3>1. PICK m : m = [LastOf(own).mem EXCEPT !.size = @ + IF entry.dir THEN 1 ELSE 0]
      OBVIOUS
    <3>2. PICK more : more = StreamWrites(LastOf(own).disk, m, s.stream)
      OBVIOUS
    <3>3. PICK all : all = own \o more
      OBVIOUS
    <3>4. ws = all /\ extra = 1
      <4>1. extra = 1 /\ n # 0
        BY <1>3, <2>7
      <4>2. CreateWrites(p, entry, s, n) = all
        <5> DEFINE Rest(o) == LET k == [LastOf(o).mem EXCEPT !.size = @ + IF entry.dir THEN 1 ELSE 0]
                              IN  IF s.boundary THEN o \o StreamWrites(LastOf(o).disk, k, s.stream) ELSE o
        <5>1. CreateWrites(p, entry, s, n) = CHOOSE r \in {Rest(o) : o \in {own}} : TRUE
          BY <2>1, <4>1 DEF CreateWrites, With
        <5>2. Rest(own) = all
          BY <2>7, <3>1, <3>2, <3>3
        <5> HIDE DEF Rest
        <5> QED BY <5>1, <5>2
      <4> QED BY <4>1, <4>2
    <3>5. Fits(own[4].disk, m, 1)
      <4>1. PICK f \in Nat, g \in Nat : f = Cardinality(FreeClusters(disk.fat)) /\ g = Cardinality(FreeClusters(own[4].disk.fat))
        BY FreeTyped
      <4>2. 1 <= g
        <5>1. g + n >= f /\ n + 1 <= f
          BY <2>3, <3>4, <4>1
        <5> QED BY <5>1
      <4>3. DOMAIN m = DOMAIN mem /\ m.free = mem.free /\ m.last \in Clusters /\ m.corrupted = mem.corrupted
        BY <2>3, <2>5, <3>1 DEF Takes, MemOK
      <4>4. MemOK(m)
        BY <4>3 DEF MemOK
      <4> QED BY <2>3, <4>1, <4>2, <4>4 DEF Fits
    <3>6. /\ more = <<more[1], more[2], more[3], more[4]>> /\ Len(more) = 4
          /\ Takes(own[4].disk, m, more[1], 1) /\ Takes(own[4].disk, m, more[2], 1)
          /\ Takes(own[4].disk, m, more[3], 1) /\ Takes(own[4].disk, m, more[4], 1)
          /\ more[2].mem = more[1].mem
      BY <2>5, <3>2, <3>5, StreamTakes
    <3>7. /\ Takes(disk, mem, more[1], n + 1) /\ Takes(disk, mem, more[2], n + 1)
          /\ Takes(disk, mem, more[3], n + 1) /\ Takes(disk, mem, more[4], n + 1)
      <4>1. PICK size : m = [own[4].mem EXCEPT !.size = size]
        BY <2>5, <3>1
      <4> QED BY <2>3, <3>6, <4>1, MoreTakes
    <3>8. /\ DOMAIN all = 1 .. 8 /\ Len(all) = 8 /\ all[8] = more[4]
          /\ \A i \in 1 .. 4 : all[i] = own[i] /\ all[i + 4] = more[i]
      <4>1. PICK S : S = {own[1], own[2], own[3], own[4], more[1], more[2], more[3], more[4]}
        OBVIOUS
      <4>2. own \in Seq(S) /\ more \in Seq(S)
        <5>1. PICK a, b, c, d : a = own[1] /\ b = own[2] /\ c = own[3] /\ d = own[4]
          OBVIOUS
        <5>2. PICK e, f, g, h : e = more[1] /\ f = more[2] /\ g = more[3] /\ h = more[4]
          OBVIOUS
        <5>3. own = <<a, b, c, d>> /\ more = <<e, f, g, h>>
          BY <2>3, <3>6, <5>1, <5>2
        <5>4. a \in S /\ b \in S /\ c \in S /\ d \in S /\ e \in S /\ f \in S /\ g \in S /\ h \in S
          BY <4>1, <5>1, <5>2
        <5> QED BY <5>3, <5>4
      <4>3. Len(own) = 4 /\ Len(more) = 4
        BY <2>3, <3>6
      <4>4. all = Joined(own, more)
        BY <3>3 DEF Joined
      <4>5. DOMAIN all = 1 .. 8 /\ Len(all) = 8 /\ \A i \in 1 .. 4 : all[i] = own[i] /\ all[i + 4] = more[i]
        BY ONLY <4>2, <4>3, <4>4, EightAre
      <4>6. 4 \in 1 .. 4 /\ 4 + 4 = 8
        OBVIOUS
      <4> QED BY <4>5, <4>6
    <3>9. LastOf(all) = more[4] /\ DOMAIN all = {1, 2, 3, 4, 5, 6, 7, 8}
      BY <3>8 DEF LastOf
    <3>10. \A k \in DOMAIN all : Takes(disk, mem, all[k], 0)
      <4>1. n + 1 \in Nat
        OBVIOUS
      <4>2. ASSUME NEW i \in 1 .. 4 PROVE Takes(disk, mem, all[i], 0) /\ Takes(disk, mem, all[i + 4], 0)
        <5>1. Takes(disk, mem, own[i], n) /\ Takes(disk, mem, more[i], n + 1)
          BY <2>3, <3>7
        <5> QED BY <2>4, <3>8, <4>1, <5>1
      <4>3. ASSUME NEW k \in 1 .. 8 PROVE k \in 1 .. 4 \/ \E i \in 1 .. 4 : k = i + 4
        <5>1. CASE k > 4
          <6>1. k - 4 \in 1 .. 4 /\ k = (k - 4) + 4
            BY <5>1
          <6> QED BY <6>1
        <5> QED BY <5>1
      <4> QED BY <3>8, <4>2, <4>3
    <3>11. Steady(all, 6)
      <4>1. all[5] = more[1] /\ all[6] = more[2]
        <5>1. 1 \in 1 .. 4 /\ 2 \in 1 .. 4 /\ 1 + 4 = 5 /\ 2 + 4 = 6
          OBVIOUS
        <5> QED BY <3>8, <5>1
      <4>2. Before(all, 6) = more[1].disk
        BY <4>1 DEF Before
      <4> QED BY <3>6, <3>7, <4>1, <4>2, OwedLess DEF Steady, Takes
    <3> QED BY <1>3, <3>4, <3>7, <3>8, <3>9, <3>10, <3>11
  <2> QED BY <2>6, <2>7
<1> QED BY <1>1, <1>2, <1>3

-----------------------------------------------------------------------------
(* The count *)

\* the driver runs and knows of no corruption
Live(m) == ~m.corrupted /\ m.run \in {"up", "stopping"}

\* what is counted of a disk and its driver
Counted(d, m) == DiskOK(d) /\ MemOK(m) /\ (Live(m) => m.free + Padding >= Owed(d.fat, m.last))

\* a disk and a driver that an operation may stop with
Passes(w) == DiskOK(w.disk) /\ MemOK(w.mem)

LEMMA PassesUncounted ==
    ASSUME NEW w, Passes(w), NEW k, MemOK(k), ~Live(k)
    PROVE  Counted(w.disk, k)
BY DEF Counted, Passes

\* A write that only takes clusters is one an operation may stop with.
LEMMA TakesPasses ==
    ASSUME NEW d, NEW m, DiskOK(d), MemOK(m), NEW w, NEW n, Takes(d, m, w, n)
    PROVE  Passes(w)
<1>1. DiskOK(w.disk)
  BY DEF Takes, DiskOK
<1>2. MemOK(w.mem)
  BY DEF Takes, MemOK
<1> QED BY <1>1, <1>2 DEF Passes

\* An operation that succeeds counts no more clusters than it took.
LEMMA TakesCounted ==
    ASSUME NEW d, NEW m, Counted(d, m), NEW w, NEW n \in Nat, Takes(d, m, w, n),
           NEW k, MemOK(k), k.run = m.run, k.corrupted = m.corrupted, k.last = w.mem.last, k.free + n >= m.free
    PROVE  Counted(w.disk, k)
<1>1. DiskOK(w.disk)
  BY DEF Takes, DiskOK, Counted
<1>2. ASSUME Live(k) PROVE k.free + Padding >= Owed(w.disk.fat, k.last)
  <2>1. Live(m)
    BY <1>2 DEF Live
  <2>2. m.free + Padding >= Owed(d.fat, m.last) /\ Owed(w.disk.fat, w.mem.last) + n <= Owed(d.fat, m.last)
    BY <2>1 DEF Counted, Takes
  <2>3. PICK x \in Nat, y \in Nat, z \in Nat : x = k.free /\ y = Owed(w.disk.fat, w.mem.last) /\ z = Owed(d.fat, m.last)
    BY OwedLess DEF MemOK
  <2>4. PICK f \in Nat : f = m.free
    BY DEF Counted, MemOK
  <2>5. f + Padding >= z /\ y + n <= z /\ x + n >= f
    BY <2>2, <2>3, <2>4
  <2>6. x + Padding >= y
    BY <2>5, SizesAssumption
  <2> QED BY <2>3, <2>6
<1> QED BY <1>1, <1>2 DEF Counted

\* The states an operation may stop in.
Sequence(ws) == DOMAIN ws \subseteq Nat \ {0} /\ \A k \in DOMAIN ws : Passes(ws[k]) /\ (k > 1 => k - 1 \in DOMAIN ws)

\* So is the disk before any write.
LEMMA BeforePasses ==
    ASSUME NEW ws, Sequence(ws), Counted(disk, mem), NEW k \in DOMAIN ws
    PROVE  \E w : Passes(w) /\ Before(ws, k) = w.disk
<1>1. CASE k = 1
  <2>1. Before(ws, k) = Write(disk, mem).disk
    BY <1>1 DEF Before, Write
  <2>2. Passes(Write(disk, mem))
    BY DEF Passes, Write, Counted
  <2> QED BY <2>1, <2>2
<1>2. CASE k # 1
  <2>1. k \in Nat \ {0}
    BY DEF Sequence
  <2>2. k > 1
    BY <1>2, <2>1
  <2>3. k - 1 \in DOMAIN ws /\ Passes(ws[k - 1])
    BY <2>2 DEF Sequence
  <2>4. Before(ws, k) = ws[k - 1].disk
    BY <1>2 DEF Before
  <2> QED BY <2>3, <2>4
<1> QED BY <1>1, <1>2

\* The mark of a corrupted partition is all that it changes.
LEMMA MarkedOK == ASSUME NEW m, MemOK(m), NEW b, b \in BOOLEAN, NEW k, k = [m EXCEPT !.corrupted = b]
                  PROVE  MemOK(k) /\ k.corrupted = b /\ k.run = m.run /\ k.free = m.free /\ k.last = m.last
BY DEF MemOK

\* A write that fails leaves clusters taken at most, and a partition known corrupted.
LEMMA FailsCounted ==
    ASSUME NEW ws, Sequence(ws), Counted(disk, mem), NEW k \in DOMAIN ws, NEW quiet, k \notin quiet, Fails(ws, quiet, k)
    PROVE  Counted(disk, mem)'
<1>1. PICK w : Passes(w) /\ Before(ws, k) = w.disk
  BY BeforePasses
<1>2. PICK m : m = ws[k].mem /\ MemOK(m)
  BY DEF Sequence, Passes
<1>3. mem' = [m EXCEPT !.corrupted = TRUE]
  <2>1. mem' = [m EXCEPT !.corrupted = m.corrupted \/ k \notin quiet]
    BY <1>2 DEF Fails
  <2>2. (m.corrupted \/ k \notin quiet) = TRUE
    OBVIOUS
  <2> QED BY <2>1, <2>2
<1>4. MemOK(mem') /\ mem'.corrupted = TRUE
  <2>1. PICK b : b = TRUE /\ b \in BOOLEAN
    OBVIOUS
  <2> QED BY <1>2, <1>3, <2>1, MarkedOK
<1>5. ~Live(mem')
  BY <1>4 DEF Live
<1>6. disk' = w.disk
  BY <1>1 DEF Fails
<1>7. Counted(w.disk, mem')
  BY <1>1, <1>4, <1>5, PassesUncounted
<1> QED BY <1>6, <1>7

\* So does a process that ends, without a driver.
LEMMA KilledCounted ==
    ASSUME NEW ws, Sequence(ws), Counted(disk, mem), Killed(ws)
    PROVE  Counted(disk, mem)'
<1>1. PICK k \in DOMAIN ws : disk' = Before(ws, k)
  BY DEF Killed
<1>2. PICK w : Passes(w) /\ Before(ws, k) = w.disk
  BY BeforePasses
<1>3. mem' = [mem EXCEPT !.run = "killed"] /\ MemOK(mem)
  BY DEF Killed, Counted
<1>4. MemOK(mem') /\ ~Live(mem')
  BY <1>3 DEF MemOK, Live
<1>5. Counted(w.disk, mem')
  BY <1>2, <1>4, PassesUncounted
<1> QED BY <1>1, <1>2, <1>5

\* Nothing is asked of a driver after undefined behaviour.
LEMMA UndefinedCounted == ASSUME Counted(disk, mem), Undefined PROVE Counted(disk, mem)'
<1>1. mem' = [mem EXCEPT !.run = "undefined"] /\ disk' = disk /\ MemOK(mem)
  BY DEF Undefined, Counted
<1>2. MemOK(mem') /\ ~Live(mem')
  BY <1>1 DEF MemOK, Live
<1> QED BY <1>1, <1>2 DEF Counted

\* Nor of a partition found corrupted.
LEMMA CorruptedCounted == ASSUME Counted(disk, mem), Corrupted PROVE Counted(disk, mem)'
<1>1. mem' = [mem EXCEPT !.corrupted = TRUE] /\ disk' = disk /\ MemOK(mem)
  BY DEF Corrupted, Counted
<1>2. MemOK(mem') /\ ~Live(mem')
  BY <1>1 DEF MemOK, Live
<1> QED BY <1>1, <1>2 DEF Counted

\* A write that may fail leaves what was taken before, which is not counted.
LEMMA QuietCounted ==
    ASSUME NEW ws, Sequence(ws), Counted(disk, mem), NEW k \in DOMAIN ws, NEW quiet, k \in quiet, Fails(ws, quiet, k),
           \A i \in DOMAIN ws : Takes(disk, mem, ws[i], 0), Steady(ws, k)
    PROVE  Counted(disk, mem)'
<1>1. Takes(disk, mem, ws[k], 0) /\ DiskOK(disk) /\ MemOK(mem)
  BY DEF Counted
<1>2. PICK m : m = ws[k].mem
  OBVIOUS
<1>3. MemOK(m) /\ m.run = mem.run /\ m.free = mem.free /\ m.corrupted = mem.corrupted
  BY <1>1, <1>2 DEF Takes, MemOK
<1>4. MemOK(mem') /\ mem'.corrupted = mem.corrupted /\ mem'.run = mem.run /\ mem'.free = mem.free /\ mem'.last = m.last
  <2>1. PICK b : b = (m.corrupted \/ k \notin quiet)
    OBVIOUS
  <2>2. b \in BOOLEAN /\ b = m.corrupted
    BY <1>3, <2>1 DEF MemOK
  <2>3. mem' = [m EXCEPT !.corrupted = b]
    BY <1>2, <2>1 DEF Fails
  <2> QED BY <1>3, <2>2, <2>3, MarkedOK
<1>5. PICK w : Before(ws, k) = w.disk /\ w.mem.last \in Clusters /\ Takes(disk, mem, w, 0)
  <2>1. CASE k = 1
    <3>1. PICK w : w = Write(disk, mem)
      OBVIOUS
    <3>2. w.disk = disk /\ w.mem = mem
      BY <3>1 DEF Write
    <3>3. Owed(disk.fat, mem.last) \in Nat /\ Owed(disk.fat, mem.last) + 0 <= Owed(disk.fat, mem.last)
      BY OwedLess
    <3>4. Takes(disk, mem, w, 0)
      BY <1>1, <3>2, <3>3 DEF Takes, DiskOK, MemOK
    <3> QED BY <1>1, <2>1, <3>2, <3>4 DEF Before, MemOK
  <2>2. CASE k # 1
    <3>1. k \in Nat \ {0}
      BY DEF Sequence
    <3>2. k > 1
      BY <2>2, <3>1
    <3>3. k - 1 \in DOMAIN ws
      BY <3>2 DEF Sequence
    <3>4. Before(ws, k) = ws[k - 1].disk /\ Takes(disk, mem, ws[k - 1], 0)
      BY <2>2, <3>3 DEF Before
    <3> QED BY <3>4 DEF Takes
  <2> QED BY <2>1, <2>2
<1>6. disk' = w.disk
  BY <1>5 DEF Fails
<1>7. DiskOK(disk')
  BY <1>1, <1>5, <1>6 DEF Takes, DiskOK
<1>8. ASSUME Live(mem') PROVE mem'.free + Padding >= Owed(disk'.fat, mem'.last)
  <2>1. Live(mem)
    BY <1>4, <1>8 DEF Live
  <2>2. mem.free + Padding >= Owed(disk.fat, mem.last) /\ Owed(disk'.fat, mem'.last) <= Owed(disk.fat, mem.last)
    BY <1>2, <1>4, <1>5, <1>6, <2>1 DEF Counted, Steady
  <2>3. PICK x \in Nat, y \in Nat, z \in Nat : x = mem.free /\ y = Owed(disk'.fat, mem'.last) /\ z = Owed(disk.fat, mem.last)
    BY <1>1, OwedLess DEF MemOK
  <2>4. x + Padding >= y
    BY <2>2, <2>3, SizesAssumption
  <2> QED BY <1>4, <2>3, <2>4
<1> QED BY <1>4, <1>7, <1>8 DEF Counted

\* A file that is not empty has clusters.
LEMMA SizeClusters == ASSUME NEW size \in Nat PROVE ClustersOf(size) \in Nat /\ (size > 0 => ClustersOf(size) > 0)
<1>1. PICK c \in Nat \ {0} : c = ClusterSize
  BY SizesAssumption
<1>2. PICK x \in Nat : x = (size + c) - 1 /\ (size > 0 => x >= c)
  BY <1>1
<1>3. ClustersOf(size) = x \div c
  <2>1. size + ClusterSize - 1 = x
    BY <1>1, <1>2
  <2> QED BY <1>1, <2>1 DEF ClustersOf
<1>4. x \div c \in Nat
  BY <1>1, <1>2
<1>5. x >= c => x \div c > 0
  BY <1>1, <1>2
<1> QED BY <1>2, <1>3, <1>4, <1>5

\* the behaviours the count is kept in
Counts == use \cap {"extend", "resize"} = {}
CountInv == Counts => Counted(disk, mem)

\* what Create says of the values it names
Creation(p, size, s, n, extra, streams, entry, quiet, new) ==
    /\ new = CreateWrites(p, entry, s, n)
    /\ n = IF p \in Dirs THEN 1 ELSE ClustersOf(size)
    /\ extra = IF s.boundary THEN 1 ELSE 0
    /\ quiet = IF n = 0 THEN {1 + extra} ELSE {6}
    /\ Running
    /\ mem.free >= n + extra
    /\ Cardinality(FreeClusters(disk.fat)) < n + extra => Undefined
    /\ ~(Cardinality(FreeClusters(disk.fat)) < n + extra)
          => \/ Done(new, [LastOf(new).mem EXCEPT !.free = @ - n - extra, !.size = mem.size + streams])
             \/ \E k \in DOMAIN new : Fails(new, quiet, k)
             \/ Killed(new)

\* create_dirent_for_file counts what it takes, whichever of its writes fails.
LEMMA CreateCounted ==
    ASSUME Counts, Counted(disk, mem), NEW p \in Paths, NEW size \in Sizes \cup {0}, Create(p, size)
    PROVE  Counted(disk, mem)'
<1>1. PICK s, n, extra, streams, entry, quiet, new : Creation(p, size, s, n, extra, streams, entry, quiet, new)
  <2> DEFINE need == IF p \in Dirs THEN 1 ELSE ClustersOf(size)
             more(s) == IF s.boundary THEN 1 ELSE 0
             created == [name |-> LastOf(p), dir |-> p \in Dirs, first |-> FREE, size |-> size, mark |-> "live"]
             all(s) == more(s) + IF p \in Dirs THEN 1 ELSE 0
             spared(s) == IF need = 0 THEN {1 + more(s)} ELSE {6}
  <2>1. PICK s \in {Search(p)} :
          /\ Running
          /\ mem.free >= need + more(s)
          /\ IF Cardinality(FreeClusters(disk.fat)) < need + more(s) THEN Undefined
             ELSE \E writes \in {CreateWrites(p, created, s, need)} :
                   \/ /\ Done(writes, [LastOf(writes).mem EXCEPT !.free = @ - need - more(s), !.size = mem.size + all(s)])
                   \/ (\E k \in DOMAIN writes : Fails(writes, spared(s), k)) /\ UNCHANGED <<opened, listed>>
                   \/ Killed(writes)
         
    <3> HIDE DEF created
    <3>1. created = [name |-> LastOf(p), dir |-> p \in Dirs, first |-> FREE, size |-> size, mark |-> "live"]
      BY DEF created
    <3> QED BY <3>1, Zenon DEF Create
  <2>2. PICK n, extra, streams, entry, quiet : n = need /\ extra = more(s) /\ streams = all(s) /\ entry = created /\ quiet = spared(s)
    OBVIOUS
  <2>3. n = IF p \in Dirs THEN 1 ELSE ClustersOf(size)
    BY <2>2
  <2>4. extra = IF s.boundary THEN 1 ELSE 0
    BY <2>2
  <2>5. quiet = IF n = 0 THEN {1 + extra} ELSE {6}
    BY <2>2
  <2> HIDE DEF need, more, created, all, spared
  <2>6. CreateWrites(p, created, s, need) = CreateWrites(p, entry, s, n)
    BY <2>2
  <2>7. PICK new : new = CreateWrites(p, entry, s, n)
    OBVIOUS
  <2>8. [LastOf(new).mem EXCEPT !.free = @ - need - more(s), !.size = mem.size + all(s)]
            = [LastOf(new).mem EXCEPT !.free = @ - n - extra, !.size = mem.size + streams]
    BY <2>2
  <2>9. ASSUME ~(Cardinality(FreeClusters(disk.fat)) < n + extra)
        PROVE  \/ Done(new, [LastOf(new).mem EXCEPT !.free = @ - n - extra, !.size = mem.size + streams])
               \/ \E k \in DOMAIN new : Fails(new, quiet, k)
               \/ Killed(new)
    <3>1. \/ Done(new, [LastOf(new).mem EXCEPT !.free = @ - need - more(s), !.size = mem.size + all(s)])
          \/ \E k \in DOMAIN new : Fails(new, spared(s), k)
          \/ Killed(new)
      BY <2>1, <2>2, <2>6, <2>7, <2>9
    <3> QED BY <2>2, <2>8, <3>1
  <2>10. Running /\ mem.free >= n + extra
    BY <2>1, <2>2
  <2>11. Cardinality(FreeClusters(disk.fat)) < n + extra => Undefined
    BY <2>1, <2>2
  <2>12. Creation(p, size, s, n, extra, streams, entry, quiet, new)
    BY <2>3, <2>4, <2>5, <2>7, <2>9, <2>10, <2>11 DEF Creation
  <2> QED BY <2>12
<1>2. n \in Nat /\ extra \in Nat /\ DiskOK(disk) /\ MemOK(mem) /\ mem.run = "up"
  <2>1. size \in Nat
    BY SizesAssumption
  <2> QED BY <1>1, <2>1, SizeClusters DEF Counted, Running, Creation
<1>3. CASE Cardinality(FreeClusters(disk.fat)) < n + extra
  BY <1>1, <1>2, <1>3, UndefinedCounted DEF Creation
<1>4. CASE ~(Cardinality(FreeClusters(disk.fat)) < n + extra)
  <2>1. PICK ws : /\ ws = CreateWrites(p, entry, s, n)
                  /\ \/ Done(ws, [LastOf(ws).mem EXCEPT !.free = @ - n - extra, !.size = mem.size + streams])
                     \/ \E k \in DOMAIN ws : Fails(ws, quiet, k)
                     \/ Killed(ws)
    BY <1>1, <1>4 DEF Creation
  <2>2. n + extra <= Cardinality(FreeClusters(disk.fat))
    BY <1>2, <1>4, FreeTyped
  <2>4. /\ DOMAIN ws \subseteq Nat \ {0} /\ Len(ws) \in DOMAIN ws
        /\ \A k \in DOMAIN ws : Takes(disk, mem, ws[k], 0) /\ (k > 1 => k - 1 \in DOMAIN ws)
        /\ Takes(disk, mem, LastOf(ws), n + extra)
        /\ \A k \in DOMAIN ws \cap quiet : Steady(ws, k)
    BY <1>1, <1>2, <2>1, <2>2, CreateTakes DEF Creation
  <2>5. Sequence(ws)
    BY <1>2, <2>4, TakesPasses DEF Sequence
  <2>6. CASE Done(ws, [LastOf(ws).mem EXCEPT !.free = @ - n - extra, !.size = mem.size + streams])
    <3>1. PICK w : w = LastOf(ws)
      OBVIOUS
    <3>2. disk' = w.disk /\ mem' = [w.mem EXCEPT !.free = @ - n - extra, !.size = mem.size + streams]
      BY <2>6, <3>1 DEF Done
    <3>3. Takes(disk, mem, w, n + extra) /\ n + extra \in Nat
      BY <1>2, <2>4, <3>1
    <3>4. {"run", "free", "last", "corrupted"} \subseteq DOMAIN w.mem /\ w.mem.free = mem.free /\ w.mem.run = mem.run
          /\ w.mem.corrupted = mem.corrupted /\ w.mem.last \in Clusters
      BY <1>2, <3>3 DEF Takes, MemOK
    <3>5. PICK f \in Nat : f = mem.free /\ f >= n + extra
      BY <1>1, <1>2 DEF MemOK, Creation
    <3>6. DOMAIN mem' = DOMAIN w.mem /\ mem'.run = mem.run /\ mem'.corrupted = mem.corrupted /\ mem'.last = w.mem.last
          /\ mem'.free = (f - n) - extra
      BY <3>2, <3>4, <3>5
    <3>7. mem'.free \in Nat /\ mem'.free + (n + extra) >= mem.free
      BY <1>2, <3>5, <3>6
    <3>8. MemOK(mem')
      BY <1>2, <3>4, <3>6, <3>7 DEF MemOK
    <3>9. Counted(w.disk, mem')
      BY <3>3, <3>6, <3>7, <3>8, TakesCounted
    <3> QED BY <1>2, <3>2, <3>9
  <2>7. ASSUME NEW k \in DOMAIN ws, Fails(ws, quiet, k) PROVE Counted(disk, mem)'
    <3>1. CASE k \in quiet
      BY <1>2, <2>4, <2>5, <2>7, <3>1, QuietCounted
    <3>2. CASE k \notin quiet
      BY <1>2, <2>5, <2>7, <3>2, FailsCounted
    <3> QED BY <3>1, <3>2
  <2>8. CASE Killed(ws)
    BY <1>2, <2>5, <2>8, KilledCounted
  <2> QED BY <2>1, <2>6, <2>7, <2>8
<1> QED BY <1>3, <1>4

\* The growth of a file that had no cluster: nothing is counted.
LEMMA AppendCounted ==
    ASSUME Counts, Counted(disk, mem), NEW p \in Paths, NEW size \in Sizes, AppendTo(p, size)
    PROVE  Counted(disk, mem)'
<1>1. AppendFirst(p, size) /\ use' = use /\ mem.run = "up"
  BY DEF AppendTo, AppendMore, Counts, Running
<1>2. PICK n \in Nat : n = ClustersOf(size) /\ n > 0
  BY SizesAssumption, SizeClusters
<1>3. PICK a : a = Chained(disk.fat, mem.last, n)
  OBVIOUS
<1>4. PICK m : m = [mem EXCEPT !.last = LastOf(a.found)]
  OBVIOUS
<1>5. PICK d : d = PutFat(disk, a.fat)
  OBVIOUS
<1>6. PICK e : e = PutFile(d, a.found, p, 0)
  OBVIOUS
<1>7. IF Cardinality(FreeClusters(disk.fat)) < n THEN Undefined ELSE Grown(p, size, <<Write(d, m), Write(e, m)>>, m)
  BY <1>1, <1>2, <1>3, <1>4, <1>5, <1>6 DEF AppendFirst
<1>8. DiskOK(disk) /\ MemOK(mem)
  BY <1>1 DEF Counted
<1>9. CASE Cardinality(FreeClusters(disk.fat)) < n
  BY <1>7, <1>8, <1>9, UndefinedCounted
<1>10. CASE ~(Cardinality(FreeClusters(disk.fat)) < n)
  <2>1. n <= Cardinality(FreeClusters(disk.fat))
    BY <1>10, FreeTyped
  <2>3. DOMAIN m = DOMAIN mem /\ m.free = mem.free /\ m.run = mem.run /\ m.corrupted = mem.corrupted /\ m.last = LastOf(a.found)
    BY <1>4, <1>8 DEF MemOK
  <2>4. Takes(disk, mem, Write(d, m), n) /\ DiskOK(d)
    <3>1. Alike(PutFat(disk, a.fat), d)
      BY <1>5 DEF Alike
    <3> QED BY <1>2, <1>3, <1>8, <2>1, <2>3, <3>1, PutFatTakes
  <2>5. Takes(disk, mem, Write(e, m), n)
    <3>1. Alike(d, e)
      BY <1>6, <2>4, PutsAlike
    <3> QED BY <2>4, <3>1, AlikeTakes
  <2>6. PICK ws : ws = <<Write(d, m), Write(e, m)>>
    OBVIOUS
  <2>7. ws[1] = Write(d, m) /\ ws[2] = Write(e, m) /\ DOMAIN ws = {1, 2} /\ LastOf(ws) = Write(e, m)
    BY <2>6 DEF LastOf
  <2>8. Sequence(ws)
    <3>1. Passes(ws[1]) /\ Passes(ws[2])
      BY <1>8, <2>4, <2>5, <2>7, TakesPasses
    <3>2. \A k \in DOMAIN ws : Passes(ws[k])
      BY <2>7, <3>1
    <3>3. \A k \in DOMAIN ws : k > 1 => k - 1 \in DOMAIN ws
      BY <2>7
    <3>4. DOMAIN ws \subseteq Nat \ {0}
      BY <2>7
    <3> QED BY <3>2, <3>3, <3>4 DEF Sequence
  <2>9. Done(ws, m) \/ (\E k \in DOMAIN ws : Fails(ws, {}, k)) \/ Killed(ws)
    BY <1>7, <1>10, <2>6 DEF Grown
  <2>10. CASE Done(ws, m)
    <3>0. PICK w : w = Write(e, m)
      OBVIOUS
    <3>1. w = Write(e, m) /\ w.disk = e /\ w.mem = m
      BY <3>0 DEF Write
    <3>2. disk' = w.disk /\ mem' = m
      BY <2>7, <2>10, <3>1 DEF Done
    <3>3. MemOK(m)
      BY <1>8, <2>3, <2>5, <3>1 DEF MemOK, Takes
    <3>4. m.free + n >= mem.free
      <4>1. PICK f \in Nat : f = mem.free
        BY <1>8 DEF MemOK
      <4> QED BY <2>3, <4>1
    <3>5. Takes(disk, mem, w, n) /\ m.last = w.mem.last
      BY <2>5, <3>1
    <3>6. Counted(w.disk, m)
      BY <2>3, <3>3, <3>4, <3>5, TakesCounted
    <3> QED BY <1>8, <3>2, <3>6
  <2>11. ASSUME NEW k \in DOMAIN ws, Fails(ws, {}, k) PROVE Counted(disk, mem)'
    <3>0. PICK quiet : quiet = {}
      OBVIOUS
    <3>1. k \notin quiet /\ Fails(ws, quiet, k)
      BY <2>11, <3>0
    <3> QED BY <1>8, <2>8, <2>11, <3>1, FailsCounted
  <2>12. CASE Killed(ws)
    BY <1>8, <2>8, <2>12, KilledCounted
  <2> QED BY <2>9, <2>10, <2>11, <2>12
<1> QED BY <1>9, <1>10

\* a chain of len clusters
IsOf(chain, len) == chain = [k \in 1 .. len |-> chain[k]] /\ Len(chain) = len

-----------------------------------------------------------------------------
(* What releases clusters *)

\* What is freed is counted.
LEMMA FreeWritesAre ==
    ASSUME DiskOK(disk), MemOK(mem), NEW len \in Nat, NEW chain, IsOf(chain, len),
           NEW left \in 0 .. len, NEW ws, ws = FreeWrites(mem, chain, left)
    PROVE  \E d1, d2, m :
           /\ ws = <<Write(d1, mem), Write(d2, m)>>
           /\ DiskOK(d1) /\ DiskOK(d2) /\ MemOK(m) /\ m.run = mem.run /\ m.corrupted = mem.corrupted /\ m.last = mem.last
           /\ Owed(d2.fat, mem.last) + mem.free <= Owed(disk.fat, mem.last) + m.free
<1>1. PICK cut : cut = Unchained(disk.fat, chain, left)
  OBVIOUS
<1>2. cut \in Fats /\ Owed(cut, mem.last) <= Owed(disk.fat, mem.last) + (len - left)
  BY <1>1, Frees DEF DiskOK, IsOf
<1>3. PICK m : m = [mem EXCEPT !.free = @ + Len(chain) - left]
  OBVIOUS
<1>4. PICK d1 : d1 = PutFat(disk, cut)
  OBVIOUS
<1>5. PICK freed : freed = SubSeq(chain, left + 1, Len(chain))
  OBVIOUS
<1>6. PICK d2 : d2 = PutTable(d1, freed, [i \in DOMAIN freed |-> Freed])
  OBVIOUS
<1>7. ws = <<Write(d1, mem), Write(d2, m)>>
  BY <1>1, <1>3, <1>4, <1>5, <1>6 DEF FreeWrites
<1>8. DiskOK(d1) /\ d1.fat = cut
  BY <1>2, <1>4 DEF DiskOK, PutFat
<1>9. DiskOK(d2) /\ d2.fat = cut
  <2>1. Alike(d1, d2)
    BY <1>6, <1>8, PutsAlike
  <2> QED BY <1>8, <2>1 DEF Alike, DiskOK
<1>10. PICK f \in Nat, l \in Nat : f = mem.free /\ l = len - left /\ len - left \in Nat
  BY DEF MemOK
<1>14. Len(chain) = len
  BY DEF IsOf
<1>11. m.free = f + l /\ m.run = mem.run /\ m.corrupted = mem.corrupted /\ m.last = mem.last /\ DOMAIN m = DOMAIN mem
  <2>1. mem.free + Len(chain) - left = f + l
    BY <1>10, <1>14
  <2>2. m = [mem EXCEPT !.free = f + l]
    BY <1>3, <2>1
  <2> QED BY <2>2 DEF MemOK
<1>12. MemOK(m)
  BY <1>10, <1>11 DEF MemOK
<1>13. Owed(d2.fat, mem.last) + mem.free <= Owed(disk.fat, mem.last) + m.free
  <2>1. PICK x \in Nat, y \in Nat : x = Owed(cut, mem.last) /\ y = Owed(disk.fat, mem.last)
    BY OwedLess
  <2>2. x <= y + l
    BY <1>2, <1>10, <2>1
  <2>3. x + f <= y + (f + l)
    BY <2>2
  <2> QED BY <1>9, <1>10, <1>11, <2>1, <2>3
<1> QED BY <1>7, <1>8, <1>9, <1>11, <1>12, <1>13

\* The writes of free_allocated_clusters, one by one.
LEMMA FreedCounted ==
    ASSUME Counted(disk, mem), NEW chain, NEW first, chain = ChainOf(disk.fat, first),
           NEW left \in Nat, left <= Len(chain), NEW ws, ws = FreeWrites(mem, chain, left)
    PROVE  \E v, w : ws = <<v, w>> /\ Passes(v) /\ Passes(w) /\ Counted(w.disk, w.mem)
<1>1. PICK len \in Nat : IsOf(chain, len)
  BY ChainTyped DEF IsOf
<1>2. left \in 0 .. len
  BY <1>1 DEF IsOf
<1>3. DiskOK(disk) /\ MemOK(mem)
  BY DEF Counted
<1>4. PICK d1, d2, m :
          /\ ws = <<Write(d1, mem), Write(d2, m)>>
          /\ DiskOK(d1) /\ DiskOK(d2) /\ MemOK(m) /\ m.run = mem.run /\ m.corrupted = mem.corrupted /\ m.last = mem.last
          /\ Owed(d2.fat, mem.last) + mem.free <= Owed(disk.fat, mem.last) + m.free
  BY <1>1, <1>2, <1>3, FreeWritesAre
<1>5. PICK v, w : v = Write(d1, mem) /\ w = Write(d2, m)
  OBVIOUS
<1>6. v.disk = d1 /\ v.mem = mem /\ w.disk = d2 /\ w.mem = m
  BY <1>5 DEF Write
<1>7. Passes(v) /\ Passes(w)
  BY <1>3, <1>4, <1>6 DEF Passes
<1>8. ASSUME Live(m) PROVE m.free + Padding >= Owed(d2.fat, m.last)
  <2>1. Live(mem)
    BY <1>4, <1>8 DEF Live
  <2>2. PICK x \in Nat, y \in Nat, f \in Nat, g \in Nat :
            x = Owed(disk.fat, mem.last) /\ y = Owed(d2.fat, mem.last) /\ f = mem.free /\ g = m.free
    BY <1>3, <1>4, OwedLess DEF MemOK
  <2>3. f + Padding >= x
    BY <2>1, <2>2 DEF Counted
  <2>4. y + f <= x + g
    BY <1>4, <2>2
  <2>5. g + Padding >= y
    BY <2>3, <2>4, SizesAssumption
  <2> QED BY <1>4, <2>2, <2>5
<1>9. Counted(d2, m)
  BY <1>4, <1>8 DEF Counted
<1> QED BY <1>4, <1>5, <1>6, <1>7, <1>9

\* Two writes are a sequence.
LEMMA PairSequence ==
    ASSUME NEW v, NEW w, Passes(v), Passes(w), NEW ws, ws = <<v, w>>
    PROVE  Sequence(ws) /\ LastOf(ws) = w
<1>1. ws[1] = v /\ ws[2] = w /\ DOMAIN ws = {1, 2} /\ Len(ws) = 2
  OBVIOUS
<1>2. \A k \in DOMAIN ws : Passes(ws[k])
  BY <1>1
<1>3. \A k \in DOMAIN ws : k > 1 => k - 1 \in DOMAIN ws
  BY <1>1
<1>4. DOMAIN ws \subseteq Nat \ {0}
  BY <1>1
<1> QED BY <1>1, <1>2, <1>3, <1>4 DEF Sequence, LastOf

\* One more write.
LEMMA LongerSequence ==
    ASSUME NEW S, NEW ws \in Seq(S), Sequence(ws), NEW x \in S, Passes(x), NEW all, all = Append(ws, x)
    PROVE  Sequence(all) /\ LastOf(all) = x
<1>1. PICK n \in Nat : n = Len(ws) /\ DOMAIN ws = 1 .. n
  OBVIOUS
<1>2. all \in Seq(S) /\ Len(all) = n + 1 /\ DOMAIN all = 1 .. n + 1
  BY <1>1
<1>3. (\A k \in 1 .. n : all[k] = ws[k]) /\ all[n + 1] = x
  BY <1>1
<1>4. ASSUME NEW k \in DOMAIN all PROVE Passes(all[k]) /\ (k > 1 => k - 1 \in DOMAIN all)
  <2>1. k \in 1 .. n \/ k = n + 1
    BY <1>2
  <2>2. \A i \in 1 .. n : Passes(ws[i])
    BY <1>1 DEF Sequence
  <2>3. Passes(all[k])
    BY <1>3, <2>1, <2>2
  <2>4. k > 1 => k - 1 \in DOMAIN all
    BY <1>2
  <2> QED BY <2>3, <2>4
<1> QED BY <1>2, <1>3, <1>4 DEF Sequence, LastOf

\* Every failure of a sequence corrupts.
LEMMA StopsCounted ==
    ASSUME NEW ws, Sequence(ws), Counted(disk, mem), (\E k \in DOMAIN ws : Fails(ws, {}, k)) \/ Killed(ws)
    PROVE  Counted(disk, mem)'
<1>1. ASSUME NEW k \in DOMAIN ws, Fails(ws, {}, k) PROVE Counted(disk, mem)'
  <2>1. PICK quiet : quiet = {}
    OBVIOUS
  <2>2. k \notin quiet /\ Fails(ws, quiet, k)
    BY <1>1, <2>1
  <2> QED BY <2>2, FailsCounted
<1> QED BY <1>1, KilledCounted

\* delete_dirent_for_file, which counts what it frees.
LEMMA RemoveCounted ==
    ASSUME Counted(disk, mem), NEW p \in Paths, Remove(p)
    PROVE  Counted(disk, mem)'
<1>2. PICK first : first = opened[p].dirent.first
  OBVIOUS
<1>3. PICK ws : ws = FreeWrites(mem, ChainOf(disk.fat, first), 0)
  OBVIOUS
<1>4. \/ UNCHANGED <<disk, mem>>
      \/ Corrupted
      \/ Done(ws, LastOf(ws).mem) \/ (\E k \in DOMAIN ws : Fails(ws, {}, k)) \/ Killed(ws)
  BY <1>2, <1>3 DEF Remove
<1>5. PICK v, w : ws = <<v, w>> /\ Passes(v) /\ Passes(w) /\ Counted(w.disk, w.mem)
  <2>1. PICK chain : chain = ChainOf(disk.fat, first)
    OBVIOUS
  <2>2. PICK left \in Nat : left = 0
    OBVIOUS
  <2>3. left <= Len(chain)
    BY <2>1, <2>2, ChainTyped
  <2>4. ws = FreeWrites(mem, chain, left)
    BY <1>3, <2>1, <2>2
  <2> QED BY <2>1, <2>3, <2>4, FreedCounted
<1>6. Sequence(ws) /\ LastOf(ws) = w
  BY <1>5, PairSequence
<1>7. CASE UNCHANGED <<disk, mem>>
  BY <1>7 DEF Counted
<1>8. CASE Corrupted
  BY <1>8, CorruptedCounted
<1>9. CASE Done(ws, LastOf(ws).mem)
  BY <1>5, <1>6, <1>9 DEF Done
<1>10. CASE (\E k \in DOMAIN ws : Fails(ws, {}, k)) \/ Killed(ws)
  BY <1>6, <1>10, StopsCounted
<1> QED BY <1>4, <1>7, <1>8, <1>9, <1>10

\* overwrite_dirent_for_file: a file that shrinks frees, one that is emptied too.
LEMMA OverwriteCounted ==
    ASSUME Counts, Counted(disk, mem), NEW p \in Paths, NEW size \in Sizes \cup {0}, Overwrite(p, size)
    PROVE  Counted(disk, mem)'
<1>1. PICK s : Shrink(p, size, s)
  BY DEF Overwrite, Enlarge, Counts
<1>3. PICK chain : chain = ChainOf(disk.fat, s.dirent.first)
  OBVIOUS
<1>4. PICK left \in Nat : left = ClustersOf(size)
  BY SizesAssumption, SizeClusters
<1>5. PICK e : e = [s.dirent EXCEPT !.size = size, !.first = IF size = 0 THEN FREE ELSE @]
  OBVIOUS
<1>6. PICK ws : ws = FreeWrites(mem, chain, left)
  OBVIOUS
<1>7. Corrupted \/ (Rewritten(p, s.at, e, ws) /\ ~(left >= Len(chain)))
  BY <1>1, <1>3, <1>4, <1>5, <1>6 DEF Shrink
<1>8. CASE Corrupted
  BY <1>8, CorruptedCounted
<1>9. CASE Rewritten(p, s.at, e, ws) /\ ~(left >= Len(chain))
  <2>1. left <= Len(chain)
    BY <1>3, <1>9, ChainTyped
  <2>2. PICK v, w : ws = <<v, w>> /\ Passes(v) /\ Passes(w) /\ Counted(w.disk, w.mem)
    BY <1>3, <1>6, <2>1, FreedCounted
  <2>3. LastOf(ws) = w
    BY <2>2, PairSequence
  <2>4. PICK x : x = Write(PutDirent(w.disk, s.at, e), w.mem)
    OBVIOUS
  <2>5. PICK all : all = Append(ws, x)
    OBVIOUS
  <2>6. With(ws, LAMBDA o : Append(o, Write(PutDirent(LastOf(o).disk, s.at, e), LastOf(o).mem))) = all
    BY <2>3, <2>4, <2>5 DEF With
  <2>7. \/ Done(all, LastOf(all).mem)
        \/ (\E k \in DOMAIN all : Fails(all, {}, k)) \/ Killed(all)
    BY <1>9, <2>6 DEF Rewritten
  <2>9. Passes(x) /\ Counted(x.disk, x.mem)
    <3>1. PICK d : d = PutDirent(w.disk, s.at, e)
      OBVIOUS
    <3>2. DiskOK(w.disk) /\ MemOK(w.mem)
      BY <2>2 DEF Passes
    <3>3. Alike(w.disk, d)
      BY <3>1, <3>2, PutsAlike
    <3>4. x.disk = d /\ x.mem = w.mem
      BY <2>4, <3>1 DEF Write
    <3>5. DiskOK(d) /\ d.fat = w.disk.fat
      BY <3>2, <3>3 DEF Alike, DiskOK
    <3> QED BY <2>2, <3>2, <3>4, <3>5 DEF Passes, Counted
  <2>10. Sequence(all) /\ LastOf(all) = x
    <3>1. PICK S : S = {v, w, x}
      OBVIOUS
    <3>2. v \in S /\ w \in S /\ x \in S
      BY <3>1
    <3>3. ws \in Seq(S)
      BY <2>2, <3>2
    <3>4. Sequence(ws)
      BY <2>2, PairSequence
    <3> QED BY <2>5, <2>9, <3>2, <3>3, <3>4, LongerSequence
  <2>11. CASE Done(all, LastOf(all).mem)
    BY <2>9, <2>10, <2>11 DEF Done
  <2>12. CASE (\E k \in DOMAIN all : Fails(all, {}, k)) \/ Killed(all)
    BY <2>10, <2>12, StopsCounted
  <2> QED BY <2>7, <2>11, <2>12
<1> QED BY <1>7, <1>8, <1>9

\* flush_dirent_for_file writes dirents only.
LEMMA CloseCounted ==
    ASSUME Counted(disk, mem), NEW p \in Paths, Close(p)
    PROVE  Counted(disk, mem)'
<1>1. DiskOK(disk) /\ MemOK(mem)
  BY DEF Counted
<1>2. PICK d : d = PutDirent(disk, opened[p].at, opened[p].dirent)
  OBVIOUS
<1>3. PICK w : w = Write(d, mem)
  OBVIOUS
<1>4. PICK ws : ws = <<w>>
  OBVIOUS
<1>5. Done(ws, mem) \/ Fails(ws, {}, 1) \/ Killed(ws)
  BY <1>2, <1>3, <1>4 DEF Close
<1>6. w.disk = d /\ w.mem = mem /\ DiskOK(d) /\ d.fat = disk.fat
  <2>1. Alike(disk, d)
    BY <1>1, <1>2, PutsAlike
  <2> QED BY <1>1, <1>3, <2>1 DEF Alike, DiskOK, Write
<1>7. Passes(w) /\ Counted(d, mem)
  BY <1>1, <1>6 DEF Passes, Counted
<1>8. ws[1] = w /\ DOMAIN ws = {1} /\ Len(ws) = 1
  BY <1>4
<1>9. Sequence(ws) /\ LastOf(ws) = w
  <2>1. \A k \in DOMAIN ws : Passes(ws[k]) /\ (k > 1 => k - 1 \in DOMAIN ws)
    BY <1>7, <1>8
  <2> QED BY <1>8, <2>1 DEF Sequence, LastOf
<1>10. CASE Done(ws, mem)
  BY <1>6, <1>7, <1>9, <1>10 DEF Done
<1>11. CASE (\E k \in DOMAIN ws : Fails(ws, {}, k)) \/ Killed(ws)
  BY <1>9, <1>11, StopsCounted
<1> QED BY <1>5, <1>8, <1>10, <1>11

-----------------------------------------------------------------------------
(* Format, stop and launch *)

\* What is formatted has the free clusters that are counted, but for the padding.
LEMMA FormattedIs ==
    /\ Formatted.fat \in Fats /\ DiskOK(Formatted)
    /\ (TotClusters - 1) + Padding >= Owed(Formatted.fat, 1) /\ TotClusters - 1 \in Nat
<1>1. PICK fat : fat = [c \in Clusters |-> IF c = 1 THEN ROOT ELSE IF c = 2 THEN EOC ELSE FREE]
  OBVIOUS
<1>2. Formatted.fat = fat /\ Formatted.last = 1 /\ {"fat", "last"} \subseteq DOMAIN Formatted
  BY <1>1 DEF Formatted
<1>3. ROOT \in 0 .. ROOT /\ EOC \in 0 .. ROOT /\ FREE \in 0 .. ROOT
  BY Sized DEF FREE
<1>4. fat \in Fats
  BY <1>1, <1>3 DEF Fats
<1>5. ROOT # FREE
  BY Sized DEF ROOT, FREE
<1>6. FreeClusters(fat) \subseteq 2 .. FatLength
  <2>1. ASSUME NEW c \in FreeClusters(fat) PROVE c \in 2 .. FatLength
    <3>1. c \in 1 .. FatLength /\ fat[c] = FREE
      BY DEF FreeClusters, Clusters
    <3>2. c # 1
      BY <1>1, <1>5, <3>1, Sized
    <3> QED BY <3>1, <3>2, Sized
  <2> QED BY <2>1
<1>7. Cardinality(FreeClusters(fat)) <= FatLength - 1
  <2>1. IsFiniteSet(2 .. FatLength) /\ Cardinality(2 .. FatLength) = FatLength - 1
    <3>1. IsFiniteSet(2 .. FatLength) /\ Cardinality(2 .. FatLength) = IF 2 > FatLength THEN 0 ELSE FatLength - 2 + 1
      BY Sized, FS_Interval
    <3> QED BY <3>1, Sized
  <2> QED BY <1>6, <2>1, FS_Subset
<1>8. Owed(fat, 1) = Cardinality(FreeClusters(fat))
  <2>1. ~\E c \in FreeClusters(fat) : c < 1
    BY DEF FreeClusters, Clusters
  <2> QED BY <2>1, FreeTyped DEF Owed
<1>9. (TotClusters - 1) + Padding >= Owed(fat, 1) /\ TotClusters - 1 \in Nat
  <2>1. PICK x \in Nat : x = Cardinality(FreeClusters(fat))
    BY FreeTyped
  <2>2. FatLength - 1 = (TotClusters - 1) + Padding
    BY Sized, SizesAssumption
  <2> QED BY <1>7, <1>8, <2>1, <2>2, Sized
<1> QED BY <1>2, <1>4, <1>9, Sized DEF DiskOK

\* An arbitrary disk formatted anew, or what replaces it, with the members of a new driver.
LEMMA FreshCounted ==
    ASSUME NEW d, DiskOK(d), d.fat = Formatted.fat, NEW b \in BOOLEAN
    PROVE  Counted(d, FreshMem(b))
<1>1. PICK m : m = FreshMem(b)
  OBVIOUS
<1>2. m.free = TotClusters - 1 /\ m.last = 1 /\ m.corrupted = b /\ {"run", "free", "last", "corrupted"} \subseteq DOMAIN m
  BY <1>1 DEF FreshMem
<1>3. DiskOK(d) /\ MemOK(m)
  BY <1>2, FormattedIs, Sized DEF MemOK
<1>4. m.free + Padding >= Owed(d.fat, m.last)
  BY <1>2, FormattedIs
<1> QED BY <1>1, <1>3, <1>4 DEF Counted

\* A partition that was just formatted.
LEMMA InitCounted == Init => Counted(disk, mem)
<1>1. SUFFICES ASSUME Init PROVE Counted(disk, mem)
  OBVIOUS
<1>2. disk = Formatted
  BY <1>1 DEF Init
<1>3. PICK b \in BOOLEAN : b = FALSE
  OBVIOUS
<1>4. mem = [run |-> "up", free |-> TotClusters - 1, tot |-> TotClusters + 1, last |-> 1, size |-> 1, corrupted |-> FALSE]
  BY <1>1 DEF Init, FreshMem
<1>5. mem = FreshMem(b)
  BY <1>3, <1>4 DEF FreshMem
<1>6. DiskOK(disk) /\ disk.fat = Formatted.fat
  BY <1>2, FormattedIs
<1>7. Counted(disk, FreshMem(b))
  BY <1>6, FreshCounted
<1> QED BY <1>5, <1>7

\* The count, the mark and the last cluster are stored when the driver stops.
LEMMA SaveCounted == ASSUME Counted(disk, mem), Save PROVE Counted(disk, mem)'
<1>1. DiskOK(disk) /\ MemOK(mem)
  BY DEF Counted
<1>2. mem.run = "stopping" /\ mem' = [mem EXCEPT !.run = "down"] /\ (disk' = Saved \/ disk' = disk)
  BY DEF Save
<1>3. MemOK(mem') /\ ~Live(mem')
  BY <1>1, <1>2 DEF MemOK, Live
<1>4. CASE disk' = disk
  BY <1>1, <1>3, <1>4 DEF Counted
<1>5. CASE disk' = Saved /\ ~mem.corrupted
  <2>1. disk' = [disk EXCEPT !.dirty = FALSE, !.last = mem.last]
    BY <1>5 DEF Saved
  <2>2. disk'.fat = disk.fat /\ disk'.last = mem.last /\ DiskOK(disk')
    BY <1>1, <2>1 DEF DiskOK, MemOK
  <2> QED BY <1>3, <2>2 DEF Counted
<1>6. CASE disk' = Saved /\ mem.corrupted
  BY <1>1, <1>3, <1>6 DEF Saved, Counted
<1> QED BY <1>2, <1>4, <1>5, <1>6

\* A launch takes them from there, or formats the partition anew.
LEMMA LaunchCounted == ASSUME Counted(disk, mem), NEW new \in BOOLEAN, Launch(new) PROVE Counted(disk, mem)'
<1>1. PICK corrupted : corrupted = (mem.corrupted /\ ~new)
  OBVIOUS
<1>2. PICK base : base = IF new THEN 0 ELSE mem.free
  OBVIOUS
<1>3. DiskOK(disk) /\ MemOK(mem) /\ corrupted \in BOOLEAN /\ base \in Nat
  <2>1. MemOK(mem) /\ DiskOK(disk)
    BY DEF Counted
  <2>2. mem.corrupted \in BOOLEAN /\ mem.free \in Nat
    BY <2>1 DEF MemOK
  <2>3. corrupted \in BOOLEAN
    BY <1>1, <2>2
  <2>4. base \in Nat
    BY <1>2, <2>2
  <2> QED BY <2>1, <2>3, <2>4
<1>4. IF disk.dirty THEN disk' = Formatted /\ mem' = FreshMem(corrupted)
      ELSE mem' = ReadMem(base, corrupted) /\ disk' = disk
  BY <1>1, <1>2 DEF Launch
<1>5. CASE disk.dirty
  <2>1. PICK d : d = Formatted
    OBVIOUS
  <2>2. DiskOK(d) /\ d.fat = Formatted.fat
    BY <2>1, FormattedIs
  <2>3. Counted(d, FreshMem(corrupted))
    BY <1>3, <2>2, FreshCounted
  <2> QED BY <1>3, <1>4, <1>5, <2>1, <2>3
<1>6. CASE ~disk.dirty
  <2>1. mem' = ReadMem(base, corrupted) /\ disk' = disk
    BY <1>4, <1>6
  <2>2. PICK f \in Nat : f = Cardinality(FreeClusters(disk.fat))
    BY FreeTyped
  <2>3. mem'.free = base + f /\ mem'.last = disk.last /\ mem'.corrupted = corrupted /\ {"run", "free", "last", "corrupted"} \subseteq DOMAIN mem'
    BY <2>1, <2>2 DEF ReadMem
  <2>4. MemOK(mem')
    BY <1>3, <2>2, <2>3 DEF MemOK, DiskOK
  <2>5. PICK x \in Nat : x = Owed(disk.fat, disk.last) /\ x <= f + 1
    BY <2>2, OwedLess
  <2>6. mem'.free + Padding >= Owed(disk.fat, disk.last)
    BY <1>3, <2>2, <2>3, <2>5, SizesAssumption
  <2> QED BY <1>3, <2>1, <2>3, <2>4, <2>6 DEF Counted
<1> QED BY <1>5, <1>6

\* So does a launch that resynchronises the files.
LEMMA SyncCounted == ASSUME Counted(disk, mem), LaunchSync PROVE Counted(disk, mem)'
<1>1. DiskOK(disk) /\ MemOK(mem)
  BY DEF Counted
<1>2. PICK fat : fat = Formatted.fat
  OBVIOUS
<1>3. PICK d : d = [disk EXCEPT !.fat = fat, !.streams[1] = BlankStream, !.dirty = TRUE]
  OBVIOUS
<1>4. disk' = d /\ mem' = FreshMem(mem.corrupted)
  BY <1>2, <1>3 DEF LaunchSync
<1>5. DiskOK(d) /\ d.fat = fat
  BY <1>1, <1>2, <1>3, FormattedIs DEF DiskOK
<1>6. PICK b \in BOOLEAN : b = mem.corrupted
  BY <1>1 DEF MemOK
<1>7. Counted(d, FreshMem(b))
  BY <1>2, <1>5, FreshCounted
<1> QED BY <1>4, <1>6, <1>7

-----------------------------------------------------------------------------
(* The theorems *)

\* Every step keeps the count.
LEMMA StepCounted == ASSUME Counts, Counted(disk, mem), [Next]_vars PROVE Counted(disk, mem)'
<1>1. ASSUME NEW p \in Paths, Open(p) PROVE Counted(disk, mem)'
  BY <1>1 DEF Open
<1>2. ASSUME Stop PROVE Counted(disk, mem)'
  <2>1. mem' = [mem EXCEPT !.run = "stopping"] /\ UNCHANGED <<disk, use>> /\ mem.run = "up" /\ MemOK(mem)
    BY <1>2 DEF Stop, Running, Counted
  <2>2. MemOK(mem') /\ mem'.free = mem.free /\ mem'.last = mem.last /\ (Live(mem') => Live(mem))
    BY <2>1 DEF MemOK, Live
  <2> QED BY <2>1, <2>2 DEF Counted
<1>3. ASSUME UNCHANGED vars PROVE Counted(disk, mem)'
  BY <1>3 DEF vars
<1>4. CASE \E p \in Paths : Open(p) \/ Remove(p) \/ Close(p)
  BY <1>1, <1>4, RemoveCounted, CloseCounted
<1>5. CASE \E p \in Paths : \E size \in Sizes \cup {0} : Create(p, size) \/ Overwrite(p, size)
  BY <1>5, CreateCounted, OverwriteCounted
<1>6. CASE \E p \in Paths : \E size \in Sizes : AppendTo(p, size)
  BY <1>6, AppendCounted
<1>7. CASE Stop \/ Save \/ (\E new \in BOOLEAN : Launch(new)) \/ LaunchSync
  BY <1>2, <1>7, SaveCounted, LaunchCounted, SyncCounted
<1>8. Next => \/ \E p \in Paths : Open(p) \/ Remove(p) \/ Close(p)
              \/ \E p \in Paths : \E size \in Sizes \cup {0} : Create(p, size) \/ Overwrite(p, size)
              \/ \E p \in Paths : \E size \in Sizes : AppendTo(p, size)
              \/ Stop \/ Save \/ (\E new \in BOOLEAN : Launch(new)) \/ LaunchSync
  BY DEF Next
<1> QED BY <1>3, <1>4, <1>5, <1>6, <1>7, <1>8

\* What a behaviour does is settled at its start.
LEMMA UseKept == [Next]_vars => use' = use
<1>1. ASSUME NEW p \in Paths, NEW size \in Sizes \cup {0} PROVE Create(p, size) \/ Overwrite(p, size) \/ AppendTo(p, size) => use' = use
  BY DEF Create, Overwrite, AppendTo
<1>2. ASSUME NEW p \in Paths PROVE Open(p) \/ Remove(p) \/ Close(p) => use' = use
  BY DEF Open, Remove, Close
<1>3. Stop \/ Save \/ (\E new \in BOOLEAN : Launch(new)) \/ LaunchSync => use' = use
  BY DEF Stop, Save, Launch, LaunchSync
<1> QED BY <1>1, <1>2, <1>3 DEF Next, vars

\* The padding that is taken makes up for what is not counted.
LEMMA PaddingTaken ==
    ASSUME NEW fat, NEW free \in Nat, free + Padding >= Cardinality(FreeClusters(fat))
    PROVE  free + Cardinality({c \in TotClusters + 1 .. FatLength : fat[c] # FREE})
               >= Cardinality(FreeClusters(fat) \cap 1 .. TotClusters)
<1>1. PICK low : low = FreeClusters(fat) \cap 1 .. TotClusters
  OBVIOUS
<1>2. PICK taken : taken = {c \in TotClusters + 1 .. FatLength : fat[c] # FREE}
  OBVIOUS
<1>3. PICK high : high = {c \in TotClusters + 1 .. FatLength : fat[c] = FREE}
  OBVIOUS
<1>4. FreeClusters(fat) = low \cup high /\ low \cap high = {}
  BY <1>1, <1>3, Sized, SizesAssumption DEF FreeClusters, Clusters
<1>5. taken \cup high = TotClusters + 1 .. FatLength /\ taken \cap high = {}
  BY <1>2, <1>3
<1>6. IsFiniteSet(TotClusters + 1 .. FatLength) /\ Cardinality(TotClusters + 1 .. FatLength) = Padding
  <2>1. PICK a \in Nat, b \in Nat : a = TotClusters + 1 /\ b = FatLength
    BY Sized
  <2>2. IsFiniteSet(a .. b) /\ Cardinality(a .. b) = IF a > b THEN 0 ELSE b - a + 1
    BY FS_Interval
  <2>3. ~(a > b) /\ (b - a) + 1 = Padding
    BY <2>1, Sized, SizesAssumption
  <2> QED BY <2>1, <2>2, <2>3
<1>7. IsFiniteSet(low) /\ IsFiniteSet(high) /\ IsFiniteSet(taken)
  <2>1. low \subseteq FreeClusters(fat) /\ IsFiniteSet(FreeClusters(fat))
    BY <1>1, FreeTyped
  <2>2. high \subseteq TotClusters + 1 .. FatLength /\ taken \subseteq TotClusters + 1 .. FatLength
    BY <1>2, <1>3
  <2> QED BY <1>6, <2>1, <2>2, FS_Subset
<1>8. PICK l \in Nat, h \in Nat, t \in Nat : l = Cardinality(low) /\ h = Cardinality(high) /\ t = Cardinality(taken)
  BY <1>7, FS_CardinalityType
<1>9. Cardinality(low \cup high) = l + h
  <2>1. Cardinality(low \cup high) = Cardinality(low) + Cardinality(high) - Cardinality(low \cap high)
    BY <1>7, FS_Union
  <2>2. Cardinality({}) = 0
    BY FS_EmptySet
  <2>3. Cardinality(low \cap high) = 0
    BY <1>4, <2>2
  <2> QED BY <1>8, <2>1, <2>3
<1>10. Cardinality(taken \cup high) = t + h
  <2>1. Cardinality(taken \cup high) = Cardinality(taken) + Cardinality(high) - Cardinality(taken \cap high)
    BY <1>7, FS_Union
  <2>2. Cardinality({}) = 0
    BY FS_EmptySet
  <2>3. Cardinality(taken \cap high) = 0
    BY <1>5, <2>2
  <2> QED BY <1>8, <2>1, <2>3
<1>11. t + h = Padding /\ free + Padding >= l + h
  BY <1>4, <1>5, <1>6, <1>9, <1>10
<1>12. free + t >= l
  BY <1>11
<1> QED BY <1>1, <1>2, <1>8, <1>12

\* CountInvariant: whatever is created, truncated, removed, failed or cut off, over any
\* number of launches and formats, a driver that runs, of a partition it does not know to
\* be corrupted, counts what it owes its FAT but for Padding: every free entry, and one
\* more while some are before the last cluster it has taken.  An allocation that goes round
\* the end of the FAT leaves one cluster free that it has counted (fatx.cpp:595-690); a
\* release counts one more than it frees (fatx.cpp:692-790); the last cluster is stored and
\* read again with the count (fatx.cpp:209-240, :1628-1653).  Excluded are files that grow
\* from the clusters they have.  A FAT is read at once, as everywhere in Fatx.
THEOREM CountInvariant == Spec => []CountInv
<1>1. Init => CountInv
  BY InitCounted DEF CountInv
<1>2. CountInv /\ [Next]_vars => CountInv'
  <2>1. SUFFICES ASSUME CountInv, [Next]_vars, Counts' PROVE Counted(disk, mem)'
    BY DEF CountInv
  <2>2. Counts
    BY <2>1, UseKept DEF Counts
  <2> QED BY <2>1, <2>2, StepCounted DEF CountInv
<1> QED BY <1>1, <1>2, PTL DEF Spec

\* CountHolds: create_dirent_for_file and append_clusters_to_file do not report a full disk
\* while there are clusters they do not count: all the free clusters of the partition are
\* counted, except as many as allocate_free_clusters has taken from the entries behind the
\* last cluster in their place (fatx.cpp:595-648, :1067, :1302).
THEOREM CountHolds == Spec => []NeverFalselyFull
<1>1. CountInv => NeverFalselyFull
  <2>1. SUFFICES ASSUME CountInv, Running, ~mem.corrupted, use \cap {"extend", "resize"} = {}
                 PROVE  mem.free + Cardinality({c \in TotClusters + 1 .. FatLength : disk.fat[c] # FREE})
                            >= Cardinality(FreeClusters(disk.fat) \cap 1 .. TotClusters)
    BY DEF NeverFalselyFull
  <2>2. Counted(disk, mem) /\ Live(mem)
    BY <2>1 DEF CountInv, Counts, Live, Running
  <2>3. PICK fat : fat = disk.fat
    OBVIOUS
  <2>4. PICK free \in Nat : free = mem.free
    BY <2>2 DEF Counted, MemOK
  <2>5. PICK x \in Nat, y \in Nat : x = Cardinality(FreeClusters(fat)) /\ y = Owed(fat, mem.last) /\ x <= y
    BY FreeTyped, OwedLess
  <2>6. free + Padding >= y
    BY <2>2, <2>3, <2>4, <2>5 DEF Counted
  <2>7. free + Padding >= Cardinality(FreeClusters(fat))
    BY <2>5, <2>6, SizesAssumption
  <2> QED BY <2>3, <2>4, <2>7, PaddingTaken
<1> QED BY <1>1, CountInvariant, PTL

=============================================================================
