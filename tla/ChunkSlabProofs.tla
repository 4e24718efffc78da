--------------------------- MODULE ChunkSlabProofs ---------------------------
(***************************************************************************)
(* ChunkSlab is proved correct for every chunk size of at least two, every *)
(* key type and every sequence of operations.  The heart of the argument   *)
(* is the free list: f[0], ..., f[n-1] are the empty entries in the order  *)
(* in which insert will reuse them, and f[n] is the end.                   *)
(***************************************************************************)
EXTENDS ChunkSlab, FiniteSetTheorems, TLAPS

FreeList(f, n) ==
  /\ f[0] = next
  /\ f[n] = Truncate(capacity)
  /\ \A i \in 0 .. n - 1 : /\ f[i] \in Keys /\ f[i] < capacity
                           /\ content[f[i]] = NoValue
                           /\ link[f[i]] = f[i + 1]
  /\ \A i, j \in 0 .. n - 1 : f[i] = f[j] => i = j
  /\ \A k \in Keys : k < capacity /\ content[k] = NoValue => \E i \in 0 .. n - 1 : f[i] = k

\* There is a free list, it holds every empty entry, and nothing lies beyond.
ListInv == \E n \in Nat, f \in [Nat -> Nat] : FreeList(f, n)
EdgeInv == /\ \A k \in Keys : content[k] # NoValue => k < capacity
           /\ scan # Idle => scan < capacity

\* The length follows every entry, those that a retain drops included.
LenCounts == len = Cardinality(Full)

IInv == TypeOK /\ EdgeInv /\ LenCounts /\ ListInv
----------------------------------------------------------------------------
(* Whole chunks of a slab fit below the key limit.                         *)
LEMMA Capacity ==
  ASSUME NEW c \in 0 .. MaxChunks
  PROVE  /\ c * ChunkSize \in Nat /\ KeyLimit \in Nat \ {0, 1}
         /\ c * ChunkSize <= KeyLimit
         /\ c < MaxChunks => /\ (c + 1) * ChunkSize = c * ChunkSize + ChunkSize
                             /\ c * ChunkSize + ChunkSize <= KeyLimit
         /\ c = MaxChunks => c * ChunkSize = KeyLimit
<1> USE SlabAssumption
<1>1. ASSUME NEW a \in Nat, NEW b \in Nat PROVE a * b \in Nat
  OBVIOUS
<1>2. ASSUME NEW a \in Nat, NEW b \in Nat, NEW x \in Nat PROVE (a + b) * x = a * x + b * x
  OBVIOUS
<1>3. c \in Nat /\ MaxChunks - c \in Nat /\ c + (MaxChunks - c) = MaxChunks
  OBVIOUS
<1>4. KeyLimit = c * ChunkSize + (MaxChunks - c) * ChunkSize
  BY <1>2, <1>3 DEF KeyLimit
<1>5. c * ChunkSize \in Nat /\ (MaxChunks - c) * ChunkSize \in Nat
  BY <1>1, <1>3
<1>6. c < MaxChunks => (MaxChunks - c) * ChunkSize >= ChunkSize
  <2>1. SUFFICES ASSUME c < MaxChunks PROVE (MaxChunks - c) * ChunkSize >= ChunkSize
    OBVIOUS
  <2>2. MaxChunks - c - 1 \in Nat /\ (MaxChunks - c - 1) + 1 = MaxChunks - c
    BY <2>1
  <2>3. (MaxChunks - c) * ChunkSize = (MaxChunks - c - 1) * ChunkSize + 1 * ChunkSize
    BY <1>2, <2>2
  <2>4. (MaxChunks - c - 1) * ChunkSize \in Nat
    BY <1>1, <2>2
  <2> QED
    BY <2>3, <2>4
<1>7. (c + 1) * ChunkSize = c * ChunkSize + ChunkSize
  BY <1>2, <1>3
<1>8. KeyLimit >= ChunkSize
  <2>1. MaxChunks - 1 \in Nat /\ (MaxChunks - 1) + 1 = MaxChunks
    OBVIOUS
  <2>2. KeyLimit = (MaxChunks - 1) * ChunkSize + 1 * ChunkSize
    BY <1>2, <2>1 DEF KeyLimit
  <2>3. (MaxChunks - 1) * ChunkSize \in Nat
    BY <1>1, <2>1
  <2> QED
    BY <2>2, <2>3
<1> QED
  BY <1>4, <1>5, <1>6, <1>7, <1>8 DEF KeyLimit

(* Truncation changes no key and wraps the limit to zero.                  *)
LEMMA Truncation ==
  /\ \A i \in Keys : Truncate(i) = i
  /\ Truncate(KeyLimit) = 0
  /\ \A i \in 0 .. KeyLimit : Truncate(i) \in Keys
<1>1. KeyLimit \in Nat \ {0, 1}
  BY Capacity, SlabAssumption
<1>2. \A m \in Nat \ {0} : m % m = 0 /\ \A i \in 0 .. m - 1 : i % m = i
  OBVIOUS
<1> QED
  BY <1>1, <1>2 DEF Truncate, Keys
----------------------------------------------------------------------------
(* Filling an entry counts one more, emptying it one less.                 *)
LEMMA Fill ==
  ASSUME TypeOK, LenCounts, NEW k \in Keys, content[k] = NoValue, NEW v \in Values,
         content' = [content EXCEPT ![k] = v], len' = len + 1
  PROVE  LenCounts' /\ len' \in 0 .. KeyLimit
<1>1. IsFiniteSet(Keys) /\ Cardinality(Keys) = KeyLimit /\ KeyLimit \in Nat
  <2>1. KeyLimit \in Nat \ {0, 1}
    BY Capacity, SlabAssumption
  <2> QED
    BY <2>1, FS_Interval DEF Keys
<1>2. Full \subseteq Keys /\ Full' \subseteq Keys
  BY DEF Full
<1>3. IsFiniteSet(Full) /\ IsFiniteSet(Full')
  BY <1>1, <1>2, FS_Subset
<1>4. Full' = Full \cup {k} /\ k \notin Full
  BY SlabAssumption DEF Full, TypeOK
<1>5. Cardinality(Full') = Cardinality(Full) + 1
  BY <1>3, <1>4, FS_AddElement
<1>6. Cardinality(Full') \in Nat /\ Cardinality(Full') <= KeyLimit
  BY <1>1, <1>2, <1>3, FS_Subset, FS_CardinalityType
<1> QED
  BY <1>1, <1>5, <1>6 DEF LenCounts

(* The same for an entry that becomes empty.                               *)
LEMMA Empty ==
  ASSUME TypeOK, LenCounts, NEW k \in Keys, content[k] # NoValue,
         content' = [content EXCEPT ![k] = NoValue], len' = len - 1
  PROVE  LenCounts' /\ len' \in 0 .. KeyLimit
<1>1. IsFiniteSet(Keys) /\ Cardinality(Keys) = KeyLimit /\ KeyLimit \in Nat
  <2>1. KeyLimit \in Nat \ {0, 1}
    BY Capacity, SlabAssumption
  <2> QED
    BY <2>1, FS_Interval DEF Keys
<1>2. Full \subseteq Keys /\ Full' \subseteq Keys
  BY DEF Full
<1>3. IsFiniteSet(Full) /\ IsFiniteSet(Full')
  BY <1>1, <1>2, FS_Subset
<1>4. Full' = Full \ {k} /\ k \in Full
  BY DEF Full, TypeOK
<1>5. Cardinality(Full') = Cardinality(Full) - 1
  BY <1>3, <1>4, FS_RemoveElement
<1>6. Cardinality(Full') \in Nat /\ Cardinality(Full') <= KeyLimit
  BY <1>1, <1>2, <1>3, FS_Subset, FS_CardinalityType
<1> QED
  BY <1>1, <1>5, <1>6 DEF LenCounts

(* A list that is not empty does not start at the end, and an empty one    *)
(* means that no entry is free.                                            *)
LEMMA Ends ==
  ASSUME TypeOK, EdgeInv, LenCounts, NEW n \in Nat, NEW f \in [Nat -> Nat], FreeList(f, n)
  PROVE  /\ n > 0 => next # capacity /\ next < capacity /\ content[next] = NoValue
         /\ n = 0 => /\ next = Truncate(capacity)
                     /\ \A k \in Keys : k < capacity => content[k] # NoValue
         /\ n = 0 /\ chunks = MaxChunks => len = KeyLimit
         /\ n = 0 /\ chunks < MaxChunks => next = capacity
         /\ next = capacity => n = 0 /\ chunks < MaxChunks
<1>1. capacity \in Nat /\ KeyLimit \in Nat \ {0, 1} /\ capacity <= KeyLimit
  BY Capacity DEF TypeOK, capacity
<1>2. ASSUME n > 0 PROVE next # capacity /\ next < capacity /\ content[next] = NoValue
  <2>1. 0 \in 0 .. n - 1
    BY <1>2
  <2>2. f[0] = next /\ f[0] \in Keys /\ f[0] < capacity /\ content[f[0]] = NoValue
    BY <2>1 DEF FreeList
  <2> QED
    BY <1>1, <2>2 DEF Keys
<1>3. ASSUME n = 0 PROVE /\ next = Truncate(capacity)
                         /\ \A k \in Keys : k < capacity => content[k] # NoValue
  <2>1. 0 .. n - 1 = {}
    BY <1>3
  <2> QED
    BY <1>3, <2>1 DEF FreeList
<1>4. ASSUME n = 0, chunks = MaxChunks PROVE len = KeyLimit
  <2>1. capacity = KeyLimit
    BY <1>4, Capacity DEF TypeOK, capacity
  <2>2. Full = Keys
    BY <1>1, <1>3, <1>4, <2>1 DEF Full, Keys
  <2>3. Cardinality(Keys) = KeyLimit
    BY <1>1, FS_Interval DEF Keys
  <2> QED
    BY <2>2, <2>3 DEF LenCounts
<1>5. ASSUME n = 0, chunks < MaxChunks PROVE next = capacity
  <2>1. chunks * ChunkSize + ChunkSize <= KeyLimit
    BY <1>5, Capacity DEF TypeOK
  <2>2. capacity \in Keys
    BY <1>1, <2>1, SlabAssumption DEF capacity, Keys
  <2> QED
    BY <1>3, <1>5, <2>2, Truncation
<1>6. ASSUME next = capacity PROVE n = 0 /\ chunks < MaxChunks
  <2>1. n = 0
    BY <1>2, <1>6
  <2>2. chunks = MaxChunks => capacity = KeyLimit
    BY Capacity DEF TypeOK, capacity
  <2>3. next # KeyLimit
    BY <1>1 DEF TypeOK, Keys
  <2> QED
    BY <1>6, <2>1, <2>2, <2>3, SlabAssumption DEF TypeOK
<1> QED
  BY <1>2, <1>3, <1>4, <1>5, <1>6

(* Taking the first entry of the list leaves the rest of it.               *)
LEMMA Reused ==
  ASSUME IInv, NEW v \in Values, InsertReuse(v)
  PROVE  IInv'
<1> USE DEF IInv
<1>1. PICK n \in Nat, f \in [Nat -> Nat] : FreeList(f, n)
  BY DEF ListInv
<1>2. n > 0
  <2>1. chunks < MaxChunks \/ chunks = MaxChunks
    BY SlabAssumption DEF TypeOK
  <2>2. next # capacity /\ len # KeyLimit
    BY Capacity, SlabAssumption DEF InsertReuse, MayInsert, TypeOK
  <2> QED
    BY <1>1, <2>1, <2>2, Ends
<1>3. next \in Keys /\ next < capacity /\ content[next] = NoValue
  BY <1>1, <1>2, Ends DEF TypeOK
<1>4. LenCounts' /\ len' \in 0 .. KeyLimit
  BY <1>3, Fill DEF InsertReuse
<1>5. TypeOK'
  <2>1. 0 \in Keys
    BY Capacity, SlabAssumption DEF Keys
  <2>2. content' \in [Keys -> Values \cup {NoValue}] /\ link' \in [Keys -> Keys] /\ next' \in Keys
    BY <1>3, <2>1 DEF InsertReuse, TypeOK
  <2> QED
    BY <1>4, <2>2 DEF InsertReuse, TypeOK
<1>6. EdgeInv'
  BY <1>3 DEF InsertReuse, EdgeInv, TypeOK, capacity
<1>7. ListInv'
  <2> DEFINE g == [i \in Nat |-> f[i + 1]]
  <2>1. g \in [Nat -> Nat] /\ n - 1 \in Nat /\ \A i \in Nat : g[i] = f[i + 1]
    BY <1>2
  <2>2. \A i \in 0 .. (n - 1) - 1 : i + 1 \in 0 .. n - 1 /\ i \in Nat
    BY <1>2
  <2>3. f[0] = next /\ 0 \in 0 .. n - 1 /\ link[f[0]] = f[0 + 1]
    BY <1>1, <1>2 DEF FreeList
  <2>4. g[0] = next'
    BY <2>1, <2>3 DEF InsertReuse
  <2>5. g[n - 1] = Truncate(capacity)'
    <3>1. g[n - 1] = f[n]
      BY <2>1
    <3> QED
      BY <1>1, <3>1 DEF FreeList, InsertReuse, capacity, Truncate
  <2>6. \A i \in 0 .. n - 1 : i # 0 => f[i] # next
    BY <1>1, <2>3 DEF FreeList
  <2>7. \A i \in 0 .. (n - 1) - 1 : /\ g[i] \in Keys /\ g[i] < capacity'
                                   /\ content'[g[i]] = NoValue
                                   /\ link'[g[i]] = g[i + 1]
    <3> SUFFICES ASSUME NEW i \in 0 .. (n - 1) - 1
                 PROVE  /\ g[i] \in Keys /\ g[i] < capacity'
                        /\ content'[g[i]] = NoValue
                        /\ link'[g[i]] = g[i + 1]
      OBVIOUS
    <3>1. i + 1 \in 0 .. n - 1 /\ i + 1 # 0 /\ i + 1 \in Nat /\ i \in Nat
      BY <2>2
    <3>2. g[i] = f[i + 1] /\ g[i + 1] = f[(i + 1) + 1]
      BY <2>1, <3>1
    <3>3. /\ f[i + 1] \in Keys /\ f[i + 1] < capacity /\ f[i + 1] # next
          /\ content[f[i + 1]] = NoValue /\ link[f[i + 1]] = f[(i + 1) + 1]
      BY <1>1, <2>6, <3>1 DEF FreeList
    <3> HIDE DEF g
    <3> QED
      BY <3>2, <3>3 DEF InsertReuse, TypeOK, capacity
  <2>8. \A i, j \in 0 .. (n - 1) - 1 : g[i] = g[j] => i = j
    <3> SUFFICES ASSUME NEW i \in 0 .. (n - 1) - 1, NEW j \in 0 .. (n - 1) - 1, g[i] = g[j]
                 PROVE  i = j
      OBVIOUS
    <3>1. i + 1 \in 0 .. n - 1 /\ j + 1 \in 0 .. n - 1 /\ f[i + 1] = f[j + 1]
      BY <2>1, <2>2
    <3>2. i + 1 = j + 1
      BY <1>1, <3>1 DEF FreeList
    <3> QED
      BY <3>2
  <2>9. \A k \in Keys : k < capacity' /\ content'[k] = NoValue
                          => \E i \in 0 .. (n - 1) - 1 : g[i] = k
    <3> SUFFICES ASSUME NEW k \in Keys, k < capacity', content'[k] = NoValue
                 PROVE  \E i \in 0 .. (n - 1) - 1 : g[i] = k
      OBVIOUS
    <3>1. k < capacity /\ content[k] = NoValue /\ k # next
      BY SlabAssumption DEF InsertReuse, TypeOK, capacity
    <3>2. PICK j \in 0 .. n - 1 : f[j] = k
      BY <1>1, <3>1 DEF FreeList
    <3>3. j # 0
      BY <2>3, <3>1, <3>2
    <3>4. j - 1 \in 0 .. (n - 1) - 1 /\ g[j - 1] = f[j]
      BY <2>1, <3>2, <3>3
    <3> QED
      BY <3>2, <3>4
  <2> HIDE DEF g
  <2>10. FreeList(g, n - 1)'
    BY <2>4, <2>5, <2>7, <2>8, <2>9 DEF FreeList
  <2> QED
    BY <2>1, <2>10 DEF ListInv
<1> QED
  BY <1>4, <1>5, <1>6, <1>7

(* The emptied entry becomes the first of the list.                        *)
LEMMA Vacated ==
  ASSUME IInv, NEW k \in Keys, Vacate(k), UNCHANGED chunks,
         scan' \in Keys \cup {Idle}, scan' # Idle => scan' < capacity
  PROVE  IInv'
<1> USE DEF IInv
<1>1. PICK n \in Nat, f \in [Nat -> Nat] : FreeList(f, n)
  BY DEF ListInv
<1>2. k < capacity /\ content[k] # NoValue
  BY DEF Vacate, EdgeInv
<1>3. LenCounts' /\ len' \in 0 .. KeyLimit
  BY <1>2, Empty DEF Vacate
<1>4. TypeOK'
  BY <1>3 DEF Vacate, TypeOK
<1>5. EdgeInv'
  BY DEF Vacate, EdgeInv, TypeOK, capacity
<1>6. ListInv'
  <2> DEFINE g == [i \in Nat |-> IF i = 0 THEN k ELSE f[i - 1]]
  <2>1. g \in [Nat -> Nat] /\ n + 1 \in Nat
    BY Capacity, SlabAssumption DEF Keys
  <2>2. g[0] = k /\ \A i \in Nat : g[i + 1] = f[i]
    OBVIOUS
  <2>3. \A i \in 0 .. (n + 1) - 1 : i = 0 \/ (i - 1 \in 0 .. n - 1 /\ i - 1 \in Nat)
    OBVIOUS
  <2>4. \A i \in 0 .. n - 1 : f[i] # k
    BY <1>1, <1>2 DEF FreeList
  <2>5. g[n + 1] = Truncate(capacity)'
    BY <1>1, <2>2 DEF FreeList, capacity, Truncate
  <2>6. \A i \in 0 .. (n + 1) - 1 : /\ g[i] \in Keys /\ g[i] < capacity'
                                   /\ content'[g[i]] = NoValue
                                   /\ link'[g[i]] = g[i + 1]
    <3> SUFFICES ASSUME NEW i \in 0 .. (n + 1) - 1
                 PROVE  /\ g[i] \in Keys /\ g[i] < capacity'
                        /\ content'[g[i]] = NoValue
                        /\ link'[g[i]] = g[i + 1]
      OBVIOUS
    <3>1. CASE i = 0
      <4>1. g[i] = k /\ g[i + 1] = next
        BY <1>1, <2>2, <3>1 DEF FreeList
      <4> HIDE DEF g
      <4> QED
        BY <1>2, <4>1 DEF Vacate, TypeOK, capacity
    <3>2. CASE i - 1 \in 0 .. n - 1 /\ i - 1 \in Nat
      <4>1. g[i] = f[i - 1] /\ g[i + 1] = f[(i - 1) + 1]
        BY <3>2
      <4>2. /\ f[i - 1] \in Keys /\ f[i - 1] < capacity /\ f[i - 1] # k
            /\ content[f[i - 1]] = NoValue /\ link[f[i - 1]] = f[(i - 1) + 1]
        BY <1>1, <2>4, <3>2 DEF FreeList
      <4> HIDE DEF g
      <4> QED
        BY <4>1, <4>2 DEF Vacate, TypeOK, capacity
    <3> QED
      BY <2>3, <3>1, <3>2
  <2>7. \A i, j \in 0 .. (n + 1) - 1 : g[i] = g[j] => i = j
    <3> SUFFICES ASSUME NEW i \in 0 .. (n + 1) - 1, NEW j \in 0 .. (n + 1) - 1, g[i] = g[j]
                 PROVE  i = j
      OBVIOUS
    <3>1. CASE i = 0 /\ j = 0
      BY <3>1
    <3>2. CASE i = 0 /\ j # 0
      BY <2>4, <3>2
    <3>3. CASE i # 0 /\ j = 0
      BY <2>4, <3>3
    <3>4. CASE i # 0 /\ j # 0
      <4>1. i - 1 \in 0 .. n - 1 /\ j - 1 \in 0 .. n - 1 /\ f[i - 1] = f[j - 1]
        BY <3>4
      <4>2. i - 1 = j - 1
        BY <1>1, <4>1 DEF FreeList
      <4> QED
        BY <4>2
    <3> QED
      BY <3>1, <3>2, <3>3, <3>4
  <2>8. \A m \in Keys : m < capacity' /\ content'[m] = NoValue
                          => \E i \in 0 .. (n + 1) - 1 : g[i] = m
    <3> SUFFICES ASSUME NEW m \in Keys, m < capacity', content'[m] = NoValue
                 PROVE  \E i \in 0 .. (n + 1) - 1 : g[i] = m
      OBVIOUS
    <3>1. CASE m = k
      BY <2>2, <3>1
    <3>2. CASE m # k
      <4>1. m < capacity /\ content[m] = NoValue
        BY <3>2 DEF Vacate, TypeOK, capacity
      <4>2. PICK j \in 0 .. n - 1 : f[j] = m
        BY <1>1, <4>1 DEF FreeList
      <4>3. j + 1 \in 0 .. (n + 1) - 1 /\ g[j + 1] = m
        BY <2>2, <4>2
      <4> QED
        BY <4>3
    <3> QED
      BY <3>1, <3>2
  <2>9. g[0] = next'
    BY <2>2 DEF Vacate
  <2> HIDE DEF g
  <2>10. FreeList(g, n + 1)'
    BY <2>5, <2>6, <2>7, <2>8, <2>9 DEF FreeList
  <2> QED
    BY <2>1, <2>10 DEF ListInv
<1> QED
  BY <1>3, <1>4, <1>5, <1>6

(* A new chunk makes a list of its entries but the first, in their order.  *)
LEMMA Grown ==
  ASSUME IInv, NEW v \in Values, InsertGrow(v)
  PROVE  IInv'
<1> USE DEF IInv
<1>1. PICK n \in Nat, f \in [Nat -> Nat] : FreeList(f, n)
  BY DEF ListInv
<1>2. next = capacity /\ n = 0 /\ chunks < MaxChunks
  BY <1>1, Ends DEF InsertGrow
<1>3. \A k \in Keys : k < next => content[k] # NoValue
  BY <1>1, <1>2, Ends
<1>4. /\ capacity' = next + ChunkSize /\ next + ChunkSize <= KeyLimit
      /\ next \in Nat /\ KeyLimit \in Nat /\ ChunkSize \in Nat /\ ChunkSize >= 2
  BY <1>2, Capacity, SlabAssumption DEF capacity, TypeOK, InsertGrow
<1>5. \A k \in Keys : k >= next => content[k] = NoValue
  <2>1. \A k \in Keys : content[k] # NoValue => k < next
    BY <1>2 DEF EdgeInv
  <2> QED
    BY <1>4, <2>1 DEF Keys
<1>6. next \in Keys /\ content[next] = NoValue
  BY <1>4, <1>5 DEF TypeOK
<1>7. LenCounts' /\ len' \in 0 .. KeyLimit
  BY <1>6, Fill DEF InsertGrow
<1>8. TypeOK'
  <2>1. chunks' \in 0 .. MaxChunks
    BY <1>2, SlabAssumption DEF InsertGrow, TypeOK
  <2>2. content' \in [Keys -> Values \cup {NoValue}] /\ scan' \in Keys \cup {Idle}
    BY DEF InsertGrow, TypeOK
  <2>3. next' \in Keys
    BY <1>4 DEF InsertGrow, Keys
  <2>4. \A k \in Keys : k + 1 \in 0 .. KeyLimit
    BY <1>4 DEF Keys
  <2>5. link' \in [Keys -> Keys]
    BY <2>4, Truncation DEF InsertGrow, TypeOK
  <2> QED
    BY <1>7, <2>1, <2>2, <2>3, <2>5 DEF TypeOK
<1>9. EdgeInv'
  <2>1. \A k \in Keys : content'[k] # NoValue => k < capacity'
    BY <1>4, <1>5 DEF InsertGrow, TypeOK, Keys
  <2> QED
    BY <2>1 DEF EdgeInv, InsertGrow, MayInsert
<1>10. ListInv'
  <2> DEFINE m == ChunkSize - 1
  <2>1. m \in Nat /\ m > 0
    BY <1>4
  <2>2. Truncate(next + ChunkSize) \in Keys
    BY <1>4, Truncation
  <2>3. PICK g \in [Nat -> Nat] :
          g = [i \in Nat |-> IF i < m THEN next + 1 + i ELSE Truncate(next + ChunkSize)]
    <3> DEFINE h == [i \in Nat |-> IF i < m THEN next + 1 + i ELSE Truncate(next + ChunkSize)]
    <3>1. \A i \in Nat : next + 1 + i \in Nat
      BY <1>4
    <3>2. Truncate(next + ChunkSize) \in Nat
      BY <1>4, <2>2 DEF Keys
    <3>3. h \in [Nat -> Nat]
      BY <3>1, <3>2
    <3> QED
      BY <3>3
  <2>4. g[0] = next'
    BY <1>4, <2>1, <2>3 DEF InsertGrow
  <2>5. g[m] = Truncate(capacity)'
    BY <1>4, <2>1, <2>3 DEF Truncate
  <2>6. \A i \in 0 .. m - 1 : /\ g[i] = next + 1 + i
                              /\ next + 1 + i \in Keys
                              /\ next + 1 + i > next /\ next + 1 + i < next + ChunkSize
    BY <1>4, <2>1, <2>3 DEF Keys
  <2>7. \A i \in 0 .. m - 1 : g[i + 1] = Truncate((next + 1 + i) + 1)
    <3> SUFFICES ASSUME NEW i \in 0 .. m - 1
                 PROVE  g[i + 1] = Truncate((next + 1 + i) + 1)
      OBVIOUS
    <3>1. CASE i + 1 < m
      <4>1. g[i + 1] = (next + 1 + i) + 1
        BY <1>4, <2>1, <2>3, <3>1
      <4>2. (next + 1 + i) + 1 \in Keys
        BY <1>4, <2>1, <3>1 DEF Keys
      <4> QED
        BY <4>1, <4>2, Truncation
    <3>2. CASE i + 1 = m
      <4>1. g[i + 1] = Truncate(next + ChunkSize)
        BY <1>4, <2>1, <2>3, <3>2
      <4>2. (next + 1 + i) + 1 = next + ChunkSize
        BY <1>4, <2>1, <3>2
      <4> QED
        BY <4>1, <4>2
    <3> QED
      BY <2>1, <3>1, <3>2
  <2> HIDE DEF m
  <2>8. \A i \in 0 .. m - 1 : /\ g[i] \in Keys /\ g[i] < capacity'
                              /\ content'[g[i]] = NoValue
                              /\ link'[g[i]] = g[i + 1]
    <3> SUFFICES ASSUME NEW i \in 0 .. m - 1
                 PROVE  /\ g[i] \in Keys /\ g[i] < capacity'
                        /\ content'[g[i]] = NoValue
                        /\ link'[g[i]] = g[i + 1]
      OBVIOUS
    <3>1. g[i] \in Keys /\ g[i] > next /\ g[i] < next + ChunkSize /\ g[i] # next
      BY <1>4, <2>6
    <3>2. content'[g[i]] = content[g[i]]
      BY <3>1 DEF InsertGrow, TypeOK
    <3>3. content[g[i]] = NoValue
      BY <1>4, <1>5, <3>1 DEF Keys
    <3>4. link'[g[i]] = Truncate(g[i] + 1)
      BY <3>1 DEF InsertGrow
    <3> QED
      BY <1>4, <2>6, <2>7, <3>1, <3>2, <3>3, <3>4
  <2>9. \A i, j \in 0 .. m - 1 : g[i] = g[j] => i = j
    BY <1>4, <2>1, <2>6
  <2>10. \A k \in Keys : k < capacity' /\ content'[k] = NoValue
                          => \E i \in 0 .. m - 1 : g[i] = k
    <3> SUFFICES ASSUME NEW k \in Keys, k < capacity', content'[k] = NoValue
                 PROVE  \E i \in 0 .. m - 1 : g[i] = k
      OBVIOUS
    <3>1. k # next
      BY SlabAssumption DEF InsertGrow, TypeOK
    <3>2. content[k] = NoValue
      BY <3>1 DEF InsertGrow, TypeOK
    <3>3. k > next /\ k < next + ChunkSize
      BY <1>3, <1>4, <3>1, <3>2 DEF Keys
    <3>4. k - (next + 1) \in 0 .. m - 1
      BY <1>4, <3>3 DEF Keys, m
    <3>5. g[k - (next + 1)] = k
      BY <1>4, <2>6, <3>4 DEF Keys
    <3> QED
      BY <3>4, <3>5
  <2>11. FreeList(g, m)'
    BY <2>4, <2>5, <2>8, <2>9, <2>10 DEF FreeList
  <2> QED
    BY <2>1, <2>3, <2>11 DEF ListInv
<1> QED
  BY <1>7, <1>8, <1>9, <1>10

(* The slab without chunks, of new and of clear, has an empty list.        *)
LEMMA Emptied == Init => IInv
<1> SUFFICES ASSUME Init PROVE IInv
  OBVIOUS
<1> USE DEF Init
<1>1. KeyLimit \in Nat \ {0, 1} /\ 0 \in Keys /\ capacity = 0
  BY Capacity, SlabAssumption DEF Keys, capacity
<1>2. TypeOK
  BY <1>1, SlabAssumption DEF TypeOK
<1>3. EdgeInv
  BY DEF EdgeInv
<1>4. LenCounts
  <2>1. Full = {}
    BY DEF Full
  <2> QED
    BY <2>1, FS_EmptySet DEF LenCounts
<1>5. ListInv
  <2> DEFINE f == [i \in Nat |-> 0]
  <2>1. f \in [Nat -> Nat] /\ f[0] = 0
    OBVIOUS
  <2>2. Truncate(capacity) = 0
    BY <1>1, Truncation
  <2>3. \A k \in Keys : ~(k < capacity)
    BY <1>1 DEF Keys
  <2> HIDE DEF f
  <2>4. FreeList(f, 0)
    <3>1. 0 .. 0 - 1 = {}
      OBVIOUS
    <3> QED
      BY <2>1, <2>2, <2>3, <3>1 DEF FreeList
  <2> QED
    BY <2>1, <2>4 DEF ListInv
<1> QED
  BY <1>2, <1>3, <1>4, <1>5 DEF IInv

(* Moving the cursor of retain changes no entry.                           *)
LEMMA Scanned ==
  ASSUME IInv, UNCHANGED <<chunks, content, link, len, next>>,
         scan' \in Keys \cup {Idle}, scan' # Idle => scan' < capacity
  PROVE  IInv'
<1>1. TypeOK' /\ EdgeInv' /\ LenCounts'
  BY DEF IInv, TypeOK, EdgeInv, LenCounts, Full, capacity
<1>2. ListInv'
  <2>1. PICK n \in Nat, f \in [Nat -> Nat] : FreeList(f, n)
    BY DEF IInv, ListInv
  <2>2. FreeList(f, n)'
    BY <2>1 DEF FreeList, capacity, Truncate
  <2> QED
    BY <2>2 DEF ListInv
<1> QED
  BY <1>1, <1>2 DEF IInv

(* The cursor stays inside the chunks.                                     *)
LEMMA Cursor ==
  ASSUME IInv, scan # Idle, Advance
  PROVE  scan' \in Keys \cup {Idle} /\ (scan' # Idle => scan' < capacity)
<1>1. capacity \in Nat /\ KeyLimit \in Nat /\ capacity <= KeyLimit
  BY Capacity DEF IInv, TypeOK, capacity
<1>2. scan \in Keys
  BY DEF IInv, TypeOK
<1> QED
  BY <1>1, <1>2 DEF Advance, Keys

(* The invariant is inductive: one step per operation of the slab.         *)
LEMMA Inductive == Spec => []IInv
<1>1. Init => IInv
  BY Emptied
<1>2. IInv /\ [Next]_vars => IInv'
  <2> SUFFICES ASSUME IInv, [Next]_vars PROVE IInv'
    OBVIOUS
  <2>1. ASSUME NEW v \in Values, InsertGrow(v) PROVE IInv'
    BY <2>1, Grown
  <2>2. ASSUME NEW v \in Values, InsertReuse(v) PROVE IInv'
    BY <2>2, Reused
  <2>3. ASSUME NEW k \in Keys, Remove(k) PROVE IInv'
    BY <2>3, Vacated DEF Remove
  <2>4. CASE Clear
    <3>1. Init'
      BY <2>4 DEF Clear, Init
    <3> QED
      BY <3>1, Emptied, PTL
  <2>5. CASE RetainBegin
    <3>1. 0 \in Keys /\ 0 < capacity
      <4>1. chunks \in 0 .. MaxChunks /\ chunks - 1 \in 0 .. MaxChunks /\ chunks - 1 < MaxChunks
            /\ (chunks - 1) + 1 = chunks
        BY <2>5, SlabAssumption DEF RetainBegin, IInv, TypeOK
      <4>2. (chunks - 1) * ChunkSize \in Nat /\ capacity = (chunks - 1) * ChunkSize + ChunkSize
        BY <4>1, Capacity DEF capacity
      <4> QED
        BY <4>2, Capacity, SlabAssumption DEF Keys
    <3> QED
      BY <2>5, <3>1, Scanned DEF RetainBegin
  <2>6. CASE RetainKeep
    BY <2>6, Scanned, Cursor DEF RetainKeep
  <2>7. CASE RetainDrop
    <3>1. scan \in Keys
      BY <2>7 DEF RetainDrop, IInv, TypeOK
    <3> QED
      BY <2>7, <3>1, Vacated, Cursor DEF RetainDrop
  <2>8. CASE RetainPanics
    BY <2>8, Scanned DEF RetainPanics
  <2>9. CASE UNCHANGED vars
    <3>1. scan' \in Keys \cup {Idle} /\ (scan' # Idle => scan' < capacity)
      BY <2>9 DEF vars, IInv, TypeOK, EdgeInv
    <3> QED
      BY <2>9, <3>1, Scanned DEF vars
  <2> QED
    BY <2>1, <2>2, <2>3, <2>4, <2>5, <2>6, <2>7, <2>8, <2>9 DEF Next
<1> QED
  BY <1>1, <1>2, PTL DEF Spec
----------------------------------------------------------------------------
(* The fields of a slab keep their types: keys never exceed the key type   *)
(* and the length never the number of keys.                                *)
THEOREM SlabTyping == Spec => []TypeOK
<1>1. IInv => TypeOK
  BY DEF IInv
<1> QED
  BY <1>1, Inductive, PTL

(* The `unreachable!()` of insert is unreachable.                          *)
THEOREM SlabNextIsFree == Spec => []NextIsFree
<1>1. IInv => NextIsFree
  <2> SUFFICES ASSUME IInv, len < KeyLimit, next # capacity
               PROVE  next < capacity /\ content[next] = NoValue
    BY DEF NextIsFree
  <2>1. PICK n \in Nat, f \in [Nat -> Nat] : FreeList(f, n)
    BY DEF IInv, ListInv
  <2>2. chunks < MaxChunks \/ chunks = MaxChunks
    BY SlabAssumption DEF IInv, TypeOK
  <2>3. len # KeyLimit
    BY Capacity, SlabAssumption DEF IInv, TypeOK
  <2>4. n > 0
    BY <2>1, <2>2, <2>3, Ends DEF IInv
  <2> QED
    BY <2>1, <2>4, Ends DEF IInv
<1> QED
  BY <1>1, Inductive, PTL

(* The slab grows, and reports an overflow, only when every entry is full. *)
THEOREM SlabNoEntryLost == Spec => []NoEntryLost
<1>1. IInv => NoEntryLost
  <2> SUFFICES ASSUME IInv PROVE NoEntryLost
    OBVIOUS
  <2>1. PICK n \in Nat, f \in [Nat -> Nat] : FreeList(f, n)
    BY DEF IInv, ListInv
  <2>2. next = capacity => \A k \in Keys : k < capacity => content[k] # NoValue
    BY <2>1, Ends DEF IInv
  <2>3. ASSUME len = KeyLimit PROVE Full = Keys
    <3>1. KeyLimit \in Nat \ {0, 1}
      BY Capacity, SlabAssumption
    <3>2. IsFiniteSet(Keys) /\ Cardinality(Keys) = KeyLimit
      BY <3>1, FS_Interval DEF Keys
    <3>3. Full \subseteq Keys /\ Cardinality(Full) = Cardinality(Keys)
      BY <2>3, <3>2 DEF Full, IInv, LenCounts
    <3> QED
      BY <3>2, <3>3, FS_Subset
  <2> QED
    BY <2>2, <2>3 DEF NoEntryLost, Full
<1> QED
  BY <1>1, Inductive, PTL

(* len() is the number of full entries when no operation is under way.     *)
THEOREM SlabLenExact == Spec => []LenExact
<1>1. IInv => LenExact
  BY DEF IInv, LenCounts, LenExact
<1> QED
  BY <1>1, Inductive, PTL

(* Every step of the slab is a step of a map or leaves the map unchanged.  *)
THEOREM SlabIsMap == Spec => IsMap
<1>1. Init => Map!Init
  BY DEF Init, Map!Init
<1>2. IInv /\ [Next]_vars => [Map!Next]_content
  <2> SUFFICES ASSUME IInv, [Next]_vars PROVE Map!Next \/ UNCHANGED content
    OBVIOUS
  <2>1. ASSUME NEW v \in Values, InsertGrow(v) \/ InsertReuse(v) PROVE Map!Next
    <3>1. PICK n \in Nat, f \in [Nat -> Nat] : FreeList(f, n)
      BY DEF IInv, ListInv
    <3>2. chunks < MaxChunks \/ chunks = MaxChunks
      BY SlabAssumption DEF IInv, TypeOK
    <3>3. len # KeyLimit
      BY <2>1, Capacity, SlabAssumption DEF InsertGrow, InsertReuse, MayInsert, IInv, TypeOK
    <3>4. CASE InsertReuse(v)
      <4>1. n > 0
        BY <3>1, <3>2, <3>3, <3>4, Ends DEF IInv, InsertReuse
      <4> QED
        BY <3>1, <3>4, <4>1, Ends DEF IInv, TypeOK, InsertReuse, Map!Next, Map!Insert
    <3>5. CASE InsertGrow(v)
      <4>1. next \in Keys /\ next = capacity /\ next \in Int
        BY <3>5, Capacity, SlabAssumption DEF IInv, TypeOK, InsertGrow, Keys
      <4>2. ~(next < next)
        BY <4>1
      <4>3. content[next] = NoValue
        BY <4>1, <4>2 DEF IInv, EdgeInv
      <4> QED
        BY <3>5, <4>1, <4>3 DEF InsertGrow, Map!Next, Map!Insert
    <3> QED
      BY <2>1, <3>4, <3>5
  <2>2. ASSUME NEW k \in Keys, Vacate(k) PROVE Map!Next
    BY <2>2 DEF Vacate, Map!Next, Map!Remove
  <2>3. ASSUME NEW k \in Keys, Remove(k) PROVE Map!Next
    BY <2>2, <2>3 DEF Remove
  <2>4. CASE Clear
    BY <2>4 DEF Clear, Map!Next, Map!Clear
  <2>5. CASE RetainDrop
    <3>1. scan \in Keys /\ Vacate(scan)
      BY <2>5 DEF RetainDrop, IInv, TypeOK
    <3> QED
      BY <2>2, <3>1
  <2>6. CASE RetainBegin \/ RetainKeep \/ RetainPanics \/ UNCHANGED vars
    BY <2>6 DEF RetainBegin, RetainKeep, RetainPanics, vars
  <2> QED
    BY <2>1, <2>3, <2>4, <2>5, <2>6 DEF Next
<1> QED
  BY <1>1, <1>2, Inductive, PTL DEF Spec, IsMap, Map!Spec
=============================================================================
