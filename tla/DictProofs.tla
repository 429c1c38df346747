------------------------------ MODULE DictProofs ------------------------------
(***************************************************************************)
(* Proofs about Dict for every set of keys, every hash function and every  *)
(* size: the dict is a set of keys in every stage of a rehash, and answers *)
(* as one.  They hold for SlotScan too, whose steps on the dict are steps  *)
(* of Dict; the second half proves that the walks of SlotScan are complete *)
(* for every word length, from what reversing the bits of a cursor does.   *)
(***************************************************************************)
EXTENDS SlotScan, FiniteSetTheorems, WellFoundedInduction, TLAPS

(* Induction over the naturals for a set.                                  *)
LEMMA NatSetInduction ==
    ASSUME NEW S, 0 \in S, \A n \in Nat : n \in S => n + 1 \in S
    PROVE  Nat \subseteq S
<1> SUFFICES ASSUME NEW n \in Nat, n \notin S PROVE FALSE
    OBVIOUS
<1>1. PICK x \in Nat \ S : \A y \in Nat \ S : ~(y < x)
  <2>1. Nat \ S \subseteq Nat /\ Nat \ S # {}
      OBVIOUS
  <2>2. PICK x \in Nat \ S : \A y \in Nat \ S : ~(<<y, x>> \in OpToRel(<, Nat))
      BY <2>1, NatLessThanWellFounded, WFMin
  <2> QED BY <2>2 DEF OpToRel
<1>2. x # 0 /\ x - 1 \in Nat /\ x - 1 < x /\ x = (x - 1) + 1
    OBVIOUS
<1> QED BY <1>1, <1>2

-----------------------------------------------------------------------------
(* The sizes of tables *)

(* f doubles n times.                                                      *)
Doubling(f, n) ==
    /\ f[0] = DICT_HT_INITIAL_SIZE
    /\ \A i \in 1 .. n : f[i] = 2 * f[i - 1]

LEMMA PowersForm ==
    ASSUME NEW n \in Nat
    PROVE  \E f : Doubling(f, n) /\ Powers(n) = {f[i] : i \in 0 .. n}
<1> DEFINE Rec(g, m) == g = [i \in 0 .. m |-> IF i = 0 THEN DICT_HT_INITIAL_SIZE
                                              ELSE 2 * g[i - 1]]
           S == {m \in Nat : \E g : Rec(g, m)}
<1>1. 0 \in S
  <2> DEFINE g == [i \in 0 .. 0 |-> DICT_HT_INITIAL_SIZE]
  <2>1. Rec(g, 0)
      OBVIOUS
  <2> QED BY <2>1
<1>2. ASSUME NEW m \in Nat, m \in S PROVE m + 1 \in S
  <2>1. PICK g : Rec(g, m)
      BY <1>2
  <2> DEFINE h == [i \in 0 .. m + 1 |-> IF i = m + 1 THEN IF i = 0 THEN DICT_HT_INITIAL_SIZE ELSE 2 * g[m]
                                        ELSE g[i]]
  <2>2. \A i \in 0 .. m : g[i] = IF i = 0 THEN DICT_HT_INITIAL_SIZE ELSE 2 * g[i - 1]
      BY <2>1
  <2>3. ASSUME NEW i \in 0 .. m + 1
        PROVE  h[i] = IF i = 0 THEN DICT_HT_INITIAL_SIZE ELSE 2 * h[i - 1]
    <3>1. CASE i = m + 1
      <4>1. i # 0 /\ i - 1 = m /\ i - 1 \in 0 .. m + 1 /\ i - 1 # m + 1
          BY <3>1
      <4> QED BY <3>1, <4>1
    <3>2. CASE i = 0
        BY <2>2, <3>2
    <3>3. CASE i # 0 /\ i # m + 1
      <4>1. i \in 0 .. m /\ i - 1 \in 0 .. m + 1 /\ i - 1 # m + 1
          BY <3>3
      <4> QED BY <2>2, <3>3, <4>1
    <3> QED BY <3>1, <3>2, <3>3
  <2>4. h = [i \in 0 .. m + 1 |-> h[i]]
      OBVIOUS
  <2> HIDE DEF h
  <2>5. Rec(h, m + 1)
      BY <2>3, <2>4
  <2> QED BY <2>5
<1>3. n \in S
  <2> HIDE DEF S
  <2> QED BY <1>1, <1>2, NatSetInduction
<1> DEFINE c == CHOOSE g : Rec(g, n)
<1>4. Rec(c, n)
    BY <1>3
<1>5. Powers(n) = {c[i] : i \in 0 .. n}
    BY DEF Powers
<1> HIDE DEF c
<1>6. Doubling(c, n)
    BY <1>4 DEF Doubling
<1> QED BY <1>5, <1>6

(* Doubling from a positive number grows by one at least.                  *)
LEMMA DoublingGrows ==
    ASSUME NEW n \in Nat, NEW f, Doubling(f, n)
    PROVE  \A i \in 0 .. n : f[i] \in Nat /\ f[i] >= DICT_HT_INITIAL_SIZE + i
<1> DEFINE S == {i \in Nat : i <= n => f[i] \in Nat /\ f[i] >= DICT_HT_INITIAL_SIZE + i}
<1>0. DICT_HT_INITIAL_SIZE \in Nat /\ DICT_HT_INITIAL_SIZE >= 1
    BY DictAssumption
<1>1. 0 \in S
    BY <1>0 DEF Doubling
<1>2. ASSUME NEW i \in Nat, i \in S PROVE i + 1 \in S
  <2> SUFFICES ASSUME i + 1 <= n
               PROVE  f[i + 1] \in Nat /\ f[i + 1] >= DICT_HT_INITIAL_SIZE + (i + 1)
      OBVIOUS
  <2>1. i + 1 \in 1 .. n /\ (i + 1) - 1 = i /\ i <= n
      OBVIOUS
  <2>2. f[i + 1] = 2 * f[i]
      BY <2>1 DEF Doubling
  <2>3. f[i] \in Nat /\ f[i] >= DICT_HT_INITIAL_SIZE + i
      BY <1>2, <2>1
  <2> HIDE DEF S
  <2> QED BY <1>0, <2>2, <2>3
<1>3. Nat \subseteq S
  <2> HIDE DEF S
  <2> QED BY <1>1, <1>2, NatSetInduction
<1> QED BY <1>3

(* More doublings give more sizes.                                         *)
LEMMA PowersGrow ==
    ASSUME NEW m \in Nat, NEW n \in Nat, m <= n
    PROVE  Powers(m) \subseteq Powers(n)
<1>1. PICK f : Doubling(f, m) /\ Powers(m) = {f[i] : i \in 0 .. m}
    BY PowersForm
<1>2. PICK g : Doubling(g, n) /\ Powers(n) = {g[i] : i \in 0 .. n}
    BY PowersForm
<1> DEFINE S == {i \in Nat : i <= m => f[i] = g[i]}
<1>3. 0 \in S
    BY <1>1, <1>2 DEF Doubling
<1>4. ASSUME NEW i \in Nat, i \in S PROVE i + 1 \in S
  <2> SUFFICES ASSUME i + 1 <= m PROVE f[i + 1] = g[i + 1]
      OBVIOUS
  <2>1. i + 1 \in 1 .. m /\ i + 1 \in 1 .. n /\ (i + 1) - 1 = i /\ i <= m
      OBVIOUS
  <2>2. f[i] = g[i]
      BY <1>4, <2>1
  <2> QED BY <1>1, <1>2, <2>1, <2>2 DEF Doubling
<1>5. Nat \subseteq S
  <2> HIDE DEF S
  <2> QED BY <1>3, <1>4, NatSetInduction
<1>6. \A i \in 0 .. m : i \in 0 .. n /\ f[i] = g[i]
    BY <1>5
<1> QED BY <1>1, <1>2, <1>6

(* _dictNextPower finds a size that is big enough, and the smallest one.   *)
LEMMA NextPowerFacts ==
    ASSUME NEW n \in Nat
    PROVE  /\ _dictNextPower(n) \in Powers(n)
           /\ _dictNextPower(n) \in Nat \ {0} /\ _dictNextPower(n) >= n
           /\ \A q \in Powers(n) : q >= n => _dictNextPower(n) <= q
           /\ n = DICT_HT_INITIAL_SIZE => _dictNextPower(n) = n
<1>0. DICT_HT_INITIAL_SIZE \in Nat /\ DICT_HT_INITIAL_SIZE >= 1
    BY DictAssumption
<1>1. PICK f : Doubling(f, n) /\ Powers(n) = {f[i] : i \in 0 .. n}
    BY PowersForm
<1>2. \A i \in 0 .. n : f[i] \in Nat /\ f[i] >= DICT_HT_INITIAL_SIZE + i
    BY <1>1, DoublingGrows
<1>3. \A p \in Powers(n) : p \in Nat /\ p >= DICT_HT_INITIAL_SIZE
    BY <1>0, <1>1, <1>2
<1>4. f[n] \in Powers(n) /\ f[n] >= n /\ DICT_HT_INITIAL_SIZE \in Powers(n)
  <2>1. n \in 0 .. n /\ 0 \in 0 .. n
      OBVIOUS
  <2>2. f[n] \in Nat /\ f[n] >= DICT_HT_INITIAL_SIZE + n
      BY <1>2, <2>1
  <2>3. f[0] = DICT_HT_INITIAL_SIZE
      BY <1>1 DEF Doubling
  <2> QED BY <1>0, <1>1, <2>1, <2>2, <2>3
<1> DEFINE T == {p \in Powers(n) : p >= n}
<1>5. PICK m \in T : \A q \in T : ~(q < m)
  <2>1. T \subseteq Nat /\ T # {}
      BY <1>3, <1>4
  <2> HIDE DEF T
  <2>2. PICK m \in T : \A q \in T : ~(<<q, m>> \in OpToRel(<, Nat))
      BY <2>1, NatLessThanWellFounded, WFMin
  <2> QED BY <2>1, <2>2 DEF OpToRel
<1>6. \E p \in Powers(n) : p >= n /\ \A q \in Powers(n) : q >= n => p <= q
    BY <1>3, <1>5
<1> DEFINE r == _dictNextPower(n)
<1>7. r \in Powers(n) /\ r >= n /\ \A q \in Powers(n) : q >= n => r <= q
    BY <1>6 DEF _dictNextPower
<1> HIDE DEF r
<1>8. r \in Nat /\ r >= DICT_HT_INITIAL_SIZE
    BY <1>3, <1>7
<1>9. n = DICT_HT_INITIAL_SIZE => r = n
    BY <1>0, <1>4, <1>7, <1>8
<1>10. r # 0
    BY <1>0, <1>8
<1> QED BY <1>7, <1>8, <1>9, <1>10 DEF r

-----------------------------------------------------------------------------
(* Tables *)

(* A table whose counter is exact and whose entries are where a search     *)
(* looks for them.                                                         *)
TableOK(t) ==
    /\ DOMAIN t = {"size", "used", "table"} /\ t.size \in Sizes
    /\ t.table \in [0 .. t.size - 1 -> SUBSET Keys]
    /\ t.used = Cardinality(TableKeys(t))
    /\ \A b \in 0 .. t.size - 1 : \A k \in t.table[b] : Index(t, k) = b

LEMMA SizesFacts ==
    /\ Sizes \subseteq Nat /\ 0 \in Sizes
    /\ \A n \in Nat : n = DICT_HT_INITIAL_SIZE \/ n <= 2 * Cardinality(Keys) =>
          _dictNextPower(n) \in Sizes
<1> DEFINE c == 2 * Cardinality(Keys)
<1>0. c \in Nat /\ DICT_HT_INITIAL_SIZE \in Nat
    BY DictAssumption, FS_CardinalityType
<1> HIDE DEF c
<1>1. Sizes = {0} \cup {_dictNextPower(n) : n \in 0 .. c}
    BY DEF Sizes, c
<1>2. Sizes \subseteq Nat /\ 0 \in Sizes
    BY <1>0, <1>1, NextPowerFacts
<1>3. ASSUME NEW n \in Nat, n <= c PROVE _dictNextPower(n) \in Sizes
    BY <1>0, <1>1, <1>3
<1>4. _dictNextPower(0) = DICT_HT_INITIAL_SIZE
  <2>1. PICK f : Doubling(f, 0) /\ Powers(0) = {f[i] : i \in 0 .. 0}
      BY PowersForm
  <2>2. _dictNextPower(0) \in Powers(0)
      BY NextPowerFacts
  <2> QED BY <2>1, <2>2 DEF Doubling
<1>5. ASSUME NEW n \in Nat, n = DICT_HT_INITIAL_SIZE PROVE _dictNextPower(n) \in Sizes
    BY <1>0, <1>3, <1>4, <1>5, NextPowerFacts
<1> QED BY <1>2, <1>3, <1>5 DEF c

(* A bucket of a table is found by hash & sizemask.                        *)
LEMMA IndexInTable ==
    ASSUME NEW t, t.size \in Nat \ {0}, NEW k \in Keys
    PROVE  Index(t, k) \in 0 .. t.size - 1
<1>1. Hash[k] \in Nat
    BY DictAssumption
<1> QED BY <1>1 DEF Index

LEMMA TableFacts ==
    ASSUME NEW t, TableOK(t)
    PROVE  /\ t.size \in Nat /\ TableKeys(t) \subseteq Keys
           /\ IsFiniteSet(TableKeys(t)) /\ t.used \in Nat
           /\ t.used <= Cardinality(Keys) /\ Cardinality(Keys) \in Nat
           /\ t.used = 0 <=> TableKeys(t) = {}
           /\ \A k : k \in TableKeys(t) <=> \E b \in 0 .. t.size - 1 : k \in t.table[b]
           /\ \A k \in Keys : k \in TableKeys(t) <=>
                  t.size > 0 /\ k \in t.table[Index(t, k)]
<1>1. t.size \in Nat /\ DOMAIN t.table = 0 .. t.size - 1
    BY SizesFacts DEF TableOK
<1>2. \A k : k \in TableKeys(t) <=> \E b \in 0 .. t.size - 1 : k \in t.table[b]
    BY <1>1 DEF TableKeys
<1>3. TableKeys(t) \subseteq Keys
    BY <1>2 DEF TableOK
<1>4. IsFiniteSet(TableKeys(t)) /\ Cardinality(TableKeys(t)) <= Cardinality(Keys)
    BY <1>3, FS_Subset, DictAssumption
<1>5. Cardinality(TableKeys(t)) \in Nat /\ Cardinality(Keys) \in Nat
    BY <1>4, FS_CardinalityType, DictAssumption
<1>6. Cardinality(TableKeys(t)) = 0 <=> TableKeys(t) = {}
    BY <1>4, FS_EmptySet
<1>7. t.used = Cardinality(TableKeys(t))
    BY DEF TableOK
<1>8. ASSUME NEW k \in Keys
      PROVE  k \in TableKeys(t) <=> t.size > 0 /\ k \in t.table[Index(t, k)]
  <2>1. ASSUME k \in TableKeys(t) PROVE t.size > 0 /\ k \in t.table[Index(t, k)]
    <3>1. PICK b \in 0 .. t.size - 1 : k \in t.table[b]
        BY <1>2, <2>1
    <3>2. Index(t, k) = b
        BY <3>1 DEF TableOK
    <3>3. t.size > 0
        BY <1>1, <3>1
    <3> QED BY <3>1, <3>2, <3>3
  <2>2. ASSUME t.size > 0, k \in t.table[Index(t, k)] PROVE k \in TableKeys(t)
    <3>1. Index(t, k) \in 0 .. t.size - 1
        BY <1>1, <2>2, IndexInTable
    <3> QED BY <1>2, <2>2, <3>1
  <2> QED BY <2>1, <2>2
<1>9. t.used \in Nat /\ t.used <= Cardinality(Keys) /\ (t.used = 0 <=> TableKeys(t) = {})
    BY <1>4, <1>5, <1>6, <1>7
<1> QED BY <1>1, <1>2, <1>3, <1>4, <1>5, <1>8, <1>9

LEMMA NewTableOK ==
    ASSUME NEW n \in Sizes
    PROVE  /\ TableOK(NewTable(n)) /\ TableKeys(NewTable(n)) = {}
           /\ NewTable(n).size = n /\ NewTable(n).used = 0
<1> DEFINE t == NewTable(n)
<1>1. t = [size |-> n, used |-> 0, table |-> [i \in 0 .. n - 1 |-> {}]]
    BY DEF NewTable
<1>2. t.size = n /\ t.used = 0 /\ t.table = [i \in 0 .. n - 1 |-> {}]
    BY <1>1
<1>3. DOMAIN t = {"size", "used", "table"}
    BY <1>1
<1> HIDE DEF t
<1>4. t.table \in [0 .. n - 1 -> SUBSET Keys] /\ DOMAIN t.table = 0 .. n - 1
      /\ \A i \in 0 .. n - 1 : t.table[i] = {}
    BY <1>2
<1>5. TableKeys(t) = {}
    BY <1>4 DEF TableKeys
<1>6. Cardinality({}) = 0
    BY FS_EmptySet
<1>7. TableOK(t)
    BY <1>2, <1>3, <1>4, <1>5, <1>6 DEF TableOK
<1> QED BY <1>2, <1>5, <1>7 DEF t

LEMMA NoTableOK ==
    /\ TableOK(NoTable) /\ TableKeys(NoTable) = {}
    /\ NoTable.size = 0 /\ NoTable.used = 0
<1>1. 0 .. 0 - 1 = {}
    OBVIOUS
<1>2. NoTable = NewTable(0)
    BY <1>1 DEF NoTable, NewTable
<1> QED BY <1>2, NewTableOK, SizesFacts

(* An entry that is linked or unlinked.                                    *)
LEMMA LinkedOK ==
    ASSUME NEW t, TableOK(t), t.size > 0, NEW k \in Keys, k \notin TableKeys(t)
    PROVE  /\ TableOK(Linked(t, k)) /\ Linked(t, k).size = t.size
           /\ TableKeys(Linked(t, k)) = TableKeys(t) \cup {k}
<1> DEFINE i == Index(t, k)  u == Linked(t, k)
<1>1. t.size \in Nat \ {0} /\ i \in 0 .. t.size - 1
    BY TableFacts, IndexInTable
<1> HIDE DEF i
<1>2. DOMAIN t = {"size", "used", "table"}
    BY DEF TableOK
<1>3. /\ DOMAIN u = {"size", "used", "table"} /\ u.size = t.size
      /\ u.used = t.used + 1 /\ u.table = [t.table EXCEPT ![i] = @ \cup {k}]
    BY <1>2 DEF Linked, i
<1> HIDE DEF u
<1>4. t.table \in [0 .. t.size - 1 -> SUBSET Keys]
    BY DEF TableOK
<1>5. /\ u.table \in [0 .. t.size - 1 -> SUBSET Keys]
      /\ u.table[i] = t.table[i] \cup {k}
      /\ \A b \in 0 .. t.size - 1 : b # i => u.table[b] = t.table[b]
    BY <1>1, <1>3, <1>4
<1>6. TableKeys(u) = TableKeys(t) \cup {k}
    BY <1>1, <1>4, <1>5 DEF TableKeys
<1>7. u.used = Cardinality(TableKeys(u))
  <2>1. IsFiniteSet(TableKeys(t)) /\ t.used = Cardinality(TableKeys(t))
      BY TableFacts DEF TableOK
  <2>2. Cardinality(TableKeys(t) \cup {k}) = Cardinality(TableKeys(t)) + 1
      BY <2>1, FS_AddElement
  <2> QED BY <1>3, <1>6, <2>1, <2>2
<1>8. \A b \in 0 .. u.size - 1 : \A j \in u.table[b] : Index(u, j) = b
  <2>1. \A j : Index(u, j) = Index(t, j)
      BY <1>3 DEF Index
  <2>2. \A b \in 0 .. t.size - 1 : \A j \in t.table[b] : Index(t, j) = b
      BY DEF TableOK
  <2>3. Index(t, k) = i
      BY DEF i
  <2> QED BY <1>1, <1>3, <1>5, <2>1, <2>2, <2>3
<1>9. TableOK(u)
    BY <1>2, <1>3, <1>5, <1>7, <1>8 DEF TableOK
<1> QED BY <1>3, <1>6, <1>9 DEF u

LEMMA UnlinkedOK ==
    ASSUME NEW t, TableOK(t), NEW k \in Keys, k \in TableKeys(t)
    PROVE  /\ TableOK(Unlinked(t, k)) /\ Unlinked(t, k).size = t.size
           /\ TableKeys(Unlinked(t, k)) = TableKeys(t) \ {k}
           /\ \A b \in 0 .. t.size - 1 : Unlinked(t, k).table[b] \subseteq t.table[b]
<1> DEFINE i == Index(t, k)  u == Unlinked(t, k)
<1>1. t.size \in Nat \ {0} /\ i \in 0 .. t.size - 1 /\ k \in t.table[i]
  <2>1. t.size \in Nat \ {0} /\ k \in t.table[i]
      BY TableFacts
  <2> QED BY <2>1, IndexInTable
<1> HIDE DEF i
<1>2. DOMAIN t = {"size", "used", "table"}
    BY DEF TableOK
<1>3. /\ DOMAIN u = {"size", "used", "table"} /\ u.size = t.size
      /\ u.used = t.used - 1 /\ u.table = [t.table EXCEPT ![i] = @ \ {k}]
    BY <1>2 DEF Unlinked, i
<1> HIDE DEF u
<1>4. t.table \in [0 .. t.size - 1 -> SUBSET Keys]
    BY DEF TableOK
<1>5. /\ u.table \in [0 .. t.size - 1 -> SUBSET Keys]
      /\ u.table[i] = t.table[i] \ {k}
      /\ \A b \in 0 .. t.size - 1 : b # i => u.table[b] = t.table[b]
    BY <1>1, <1>3, <1>4
<1>6. \A b \in 0 .. t.size - 1 : \A j \in t.table[b] : Index(t, j) = b
    BY DEF TableOK
<1>7. TableKeys(u) = TableKeys(t) \ {k}
  <2>1. \A b \in 0 .. t.size - 1 : k \in t.table[b] => b = i
      BY <1>6 DEF i
  <2>2. \A b \in 0 .. t.size - 1 : u.table[b] = t.table[b] \ {k}
      BY <1>5, <2>1
  <2>3. /\ \A j : j \in TableKeys(t) <=> \E b \in 0 .. t.size - 1 : j \in t.table[b]
        /\ \A j : j \in TableKeys(u) <=> \E b \in 0 .. t.size - 1 : j \in u.table[b]
      BY <1>4, <1>5 DEF TableKeys
  <2> QED BY <2>2, <2>3
<1>8. u.used = Cardinality(TableKeys(u))
  <2>1. IsFiniteSet(TableKeys(t)) /\ t.used = Cardinality(TableKeys(t))
      BY TableFacts DEF TableOK
  <2>2. Cardinality(TableKeys(t) \ {k}) = Cardinality(TableKeys(t)) - 1
      BY <2>1, FS_RemoveElement
  <2> QED BY <1>3, <1>7, <2>1, <2>2
<1>9. \A b \in 0 .. u.size - 1 : \A j \in u.table[b] : Index(u, j) = b
  <2>1. \A j : Index(u, j) = Index(t, j)
      BY <1>3 DEF Index
  <2> QED BY <1>1, <1>3, <1>5, <1>6, <2>1
<1>10. TableOK(u)
    BY <1>2, <1>3, <1>5, <1>8, <1>9 DEF TableOK
<1> QED BY <1>3, <1>5, <1>7, <1>10 DEF u
-----------------------------------------------------------------------------
(* Dicts *)

(* Two tables without a common key; the second one exists exactly while    *)
(* the dict is rehashing, and the buckets of the first one that were moved *)
(* are empty.                                                              *)
DictOK(x) ==
    /\ DOMAIN x = {"ht", "rehashidx"} /\ DOMAIN x.ht = {0, 1}
    /\ TableOK(x.ht[0]) /\ TableOK(x.ht[1])
    /\ TableKeys(x.ht[0]) \cap TableKeys(x.ht[1]) = {}
    /\ x.rehashidx \in -1 .. x.ht[0].size
    /\ dictIsRehashing(x) <=> x.ht[1].size # 0
    /\ dictIsRehashing(x) => x.ht[0].size # 0
    /\ \A b \in 0 .. x.rehashidx - 1 : x.ht[0].table[b] = {}

(* The buckets of table t once the keys of moved have arrived.             *)
Spread(t, moved) ==
    [i \in DOMAIN t.table |-> t.table[i] \cup {k \in moved : Index(t, k) = i}]

(* MoveBucket, value by value.                                             *)
Moved(x, b, y) ==
    /\ DOMAIN y = {"ht", "rehashidx"} /\ DOMAIN y.ht = {0, 1}
    /\ DOMAIN y.ht[0] = {"size", "used", "table"}
    /\ DOMAIN y.ht[1] = {"size", "used", "table"}
    /\ y.ht[0].size = x.ht[0].size /\ y.ht[1].size = x.ht[1].size
    /\ y.ht[0].used = x.ht[0].used - Cardinality(x.ht[0].table[b])
    /\ y.ht[1].used = x.ht[1].used + Cardinality(x.ht[0].table[b])
    /\ y.ht[0].table = [x.ht[0].table EXCEPT ![b] = {}]
    /\ y.ht[1].table = Spread(x.ht[1], x.ht[0].table[b])
    /\ y.rehashidx = b + 1

LEMMA MoveForm ==
    ASSUME NEW x, NEW b, DictOK(x), NEW y, y = MoveBucket(x, b)
    PROVE  Moved(x, b, y)
<1> DEFINE m == Cardinality(x.ht[0].table[b])
           g == Spread(x.ht[1], x.ht[0].table[b])
           p == x.ht[0].used - m
           q == x.ht[1].used + m
           c == b + 1
           u == [x EXCEPT !.ht[0].table[b] = {}, !.ht[0].used = p,
                          !.ht[1].table = g, !.ht[1].used = q, !.rehashidx = c]
           v == [x EXCEPT !.ht[0].table[b] = {}, !.ht[0].used = p]
<1>1. y = u
    BY DEF MoveBucket, Spread
<1>2. /\ DOMAIN x = {"ht", "rehashidx"} /\ DOMAIN x.ht = {0, 1}
      /\ DOMAIN x.ht[0] = {"size", "used", "table"}
      /\ DOMAIN x.ht[1] = {"size", "used", "table"}
    BY DEF DictOK, TableOK
<1> HIDE DEF m, g, p, q, c
<1>3. u.ht[0] = v.ht[0]
    BY <1>2
<1>4. /\ v.ht[0].used = p /\ v.ht[0].size = x.ht[0].size
      /\ v.ht[0].table = [x.ht[0].table EXCEPT ![b] = {}]
      /\ DOMAIN v.ht[0] = {"size", "used", "table"}
    BY <1>2
<1>5. DOMAIN u = {"ht", "rehashidx"} /\ DOMAIN u.ht = {0, 1}
    BY <1>2
<1>6. DOMAIN u.ht[1] = {"size", "used", "table"} /\ u.ht[1].size = x.ht[1].size
    BY <1>2
<1>7. u.ht[1].used = q /\ u.ht[1].table = g /\ u.rehashidx = c
    BY <1>2
<1> HIDE DEF u, v
<1> QED BY <1>1, <1>3, <1>4, <1>5, <1>6, <1>7 DEF Moved, m, g, p, q, c
-----------------------------------------------------------------------------
(* Rehashing *)

(* "Note that rehashidx can't overflow": while the old table has entries,  *)
(* a bucket that has some is found in it.                                  *)
LEMMA NextUsedFacts ==
    ASSUME NEW x, DictOK(x), dictIsRehashing(x), x.ht[0].used # 0
    PROVE  LET b == NextUsed(x.ht[0], x.rehashidx)
           IN  /\ b \in x.rehashidx .. x.ht[0].size - 1 /\ x.ht[0].table[b] # {}
               /\ \A c \in 0 .. b - 1 : x.ht[0].table[c] = {}
<1> DEFINE t == x.ht[0]  i == x.rehashidx  b == NextUsed(t, i)
           Stop(j) == /\ j = t.size \/ t.table[j] # {}
                      /\ \A c \in i .. j - 1 : t.table[c] = {}
<1>1. /\ TableOK(t) /\ i \in Nat /\ i <= t.size /\ t.size \in Nat
      /\ \A c \in 0 .. i - 1 : t.table[c] = {}
  <2>1. TableOK(t) /\ i \in -1 .. t.size /\ i # -1
        /\ \A c \in 0 .. i - 1 : t.table[c] = {}
      BY DEF DictOK, dictIsRehashing
  <2>2. t.size \in Nat
      BY <2>1, TableFacts
  <2> HIDE DEF t, i
  <2> QED BY <2>1, <2>2
<1>2. PICK j \in 0 .. t.size - 1 : t.table[j] # {}
  <2>1. TableKeys(t) # {}
      BY <1>1, TableFacts
  <2> QED BY <1>1, <2>1, TableFacts
<1>3. b = CHOOSE n \in i .. t.size : Stop(n)
    BY DEF NextUsed
<1> HIDE DEF t, i, b
<1> DEFINE T == {n \in Nat : i <= n /\ n < t.size /\ t.table[n] # {}}
<1>4. PICK m \in T : \A n \in T : ~(n < m)
  <2>1. T \subseteq Nat /\ j \in T
      BY <1>1, <1>2
  <2> HIDE DEF T
  <2>2. PICK m \in T : \A n \in T : ~(<<n, m>> \in OpToRel(<, Nat))
      BY <2>1, NatLessThanWellFounded, WFMin
  <2> QED BY <2>1, <2>2 DEF OpToRel
<1>5. m \in i .. t.size /\ m < t.size /\ t.table[m] # {} /\ Stop(m)
  <2>1. m \in i .. t.size /\ m < t.size /\ t.table[m] # {} /\ m \in Nat
      BY <1>1, <1>4
  <2>2. ASSUME NEW c \in i .. m - 1, t.table[c] # {} PROVE FALSE
    <3>1. c \in T /\ c < m
        BY <1>1, <2>1, <2>2
    <3> QED BY <1>4, <3>1
  <2> QED BY <2>1, <2>2
<1>6. b \in i .. t.size /\ Stop(b)
  <2> HIDE DEF Stop
  <2> QED BY <1>3, <1>5
<1>7. b # t.size
  <2> SUFFICES ASSUME b = t.size PROVE FALSE
      OBVIOUS
  <2>1. m \in i .. b - 1
      BY <1>1, <1>5
  <2> QED BY <1>5, <1>6, <2>1
<1>8. b \in i .. t.size - 1 /\ t.table[b] # {}
    BY <1>1, <1>6, <1>7
<1>9. ASSUME NEW c \in 0 .. b - 1 PROVE t.table[c] = {}
  <2>1. c \in 0 .. i - 1 \/ c \in i .. b - 1
      BY <1>1, <1>6
  <2> QED BY <1>1, <1>6, <2>1
<1> QED BY <1>8, <1>9 DEF b, t, i

(* Moving a bucket takes its entries to their place in the new table.      *)
LEMMA MoveOK ==
    ASSUME NEW x, DictOK(x), dictIsRehashing(x), NEW b \in 0 .. x.ht[0].size - 1,
           \A c \in 0 .. b - 1 : x.ht[0].table[c] = {}
    PROVE  LET y == MoveBucket(x, b)
           IN  DictOK(y) /\ dictIsRehashing(y) /\ Elems(y) = Elems(x)
<1> DEFINE y == MoveBucket(x, b)
           s == x.ht[0]  t == x.ht[1]  s1 == y.ht[0]  t1 == y.ht[1]
           moved == s.table[b]
<1>0. y = MoveBucket(x, b)
    OBVIOUS
<1> HIDE DEF y
<1>1. /\ TableOK(s) /\ TableOK(t) /\ s.size \in Nat /\ t.size \in Nat \ {0}
      /\ TableKeys(s) \cap TableKeys(t) = {}
    BY TableFacts DEF DictOK
<1>m. Moved(x, b, y)
    BY <1>0, MoveForm
<1>2. /\ DOMAIN y = {"ht", "rehashidx"} /\ DOMAIN y.ht = {0, 1}
      /\ DOMAIN s1 = {"size", "used", "table"} /\ DOMAIN t1 = {"size", "used", "table"}
      /\ s1.size = s.size /\ t1.size = t.size
      /\ s1.used = s.used - Cardinality(moved)
      /\ t1.used = t.used + Cardinality(moved)
      /\ s1.table = [s.table EXCEPT ![b] = {}]
      /\ t1.table = Spread(t, moved)
      /\ y.rehashidx = b + 1
    BY <1>m DEF Moved
<1>b. b \in 0 .. s.size - 1 /\ \A c \in 0 .. b - 1 : s.table[c] = {}
    OBVIOUS
<1>e. Elems(x) = TableKeys(s) \cup TableKeys(t) /\ Elems(y) = TableKeys(s1) \cup TableKeys(t1)
    BY DEF Elems
<1> HIDE DEF s, t, s1, t1
<1>3. /\ s.table \in [0 .. s.size - 1 -> SUBSET Keys]
      /\ t.table \in [0 .. t.size - 1 -> SUBSET Keys]
      /\ s.size \in Sizes /\ t.size \in Sizes
      /\ s.used = Cardinality(TableKeys(s)) /\ t.used = Cardinality(TableKeys(t))
    BY <1>1 DEF TableOK
<1>4. moved \subseteq Keys /\ moved \subseteq TableKeys(s)
    BY <1>3, <1>b DEF TableKeys
<1>5. /\ s1.table \in [0 .. s.size - 1 -> SUBSET Keys] /\ s1.table[b] = {}
      /\ \A c \in 0 .. s.size - 1 : c # b => s1.table[c] = s.table[c]
  <2>1. s1.table = [s.table EXCEPT ![b] = {}]
      BY <1>2
  <2> QED BY <1>3, <1>b, <2>1
<1>6. /\ t1.table \in [0 .. t.size - 1 -> SUBSET Keys]
      /\ \A c \in 0 .. t.size - 1 :
            t1.table[c] = t.table[c] \cup {k \in moved : Index(t, k) = c}
  <2>1. t1.table = [i \in 0 .. t.size - 1 |->
                      t.table[i] \cup {k \in moved : Index(t, k) = i}]
    <3>1. DOMAIN t.table = 0 .. t.size - 1
        BY <1>3
    <3> QED BY <1>2, <3>1 DEF Spread
  <2> HIDE DEF moved
  <2> QED BY <1>3, <1>4, <2>1
<1>7. /\ \A c \in 0 .. s.size - 1 : \A k \in s.table[c] : Index(s, k) = c
      /\ \A c \in 0 .. t.size - 1 : \A k \in t.table[c] : Index(t, k) = c
      /\ \A k : Index(s1, k) = Index(s, k) /\ Index(t1, k) = Index(t, k)
    BY <1>1, <1>2 DEF TableOK, Index
<1> HIDE DEF moved
<1>8. \A k : /\ k \in TableKeys(s) <=> \E c \in 0 .. s.size - 1 : k \in s.table[c]
             /\ k \in TableKeys(t) <=> \E c \in 0 .. t.size - 1 : k \in t.table[c]
             /\ k \in TableKeys(s1) <=> \E c \in 0 .. s.size - 1 : k \in s1.table[c]
             /\ k \in TableKeys(t1) <=> \E c \in 0 .. t.size - 1 : k \in t1.table[c]
    BY <1>3, <1>5, <1>6 DEF TableKeys
<1>9. TableKeys(s1) = TableKeys(s) \ moved
  <2>1. ASSUME NEW k, k \in TableKeys(s1) PROVE k \in TableKeys(s) /\ k \notin moved
    <3>1. PICK c \in 0 .. s.size - 1 : k \in s1.table[c]
        BY <1>8, <2>1
    <3>2. c # b /\ k \in s.table[c]
        BY <1>5, <3>1
    <3>3. Index(s, k) = c
        BY <1>7, <3>2
    <3>4. k \in moved => Index(s, k) = b
        BY <1>7, <1>b DEF moved
    <3> QED BY <1>8, <3>2, <3>3, <3>4
  <2>2. ASSUME NEW k, k \in TableKeys(s), k \notin moved PROVE k \in TableKeys(s1)
    <3>1. PICK c \in 0 .. s.size - 1 : k \in s.table[c]
        BY <1>8, <2>2
    <3>2. c # b
        BY <2>2, <3>1 DEF moved
    <3> QED BY <1>5, <1>8, <3>1, <3>2
  <2> QED BY <2>1, <2>2
<1>10. TableKeys(t1) = TableKeys(t) \cup moved
  <2>1. ASSUME NEW k, k \in TableKeys(t1) PROVE k \in TableKeys(t) \/ k \in moved
      BY <1>6, <1>8, <2>1
  <2>2. ASSUME NEW k, k \in TableKeys(t) PROVE k \in TableKeys(t1)
      BY <1>6, <1>8, <2>2
  <2>3. ASSUME NEW k, k \in moved PROVE k \in TableKeys(t1)
    <3>1. Index(t, k) \in 0 .. t.size - 1
        BY <1>1, <1>4, <2>3, IndexInTable
    <3> QED BY <1>6, <1>8, <2>3, <3>1
  <2> QED BY <2>1, <2>2, <2>3
<1>11. /\ IsFiniteSet(TableKeys(s)) /\ IsFiniteSet(TableKeys(t)) /\ IsFiniteSet(moved)
       /\ s.used \in Nat /\ t.used \in Nat /\ Cardinality(moved) \in Nat
    BY <1>1, <1>4, TableFacts, FS_Subset, FS_CardinalityType
<1>12. s1.used = Cardinality(TableKeys(s1))
  <2>1. TableKeys(s) \cap moved = moved
      BY <1>4
  <2>2. Cardinality(TableKeys(s) \ moved) = Cardinality(TableKeys(s)) - Cardinality(moved)
      BY <1>11, <2>1, FS_Difference
  <2> QED BY <1>2, <1>3, <1>9, <2>2 DEF moved
<1>13. t1.used = Cardinality(TableKeys(t1))
  <2>1. Cardinality(TableKeys(t) \cap moved) = 0
    <3>1. TableKeys(t) \cap moved = {}
        BY <1>1, <1>4
    <3> QED BY <3>1, FS_EmptySet
  <2>2. Cardinality(TableKeys(t) \cup moved)
          = Cardinality(TableKeys(t)) + Cardinality(moved) - Cardinality(TableKeys(t) \cap moved)
      BY <1>11, FS_Union
  <2>3. Cardinality(TableKeys(t) \cup moved) = Cardinality(TableKeys(t)) + Cardinality(moved)
      BY <1>3, <1>11, <2>1, <2>2
  <2> QED BY <1>2, <1>3, <1>10, <2>3 DEF moved
<1>14. TableOK(s1)
  <2>1. \A c \in 0 .. s1.size - 1 : \A k \in s1.table[c] : Index(s1, k) = c
      BY <1>2, <1>5, <1>7
  <2> QED BY <1>2, <1>3, <1>5, <1>12, <2>1 DEF TableOK
<1>15. TableOK(t1)
  <2>1. \A c \in 0 .. t1.size - 1 : \A k \in t1.table[c] : Index(t1, k) = c
      BY <1>2, <1>6, <1>7
  <2> QED BY <1>2, <1>3, <1>6, <1>13, <2>1 DEF TableOK
<1>16. TableKeys(s1) \cap TableKeys(t1) = {}
    BY <1>1, <1>9, <1>10
<1>17. /\ y.rehashidx \in -1 .. s1.size /\ y.rehashidx # -1
       /\ \A c \in 0 .. y.rehashidx - 1 : s1.table[c] = {}
  <2>1. b + 1 \in -1 .. s.size /\ b + 1 # -1
      BY <1>1, <1>b
  <2>2. ASSUME NEW c \in 0 .. (b + 1) - 1 PROVE s1.table[c] = {}
    <3>1. c = b \/ c \in 0 .. b - 1
        BY <1>b
    <3>2. c \in 0 .. s.size - 1
        BY <1>1, <1>b
    <3> QED BY <1>5, <1>b, <3>1, <3>2
  <2> QED BY <1>2, <2>1, <2>2
<1>18. Elems(y) = Elems(x)
    BY <1>4, <1>9, <1>10, <1>e
<1>19. dictIsRehashing(y)
    BY <1>17 DEF dictIsRehashing
<1>20. DictOK(y)
    BY <1>1, <1>2, <1>14, <1>15, <1>16, <1>17, <1>19 DEF DictOK, s1, t1
<1> QED BY <1>18, <1>19, <1>20 DEF y
(* A round of the loop on dict x: keys stay, empty visits are counted.     *)
RoundOK(s, x) ==
    /\ DictOK(s.dict) /\ dictIsRehashing(s.dict) /\ Elems(s.dict) = Elems(x)
    /\ s.visits \in Nat

LEMMA SkipOK ==
    ASSUME NEW x, DictOK(x), dictIsRehashing(x), NEW n \in Int, n >= x.rehashidx,
           n <= x.ht[0].size, \A c \in 0 .. n - 1 : x.ht[0].table[c] = {}
    PROVE  LET y == [x EXCEPT !.rehashidx = n]
           IN  DictOK(y) /\ dictIsRehashing(y) /\ Elems(y) = Elems(x)
<1> DEFINE y == [x EXCEPT !.rehashidx = n]
<1>1. DOMAIN x = {"ht", "rehashidx"}
    BY DEF DictOK
<1>2. y.ht = x.ht /\ y.rehashidx = n /\ DOMAIN y = {"ht", "rehashidx"}
    BY <1>1
<1> HIDE DEF y
<1>3. x.rehashidx \in Nat /\ x.ht[0].size \in Nat
  <2>1. x.ht[0].size \in Nat /\ x.rehashidx \in -1 .. x.ht[0].size
      BY TableFacts DEF DictOK
  <2> QED BY <2>1 DEF dictIsRehashing
<1>4. n \in -1 .. x.ht[0].size /\ n # -1
    BY <1>3
<1>5. dictIsRehashing(y)
    BY <1>2, <1>4 DEF dictIsRehashing
<1>6. DictOK(y)
    BY <1>2, <1>4, <1>5 DEF DictOK
<1>7. Elems(y) = Elems(x)
    BY <1>2 DEF Elems
<1> QED BY <1>5, <1>6, <1>7 DEF y

LEMMA RoundKeeps ==
    ASSUME NEW s, NEW x, RoundOK(s, x)
    PROVE  RoundOK(RehashRound(s), x)
<1> DEFINE e == s.dict
           b == NextUsed(e.ht[0], e.rehashidx)
           gap == b - e.rehashidx
<1>1. DictOK(e) /\ dictIsRehashing(e) /\ Elems(e) = Elems(x) /\ s.visits \in Nat
    BY DEF RoundOK
<1>2. CASE s.out \/ e.ht[0].used = 0
    BY <1>2 DEF RehashRound
<1>3. CASE ~s.out /\ e.ht[0].used # 0
  <2>1. /\ b \in e.rehashidx .. e.ht[0].size - 1
        /\ \A c \in 0 .. b - 1 : e.ht[0].table[c] = {}
      BY <1>1, <1>3, NextUsedFacts
  <2>2. e.rehashidx \in Nat /\ e.ht[0].size \in Nat
    <3>1. e.ht[0].size \in Nat /\ e.rehashidx \in -1 .. e.ht[0].size
        BY <1>1, TableFacts DEF DictOK
    <3> QED BY <1>1, <3>1 DEF dictIsRehashing
  <2>3. CASE gap >= s.visits
    <3> DEFINE n == e.rehashidx + s.visits
               y == [e EXCEPT !.rehashidx = n]
    <3>1. RehashRound(s) = [dict |-> y, visits |-> 0, out |-> TRUE]
        BY <1>3, <2>3 DEF RehashRound
    <3> HIDE DEF b, e
    <3>2. n \in Int /\ n >= e.rehashidx /\ n <= b /\ b \in Int /\ n <= e.ht[0].size
        BY <1>1, <2>1, <2>2, <2>3
    <3>3. \A c \in 0 .. n - 1 : e.ht[0].table[c] = {}
      <4>1. \A c \in 0 .. n - 1 : c \in 0 .. b - 1
          BY <3>2
      <4> QED BY <2>1, <4>1
    <3> HIDE DEF n
    <3>4. DictOK(y) /\ dictIsRehashing(y) /\ Elems(y) = Elems(e)
        BY <1>1, <3>2, <3>3, SkipOK
    <3> HIDE DEF y
    <3> QED BY <1>1, <3>1, <3>4 DEF RoundOK
  <2>4. CASE ~(gap >= s.visits)
    <3> DEFINE y == MoveBucket(e, b)
    <3>1. RehashRound(s) = [dict |-> y, visits |-> s.visits - gap, out |-> FALSE]
        BY <1>3, <2>4 DEF RehashRound
    <3> HIDE DEF b, e
    <3>2. b \in 0 .. e.ht[0].size - 1 /\ s.visits - gap \in Nat
        BY <1>1, <2>1, <2>2, <2>4
    <3>3. DictOK(y) /\ dictIsRehashing(y) /\ Elems(y) = Elems(e)
        BY <1>1, <2>1, <3>2, MoveOK
    <3> HIDE DEF y, gap
    <3> QED BY <1>1, <3>1, <3>2, <3>3 DEF RoundOK
  <2> QED BY <2>3, <2>4
<1> QED BY <1>2, <1>3

(* The rounds of a call of m_dictRehash.                                   *)
LEMMA RehashForm ==
    ASSUME NEW x, NEW n \in Nat
    PROVE  \E c : /\ c[0] = [dict |-> x, visits |-> n * EmptyVisits, out |-> FALSE]
                  /\ \A i \in 1 .. n : c[i] = RehashRound(c[i - 1])
                  /\ m_dictRehash(x, n) =
                       CASE ~dictIsRehashing(x) -> x
                         [] dictIsRehashing(x) /\ ~c[n].out /\ c[n].dict.ht[0].used = 0 ->
                              [ht |-> [i \in {0, 1} |-> IF i = 0 THEN c[n].dict.ht[1]
                                                        ELSE NoTable],
                               rehashidx |-> -1]
                         [] OTHER -> c[n].dict
<1> DEFINE start == [dict |-> x, visits |-> n * EmptyVisits, out |-> FALSE]
           Rec(g, m) == g = [i \in 0 .. m |-> IF i = 0 THEN start ELSE RehashRound(g[i - 1])]
           S == {m \in Nat : \E g : Rec(g, m)}
<1>1. 0 \in S
  <2> HIDE DEF start
  <2> DEFINE g == [i \in 0 .. 0 |-> start]
  <2>1. Rec(g, 0)
      OBVIOUS
  <2> QED BY <2>1
<1>2. ASSUME NEW m \in Nat, m \in S PROVE m + 1 \in S
  <2> HIDE DEF start
  <2>1. PICK g : Rec(g, m)
      BY <1>2
  <2> DEFINE h == [i \in 0 .. m + 1 |-> IF i = m + 1 THEN RehashRound(g[m]) ELSE g[i]]
  <2>2. \A i \in 0 .. m : g[i] = IF i = 0 THEN start ELSE RehashRound(g[i - 1])
      BY <2>1
  <2>3. ASSUME NEW i \in 0 .. m + 1
        PROVE  h[i] = IF i = 0 THEN start ELSE RehashRound(h[i - 1])
    <3>1. CASE i = m + 1
      <4>1. i # 0 /\ i - 1 = m /\ i - 1 \in 0 .. m + 1 /\ i - 1 # m + 1
          BY <3>1
      <4> QED BY <3>1, <4>1
    <3>2. CASE i = 0
        BY <2>2, <3>2
    <3>3. CASE i # 0 /\ i # m + 1
      <4>1. i \in 0 .. m /\ i - 1 \in 0 .. m + 1 /\ i - 1 # m + 1
          BY <3>3
      <4> QED BY <2>2, <3>3, <4>1
    <3> QED BY <3>1, <3>2, <3>3
  <2>4. h = [i \in 0 .. m + 1 |-> h[i]]
      OBVIOUS
  <2> HIDE DEF h
  <2>5. Rec(h, m + 1)
      BY <2>3, <2>4
  <2> QED BY <2>5
<1>3. n \in S
  <2> HIDE DEF S
  <2> QED BY <1>1, <1>2, NatSetInduction
<1> DEFINE c == CHOOSE g : Rec(g, n)
           result(s) ==
             CASE ~dictIsRehashing(x) -> x
               [] dictIsRehashing(x) /\ ~s.out /\ s.dict.ht[0].used = 0 ->
                    [ht |-> [i \in {0, 1} |-> IF i = 0 THEN s.dict.ht[1] ELSE NoTable],
                     rehashidx |-> -1]
               [] OTHER -> s.dict
<1>4. Rec(c, n)
  <2> HIDE DEF start
  <2> QED BY <1>3
<1>5. m_dictRehash(x, n) = result(c[n])
    BY DEF m_dictRehash
<1> HIDE DEF c, result
<1>6. c[0] = start /\ \A i \in 1 .. n : c[i] = RehashRound(c[i - 1])
  <2> HIDE DEF start
  <2> QED BY <1>4
<1> QED BY <1>5, <1>6 DEF result

(* Whatever number of buckets is moved, the keys are the same.             *)
LEMMA RehashOK ==
    ASSUME NEW x, DictOK(x), NEW n \in Nat
    PROVE  DictOK(m_dictRehash(x, n)) /\ Elems(m_dictRehash(x, n)) = Elems(x)
<1>1. PICK c : /\ c[0] = [dict |-> x, visits |-> n * EmptyVisits, out |-> FALSE]
               /\ \A i \in 1 .. n : c[i] = RehashRound(c[i - 1])
               /\ m_dictRehash(x, n) =
                    CASE ~dictIsRehashing(x) -> x
                      [] dictIsRehashing(x) /\ ~c[n].out /\ c[n].dict.ht[0].used = 0 ->
                           [ht |-> [i \in {0, 1} |-> IF i = 0 THEN c[n].dict.ht[1]
                                                     ELSE NoTable],
                            rehashidx |-> -1]
                      [] OTHER -> c[n].dict
    BY RehashForm
<1>2. CASE ~dictIsRehashing(x)
    BY <1>1, <1>2
<1>3. CASE dictIsRehashing(x)
  <2> DEFINE S == {i \in Nat : i <= n => RoundOK(c[i], x)}
  <2>1. 0 \in S
    <3>1. c[0].dict = x /\ c[0].visits = n * EmptyVisits
        BY <1>1
    <3>2. n * EmptyVisits \in Nat
        BY DictAssumption
    <3> QED BY <1>3, <3>1, <3>2 DEF RoundOK
  <2>2. ASSUME NEW i \in Nat, i \in S PROVE i + 1 \in S
    <3> SUFFICES ASSUME i + 1 <= n PROVE RoundOK(c[i + 1], x)
        OBVIOUS
    <3>1. i + 1 \in 1 .. n /\ (i + 1) - 1 = i /\ i <= n
        OBVIOUS
    <3>2. c[i + 1] = RehashRound(c[i])
        BY <1>1, <3>1
    <3>3. RoundOK(c[i], x)
        BY <2>2, <3>1
    <3> QED BY <3>2, <3>3, RoundKeeps
  <2>3. n \in S
    <3> HIDE DEF S
    <3> QED BY <2>1, <2>2, NatSetInduction
  <2> DEFINE e == c[n].dict
  <2>4. DictOK(e) /\ dictIsRehashing(e) /\ Elems(e) = Elems(x)
      BY <2>3 DEF RoundOK
  <2>5. CASE ~c[n].out /\ e.ht[0].used = 0
    <3> DEFINE y == [ht |-> [i \in {0, 1} |-> IF i = 0 THEN e.ht[1] ELSE NoTable],
                     rehashidx |-> -1]
    <3>1. m_dictRehash(x, n) = y
        BY <1>1, <1>3, <2>5
    <3> HIDE DEF e
    <3>2. /\ DOMAIN y = {"ht", "rehashidx"} /\ DOMAIN y.ht = {0, 1}
          /\ y.ht[0] = e.ht[1] /\ y.ht[1] = NoTable /\ y.rehashidx = -1
        OBVIOUS
    <3> HIDE DEF y
    <3>3. TableOK(e.ht[0]) /\ TableOK(e.ht[1])
        BY <2>4 DEF DictOK
    <3>4. TableKeys(e.ht[0]) = {}
        BY <2>5, <3>3, TableFacts
    <3>5. ~dictIsRehashing(y)
        BY <3>2 DEF dictIsRehashing
    <3>6. -1 \in -1 .. e.ht[1].size /\ 0 .. -1 - 1 = {}
      <4>1. e.ht[1].size \in Nat
          BY <3>3, TableFacts
      <4> QED BY <4>1
    <3>7. DictOK(y)
        BY <3>2, <3>3, <3>5, <3>6, NoTableOK DEF DictOK
    <3>8. Elems(y) = Elems(e)
        BY <3>2, <3>4, NoTableOK DEF Elems
    <3> QED BY <2>4, <3>1, <3>7, <3>8
  <2>6. CASE ~(~c[n].out /\ e.ht[0].used = 0)
    <3>1. m_dictRehash(x, n) = e
        BY <1>1, <1>3, <2>6
    <3> HIDE DEF e
    <3> QED BY <2>4, <3>1
  <2> QED BY <2>5, <2>6
<1> QED BY <1>2, <1>3
-----------------------------------------------------------------------------
(* Operations *)

(* A search finds exactly the keys of the dict.                            *)
LEMMA FoundFacts ==
    ASSUME NEW x, DictOK(x), NEW k \in Keys
    PROVE  /\ FoundIn(x, k) = {} <=> k \notin Elems(x)
           /\ 0 \in FoundIn(x, k) <=> k \in TableKeys(x.ht[0])
           /\ 1 \in FoundIn(x, k) <=> k \in TableKeys(x.ht[1])
           /\ FoundIn(x, k) \subseteq {0, 1}
<1>1. TableOK(x.ht[0]) /\ TableOK(x.ht[1])
    BY DEF DictOK
<1>2. /\ k \in TableKeys(x.ht[0]) <=>
            x.ht[0].size > 0 /\ k \in x.ht[0].table[Index(x.ht[0], k)]
      /\ k \in TableKeys(x.ht[1]) <=>
            x.ht[1].size > 0 /\ k \in x.ht[1].table[Index(x.ht[1], k)]
    BY <1>1, TableFacts
<1>3. ~dictIsRehashing(x) => ~(x.ht[1].size > 0)
    BY DEF DictOK
<1>4. /\ Searched(x, k) = {0, 1} \/ (~dictIsRehashing(x) /\ Searched(x, k) = {0})
    BY DEF Searched
<1>5. 0 \in FoundIn(x, k) <=> k \in TableKeys(x.ht[0])
    BY <1>2, <1>4 DEF FoundIn
<1>6. 1 \in FoundIn(x, k) <=> k \in TableKeys(x.ht[1])
    BY <1>2, <1>3, <1>4 DEF FoundIn
<1>7. FoundIn(x, k) \subseteq {0, 1}
    BY <1>4 DEF FoundIn
<1>8. Elems(x) = TableKeys(x.ht[0]) \cup TableKeys(x.ht[1])
    BY DEF Elems
<1>9. FoundIn(x, k) = {} <=> k \notin Elems(x)
    BY <1>5, <1>6, <1>7, <1>8
<1> QED BY <1>5, <1>6, <1>7, <1>9

(* A new table is empty: nothing is lost and nothing is found twice.       *)
LEMMA ExpandOK ==
    ASSUME NEW x, DictOK(x), ~dictIsRehashing(x), NEW n \in Nat,
           n = DICT_HT_INITIAL_SIZE \/ n <= 2 * Cardinality(Keys)
    PROVE  LET y == Expanded(x, n)
           IN  DictOK(y) /\ Elems(y) = Elems(x) /\ y.ht[0].size > 0
<1> DEFINE p == _dictNextPower(n)  t == NewTable(p)  y == Expanded(x, n)
<1>1. p \in Sizes /\ p \in Nat \ {0}
    BY SizesFacts, NextPowerFacts
<1>2. TableOK(t) /\ TableKeys(t) = {} /\ t.size = p
    BY <1>1, NewTableOK
<1>3. /\ DOMAIN x = {"ht", "rehashidx"} /\ DOMAIN x.ht = {0, 1}
      /\ TableOK(x.ht[0]) /\ TableOK(x.ht[1]) /\ x.rehashidx = -1
      /\ x.ht[1].size = 0 /\ x.ht[0].size \in Nat
  <2>1. /\ DOMAIN x = {"ht", "rehashidx"} /\ DOMAIN x.ht = {0, 1}
        /\ TableOK(x.ht[0]) /\ TableOK(x.ht[1]) /\ x.rehashidx = -1
        /\ x.ht[1].size = 0
      BY DEF DictOK, dictIsRehashing
  <2> QED BY <2>1, TableFacts
<1>4. y = IF x.ht[0].size = 0 THEN [x EXCEPT !.ht[0] = t]
          ELSE [x EXCEPT !.ht[1] = t, !.rehashidx = 0]
    BY DEF Expanded
<1> HIDE DEF p, t, y
<1>5. TableKeys(x.ht[1]) = {}
    BY <1>3, TableFacts
<1>6. CASE x.ht[0].size = 0
  <2>1. /\ DOMAIN y = {"ht", "rehashidx"} /\ DOMAIN y.ht = {0, 1}
        /\ y.ht[0] = t /\ y.ht[1] = x.ht[1] /\ y.rehashidx = -1
      BY <1>3, <1>4, <1>6
  <2>2. TableKeys(x.ht[0]) = {}
      BY <1>3, <1>6, TableFacts
  <2>3. Elems(y) = Elems(x)
      BY <1>2, <2>1, <2>2 DEF Elems
  <2>4. -1 \in -1 .. p /\ 0 .. -1 - 1 = {}
      BY <1>1
  <2>5. ~dictIsRehashing(y)
      BY <2>1 DEF dictIsRehashing
  <2>6. DictOK(y)
      BY <1>2, <1>3, <2>1, <2>4, <2>5 DEF DictOK
  <2> QED BY <1>1, <1>2, <2>1, <2>3, <2>6 DEF y
<1>7. CASE x.ht[0].size # 0
  <2>1. /\ DOMAIN y = {"ht", "rehashidx"} /\ DOMAIN y.ht = {0, 1}
        /\ y.ht[0] = x.ht[0] /\ y.ht[1] = t /\ y.rehashidx = 0
      BY <1>3, <1>4, <1>7
  <2>2. Elems(y) = Elems(x)
      BY <1>2, <1>5, <2>1 DEF Elems
  <2>3. 0 \in -1 .. x.ht[0].size /\ 0 .. 0 - 1 = {}
      BY <1>3
  <2>4. dictIsRehashing(y) /\ t.size # 0
      BY <1>1, <1>2, <2>1 DEF dictIsRehashing
  <2>5. DictOK(y)
      BY <1>2, <1>3, <1>7, <2>1, <2>3, <2>4 DEF DictOK
  <2> QED BY <1>3, <1>7, <2>1, <2>2, <2>5 DEF y
<1> QED BY <1>6, <1>7

(* Growing before an insertion is never refused, and leaves a table for    *)
(* the new entry.                                                          *)
LEMMA GrowOK ==
    ASSUME NEW x, DictOK(x)
    PROVE  /\ GrowTo(x) \in Nat
           /\ GrowTo(x) # 0 => /\ CanExpand(x, GrowTo(x))
                               /\ GrowTo(x) = DICT_HT_INITIAL_SIZE
                                    \/ GrowTo(x) <= 2 * Cardinality(Keys)
           /\ GrowTo(x) = 0 => dictIsRehashing(x) \/ x.ht[0].size > 0
<1> DEFINE u == x.ht[0].used  s == x.ht[0].size
<1>1. TableOK(x.ht[0])
    BY DEF DictOK
<1>2. /\ u \in Nat /\ s \in Nat /\ u <= Cardinality(Keys) /\ Cardinality(Keys) \in Nat
      /\ u = 0 <=> TableKeys(x.ht[0]) = {}
    BY <1>1, TableFacts
<1>3. s = 0 => u = 0
    BY <1>1, <1>2, TableFacts
<1>4. DICT_HT_INITIAL_SIZE \in Nat \ {0}
    BY DictAssumption
<1>5. CASE dictIsRehashing(x)
  <2>1. GrowTo(x) = 0
      BY <1>5 DEF GrowTo
  <2> QED BY <1>5, <2>1
<1>6. CASE ~dictIsRehashing(x) /\ s = 0
  <2>1. GrowTo(x) = DICT_HT_INITIAL_SIZE
      BY <1>6 DEF GrowTo
  <2>2. _dictNextPower(DICT_HT_INITIAL_SIZE) = DICT_HT_INITIAL_SIZE
      BY <1>4, NextPowerFacts
  <2>3. CanExpand(x, DICT_HT_INITIAL_SIZE)
    <3>1. u <= DICT_HT_INITIAL_SIZE /\ DICT_HT_INITIAL_SIZE # s
        BY <1>3, <1>4, <1>6
    <3> QED BY <1>6, <2>2, <3>1 DEF CanExpand
  <2> QED BY <1>4, <2>1, <2>3
<1>7. CASE ~dictIsRehashing(x) /\ s # 0 /\ u >= s
  <2>1. GrowTo(x) = u * 2
      BY <1>7 DEF GrowTo
  <2> DEFINE n == u * 2  p == _dictNextPower(n)
  <2>2. n \in Nat /\ n > s /\ u <= n /\ n <= 2 * Cardinality(Keys)
      BY <1>2, <1>7
  <2> HIDE DEF n
  <2>3. p \in Nat /\ p >= n
      BY <2>2, NextPowerFacts
  <2> HIDE DEF p
  <2>4. p # s
      BY <1>2, <2>2, <2>3
  <2>5. CanExpand(x, n)
      BY <1>7, <2>2, <2>4 DEF CanExpand, p
  <2>6. GrowTo(x) = n
      BY <2>1 DEF n
  <2> QED BY <1>2, <2>2, <2>5, <2>6
<1>8. CASE ~dictIsRehashing(x) /\ s # 0 /\ ~(u >= s)
  <2>1. GrowTo(x) = 0
      BY <1>8 DEF GrowTo
  <2> QED BY <1>2, <1>8, <2>1
<1> QED BY <1>5, <1>6, <1>7, <1>8

(* Changing one table.                                                     *)
LEMMA PutTable ==
    ASSUME NEW x, DOMAIN x = {"ht", "rehashidx"}, DOMAIN x.ht = {0, 1},
           NEW i \in {0, 1}, NEW t, NEW y, y = [x EXCEPT !.ht[i] = t]
    PROVE  /\ DOMAIN y = {"ht", "rehashidx"} /\ DOMAIN y.ht = {0, 1}
           /\ y.ht[i] = t /\ y.ht[1 - i] = x.ht[1 - i] /\ y.rehashidx = x.rehashidx
<1>1. DOMAIN y = {"ht", "rehashidx"} /\ DOMAIN y.ht = {0, 1} /\ y.rehashidx = x.rehashidx
    OBVIOUS
<1>2. y.ht[i] = t
    OBVIOUS
<1>3. 1 - i \in {0, 1} /\ 1 - i # i
    OBVIOUS
<1>4. y.ht[1 - i] = x.ht[1 - i]
    BY <1>3
<1> QED BY <1>1, <1>2, <1>4

LEMMA StepOK ==
    ASSUME NEW x, DictOK(x)
    PROVE  DictOK(_dictRehashStep(x)) /\ Elems(_dictRehashStep(x)) = Elems(x)
BY RehashOK DEF _dictRehashStep

LEMMA AddOK ==
    ASSUME NEW x0, DictOK(x0), NEW k \in Keys
    PROVE  LET r == Added(x0, k)
           IN  /\ DictOK(r.dict) /\ Elems(r.dict) = Elems(x0) \cup {k}
               /\ r.ok <=> k \notin Elems(x0)
<1> DEFINE x == _dictRehashStep(x0)
           refused == GrowTo(x) # 0 /\ ~CanExpand(x, GrowTo(x))
           y == IF GrowTo(x) # 0 /\ ~refused THEN Expanded(x, GrowTo(x)) ELSE x
           ok == ~refused /\ FoundIn(y, k) = {}
           z == [y EXCEPT !.ht[InsertInto(y)] = Linked(@, k)]
           r == Added(x0, k)
<1>1. r = [ok |-> ok, dict |-> IF ok THEN z ELSE y]
    BY DEF Added
<1>2. DictOK(x) /\ Elems(x) = Elems(x0)
    BY StepOK
<1> HIDE DEF x
<1>3. ~refused
    BY <1>2, GrowOK
<1>4. DictOK(y) /\ Elems(y) = Elems(x) /\ (dictIsRehashing(y) \/ y.ht[0].size > 0)
  <2>1. CASE GrowTo(x) # 0
    <3>1. y = Expanded(x, GrowTo(x)) /\ ~dictIsRehashing(x)
        BY <1>2, <1>3, <2>1, GrowOK DEF CanExpand
    <3> HIDE DEF y
    <3> QED BY <1>2, <2>1, <3>1, GrowOK, ExpandOK
  <2>2. CASE GrowTo(x) = 0
    <3>1. y = x
        BY <2>2
    <3> HIDE DEF y
    <3> QED BY <1>2, <2>2, <3>1, GrowOK
  <2> QED BY <2>1, <2>2
<1>5. ok <=> k \notin Elems(x0)
    BY <1>2, <1>3, <1>4, FoundFacts
<1>6. r.ok = ok /\ r.dict = IF ok THEN z ELSE y
    BY <1>1
<1> HIDE DEF y, r, ok
<1>7. CASE ~ok
    BY <1>2, <1>4, <1>5, <1>6, <1>7 DEF r
<1>8. CASE ok
  <2> DEFINE i == InsertInto(y)  t == y.ht[i]  l == Linked(t, k)
  <2>1. /\ DOMAIN y = {"ht", "rehashidx"} /\ DOMAIN y.ht = {0, 1}
        /\ TableOK(y.ht[0]) /\ TableOK(y.ht[1])
        /\ TableKeys(y.ht[0]) \cap TableKeys(y.ht[1]) = {}
        /\ dictIsRehashing(y) <=> y.ht[1].size # 0
      BY <1>4 DEF DictOK
  <2>2. /\ i \in {0, 1} /\ TableOK(t) /\ t.size > 0
        /\ i = 0 => ~dictIsRehashing(y) /\ y.rehashidx = -1
    <3>1. y.ht[0].size \in Nat /\ y.ht[1].size \in Nat
        BY <2>1, TableFacts
    <3> QED BY <1>4, <2>1, <3>1 DEF InsertInto, dictIsRehashing
  <2>3. k \notin TableKeys(y.ht[0]) /\ k \notin TableKeys(y.ht[1])
      BY <1>2, <1>4, <1>5, <1>8 DEF Elems
  <2>4. k \notin TableKeys(t)
      BY <2>2, <2>3
  <2>5. z = [y EXCEPT !.ht[i] = l]
      OBVIOUS
  <2> HIDE DEF i, t, z
  <2>6. TableOK(l) /\ l.size = t.size /\ TableKeys(l) = TableKeys(t) \cup {k}
      BY <2>2, <2>4, LinkedOK
  <2> HIDE DEF l
  <2>7. /\ DOMAIN z = {"ht", "rehashidx"} /\ DOMAIN z.ht = {0, 1}
        /\ z.ht[i] = l /\ z.ht[1 - i] = y.ht[1 - i] /\ z.rehashidx = y.rehashidx
      BY <2>1, <2>2, <2>5, PutTable
  <2>8. CASE i = 0
    <3>1. z.ht[0] = l /\ z.ht[1] = y.ht[1] /\ t = y.ht[0] /\ z.rehashidx = -1
        BY <2>2, <2>7, <2>8 DEF t
    <3>2. -1 \in -1 .. l.size /\ 0 .. -1 - 1 = {}
        BY <2>6, TableFacts
    <3>3. ~dictIsRehashing(z)
        BY <3>1 DEF dictIsRehashing
    <3>4. DictOK(z)
        BY <2>1, <2>2, <2>3, <2>6, <2>7, <2>8, <3>1, <3>2, <3>3 DEF DictOK
    <3>5. Elems(z) = Elems(y) \cup {k}
        BY <2>6, <3>1 DEF Elems
    <3> QED BY <1>2, <1>4, <1>5, <1>6, <1>8, <3>4, <3>5 DEF r
  <2>9. CASE i = 1
    <3>1. z.ht[1] = l /\ z.ht[0] = y.ht[0] /\ t = y.ht[1]
        BY <2>7, <2>9 DEF t
    <3>2. dictIsRehashing(z) <=> dictIsRehashing(y)
        BY <2>7 DEF dictIsRehashing
    <3>3. DictOK(z)
        BY <1>4, <2>1, <2>3, <2>6, <2>7, <3>1, <3>2 DEF DictOK
    <3>4. Elems(z) = Elems(y) \cup {k}
        BY <2>6, <3>1 DEF Elems
    <3> QED BY <1>2, <1>4, <1>5, <1>6, <1>8, <3>3, <3>4 DEF r
  <2> QED BY <2>2, <2>8, <2>9
<1> QED BY <1>7, <1>8
LEMMA DeleteOK ==
    ASSUME NEW x0, DictOK(x0), NEW k \in Keys
    PROVE  LET r == Deleted(x0, k)
           IN  /\ DictOK(r.dict) /\ Elems(r.dict) = Elems(x0) \ {k}
               /\ r.ok <=> k \in Elems(x0)
<1> DEFINE x == _dictRehashStep(x0)
           found == FoundIn(x, k)
           i == IF 0 \in found THEN 0 ELSE 1
           z == [x EXCEPT !.ht[i] = Unlinked(@, k)]
           r == Deleted(x0, k)
<1>1. CASE dictSize(x0) = 0
  <2>1. r = [ok |-> FALSE, dict |-> x0]
      BY <1>1 DEF Deleted
  <2>2. r.ok = FALSE /\ r.dict = x0
      BY <2>1
  <2>3. TableOK(x0.ht[0]) /\ TableOK(x0.ht[1])
      BY DEF DictOK
  <2>4. /\ x0.ht[0].used \in Nat /\ x0.ht[1].used \in Nat
        /\ x0.ht[0].used = 0 <=> TableKeys(x0.ht[0]) = {}
        /\ x0.ht[1].used = 0 <=> TableKeys(x0.ht[1]) = {}
      BY <2>3, TableFacts
  <2>5. x0.ht[0].used = 0 /\ x0.ht[1].used = 0
      BY <1>1, <2>4 DEF dictSize
  <2>6. Elems(x0) = {}
      BY <2>4, <2>5 DEF Elems
  <2> HIDE DEF r
  <2> QED BY <2>2, <2>6 DEF r
<1>2. CASE dictSize(x0) # 0
  <2>1. DictOK(x) /\ Elems(x) = Elems(x0)
      BY StepOK
  <2>2. CASE found = {}
    <3>1. r = [ok |-> FALSE, dict |-> x]
        BY <1>2, <2>2 DEF Deleted
    <3> HIDE DEF x
    <3>2. r.ok = FALSE /\ r.dict = x
        BY <3>1
    <3>3. k \notin Elems(x)
        BY <2>1, <2>2, FoundFacts
    <3> HIDE DEF r
    <3> QED BY <2>1, <3>2, <3>3 DEF r
  <2>3. CASE found # {}
    <3>1. r = [ok |-> TRUE, dict |-> z]
        BY <1>2, <2>3 DEF Deleted
    <3>2. r.ok = TRUE /\ r.dict = z
        BY <3>1
    <3> DEFINE t == x.ht[i]  l == Unlinked(t, k)
    <3> HIDE DEF x
    <3>3. /\ DOMAIN x = {"ht", "rehashidx"} /\ DOMAIN x.ht = {0, 1}
          /\ TableOK(x.ht[0]) /\ TableOK(x.ht[1])
          /\ TableKeys(x.ht[0]) \cap TableKeys(x.ht[1]) = {}
          /\ x.rehashidx \in -1 .. x.ht[0].size
          /\ dictIsRehashing(x) <=> x.ht[1].size # 0
          /\ dictIsRehashing(x) => x.ht[0].size # 0
          /\ \A b \in 0 .. x.rehashidx - 1 : x.ht[0].table[b] = {}
        BY <2>1 DEF DictOK
    <3>4. /\ 0 \in found <=> k \in TableKeys(x.ht[0])
          /\ 1 \in found <=> k \in TableKeys(x.ht[1])
          /\ found \subseteq {0, 1}
        BY <2>1, FoundFacts
    <3> HIDE DEF found
    <3>5. i \in {0, 1} /\ TableOK(t) /\ k \in TableKeys(t)
        BY <2>3, <3>3, <3>4
    <3>6. z = [x EXCEPT !.ht[i] = l]
        OBVIOUS
    <3> HIDE DEF r, i, t, z
    <3>7. /\ TableOK(l) /\ l.size = t.size /\ TableKeys(l) = TableKeys(t) \ {k}
          /\ \A b \in 0 .. t.size - 1 : l.table[b] \subseteq t.table[b]
        BY <3>5, UnlinkedOK
    <3> HIDE DEF l
    <3>8. /\ DOMAIN z = {"ht", "rehashidx"} /\ DOMAIN z.ht = {0, 1}
          /\ z.ht[i] = l /\ z.ht[1 - i] = x.ht[1 - i] /\ z.rehashidx = x.rehashidx
        BY <3>3, <3>5, <3>6, PutTable
    <3>9. dictIsRehashing(z) <=> dictIsRehashing(x)
        BY <3>8 DEF dictIsRehashing
    <3>10. k \in Elems(x0)
        BY <2>1, <3>5 DEF Elems, t
    <3>11. CASE i = 0
      <4>1. z.ht[0] = l /\ z.ht[1] = x.ht[1] /\ t = x.ht[0]
          BY <3>8, <3>11 DEF t
      <4>2. ASSUME NEW b \in 0 .. x.rehashidx - 1 PROVE l.table[b] = {}
        <5>1. b \in 0 .. t.size - 1
          <6>1. t.size \in Nat
              BY <3>5, TableFacts
          <6> QED BY <3>3, <4>1, <6>1
        <5> QED BY <3>3, <3>7, <4>1, <5>1
      <4>3. TableKeys(z.ht[0]) \cap TableKeys(z.ht[1]) = {}
          BY <3>3, <3>7, <4>1
      <4>4. DictOK(z)
          BY <3>3, <3>7, <3>8, <3>9, <4>1, <4>2, <4>3 DEF DictOK
      <4>5. Elems(z) = Elems(x) \ {k}
        <5>1. k \notin TableKeys(x.ht[1])
            BY <3>3, <3>5, <4>1
        <5> QED BY <3>7, <4>1, <5>1 DEF Elems
      <4> QED BY <2>1, <3>2, <3>10, <4>4, <4>5 DEF r
    <3>12. CASE i = 1
      <4>1. z.ht[1] = l /\ z.ht[0] = x.ht[0] /\ t = x.ht[1]
          BY <3>8, <3>12 DEF t
      <4>2. TableKeys(z.ht[0]) \cap TableKeys(z.ht[1]) = {}
          BY <3>3, <3>7, <4>1
      <4>3. DictOK(z)
          BY <3>3, <3>7, <3>8, <3>9, <4>1, <4>2 DEF DictOK
      <4>4. Elems(z) = Elems(x) \ {k}
        <5>1. k \notin TableKeys(x.ht[0])
            BY <3>3, <3>5, <4>1
        <5> QED BY <3>7, <4>1, <5>1 DEF Elems
      <4> QED BY <2>1, <3>2, <3>10, <4>3, <4>4 DEF r
    <3> QED BY <3>5, <3>11, <3>12
  <2> QED BY <2>2, <2>3
<1> QED BY <1>1, <1>2

(* The batches of m_dictRehashMilliseconds.                                *)
LEMMA BatchesOK ==
    ASSUME DictOK(d), m_dictRehashMilliseconds
    PROVE  DictOK(d') /\ Elems(d') = Elems(d)
<1> DEFINE Rec(g, m) == g = [n \in 0 .. m |-> IF n = 0 THEN d
                                              ELSE m_dictRehash(g[n - 1], RehashBatch)]
           S == {m \in Nat : \E g : Rec(g, m)}
<1>0. MaxBatches \in Nat /\ RehashBatch \in Nat
    BY DictAssumption
<1>1. 0 \in S
  <2> DEFINE g == [n \in 0 .. 0 |-> d]
  <2>1. Rec(g, 0)
      OBVIOUS
  <2> QED BY <2>1
<1>2. ASSUME NEW m \in Nat, m \in S PROVE m + 1 \in S
  <2>1. PICK g : Rec(g, m)
      BY <1>2
  <2> DEFINE h == [n \in 0 .. m + 1 |-> IF n = m + 1 THEN m_dictRehash(g[m], RehashBatch)
                                        ELSE g[n]]
  <2>2. \A n \in 0 .. m : g[n] = IF n = 0 THEN d ELSE m_dictRehash(g[n - 1], RehashBatch)
      BY <2>1
  <2>3. ASSUME NEW n \in 0 .. m + 1
        PROVE  h[n] = IF n = 0 THEN d ELSE m_dictRehash(h[n - 1], RehashBatch)
    <3>1. CASE n = m + 1
      <4>1. n # 0 /\ n - 1 = m /\ n - 1 \in 0 .. m + 1 /\ n - 1 # m + 1
          BY <3>1
      <4> QED BY <3>1, <4>1
    <3>2. CASE n = 0
        BY <2>2, <3>2
    <3>3. CASE n # 0 /\ n # m + 1
      <4>1. n \in 0 .. m /\ n - 1 \in 0 .. m + 1 /\ n - 1 # m + 1
          BY <3>3
      <4> QED BY <2>2, <3>3, <4>1
    <3> QED BY <3>1, <3>2, <3>3
  <2>4. h = [n \in 0 .. m + 1 |-> h[n]]
      OBVIOUS
  <2> HIDE DEF h
  <2>5. Rec(h, m + 1)
      BY <2>3, <2>4
  <2> QED BY <2>5
<1>3. MaxBatches \in S
  <2> HIDE DEF S
  <2> QED BY <1>0, <1>1, <1>2, NatSetInduction
<1> DEFINE c == CHOOSE g : Rec(g, MaxBatches)
<1>4. Rec(c, MaxBatches)
    BY <1>3
<1>5. \E n \in 1 .. MaxBatches : d' = c[n]
    BY DEF m_dictRehashMilliseconds
<1> HIDE DEF c
<1>6. c[0] = d /\ \A n \in 1 .. MaxBatches : c[n] = m_dictRehash(c[n - 1], RehashBatch)
    BY <1>0, <1>4
<1> DEFINE T == {n \in Nat : n <= MaxBatches => DictOK(c[n]) /\ Elems(c[n]) = Elems(d)}
<1>7. 0 \in T
    BY <1>6
<1>8. ASSUME NEW n \in Nat, n \in T PROVE n + 1 \in T
  <2> SUFFICES ASSUME n + 1 <= MaxBatches
               PROVE  DictOK(c[n + 1]) /\ Elems(c[n + 1]) = Elems(d)
      OBVIOUS
  <2>1. n + 1 \in 1 .. MaxBatches /\ (n + 1) - 1 = n /\ n <= MaxBatches
      BY <1>0
  <2>2. c[n + 1] = m_dictRehash(c[n], RehashBatch)
      BY <1>6, <2>1
  <2>3. DictOK(c[n]) /\ Elems(c[n]) = Elems(d)
      BY <1>8, <2>1
  <2> QED BY <1>0, <2>2, <2>3, RehashOK
<1>9. Nat \subseteq T
  <2> HIDE DEF T
  <2> QED BY <1>7, <1>8, NatSetInduction
<1>10. PICK n \in 1 .. MaxBatches : d' = c[n]
    BY <1>5
<1>11. n \in Nat /\ n <= MaxBatches
    BY <1>0
<1>12. DictOK(c[n]) /\ Elems(c[n]) = Elems(d)
    BY <1>9, <1>11
<1> QED BY <1>10, <1>12

(* Shrinking                                                               *)
LEMMA ResizeOK ==
    ASSUME DictOK(d), m_dictResize
    PROVE  DictOK(d') /\ Elems(d') = Elems(d)
<1>1. d' = Expanded(d, Minimal(d)) /\ ~dictIsRehashing(d)
    BY DEF m_dictResize, CanExpand
<1>2. d.ht[0].used \in Nat /\ d.ht[0].used <= Cardinality(Keys) /\ Cardinality(Keys) \in Nat
    BY TableFacts DEF DictOK
<1>3. /\ Minimal(d) \in Nat
      /\ Minimal(d) = DICT_HT_INITIAL_SIZE \/ Minimal(d) <= 2 * Cardinality(Keys)
    BY <1>2, DictAssumption DEF Minimal
<1> QED BY <1>1, <1>3, ExpandOK

LEMMA EmptyOK == DictOK(NoDict) /\ Elems(NoDict) = {}
<1>1. /\ DOMAIN NoDict = {"ht", "rehashidx"} /\ DOMAIN NoDict.ht = {0, 1}
      /\ NoDict.ht[0] = NoTable /\ NoDict.ht[1] = NoTable /\ NoDict.rehashidx = -1
    BY DEF NoDict
<1>2. ~dictIsRehashing(NoDict)
    BY <1>1 DEF dictIsRehashing
<1>3. -1 \in -1 .. 0 /\ 0 .. -1 - 1 = {}
    OBVIOUS
<1> QED BY <1>1, <1>2, <1>3, NoTableOK DEF DictOK, Elems

-----------------------------------------------------------------------------
(* Every step of the dict is a step of a set of keys.                      *)
LEMMA DictStep ==
    ASSUME DictOK(d), DictNext
    PROVE  /\ DictOK(d')
           /\ Set!Next \/ Elems(d') = Elems(d)
<1>1. ASSUME NEW k \in Keys, m_dictAdd(k)
      PROVE  DictOK(d') /\ Elems(d') = Elems(d) \cup {k}
    BY <1>1, AddOK DEF m_dictAdd
<1>2. ASSUME NEW k \in Keys, m_dictDelete(k)
      PROVE  DictOK(d') /\ Elems(d') = Elems(d) \ {k}
    BY <1>2, DeleteOK DEF m_dictDelete
<1>3. CASE m_dictGetRandomKey
    BY <1>3, StepOK DEF m_dictGetRandomKey
<1>4. CASE m_dictResize
    BY <1>4, ResizeOK
<1>5. CASE m_dictRehashMilliseconds
    BY <1>5, BatchesOK
<1>6. CASE m_dictEmpty
  <2>1. d' = NoDict
      BY <1>6 DEF m_dictEmpty
  <2>2. DictOK(d') /\ Elems(d') = {}
      BY <2>1, EmptyOK
  <2> QED BY <2>2 DEF Set!Next, Set!Clear
<1>7. ASSUME NEW k \in Keys, m_dictAdd(k) PROVE Set!Next \/ Elems(d') = Elems(d)
  <2>1. Elems(d') = Elems(d) \cup {k}
      BY <1>1, <1>7
  <2>2. CASE k \in Elems(d)
      BY <2>1, <2>2
  <2>3. CASE k \notin Elems(d)
      BY <2>1, <2>3 DEF Set!Next, Set!Add
  <2> QED BY <2>2, <2>3
<1>8. ASSUME NEW k \in Keys, m_dictDelete(k) PROVE Set!Next \/ Elems(d') = Elems(d)
  <2>1. Elems(d') = Elems(d) \ {k}
      BY <1>2, <1>8
  <2>2. CASE k \notin Elems(d)
      BY <2>1, <2>2
  <2>3. CASE k \in Elems(d)
      BY <2>1, <2>3 DEF Set!Next, Set!Remove
  <2> QED BY <2>2, <2>3
<1> QED BY <1>1, <1>2, <1>3, <1>4, <1>5, <1>6, <1>7, <1>8 DEF DictNext
-----------------------------------------------------------------------------
(* Theorems *)

(* The inductive invariant: counters are exact, every entry is in the      *)
(* bucket of its hash, and the part of the old table that was moved is     *)
(* empty, after every sequence of operations on the dict of a slot.        *)
THEOREM DictInvariant == DictSpec => []DictOK(d)
<1>1. DictInit => DictOK(d)
    BY EmptyOK DEF DictInit
<1>2. DictOK(d) /\ [DictNext]_d => DictOK(d)'
    BY DictStep
<1> QED BY <1>1, <1>2, PTL DEF DictSpec

(* Sizes, counters and rehashidx stay in their ranges, and the second      *)
(* table exists exactly while the dict is rehashing.                       *)
THEOREM DictTypeCorrect == DictSpec => []DictTypeOK
<1>1. DictOK(d) => DictTypeOK
  <2> SUFFICES ASSUME DictOK(d) PROVE DictTypeOK
      OBVIOUS
  <2>1. ASSUME NEW t, TableOK(t) PROVE IsTable(t)
    <3>1. /\ t.used \in Nat /\ t.used <= Cardinality(Keys) /\ Cardinality(Keys) \in Nat
        BY <2>1, TableFacts
    <3>2. t.used \in 0 .. Cardinality(Keys)
        BY <3>1
    <3> QED BY <2>1, <3>2 DEF TableOK, IsTable
  <2> QED BY <2>1 DEF DictOK, DictTypeOK
<1> QED BY <1>1, DictInvariant, PTL

(* Every entry is in exactly one bucket, the one a search looks at, after  *)
(* every mix of growing, shrinking and steps of rehashing.                 *)
THEOREM EntriesArePlaced == DictSpec => []Placed
<1>1. DictOK(d) => Placed
  <2> SUFFICES ASSUME DictOK(d) PROVE Placed
      OBVIOUS
  <2>1. ASSUME NEW t, TableOK(t), NEW b \in DOMAIN t.table, NEW k \in t.table[b]
        PROVE  Index(t, k) = b
      BY <2>1 DEF TableOK
  <2>2. TableOK(d.ht[0]) /\ TableOK(d.ht[1]) /\ TableKeys(d.ht[0]) \cap TableKeys(d.ht[1]) = {}
      BY DEF DictOK
  <2> QED BY <2>1, <2>2 DEF Placed
<1> QED BY <1>1, DictInvariant, PTL

(* "rehashidx can't overflow": the assertion of m_dictRehash holds, and    *)
(* its walk to the next bucket ends inside the table.                      *)
THEOREM RehashNeverOverruns == DictSpec => []RehashIndexSafe
<1>1. DictOK(d) => RehashIndexSafe
  <2> SUFFICES ASSUME DictOK(d) PROVE RehashIndexSafe
      OBVIOUS
  <2>1. \A i \in {0, 1} : d.ht[i].used = Cardinality(TableKeys(d.ht[i]))
      BY DEF DictOK, TableOK
  <2>2. \A b \in 0 .. d.rehashidx - 1 : d.ht[0].table[b] = {}
      BY DEF DictOK
  <2>3. ASSUME dictIsRehashing(d), d.ht[0].used # 0 PROVE d.rehashidx < d.ht[0].size
    <3> DEFINE b == NextUsed(d.ht[0], d.rehashidx)
    <3>1. b \in d.rehashidx .. d.ht[0].size - 1
        BY <2>3, NextUsedFacts
    <3>2. d.ht[0].size \in Nat /\ d.rehashidx \in -1 .. d.ht[0].size
        BY TableFacts DEF DictOK
    <3> HIDE DEF b
    <3> QED BY <3>1, <3>2
  <2> QED BY <2>1, <2>2, <2>3 DEF RehashIndexSafe
<1> QED BY <1>1, DictInvariant, PTL

(* m_dictGetRandomKey can draw every key of the dict, and nothing else,    *)
(* whatever part of a rehash is done: SLOTSMGRTSLOT reaches every key.     *)
THEOREM RandomDrawsAll == DictSpec => []RandomReachesAll
<1>1. DictOK(d) => RandomReachesAll
  <2> SUFFICES ASSUME DictOK(d) PROVE Drawable(d) = Elems(d)
      BY DEF RandomReachesAll
  <2> DEFINE s == d.ht[0]  t == d.ht[1]  r == d.rehashidx
  <2>1. /\ TableOK(s) /\ TableOK(t) /\ r \in -1 .. s.size
        /\ dictIsRehashing(d) <=> t.size # 0
        /\ \A b \in 0 .. r - 1 : s.table[b] = {}
      BY DEF DictOK
  <2>2. /\ s.size \in Nat /\ t.size \in Nat
        /\ \A k : k \in TableKeys(s) <=> \E b \in 0 .. s.size - 1 : k \in s.table[b]
        /\ \A k : k \in TableKeys(t) <=> \E b \in 0 .. t.size - 1 : k \in t.table[b]
      BY <2>1, TableFacts
  <2>3. Elems(d) = TableKeys(s) \cup TableKeys(t)
      BY DEF Elems
  <2>4. CASE ~dictIsRehashing(d)
    <3>1. Drawable(d) = UNION {s.table[h] : h \in 0 .. s.size - 1}
        BY <2>4 DEF Drawable
    <3>2. TableKeys(t) = {}
      <4>1. t.size = 0
          BY <2>1, <2>4
      <4> HIDE DEF t
      <4> QED BY <2>2, <4>1
    <3> HIDE DEF s, t
    <3> QED BY <2>2, <2>3, <3>1, <3>2
  <2>5. CASE dictIsRehashing(d)
    <3> DEFINE n == s.size + t.size - 1
    <3>0. dictSlots(d) - 1 = n
        BY <2>2 DEF dictSlots
    <3>1. \A k : k \in Drawable(d) <=> \E h \in r .. n :
                   k \in IF h >= s.size THEN t.table[h - s.size] ELSE s.table[h]
      <4> HIDE DEF n
      <4> QED BY <2>5, <3>0 DEF Drawable
    <3>2. r # -1
        BY <2>5 DEF dictIsRehashing
    <3> HIDE DEF s, t, r
    <3>r. r \in Nat /\ r <= s.size
        BY <2>1, <2>2, <3>2
    <3>3. ASSUME NEW k, k \in Drawable(d) PROVE k \in Elems(d)
      <4>1. PICK h \in r .. n : k \in IF h >= s.size THEN t.table[h - s.size] ELSE s.table[h]
          BY <3>1, <3>3
      <4>2. CASE h >= s.size
        <5>1. h - s.size \in 0 .. t.size - 1
            BY <2>2, <3>r, <4>2
        <5> QED BY <2>2, <2>3, <4>1, <4>2, <5>1
      <4>3. CASE ~(h >= s.size)
        <5>1. h \in 0 .. s.size - 1
            BY <2>2, <3>r, <4>3
        <5> QED BY <2>2, <2>3, <4>1, <4>3, <5>1
      <4> QED BY <4>2, <4>3
    <3>4. ASSUME NEW k, k \in TableKeys(s) PROVE k \in Drawable(d)
      <4>1. PICK b \in 0 .. s.size - 1 : k \in s.table[b]
          BY <2>2, <3>4
      <4>2. ~(b \in 0 .. r - 1)
          BY <2>1, <4>1
      <4>3. b \in r .. n /\ ~(b >= s.size)
          BY <2>2, <3>r, <4>2
      <4> QED BY <3>1, <4>1, <4>3
    <3>5. ASSUME NEW k, k \in TableKeys(t) PROVE k \in Drawable(d)
      <4>1. PICK b \in 0 .. t.size - 1 : k \in t.table[b]
          BY <2>2, <3>5
      <4> DEFINE h == b + s.size
      <4>2. h \in r .. n /\ h >= s.size /\ h - s.size = b
          BY <2>2, <3>r
      <4> HIDE DEF h
      <4> QED BY <3>1, <4>1, <4>2
    <3> QED BY <2>3, <3>3, <3>4, <3>5
  <2> QED BY <2>4, <2>5
<1> QED BY <1>1, DictInvariant, PTL

(* m_dictAdd answers DICT_OK exactly for a key that is not there (growing  *)
(* is never refused), m_dictDelete exactly for one that is: the skiplist,  *)
(* which follows these answers, misses and doubles nothing.                *)
THEOREM AnswersAreRight == DictSpec => []AnswersRight
<1>1. DictOK(d) => AnswersRight
    BY AddOK, DeleteOK DEF AnswersRight
<1> QED BY <1>1, DictInvariant, PTL

(* The dict implements a set of keys: an operation changes its own key,    *)
(* maintenance changes none.                                               *)
THEOREM DictIsKeySet == DictSpec => IsKeySet
<1>1. DictInit => Set!Init
    BY EmptyOK DEF DictInit, Set!Init
<1>2. DictOK(d) /\ [DictNext]_d => [Set!Next]_(Elems(d))
  <2>1. ASSUME UNCHANGED d PROVE UNCHANGED Elems(d)
      BY <2>1 DEF Elems, TableKeys
  <2> QED BY <2>1, DictStep
<1> QED BY <1>1, <1>2, DictInvariant, PTL DEF DictSpec, IsKeySet, Set!Spec

(* SLOTSSCAN and SLOTSDEL touch the dict of a slot through its operations  *)
(* only, so everything above holds while they walk through it.             *)
THEOREM WalksUseTheDict == Spec => DictSpec
<1>1. Init => DictInit /\ DictOK(d)
    BY EmptyOK DEF Init, DictInit
<1>2. DictOK(d) /\ [Next]_vars => [DictNext]_d
  <2> SUFFICES ASSUME DictOK(d), [Next]_vars PROVE [DictNext]_d
      OBVIOUS
  <2>1. Elems(d) \subseteq Keys
      BY TableFacts DEF DictOK, Elems
  <2>2. ASSUME NEW k, Unlink(k) PROVE [DictNext]_d
      BY <2>1, <2>2 DEF Unlink, DictNext
  <2>3. CASE DelUnlink
      BY <2>2, <2>3 DEF DelUnlink
  <2>4. CASE Others
      BY <2>4 DEF Others
  <2>5. CASE \E n \in Counts : SlotsScan(n)
    <3>1. PICK n \in Counts : SlotsScan(n)
        BY <2>5
    <3>2. d' = d
        BY <3>1, Zenon DEF SlotsScan
    <3> QED BY <3>2
  <2>6. CASE UNCHANGED vars
      BY <2>6 DEF vars
  <2> QED BY <2>3, <2>4, <2>5, <2>6
          DEF Next, SlotsDel, DelStep, DelRefused, DelLoop, DelScan
<1>3. DictOK(d) /\ [DictNext]_d => DictOK(d)'
    BY DictStep
<1> QED BY <1>1, <1>2, <1>3, PTL DEF Spec, DictSpec

-----------------------------------------------------------------------------
(* Remainders *)

(* Division with remainder.                                                *)
LEMMA DivFacts ==
    ASSUME NEW a \in Nat, NEW S \in Nat \ {0}
    PROVE  /\ a % S \in Nat /\ a % S < S /\ a \div S \in Nat
           /\ a = S * (a \div S) + (a % S)
OBVIOUS

(* The remainder is the only one.                                          *)
LEMMA ModUnique ==
    ASSUME NEW x \in Nat, NEW m \in Nat \ {0}, NEW q \in Nat, NEW r \in Nat, r < m,
           x = m * q + r
    PROVE  x % m = r
<1> DEFINE q2 == x \div m  r2 == x % m
<1>1. q2 \in Nat /\ r2 \in Nat /\ r2 < m /\ x = m * q2 + r2
    BY DivFacts
<1> HIDE DEF q2, r2
<1>2. CASE q2 = q
    BY <1>1, <1>2 DEF r2
<1>3. CASE q2 > q
  <2>1. PICK e \in Nat : q2 = q + 1 + e
    <3>1. q2 - q - 1 \in Nat /\ q2 = q + 1 + (q2 - q - 1)
        BY <1>1, <1>3
    <3> QED BY <3>1
  <2>2. m * q2 = m * q + m + m * e /\ m * e \in Nat
      BY <2>1
  <2> QED BY <1>1, <2>2
<1>4. CASE q2 < q
  <2>1. PICK e \in Nat : q = q2 + 1 + e
    <3>1. q - q2 - 1 \in Nat /\ q = q2 + 1 + (q - q2 - 1)
        BY <1>1, <1>4
    <3> QED BY <3>1
  <2>2. m * q = m * q2 + m + m * e /\ m * e \in Nat
      BY <1>1, <2>1
  <2> QED BY <1>1, <2>2
<1> QED BY <1>1, <1>2, <1>3, <1>4

(* One low bit more: the rest is compared as before.                       *)
LEMMA ModDouble ==
    ASSUME NEW a \in Nat, NEW S \in Nat \ {0}, NEW b \in {0, 1}
    PROVE  (2 * a + b) % (2 * S) = 2 * (a % S) + b
<1> DEFINE q == a \div S  r == a % S
<1>1. r \in Nat /\ r < S /\ q \in Nat /\ a = S * q + r
    BY DivFacts
<1> HIDE DEF q, r
<1>2. 2 * a + b = (2 * S) * q + (2 * r + b)
  <2>1. (2 * S) * q = 2 * (S * q) /\ S * q \in Nat
      BY <1>1
  <2> QED BY <1>1, <2>1
<1>3. 2 * r + b \in Nat /\ 2 * r + b < 2 * S /\ 2 * a + b \in Nat /\ 2 * S \in Nat \ {0}
    BY <1>1
<1>4. (2 * a + b) % (2 * S) = 2 * r + b
    BY <1>1, <1>2, <1>3, ModUnique
<1> QED BY <1>4 DEF r

-----------------------------------------------------------------------------
(* Words and their reversal *)

(* The definition of the powers of two has a solution.                     *)
LEMMA TwoToFacts ==
    /\ TwoTo[0] = 1
    /\ \A n \in 1 .. WordBits : TwoTo[n] = 2 * TwoTo[n - 1]
    /\ \A n \in 0 .. WordBits : TwoTo[n] \in Nat \ {0}
<1> DEFINE F(v) == 2 * v
<1> HIDE DEF F
<1> DEFINE Rec(g, m) == g = [k \in 0 .. m |-> IF k = 0 THEN 1 ELSE F(g[k - 1])]
           S == {m \in Nat : \E g : Rec(g, m)}
<1>0. WordBits \in Nat
    BY ScanAssumption
<1>1. 0 \in S
  <2> DEFINE g == [k \in 0 .. 0 |-> 1]
  <2>1. Rec(g, 0)
      OBVIOUS
  <2> QED BY <2>1
<1>2. ASSUME NEW n \in Nat, n \in S PROVE n + 1 \in S
  <2>1. PICK g : Rec(g, n)
      BY <1>2
  <2> DEFINE h == [k \in 0 .. n + 1 |-> IF k = n + 1 THEN F(g[n]) ELSE g[k]]
  <2>2. \A k \in 0 .. n : g[k] = IF k = 0 THEN 1 ELSE F(g[k - 1])
      BY <2>1
  <2>3. ASSUME NEW k \in 0 .. n + 1
        PROVE  h[k] = IF k = 0 THEN 1 ELSE F(h[k - 1])
    <3>1. CASE k = n + 1
      <4>1. k # 0 /\ k - 1 = n /\ k - 1 \in 0 .. n + 1 /\ k - 1 # n + 1
          BY <3>1
      <4> QED BY <3>1, <4>1
    <3>2. CASE k = 0
        BY <2>2, <3>2
    <3>3. CASE k # 0 /\ k # n + 1
      <4>1. k \in 0 .. n /\ k - 1 \in 0 .. n + 1 /\ k - 1 # n + 1
          BY <3>3
      <4> QED BY <2>2, <3>3, <4>1
    <3> QED BY <3>1, <3>2, <3>3
  <2>4. h = [k \in 0 .. n + 1 |-> h[k]]
      OBVIOUS
  <2> HIDE DEF h
  <2>5. Rec(h, n + 1)
      BY <2>3, <2>4
  <2> QED BY <2>5
<1>3. WordBits \in S
  <2> HIDE DEF S
  <2> QED BY <1>0, <1>1, <1>2, NatSetInduction
<1>4. TwoTo = CHOOSE g : Rec(g, WordBits)
    BY DEF TwoTo, F
<1>5. Rec(TwoTo, WordBits)
    BY <1>3, <1>4
<1> HIDE DEF S
<1>6. TwoTo[0] = 1 /\ \A n \in 1 .. WordBits : TwoTo[n] = 2 * TwoTo[n - 1]
    BY <1>0, <1>5 DEF F
<1> DEFINE T == {n \in Nat : n <= WordBits => TwoTo[n] \in Nat \ {0}}
<1>7. 0 \in T
    BY <1>6
<1>8. ASSUME NEW n \in Nat, n \in T PROVE n + 1 \in T
  <2>1. ASSUME n + 1 <= WordBits PROVE TwoTo[n + 1] \in Nat \ {0}
    <3>1. n + 1 \in 1 .. WordBits /\ (n + 1) - 1 = n /\ n <= WordBits
        BY <1>0, <2>1
    <3>2. TwoTo[n + 1] = 2 * TwoTo[n] /\ TwoTo[n] \in Nat \ {0}
        BY <1>6, <1>8, <3>1
    <3> QED BY <3>2
  <2> QED BY <2>1
<1>9. Nat \subseteq T
  <2> HIDE DEF T
  <2> QED BY <1>7, <1>8, NatSetInduction
<1>10. \A n \in 0 .. WordBits : TwoTo[n] \in Nat \ {0}
    BY <1>0, <1>9
<1> QED BY <1>6, <1>10

(* So has the definition of the reversed words.                            *)
LEMMA ReversedForm ==
    /\ Reversed[0] = [v \in {0} |-> 0]
    /\ \A n \in 1 .. WordBits : Reversed[n] =
          [v \in 0 .. TwoTo[n] - 1 |-> (v % 2) * TwoTo[n - 1] + Reversed[n - 1][v \div 2]]
<1> DEFINE p == [v \in {0} |-> 0]
           F(n, f) == [v \in 0 .. TwoTo[n] - 1 |-> (v % 2) * TwoTo[n - 1] + f[v \div 2]]
<1> HIDE DEF F, p
<1> DEFINE Rec(g, m) == g = [k \in 0 .. m |-> IF k = 0 THEN p ELSE F(k, g[k - 1])]
           S == {m \in Nat : \E g : Rec(g, m)}
<1>0. WordBits \in Nat
    BY ScanAssumption
<1>1. 0 \in S
  <2> DEFINE g == [k \in 0 .. 0 |-> p]
  <2>1. Rec(g, 0)
      OBVIOUS
  <2> QED BY <2>1
<1>2. ASSUME NEW n \in Nat, n \in S PROVE n + 1 \in S
  <2>1. PICK g : Rec(g, n)
      BY <1>2
  <2> DEFINE h == [k \in 0 .. n + 1 |-> IF k = n + 1 THEN F(n + 1, g[n]) ELSE g[k]]
  <2>2. \A k \in 0 .. n : g[k] = IF k = 0 THEN p ELSE F(k, g[k - 1])
      BY <2>1
  <2>3. ASSUME NEW k \in 0 .. n + 1
        PROVE  h[k] = IF k = 0 THEN p ELSE F(k, h[k - 1])
    <3>1. CASE k = n + 1
      <4>1. k # 0 /\ k - 1 = n /\ k - 1 \in 0 .. n + 1 /\ k - 1 # n + 1
          BY <3>1
      <4> QED BY <3>1, <4>1
    <3>2. CASE k = 0
        BY <2>2, <3>2
    <3>3. CASE k # 0 /\ k # n + 1
      <4>1. k \in 0 .. n /\ k - 1 \in 0 .. n + 1 /\ k - 1 # n + 1
          BY <3>3
      <4> QED BY <2>2, <3>3, <4>1
    <3> QED BY <3>1, <3>2, <3>3
  <2>4. h = [k \in 0 .. n + 1 |-> h[k]]
      OBVIOUS
  <2> HIDE DEF h
  <2>5. Rec(h, n + 1)
      BY <2>3, <2>4
  <2> QED BY <2>5
<1>3. WordBits \in S
  <2> HIDE DEF S
  <2> QED BY <1>0, <1>1, <1>2, NatSetInduction
<1>4. Reversed = CHOOSE g : Rec(g, WordBits)
    BY DEF Reversed, F, p
<1>5. Rec(Reversed, WordBits)
    BY <1>3, <1>4
<1>6. Reversed[0] = p /\ \A n \in 1 .. WordBits : Reversed[n] = F(n, Reversed[n - 1])
    BY <1>0, <1>5
<1> QED BY <1>6 DEF F, p

(* A word of n bits is its lowest bit and a word of n - 1 bits ...         *)
LEMMA LowBit ==
    ASSUME NEW n \in 1 .. WordBits, NEW v \in 0 .. TwoTo[n] - 1
    PROVE  \E a \in 0 .. TwoTo[n - 1] - 1, b \in {0, 1} : v = 2 * a + b
<1> DEFINE P == TwoTo[n - 1]
<1>1. P \in Nat \ {0} /\ TwoTo[n] = 2 * P
  <2>1. n - 1 \in 0 .. WordBits
      BY ScanAssumption
  <2> QED BY <2>1, TwoToFacts
<1> HIDE DEF P
<1>2. v \in Nat /\ v < 2 * P
    BY <1>1
<1>3. v \div 2 \in 0 .. P - 1 /\ v % 2 \in {0, 1} /\ v = 2 * (v \div 2) + (v % 2)
    BY <1>1, <1>2
<1> QED BY <1>3 DEF P

(* ... and reversed it is that bit at the top.                             *)
LEMMA RevBit ==
    ASSUME NEW n \in 1 .. WordBits, NEW a \in 0 .. TwoTo[n - 1] - 1, NEW b \in {0, 1}
    PROVE  /\ 2 * a + b \in 0 .. TwoTo[n] - 1
           /\ Reversed[n][2 * a + b] = IF b = 1 THEN TwoTo[n - 1] + Reversed[n - 1][a]
                                       ELSE 0 + Reversed[n - 1][a]
<1> DEFINE P == TwoTo[n - 1]  v == 2 * a + b  f == Reversed[n - 1]
<1>1. P \in Nat \ {0} /\ TwoTo[n] = 2 * P
  <2>1. n - 1 \in 0 .. WordBits
      BY ScanAssumption
  <2> QED BY <2>1, TwoToFacts
<1>2. Reversed[n] = [w \in 0 .. TwoTo[n] - 1 |-> (w % 2) * P + f[w \div 2]]
    BY ReversedForm
<1>3. a \in 0 .. P - 1
    OBVIOUS
<1> HIDE DEF P, f
<1>4. v \in 0 .. 2 * P - 1 /\ v % 2 = b /\ v \div 2 = a
    BY <1>1, <1>3
<1> HIDE DEF v
<1>5. Reversed[n][v] = b * P + f[a]
    BY <1>1, <1>2, <1>4
<1>6. b * P = IF b = 1 THEN P ELSE 0
    BY <1>1
<1>7. Reversed[n][v] = IF b = 1 THEN P + f[a] ELSE 0 + f[a]
    BY <1>5, <1>6
<1> QED BY <1>1, <1>4, <1>7 DEF v, P, f

(* A reversed word is a word.                                              *)
LEMMA RevRange ==
    \A n \in 0 .. WordBits : \A v \in 0 .. TwoTo[n] - 1 : Reversed[n][v] \in 0 .. TwoTo[n] - 1
<1> DEFINE S == {n \in Nat : n <= WordBits =>
                    \A v \in 0 .. TwoTo[n] - 1 : Reversed[n][v] \in 0 .. TwoTo[n] - 1}
<1>0. WordBits \in Nat
    BY ScanAssumption
<1>1. 0 \in S
    BY TwoToFacts, ReversedForm
<1>2. ASSUME NEW n \in Nat, n \in S PROVE n + 1 \in S
  <2>1. ASSUME n + 1 <= WordBits, NEW v \in 0 .. TwoTo[n + 1] - 1
        PROVE  Reversed[n + 1][v] \in 0 .. TwoTo[n + 1] - 1
    <3>1. n + 1 \in 1 .. WordBits /\ (n + 1) - 1 = n /\ n <= WordBits /\ n \in 0 .. WordBits
        BY <1>0, <2>1
    <3>2. PICK a \in 0 .. TwoTo[n] - 1, b \in {0, 1} : v = 2 * a + b
        BY <2>1, <3>1, LowBit
    <3>3. Reversed[n + 1][v] = IF b = 1 THEN TwoTo[n] + Reversed[n][a] ELSE 0 + Reversed[n][a]
        BY <3>1, <3>2, RevBit
    <3>4. Reversed[n][a] \in 0 .. TwoTo[n] - 1
        BY <1>2, <3>1
    <3>5. TwoTo[n] \in Nat \ {0} /\ TwoTo[n + 1] = 2 * TwoTo[n]
        BY <3>1, TwoToFacts
    <3> QED BY <3>3, <3>4, <3>5
  <2> QED BY <2>1
<1>3. Nat \subseteq S
  <2> HIDE DEF S
  <2> QED BY <1>1, <1>2, NatSetInduction
<1> QED BY <1>0, <1>3

(* A word whose highest bit is b, reversed.                                *)
LEMMA RevTop ==
    \A n \in 1 .. WordBits : \A u \in 0 .. TwoTo[n - 1] - 1 :
        /\ Reversed[n][u] = 2 * Reversed[n - 1][u]
        /\ Reversed[n][TwoTo[n - 1] + u] = 2 * Reversed[n - 1][u] + 1
<1> DEFINE Goal(n) == \A u \in 0 .. TwoTo[n - 1] - 1 :
               /\ Reversed[n][u] = 2 * Reversed[n - 1][u]
               /\ Reversed[n][TwoTo[n - 1] + u] = 2 * Reversed[n - 1][u] + 1
           S == {n \in Nat : n + 1 <= WordBits => Goal(n + 1)}
<1>0. WordBits \in Nat
    BY ScanAssumption
<1>1. 0 \in S
  <2>1. ASSUME 1 <= WordBits, NEW u \in 0 .. TwoTo[(0 + 1) - 1] - 1
        PROVE  /\ Reversed[0 + 1][u] = 2 * Reversed[(0 + 1) - 1][u]
               /\ Reversed[0 + 1][TwoTo[(0 + 1) - 1] + u] = 2 * Reversed[(0 + 1) - 1][u] + 1
    <3>1. 1 \in 1 .. WordBits /\ 1 - 1 = 0 /\ 0 + 1 = 1 /\ (0 + 1) - 1 = 0
        BY <1>0, <2>1
    <3>2. TwoTo[0] = 1 /\ Reversed[0][0] = 0
        BY TwoToFacts, ReversedForm
    <3>3. u = 0 /\ 0 \in 0 .. TwoTo[0] - 1
        BY <2>1, <3>1, <3>2
    <3>4. /\ Reversed[1][2 * 0 + 0] = 0 + Reversed[0][0]
          /\ Reversed[1][2 * 0 + 1] = TwoTo[0] + Reversed[0][0]
        BY <3>1, <3>3, RevBit
    <3>5. Reversed[1][0] = 0 /\ Reversed[1][1] = 1
        BY <3>2, <3>4
    <3> QED BY <3>1, <3>2, <3>3, <3>5
  <2> QED BY <2>1
<1>2. ASSUME NEW n \in Nat, n \in S PROVE n + 1 \in S
  <2>1. ASSUME (n + 1) + 1 <= WordBits PROVE Goal((n + 1) + 1)
    <3> DEFINE m == n + 1
    <3>1. /\ m \in 1 .. WordBits /\ m + 1 \in 1 .. WordBits /\ (m + 1) - 1 = m /\ n + 1 <= WordBits
          /\ m - 1 \in 0 .. WordBits /\ m \in 0 .. WordBits
        BY <1>0, <2>1
    <3>2. Goal(m)
        BY <1>2, <3>1
    <3> HIDE DEF m
    <3>3. ASSUME NEW u \in 0 .. TwoTo[m] - 1
          PROVE  /\ Reversed[m + 1][u] = 2 * Reversed[m][u]
                 /\ Reversed[m + 1][TwoTo[m] + u] = 2 * Reversed[m][u] + 1
      <4> DEFINE Q == TwoTo[m - 1]  f == Reversed[m - 1]
      <4>1. PICK a \in 0 .. Q - 1, b \in {0, 1} : u = 2 * a + b
          BY <3>1, LowBit
      <4>2. TwoTo[m] = 2 * Q /\ Q \in Nat \ {0} /\ TwoTo[m + 1] = 2 * TwoTo[m]
          BY <3>1, TwoToFacts
      <4>3. a \in 0 .. TwoTo[m] - 1 /\ Q + a \in 0 .. TwoTo[m] - 1
          BY <4>1, <4>2
      <4>4. TwoTo[m] + u = 2 * (Q + a) + b
          BY <4>1, <4>2
      <4>5. /\ Reversed[m + 1][u] = IF b = 1 THEN TwoTo[m] + Reversed[m][a] ELSE 0 + Reversed[m][a]
            /\ Reversed[m + 1][TwoTo[m] + u] =
                  IF b = 1 THEN TwoTo[m] + Reversed[m][Q + a] ELSE 0 + Reversed[m][Q + a]
        <5>1. ASSUME NEW y \in 0 .. TwoTo[m] - 1
              PROVE  Reversed[m + 1][2 * y + b] =
                        IF b = 1 THEN TwoTo[m] + Reversed[m][y] ELSE 0 + Reversed[m][y]
          <6> HIDE DEF Q, f
          <6> QED BY <3>1, RevBit
        <5> HIDE DEF Q, f
        <5> QED BY <4>1, <4>3, <4>4, <5>1
      <4>6. Reversed[m][a] = 2 * f[a] /\ Reversed[m][Q + a] = 2 * f[a] + 1
          BY <3>2, <4>1
      <4>7. Reversed[m][u] = IF b = 1 THEN Q + f[a] ELSE 0 + f[a]
          BY <3>1, <4>1, RevBit
      <4>8. f[a] \in Nat
          BY <3>1, <4>1, RevRange
      <4> HIDE DEF Q, f
      <4> QED BY <4>2, <4>5, <4>6, <4>7, <4>8
    <3> QED BY <3>1, <3>3 DEF m
  <2> HIDE DEF Goal
  <2> QED BY <2>1
<1>3. Nat \subseteq S
  <2> HIDE DEF S
  <2> QED BY <1>1, <1>2, NatSetInduction
<1>4. ASSUME NEW n \in 1 .. WordBits PROVE Goal(n)
  <2>1. n - 1 \in Nat /\ (n - 1) + 1 = n /\ n <= WordBits
      BY <1>0
  <2> HIDE DEF Goal
  <2>2. n - 1 \in S
      BY <1>3, <2>1
  <2> QED BY <2>1, <2>2
<1> QED BY <1>4

(* Reversing twice gives the word back.                                    *)
LEMMA RevRev ==
    \A n \in 0 .. WordBits : \A v \in 0 .. TwoTo[n] - 1 : Reversed[n][Reversed[n][v]] = v
<1> DEFINE S == {n \in Nat : n <= WordBits =>
                    \A v \in 0 .. TwoTo[n] - 1 : Reversed[n][Reversed[n][v]] = v}
<1>0. WordBits \in Nat
    BY ScanAssumption
<1>1. 0 \in S
    BY TwoToFacts, ReversedForm
<1>2. ASSUME NEW n \in Nat, n \in S PROVE n + 1 \in S
  <2>1. ASSUME n + 1 <= WordBits, NEW v \in 0 .. TwoTo[n + 1] - 1
        PROVE  Reversed[n + 1][Reversed[n + 1][v]] = v
    <3>1. n + 1 \in 1 .. WordBits /\ (n + 1) - 1 = n /\ n <= WordBits /\ n \in 0 .. WordBits
        BY <1>0, <2>1
    <3>2. PICK a \in 0 .. TwoTo[n] - 1, b \in {0, 1} : v = 2 * a + b
        BY <2>1, <3>1, LowBit
    <3> DEFINE u == Reversed[n][a]
    <3>3. Reversed[n + 1][v] = IF b = 1 THEN TwoTo[n] + u ELSE 0 + u
        BY <3>1, <3>2, RevBit
    <3>4. u \in 0 .. TwoTo[n] - 1 /\ Reversed[n][u] = a
        BY <1>2, <3>1, RevRange
    <3> HIDE DEF u
    <3>5. Reversed[n + 1][u] = 2 * a /\ Reversed[n + 1][TwoTo[n] + u] = 2 * a + 1
        BY <3>1, <3>4, RevTop
    <3>6. 0 + u = u
        BY <3>4
    <3> QED BY <3>2, <3>3, <3>5, <3>6
  <2> QED BY <2>1
<1>3. Nat \subseteq S
  <2> HIDE DEF S
  <2> QED BY <1>1, <1>2, NatSetInduction
<1> QED BY <1>0, <1>3

(* In words of m bits: the words that agree with v in their p low bits are *)
(* after reversal a block of TwoTo[m - p] consecutive words, which starts  *)
(* at the reversal of v % TwoTo[p] and ends at that of v with all other    *)
(* bits set.                                                               *)
Block(m, p, v, h) ==
    LET r == Reversed[m][v % TwoTo[p]]
        c == TwoTo[m - p]
        e == (v % TwoTo[p]) + (TwoTo[m] - TwoTo[p])
    IN  /\ v % TwoTo[p] \in 0 .. TwoTo[m] - 1 /\ r + c <= TwoTo[m]
        /\ h % TwoTo[p] = v % TwoTo[p] <=> r <= Reversed[m][h] /\ Reversed[m][h] < r + c
        /\ e \in 0 .. TwoTo[m] - 1 /\ Reversed[m][e] = (r + c) - 1

(* One bit more: with no bits compared ...                                 *)
LEMMA BlockAll ==
    ASSUME NEW m \in 1 .. WordBits, NEW v \in 0 .. TwoTo[m] - 1, NEW h \in 0 .. TwoTo[m] - 1,
           Block(m - 1, 0, 0, 0)
    PROVE  Block(m, 0, v, h)
<1> DEFINE P == TwoTo[m - 1]  f == Reversed[m - 1]
<1>1. m - 1 \in 0 .. WordBits /\ (m - 1) - 0 = m - 1 /\ m - 0 = m /\ m \in 0 .. WordBits
    BY ScanAssumption
<1>2. P \in Nat \ {0} /\ TwoTo[m] = 2 * P /\ TwoTo[0] = 1
    BY <1>1, TwoToFacts
<1>3. 0 % 1 = 0 /\ v % 1 = 0 /\ h % 1 = 0
    BY <1>2
<1>4. f[0] + P <= P /\ f[0 + (P - 1)] = (f[0] + P) - 1
    BY <1>1, <1>2, <1>3 DEF Block
<1>5. 0 \in 0 .. P - 1 /\ P - 1 \in 0 .. P - 1 /\ 0 + (P - 1) = P - 1
    BY <1>2
<1>6. f[0] \in Nat
    BY <1>1, <1>5, RevRange
<1>7. Reversed[m][2 * 0 + 0] = 0 + f[0] /\ Reversed[m][2 * (P - 1) + 1] = P + f[P - 1]
    BY <1>5, RevBit
<1>8. Reversed[m][h] \in 0 .. TwoTo[m] - 1
    BY <1>1, RevRange
<1> HIDE DEF P, f
<1>9. f[0] = 0 /\ f[P - 1] = P - 1 /\ 2 * 0 + 0 = 0 /\ 2 * (P - 1) + 1 = 2 * P - 1
    BY <1>2, <1>4, <1>5, <1>6
<1>10. Reversed[m][0] = 0 /\ Reversed[m][2 * P - 1] = 2 * P - 1
    BY <1>2, <1>7, <1>9
<1>11. 0 + (2 * P - 1) = 2 * P - 1 /\ 2 * P - 1 \in 0 .. 2 * P - 1 /\ (0 + 2 * P) - 1 = 2 * P - 1
       /\ 0 \in 0 .. 2 * P - 1 /\ 0 + 2 * P <= 2 * P
    BY <1>2
<1>12. 0 <= Reversed[m][h] /\ Reversed[m][h] < 0 + 2 * P
    BY <1>2, <1>8
<1> QED BY <1>1, <1>2, <1>3, <1>10, <1>11, <1>12 DEF Block

(* ... and with the lowest bit among those that are compared.              *)
LEMMA BlockBit ==
    ASSUME NEW m \in 1 .. WordBits, NEW p \in 1 .. m,
           NEW a \in 0 .. TwoTo[m - 1] - 1, NEW b \in {0, 1},
           NEW g \in 0 .. TwoTo[m - 1] - 1, NEW k \in {0, 1},
           Block(m - 1, p - 1, a, g)
    PROVE  Block(m, p, 2 * a + b, 2 * g + k)
<1> DEFINE P == TwoTo[m - 1]  f == Reversed[m - 1]  S == TwoTo[p - 1]  c == TwoTo[m - p]
           x == a % S  y == g % S
           v == 2 * a + b  h == 2 * g + k
<1>1. /\ m \in Nat /\ p \in Nat /\ m - 1 \in 0 .. WordBits /\ p - 1 \in 0 .. WordBits
      /\ p \in 1 .. WordBits /\ (m - 1) - (p - 1) = m - p /\ m - p \in 0 .. WordBits
    BY ScanAssumption
<1>2. /\ P \in Nat \ {0} /\ TwoTo[m] = 2 * P /\ S \in Nat \ {0} /\ TwoTo[p] = 2 * S
      /\ c \in Nat \ {0}
    BY <1>1, TwoToFacts
<1>3. /\ x \in 0 .. P - 1 /\ f[x] + c <= P
      /\ y = x <=> f[x] <= f[g] /\ f[g] < f[x] + c
      /\ x + (P - S) \in 0 .. P - 1 /\ f[x + (P - S)] = (f[x] + c) - 1
    BY <1>1 DEF Block
<1>4. f[x] \in 0 .. P - 1 /\ f[g] \in 0 .. P - 1 /\ f[a] \in 0 .. P - 1
    BY <1>1, <1>3, RevRange
<1>5. v % TwoTo[p] = 2 * x + b /\ h % TwoTo[p] = 2 * y + k
  <2>1. a \in Nat /\ g \in Nat
      BY <1>2
  <2>2. (2 * a + b) % (2 * S) = 2 * (a % S) + b /\ (2 * g + k) % (2 * S) = 2 * (g % S) + k
      BY <1>2, <2>1, ModDouble
  <2> QED BY <1>2, <2>2
<1>6. x \in Nat /\ y \in Nat
    BY <1>2
<1>7. /\ 2 * x + b \in 0 .. TwoTo[m] - 1
      /\ Reversed[m][2 * x + b] = IF b = 1 THEN P + f[x] ELSE 0 + f[x]
    BY <1>3, RevBit
<1>8. Reversed[m][h] = IF k = 1 THEN P + f[g] ELSE 0 + f[g]
    BY RevBit
<1>9. LET z == x + (P - S) IN
      /\ 2 * z + b \in 0 .. TwoTo[m] - 1
      /\ Reversed[m][2 * z + b] = IF b = 1 THEN P + f[z] ELSE 0 + f[z]
    BY <1>3, RevBit
<1> DEFINE z == x + (P - S)  r == Reversed[m][2 * x + b]
<1>10. (2 * x + b) + (TwoTo[m] - TwoTo[p]) = 2 * z + b
    BY <1>2, <1>6
<1>11. z \in 0 .. P - 1 /\ f[z] = (f[x] + c) - 1
    BY <1>3
<1> HIDE DEF P, f, S, c, x, y, v, h, z
<1>12. r + c <= 2 * P /\ Reversed[m][2 * z + b] = (r + c) - 1
    BY <1>2, <1>3, <1>4, <1>7, <1>9, <1>11 DEF z
<1>13. (2 * y + k = 2 * x + b) <=> (y = x /\ k = b)
    BY <1>6
<1>14. (y = x /\ k = b) <=> (r <= Reversed[m][h] /\ Reversed[m][h] < r + c)
  <2>1. CASE b = 1 /\ k = 1
      BY <1>2, <1>3, <1>4, <1>7, <1>8, <2>1
  <2>2. CASE b = 0 /\ k = 0
      BY <1>2, <1>3, <1>4, <1>7, <1>8, <2>2
  <2>3. CASE b = 1 /\ k = 0
      BY <1>2, <1>3, <1>4, <1>7, <1>8, <2>3
  <2>4. CASE b = 0 /\ k = 1
      BY <1>2, <1>3, <1>4, <1>7, <1>8, <2>4
  <2> QED BY <2>1, <2>2, <2>3, <2>4
<1>15. 2 * z + b \in 0 .. TwoTo[m] - 1
    BY <1>9 DEF z
<1> HIDE DEF r
<1>16. Block(m, p, v, h)
  <2>1. (v % TwoTo[p]) + (TwoTo[m] - TwoTo[p]) = 2 * z + b
      BY <1>5, <1>10
  <2>2. Reversed[m][v % TwoTo[p]] = r
      BY <1>5 DEF r
  <2>3. h % TwoTo[p] = v % TwoTo[p] <=> r <= Reversed[m][h] /\ Reversed[m][h] < r + c
      BY <1>5, <1>13, <1>14
  <2>4. v % TwoTo[p] \in 0 .. TwoTo[m] - 1 /\ r + c <= TwoTo[m]
      BY <1>2, <1>5, <1>7, <1>12
  <2> QED BY <1>12, <1>15, <2>1, <2>2, <2>3, <2>4 DEF Block, c
<1> QED BY <1>16 DEF v, h

(* For every number of bits and every number of compared bits.             *)
LEMMA Blocks ==
    \A m \in 0 .. WordBits : \A p \in 0 .. m :
        \A v, h \in 0 .. TwoTo[m] - 1 : Block(m, p, v, h)
<1> DEFINE Goal(m) == \A p \in 0 .. m : \A v, h \in 0 .. TwoTo[m] - 1 : Block(m, p, v, h)
           S == {m \in Nat : m <= WordBits => Goal(m)}
<1>0. WordBits \in Nat
    BY ScanAssumption
<1>1. 0 \in S
  <2>1. TwoTo[0] = 1 /\ Reversed[0][0] = 0
      BY TwoToFacts, ReversedForm
  <2>2. 0 % 1 = 0 /\ 0 - 0 = 0 /\ 0 + (1 - 1) = 0 /\ (0 + 1) - 1 = 0
      OBVIOUS
  <2>3. Block(0, 0, 0, 0)
      BY <2>1, <2>2 DEF Block
  <2> QED BY <2>1, <2>3
<1>2. ASSUME NEW n \in Nat, n \in S PROVE n + 1 \in S
  <2>1. ASSUME n + 1 <= WordBits, NEW p \in 0 .. n + 1,
               NEW v \in 0 .. TwoTo[n + 1] - 1, NEW h \in 0 .. TwoTo[n + 1] - 1
        PROVE  Block(n + 1, p, v, h)
    <3>1. n + 1 \in 1 .. WordBits /\ (n + 1) - 1 = n /\ n <= WordBits /\ n \in 0 .. WordBits
        BY <1>0, <2>1
    <3>2. Goal(n)
        BY <1>2, <3>1
    <3>3. 0 \in 0 .. TwoTo[n] - 1 /\ 0 \in 0 .. n
        BY <3>1, TwoToFacts
    <3>4. CASE p = 0
        BY <2>1, <3>1, <3>2, <3>3, <3>4, BlockAll
    <3>5. CASE p # 0
      <4>1. p \in 1 .. n + 1 /\ p - 1 \in 0 .. n
          BY <2>1, <3>5
      <4>2. PICK a \in 0 .. TwoTo[n] - 1, b \in {0, 1} : v = 2 * a + b
          BY <2>1, <3>1, LowBit
      <4>3. PICK g \in 0 .. TwoTo[n] - 1, k \in {0, 1} : h = 2 * g + k
          BY <2>1, <3>1, LowBit
      <4>4. Block(n, p - 1, a, g)
          BY <3>2, <4>1
      <4> QED BY <3>1, <4>1, <4>2, <4>3, <4>4, BlockBit
    <3> QED BY <3>4, <3>5
  <2> QED BY <2>1
<1>3. Nat \subseteq S
  <2> HIDE DEF S
  <2> QED BY <1>1, <1>2, NatSetInduction
<1> QED BY <1>0, <1>3

(* The low bits of the low bits                                            *)
LEMMA ModMod ==
    \A p \in 0 .. WordBits : \A q \in p .. WordBits : \A h \in Nat :
        (h % TwoTo[q]) % TwoTo[p] = h % TwoTo[p]
<1> DEFINE Goal(p) == \A q \in p .. WordBits : \A h \in Nat :
                         (h % TwoTo[q]) % TwoTo[p] = h % TwoTo[p]
           S == {p \in Nat : p <= WordBits => Goal(p)}
<1>0. WordBits \in Nat
    BY ScanAssumption
<1>1. 0 \in S
  <2>1. TwoTo[0] = 1 /\ \A q \in 0 .. WordBits : TwoTo[q] \in Nat \ {0}
      BY TwoToFacts
  <2>2. \A q \in 0 .. WordBits : \A h \in Nat : h % TwoTo[q] \in Nat
      BY <2>1, DivFacts
  <2>3. \A x \in Nat : x % 1 = 0
      OBVIOUS
  <2>4. Goal(0)
      BY <2>1, <2>2, <2>3
  <2> HIDE DEF Goal
  <2> QED BY <2>4
<1>2. ASSUME NEW p \in Nat, p \in S PROVE p + 1 \in S
  <2>1. ASSUME p + 1 <= WordBits, NEW q \in p + 1 .. WordBits, NEW h \in Nat
        PROVE  (h % TwoTo[q]) % TwoTo[p + 1] = h % TwoTo[p + 1]
    <3>1. /\ p + 1 \in 1 .. WordBits /\ (p + 1) - 1 = p /\ p <= WordBits /\ p \in 0 .. WordBits
          /\ q \in 1 .. WordBits /\ q - 1 \in p .. WordBits /\ q - 1 \in 0 .. WordBits
        BY <1>0, <2>1
    <3> DEFINE a == h \div 2  b == h % 2  A == TwoTo[p]  B == TwoTo[q - 1]
    <3>2. a \in Nat /\ b \in {0, 1} /\ h = 2 * a + b
        OBVIOUS
    <3>3. A \in Nat \ {0} /\ B \in Nat \ {0} /\ TwoTo[p + 1] = 2 * A /\ TwoTo[q] = 2 * B
        BY <3>1, TwoToFacts
    <3>4. (a % B) % A = a % A
        BY <1>2, <3>1, <3>2
    <3> HIDE DEF a, b, A, B
    <3>5. a % B \in Nat
        BY <3>2, <3>3, DivFacts
    <3>6. h % (2 * B) = 2 * (a % B) + b /\ h % (2 * A) = 2 * (a % A) + b
        BY <3>2, <3>3, ModDouble
    <3>7. (2 * (a % B) + b) % (2 * A) = 2 * ((a % B) % A) + b
        BY <3>2, <3>3, <3>5, ModDouble
    <3> QED BY <3>3, <3>4, <3>6, <3>7
  <2> QED BY <2>1
<1>3. Nat \subseteq S
  <2> HIDE DEF S
  <2> QED BY <1>1, <1>2, NatSetInduction
<1> QED BY <1>0, <1>3

(* Powers of two grow with their exponent.                                 *)
LEMMA TwoToGrows ==
    \A q \in 0 .. WordBits : \A p \in 0 .. WordBits :
        p < q => TwoTo[p] < TwoTo[q]
<1> DEFINE S == {q \in Nat : q <= WordBits => \A p \in 0 .. WordBits : p < q => TwoTo[p] < TwoTo[q]}
<1>0. WordBits \in Nat
    BY ScanAssumption
<1>1. 0 \in S
    BY <1>0
<1>2. ASSUME NEW q \in Nat, q \in S PROVE q + 1 \in S
  <2>1. ASSUME q + 1 <= WordBits, NEW p \in 0 .. WordBits, p < q + 1
        PROVE  TwoTo[p] < TwoTo[q + 1]
    <3>1. q + 1 \in 1 .. WordBits /\ (q + 1) - 1 = q /\ q \in 0 .. WordBits /\ q <= WordBits
        BY <1>0, <2>1
    <3>2. TwoTo[q] \in Nat \ {0} /\ TwoTo[q + 1] = 2 * TwoTo[q] /\ TwoTo[p] \in Nat \ {0}
        BY <3>1, TwoToFacts
    <3>3. p = q \/ p < q
        BY <1>0, <2>1
    <3>4. TwoTo[p] <= TwoTo[q]
        BY <1>2, <3>1, <3>2, <3>3
    <3> QED BY <3>2, <3>4
  <2> QED BY <2>1
<1>3. Nat \subseteq S
  <2> HIDE DEF S
  <2> QED BY <1>1, <1>2, NatSetInduction
<1> QED BY <1>0, <1>3

(* Every table has a power of two of buckets, and a word counts them: a    *)
(* size is the first doubling that is big enough.                          *)
LEMMA SizeIsPower ==
    ASSUME NEW s \in Sizes, s # 0
    PROVE  \E p \in 0 .. WordBits : s = TwoTo[p]
<1>0. WordBits \in Nat /\ Cardinality(Keys) \in Nat
    BY ScanAssumption, DictAssumption, FS_CardinalityType
<1>1. PICK n \in 0 .. 2 * Cardinality(Keys) : s = _dictNextPower(n)
    BY DEF Sizes
<1>2. n \in Nat /\ n <= Words
  <2>1. 2 * Cardinality(Keys) <= Words /\ Words \in Nat
      BY <1>0, ScanAssumption, TwoToFacts DEF Words
  <2> QED BY <1>0, <2>1
<1>3. PICK a \in 0 .. WordBits : DICT_HT_INITIAL_SIZE = TwoTo[a]
    BY ScanAssumption
<1>4. PICK f : Doubling(f, n) /\ Powers(n) = {f[i] : i \in 0 .. n}
    BY <1>2, PowersForm
<1>5. s \in Powers(n) /\ \A q \in Powers(n) : q >= n => s <= q
    BY <1>1, <1>2, NextPowerFacts
<1>6. PICK i \in 0 .. n : s = f[i]
    BY <1>4, <1>5
<1>7. \A j \in 0 .. n : f[j] \in Nat /\ f[j] >= DICT_HT_INITIAL_SIZE + j
    BY <1>2, <1>4, DoublingGrows
<1> DEFINE T == {j \in Nat : j <= n /\ a + j <= WordBits => f[j] = TwoTo[a + j]}
<1>8. 0 \in T
    BY <1>3, <1>4 DEF Doubling
<1>9. ASSUME NEW j \in Nat, j \in T PROVE j + 1 \in T
  <2>1. ASSUME j + 1 <= n, a + (j + 1) <= WordBits PROVE f[j + 1] = TwoTo[a + (j + 1)]
    <3>1. /\ j + 1 \in 1 .. n /\ (j + 1) - 1 = j /\ j <= n /\ a + j <= WordBits
          /\ a + (j + 1) \in 1 .. WordBits /\ (a + (j + 1)) - 1 = a + j
        BY <1>0, <1>2, <2>1
    <3>2. f[j + 1] = 2 * f[j] /\ f[j] = TwoTo[a + j]
        BY <1>4, <1>9, <3>1 DEF Doubling
    <3>3. TwoTo[a + (j + 1)] = 2 * TwoTo[a + j]
        BY <3>1, TwoToFacts
    <3> QED BY <3>2, <3>3
  <2> QED BY <2>1
<1>10. Nat \subseteq T
  <2> HIDE DEF T
  <2> QED BY <1>8, <1>9, NatSetInduction
<1>11. CASE a + i <= WordBits
  <2>1. i \in Nat /\ i <= n /\ a + i \in 0 .. WordBits
      BY <1>0, <1>2, <1>11
  <2>2. f[i] = TwoTo[a + i]
      BY <1>10, <1>11, <2>1
  <2> QED BY <1>6, <2>1, <2>2
<1>12. CASE ~(a + i <= WordBits)
  <2> DEFINE w == WordBits - a
  <2>1. w \in Nat /\ w < i /\ w \in 0 .. n /\ w <= n /\ a + w = WordBits
      BY <1>0, <1>2, <1>12
  <2>2. f[w] = Words
      BY <1>0, <1>10, <2>1 DEF Words
  <2> HIDE DEF w
  <2>3. s <= f[w]
      BY <1>2, <1>4, <1>5, <2>1, <2>2
  <2> DEFINE U == {e \in Nat : w + e <= n => f[w + e] \in Nat /\ f[w + e] >= f[w] + e}
  <2>4. 0 \in U
      BY <1>7, <2>1
  <2>5. ASSUME NEW e \in Nat, e \in U PROVE e + 1 \in U
    <3>1. ASSUME w + (e + 1) <= n PROVE f[w + (e + 1)] \in Nat /\ f[w + (e + 1)] >= f[w] + (e + 1)
      <4>1. /\ w + (e + 1) \in 1 .. n /\ (w + (e + 1)) - 1 = w + e /\ w + e <= n
            /\ w + e \in 0 .. n /\ w \in 0 .. n
          BY <1>2, <2>1, <3>1
      <4>2. f[w + (e + 1)] = 2 * f[w + e] /\ f[w + e] \in Nat /\ f[w + e] >= f[w] + e
          BY <1>4, <2>5, <4>1 DEF Doubling
      <4>3. f[w + e] >= 1 /\ f[w] \in Nat /\ f[w] >= 1
        <5>1. DICT_HT_INITIAL_SIZE \in Nat \ {0}
            BY DictAssumption
        <5> QED BY <1>7, <2>1, <4>1, <5>1
      <4> QED BY <4>2, <4>3
    <3> QED BY <3>1
  <2>6. Nat \subseteq U
    <3> HIDE DEF U
    <3> QED BY <2>4, <2>5, NatSetInduction
  <2>7. i - w \in Nat /\ w + (i - w) = i /\ i <= n /\ i - w > 0
      BY <1>2, <2>1
  <2>8. f[i] >= f[w] + (i - w)
    <3>1. i - w \in U
        BY <2>6, <2>7
    <3> QED BY <2>7, <3>1
  <2>9. f[i] \in Nat /\ f[w] \in Nat
      BY <1>7, <2>1
  <2> QED BY <1>6, <2>3, <2>7, <2>8, <2>9
<1> QED BY <1>11, <1>12

-----------------------------------------------------------------------------
(* Walking through a dict *)

(* Cursors and hashes are words; reversing is its own inverse.             *)
LEMMA WordFacts ==
    /\ WordBits \in Nat /\ Words \in Nat \ {0} /\ rev(0) = 0
    /\ \A v \in 0 .. Words - 1 : rev(v) \in 0 .. Words - 1 /\ rev(rev(v)) = v
    /\ \A k \in Keys : Hash[k] \in 0 .. Words - 1
<1>1. WordBits \in Nat /\ WordBits \in 0 .. WordBits /\ 0 \in 0 .. WordBits
    BY ScanAssumption
<1>2. Words \in Nat \ {0} /\ TwoTo[0] = 1
    BY <1>1, TwoToFacts DEF Words
<1>3. \A v \in 0 .. Words - 1 : rev(v) \in 0 .. Words - 1 /\ rev(rev(v)) = v
    BY <1>1, RevRange, RevRev DEF rev, Words
<1>4. rev(0) = 0
  <2>1. 0 \in 0 .. Words - 1 /\ 0 % 1 = 0 /\ WordBits - 0 = WordBits
      BY <1>1, <1>2
  <2>2. Block(WordBits, 0, 0, 0)
      BY <1>1, <2>1, Blocks DEF Words
  <2>3. Reversed[WordBits][0] + TwoTo[WordBits] <= TwoTo[WordBits]
      BY <1>2, <2>1, <2>2 DEF Block
  <2>4. rev(0) + Words <= Words
      BY <2>3 DEF rev, Words
  <2>5. rev(0) \in 0 .. Words - 1
      BY <1>3, <2>1
  <2> QED BY <1>2, <2>4, <2>5
<1>5. ASSUME NEW k \in Keys PROVE Hash[k] \in 0 .. Words - 1
  <2>1. Hash[k] \in Nat /\ Hash[k] < Words
      BY DictAssumption, ScanAssumption
  <2> QED BY <1>2, <2>1
<1> QED BY <1>1, <1>2, <1>3, <1>4, <1>5

(* The hashes whose low bits select the bucket of v: one block of reversed *)
(* words.                                                                  *)
LEMMA BucketBlock ==
    ASSUME NEW p \in 0 .. WordBits, NEW v \in 0 .. Words - 1
    PROVE  LET s == TwoTo[p]
               c == TwoTo[WordBits - p]
               r == rev(v % s)
           IN  /\ s \in Nat \ {0} /\ c \in Nat \ {0} /\ r \in Nat /\ r + c <= Words
               /\ v % s \in 0 .. Words - 1
               /\ r <= rev(v) /\ rev(v) < r + c
               /\ \A h \in 0 .. Words - 1 : h % s = v % s <=> r <= rev(h) /\ rev(h) < r + c
               /\ (v % s) + (Words - s) \in 0 .. Words - 1
               /\ rev((v % s) + (Words - s)) = (r + c) - 1
<1> DEFINE s == TwoTo[p]  c == TwoTo[WordBits - p]  r == rev(v % s)
<1>1. /\ WordBits \in Nat /\ WordBits \in 0 .. WordBits
      /\ p \in 0 .. WordBits /\ WordBits - p \in 0 .. WordBits
    BY ScanAssumption
<1>2. s \in Nat \ {0} /\ c \in Nat \ {0}
    BY <1>1, TwoToFacts
<1>3. \A h \in 0 .. Words - 1 : Block(WordBits, p, v, h)
    BY <1>1, Blocks DEF Words
<1> HIDE DEF s, c
<1>4. ASSUME NEW h \in 0 .. Words - 1
      PROVE  /\ v % s \in 0 .. Words - 1 /\ r + c <= Words
             /\ h % s = v % s <=> r <= rev(h) /\ rev(h) < r + c
             /\ (v % s) + (Words - s) \in 0 .. Words - 1
             /\ rev((v % s) + (Words - s)) = (r + c) - 1
    BY <1>3, <1>4 DEF Block, rev, Words, s, c
<1>5. r \in Nat
    BY <1>4, WordFacts
<1>6. r <= rev(v) /\ rev(v) < r + c
    BY <1>4
<1> QED BY <1>2, <1>4, <1>5, <1>6 DEF s, c

(* The next cursor is the start of the next block, or 0 after the last.    *)
LEMMA NextCursorFacts ==
    ASSUME NEW p \in 0 .. WordBits, NEW v \in 0 .. Words - 1
    PROVE  LET s == TwoTo[p]
               n == rev(v % s) + TwoTo[WordBits - p]
               w == NextCursor(v, s)
           IN  /\ w \in 0 .. Words - 1
               /\ (n = Words /\ w = 0) \/ (n < Words /\ w # 0 /\ rev(w) = n)
<1> DEFINE s == TwoTo[p]  c == TwoTo[WordBits - p]  r == rev(v % s)  n == r + c
           w == NextCursor(v, s)
<1>1. /\ s \in Nat \ {0} /\ c \in Nat \ {0} /\ r \in Nat /\ n <= Words
      /\ rev((v % s) + (Words - s)) = n - 1
    BY BucketBlock
<1>2. w = rev(((n - 1) + 1) % Words)
    BY <1>1 DEF NextCursor
<1> HIDE DEF s, c, r, w
<1>3. Words \in Nat \ {0} /\ rev(0) = 0
    BY WordFacts
<1>4. n \in Nat /\ n > 0 /\ (n - 1) + 1 = n
    BY <1>1
<1> HIDE DEF n
<1>5. ASSUME n = Words PROVE
          w \in 0 .. Words - 1 /\ ((n = Words /\ w = 0) \/ (n < Words /\ w # 0 /\ rev(w) = n))
  <2>1. n % Words = 0
      BY <1>3, <1>5
  <2>2. w = 0 /\ w \in 0 .. Words - 1
      BY <1>2, <1>3, <1>4, <2>1
  <2> QED BY <1>5, <2>2
<1>6. ASSUME n < Words PROVE
          w \in 0 .. Words - 1 /\ ((n = Words /\ w = 0) \/ (n < Words /\ w # 0 /\ rev(w) = n))
  <2>1. n % Words = n /\ n \in 0 .. Words - 1
      BY <1>3, <1>4, <1>6
  <2>2. w = rev(n) /\ w \in 0 .. Words - 1 /\ rev(w) = n
      BY <1>2, <1>4, <2>1, WordFacts
  <2>3. w # 0
      BY <1>3, <1>4, <2>2
  <2> QED BY <1>6, <2>2, <2>3
<1>7. n = Words \/ n < Words
    BY <1>1, <1>3, <1>4
<1>8. w \in 0 .. Words - 1 /\ ((n = Words /\ w = 0) \/ (n < Words /\ w # 0 /\ rev(w) = n))
    BY <1>5, <1>6, <1>7
<1> QED BY <1>8 DEF n, s, c, r, w

(* A key of a table that the walk has not passed is in the bucket of the   *)
(* cursor, or beyond the block of that bucket.                             *)
LEMMA BucketCovers ==
    ASSUME NEW t, TableOK(t), NEW p \in 0 .. WordBits, t.size = TwoTo[p],
           NEW v \in 0 .. Words - 1, NEW k \in TableKeys(t), rev(Hash[k]) >= rev(v)
    PROVE  k \in t.table[v % t.size] \/ rev(Hash[k]) >= rev(v % t.size) + TwoTo[WordBits - p]
<1> DEFINE s == TwoTo[p]  c == TwoTo[WordBits - p]  r == rev(v % s)  h == Hash[k]
<1>1. k \in Keys /\ k \in t.table[h % s]
    BY TableFacts DEF Index
<1>2. h \in 0 .. Words - 1 /\ rev(h) \in 0 .. Words - 1 /\ rev(v) \in 0 .. Words - 1
    BY <1>1, WordFacts
<1>3. /\ c \in Nat \ {0} /\ r \in Nat /\ r <= rev(v)
      /\ h % s = v % s <=> r <= rev(h) /\ rev(h) < r + c
    BY <1>2, BucketBlock
<1>4. Words \in Nat
    BY WordFacts
<1> HIDE DEF s, c, r, h
<1>5. rev(h) >= rev(v)
    BY DEF h
<1>6. h % s = v % s \/ rev(h) >= r + c
    BY <1>2, <1>3, <1>4, <1>5
<1> QED BY <1>1, <1>6 DEF s, c, r, h

(* In a bigger table as well: the bucket is one of the expansion.          *)
LEMMA ExpansionCovers ==
    ASSUME NEW s, NEW b, TableOK(b), NEW p \in 0 .. WordBits, NEW q \in p .. WordBits,
           s.size = TwoTo[p], b.size = TwoTo[q],
           NEW v \in 0 .. Words - 1, NEW k \in TableKeys(b), rev(Hash[k]) >= rev(v)
    PROVE  \/ k \in UNION {b.table[i] : i \in Expansion(s, b, v)}
           \/ rev(Hash[k]) >= rev(v % s.size) + TwoTo[WordBits - p]
<1> DEFINE S == TwoTo[p]  B == TwoTo[q]  c == TwoTo[WordBits - p]  r == rev(v % S)
           e == TwoTo[WordBits - q]  rv == rev(v % B)
           h == Hash[k]  i == h % B  ri == rev(h % B)
<1>0. WordBits \in Nat /\ Words \in Nat /\ q \in 0 .. WordBits /\ q \in q .. WordBits
  <2>1. WordBits \in Nat /\ Words \in Nat
      BY WordFacts
  <2> QED BY <2>1
<1>1. k \in Keys /\ k \in b.table[i] /\ i \in 0 .. B - 1
  <2>1. k \in Keys /\ k \in b.table[i]
      BY TableFacts DEF Index
  <2>2. B \in Nat \ {0}
      BY <1>0, TwoToFacts
  <2> QED BY <2>1, <2>2, IndexInTable DEF Index
<1>2. h \in 0 .. Words - 1 /\ rev(h) \in 0 .. Words - 1 /\ rev(v) \in 0 .. Words - 1
    BY <1>1, WordFacts
<1>3. /\ c \in Nat \ {0} /\ r \in Nat /\ r <= rev(v)
      /\ h % S = v % S <=> r <= rev(h) /\ rev(h) < r + c
    BY <1>2, BucketBlock
<1>4. rv \in Nat /\ rv <= rev(v) /\ v % B \in 0 .. Words - 1
    BY <1>0, BucketBlock
<1>5. /\ e \in Nat \ {0} /\ ri \in Nat /\ ri <= rev(h) /\ rev(h) < ri + e
      /\ \A x \in 0 .. Words - 1 : x % B = h % B <=> ri <= rev(x) /\ rev(x) < ri + e
    BY <1>0, <1>2, BucketBlock
<1>6. (v % B) % B = v % B /\ (h % B) % S = h % S
  <2>1. v \in Nat /\ h \in Nat
      BY <1>0, <1>2
  <2> QED BY <1>0, <2>1, ModMod
<1>7. (v % B) % B = h % B <=> ri <= rv /\ rv < ri + e
    BY <1>4, <1>5
<1> SUFFICES ASSUME ~(rev(h) >= r + c) PROVE k \in UNION {b.table[j] : j \in Expansion(s, b, v)}
    OBVIOUS
<1> HIDE DEF S, B, c, r, e, i
<1>8. rev(h) >= rev(v)
    OBVIOUS
<1>9. i % S = v % S
  <2>1. r <= rev(h) /\ rev(h) < r + c
      BY <1>0, <1>2, <1>3, <1>8
  <2> QED BY <1>3, <1>6, <2>1 DEF i
<1>10. ri >= rv
  <2>1. CASE v % B = h % B
      BY <1>4, <2>1
  <2>2. CASE v % B # h % B
    <3>1. ~(ri <= rv /\ rv < ri + e)
        BY <1>6, <1>7, <2>2
    <3> HIDE DEF ri, rv, h
    <3> QED BY <1>0, <1>2, <1>4, <1>5, <1>8, <3>1
  <2> QED BY <2>1, <2>2
<1>11. i \in Expansion(s, b, v)
    BY <1>1, <1>9, <1>10 DEF Expansion, S, B, i
<1> QED BY <1>1, <1>11

(* What a walk that is at v has to reach.  From v the keys ks are given    *)
(* and w is the next cursor: a key of x is given, or the walk goes on and  *)
(* has not passed it.                                                      *)
Reaches(x, v, ks, w) ==
    /\ w \in 0 .. Words - 1
    /\ w # 0 => rev(w) > rev(v)
    /\ \A k \in Elems(x) : rev(Hash[k]) >= rev(v) =>
          k \in ks \/ (w # 0 /\ rev(Hash[k]) >= rev(w))

(* One step of m_dictScan, with one table or in the middle of a rehash.    *)
LEMMA StepReaches ==
    ASSUME NEW x, DictOK(x), NEW v \in 0 .. Words - 1
    PROVE  Reaches(x, v, m_dictScan(x, v).keys, m_dictScan(x, v).cursor)
<1>0. Words \in Nat \ {0} /\ WordBits \in Nat
    BY WordFacts
<1>1. /\ TableOK(x.ht[0]) /\ TableOK(x.ht[1])
      /\ dictIsRehashing(x) <=> x.ht[1].size # 0
      /\ dictIsRehashing(x) => x.ht[0].size # 0
    BY DEF DictOK
<1>2. Elems(x) = TableKeys(x.ht[0]) \cup TableKeys(x.ht[1])
    BY DEF Elems
<1>3. \A k \in Elems(x) : rev(Hash[k]) \in Nat /\ rev(Hash[k]) < Words
  <2>1. Elems(x) \subseteq Keys
      BY <1>1, <1>2, TableFacts
  <2> QED BY <1>0, <2>1, WordFacts
<1>4. CASE dictSize(x) = 0
  <2>1. m_dictScan(x, v) = [cursor |-> 0, keys |-> {}]
      BY <1>4 DEF m_dictScan
  <2>2. Elems(x) = {}
    <3>1. x.ht[0].used \in Nat /\ x.ht[1].used \in Nat
        BY <1>1, TableFacts
    <3>2. x.ht[0].used = 0 /\ x.ht[1].used = 0
        BY <1>4, <3>1 DEF dictSize
    <3> QED BY <1>1, <1>2, <3>2, TableFacts
  <2>3. m_dictScan(x, v).cursor = 0 /\ 0 \in 0 .. Words - 1
      BY <1>0, <2>1
  <2> QED BY <2>2, <2>3 DEF Reaches
<1>5. CASE dictSize(x) # 0 /\ ~dictIsRehashing(x)
  <2> DEFINE t == x.ht[0]  w == NextCursor(v, t.size)
  <2>1. m_dictScan(x, v) = [cursor |-> w, keys |-> t.table[v % t.size] \cup {}]
      BY <1>5 DEF m_dictScan
  <2>2. m_dictScan(x, v).cursor = w /\ m_dictScan(x, v).keys = t.table[v % t.size]
    <3> HIDE DEF w, t
    <3> QED BY <2>1
  <2>3. TableKeys(x.ht[1]) = {} /\ x.ht[1].used = 0
    <3>1. x.ht[1].size = 0
        BY <1>1, <1>5
    <3> QED BY <1>1, <3>1, TableFacts
  <2>4. t.size \in Sizes /\ t.size # 0
    <3>1. t.used # 0
        BY <1>1, <1>5, <2>3, TableFacts DEF dictSize
    <3>2. TableKeys(t) # {}
        BY <1>1, <3>1, TableFacts
    <3>3. t.size # 0
        BY <1>1, <3>2, TableFacts
    <3> QED BY <1>1, <3>3 DEF TableOK
  <2>5. PICK p \in 0 .. WordBits : t.size = TwoTo[p]
      BY <2>4, SizeIsPower
  <2> DEFINE n == rev(v % t.size) + TwoTo[WordBits - p]
  <2>6. w \in 0 .. Words - 1 /\ ((n = Words /\ w = 0) \/ (n < Words /\ w # 0 /\ rev(w) = n))
      BY <2>5, NextCursorFacts
  <2>7. rev(v) < n
      BY <2>5, BucketBlock
  <2>8. ASSUME NEW k \in Elems(x), rev(Hash[k]) >= rev(v)
        PROVE  k \in t.table[v % t.size] \/ rev(Hash[k]) >= n
      BY <1>1, <1>2, <2>3, <2>5, <2>8, BucketCovers
  <2> HIDE DEF w, n, t
  <2>9. \A k \in Elems(x) : rev(Hash[k]) >= n => n # Words
      BY <1>0, <1>3
  <2>10. Reaches(x, v, t.table[v % t.size], w)
      BY <2>6, <2>7, <2>8, <2>9 DEF Reaches
  <2> QED BY <2>2, <2>10
<1>6. CASE dictSize(x) # 0 /\ dictIsRehashing(x)
  <2> DEFINE s == IF x.ht[0].size > x.ht[1].size THEN x.ht[1] ELSE x.ht[0]
             b == IF x.ht[0].size > x.ht[1].size THEN x.ht[0] ELSE x.ht[1]
             w == NextCursor(v, s.size)
             more == UNION {b.table[i] : i \in Expansion(s, b, v)}
             ks == s.table[v % s.size] \cup more
  <2>1. m_dictScan(x, v) = [cursor |-> w, keys |-> ks]
      BY <1>6 DEF m_dictScan
  <2>2. m_dictScan(x, v).cursor = w /\ m_dictScan(x, v).keys = ks
    <3> HIDE DEF w, ks
    <3> QED BY <2>1
  <2>3. /\ TableOK(s) /\ TableOK(b) /\ s.size # 0 /\ b.size # 0
        /\ Elems(x) = TableKeys(s) \cup TableKeys(b)
    <3>1. (s = x.ht[1] /\ b = x.ht[0]) \/ (s = x.ht[0] /\ b = x.ht[1])
        OBVIOUS
    <3>2. x.ht[0].size # 0 /\ x.ht[1].size # 0
        BY <1>1, <1>6
    <3> HIDE DEF s, b
    <3> QED BY <1>1, <1>2, <3>1, <3>2
  <2>4. s.size <= b.size
    <3>1. x.ht[0].size \in Nat /\ x.ht[1].size \in Nat
        BY <1>1, TableFacts
    <3> QED BY <3>1
  <2> HIDE DEF s, b
  <2>5. PICK p \in 0 .. WordBits : s.size = TwoTo[p]
      BY <2>3, SizeIsPower DEF TableOK
  <2>6. PICK q \in 0 .. WordBits : b.size = TwoTo[q]
      BY <2>3, SizeIsPower DEF TableOK
  <2>7. q \in p .. WordBits
    <3>1. TwoTo[p] \in Nat /\ TwoTo[q] \in Nat /\ TwoTo[p] <= TwoTo[q]
        BY <2>4, <2>5, <2>6, TwoToFacts
    <3>2. q < p => TwoTo[q] < TwoTo[p]
        BY TwoToGrows
    <3> QED BY <1>0, <3>1, <3>2
  <2> DEFINE n == rev(v % s.size) + TwoTo[WordBits - p]
  <2>8. w \in 0 .. Words - 1 /\ ((n = Words /\ w = 0) \/ (n < Words /\ w # 0 /\ rev(w) = n))
      BY <2>5, NextCursorFacts
  <2>9. rev(v) < n
      BY <2>5, BucketBlock
  <2>10. ASSUME NEW k \in TableKeys(s), rev(Hash[k]) >= rev(v)
         PROVE  k \in s.table[v % s.size] \/ rev(Hash[k]) >= n
      BY <2>3, <2>5, <2>10, BucketCovers
  <2>11. ASSUME NEW k \in TableKeys(b), rev(Hash[k]) >= rev(v)
         PROVE  k \in more \/ rev(Hash[k]) >= n
      BY <2>3, <2>5, <2>6, <2>7, <2>11, ExpansionCovers
  <2>12. s.table[v % s.size] \subseteq ks /\ more \subseteq ks
      OBVIOUS
  <2> HIDE DEF w, n, more, ks
  <2>13. \A k \in Elems(x) : rev(Hash[k]) >= n => n # Words
      BY <1>0, <1>3
  <2>14. Reaches(x, v, ks, w)
      BY <2>3, <2>8, <2>9, <2>10, <2>11, <2>12, <2>13 DEF Reaches
  <2> QED BY <2>2, <2>14
<1> QED BY <1>4, <1>5, <1>6

(* The steps of one SLOTSSCAN.                                             *)
LEMMA ScanReaches ==
    ASSUME DictOK(d), NEW v \in 0 .. Words - 1, NEW count \in Counts
    PROVE  Reaches(d, v, SlotsMGRT_Scan(v, count).keys, SlotsMGRT_Scan(v, count).cursor)
<1> DEFINE loops == count * LoopsPerKey
           a == [cursor |-> v, keys |-> {}, length |-> 0]
           G(n, at) == LET s == m_dictScan(d, at.cursor)
                       IN  IF n > 1 /\ (at.cursor = 0 \/ at.length >= count) THEN at
                           ELSE [cursor |-> s.cursor, keys |-> at.keys \cup s.keys,
                                 length |-> at.length + Cardinality(s.keys)]
<1>0. loops \in Nat \ {0}
    BY ScanAssumption
<1>1. ASSUME NEW n, NEW at
      PROVE  \/ n > 1 /\ G(n, at) = at
             \/ /\ n > 1 => at.cursor # 0
                /\ G(n, at).cursor = m_dictScan(d, at.cursor).cursor
                /\ G(n, at).keys = at.keys \cup m_dictScan(d, at.cursor).keys
    OBVIOUS
<1> HIDE DEF G
<1> DEFINE Rec(g, m) == g = [n \in 1 .. m |-> G(n, IF n = 1 THEN a ELSE g[n - 1])]
           S == {m \in Nat : \E g : Rec(g, m)}
<1>2. 0 \in S
  <2> DEFINE g == [n \in 1 .. 0 |-> a]
  <2>1. Rec(g, 0)
      OBVIOUS
  <2> QED BY <2>1
<1>3. ASSUME NEW m \in Nat, m \in S PROVE m + 1 \in S
  <2>1. PICK g : Rec(g, m)
      BY <1>3
  <2> DEFINE h == [n \in 1 .. m + 1 |-> IF n = m + 1 THEN G(n, IF n = 1 THEN a ELSE g[m]) ELSE g[n]]
  <2>2. \A n \in 1 .. m : g[n] = G(n, IF n = 1 THEN a ELSE g[n - 1])
      BY <2>1
  <2>3. ASSUME NEW n \in 1 .. m + 1
        PROVE  h[n] = G(n, IF n = 1 THEN a ELSE h[n - 1])
    <3>1. CASE n = m + 1
      <4>1. h[n] = G(n, IF n = 1 THEN a ELSE g[m])
          BY <3>1
      <4>2. CASE n = 1
          BY <4>1, <4>2
      <4>3. CASE n # 1
        <5>1. n - 1 = m /\ n - 1 \in 1 .. m + 1 /\ n - 1 # m + 1
            BY <3>1, <4>3
        <5>2. h[n - 1] = g[m]
            BY <5>1
        <5> QED BY <4>1, <4>3, <5>2
      <4> QED BY <4>2, <4>3
    <3>2. CASE n # m + 1
      <4>1. n \in 1 .. m /\ (n = 1 \/ (n - 1 \in 1 .. m + 1 /\ n - 1 # m + 1))
          BY <3>2
      <4> QED BY <2>2, <3>2, <4>1
    <3> QED BY <3>1, <3>2
  <2>4. h = [n \in 1 .. m + 1 |-> h[n]]
      OBVIOUS
  <2> HIDE DEF h
  <2>5. Rec(h, m + 1)
      BY <2>3, <2>4
  <2> HIDE DEF Rec
  <2> QED BY <2>5
<1>4. loops \in S
  <2> HIDE DEF S, loops
  <2> QED BY <1>0, <1>2, <1>3, NatSetInduction
<1> DEFINE c == CHOOSE g : Rec(g, loops)
<1>5. Rec(c, loops)
  <2> HIDE DEF loops
  <2> QED BY <1>4
<1>6. SlotsMGRT_Scan(v, count) = c[loops]
    BY DEF SlotsMGRT_Scan, G
<1> HIDE DEF c, loops, a
<1>7. \A n \in 1 .. loops : c[n] = G(n, IF n = 1 THEN a ELSE c[n - 1])
    BY <1>5
<1>8. a.cursor = v /\ a.keys = {}
    BY DEF a
<1> DEFINE T == {n \in Nat : n + 1 <= loops => Reaches(d, v, c[n + 1].keys, c[n + 1].cursor)}
<1>9. 0 \in T
  <2>1. 0 + 1 = 1 /\ 1 \in 1 .. loops /\ ~(1 > 1)
      BY <1>0
  <2>2. c[1] = G(1, a)
      BY <1>7, <2>1
  <2>3. c[1].cursor = m_dictScan(d, v).cursor /\ c[1].keys = m_dictScan(d, v).keys
    <3>1. /\ G(1, a).cursor = m_dictScan(d, a.cursor).cursor
          /\ G(1, a).keys = a.keys \cup m_dictScan(d, a.cursor).keys
        BY <1>1, <2>1
    <3> QED BY <1>8, <2>2, <3>1
  <2>4. Reaches(d, v, m_dictScan(d, v).keys, m_dictScan(d, v).cursor)
      BY StepReaches
  <2> QED BY <2>1, <2>3, <2>4
<1>10. ASSUME NEW n \in Nat, n \in T PROVE n + 1 \in T
  <2>1. ASSUME (n + 1) + 1 <= loops
        PROVE  Reaches(d, v, c[(n + 1) + 1].keys, c[(n + 1) + 1].cursor)
    <3> DEFINE m == n + 1  at == c[m]  s == m_dictScan(d, at.cursor)
    <3>1. m + 1 \in 1 .. loops /\ m + 1 # 1 /\ (m + 1) - 1 = m /\ m <= loops /\ m + 1 > 1
        BY <1>0, <2>1
    <3>2. c[m + 1] = G(m + 1, at)
        BY <1>7, <3>1
    <3>3. Reaches(d, v, at.keys, at.cursor)
        BY <1>10, <3>1
    <3>4. CASE G(m + 1, at) = at
        BY <3>2, <3>3, <3>4
    <3>5. CASE /\ at.cursor # 0 /\ c[m + 1].cursor = s.cursor
               /\ c[m + 1].keys = at.keys \cup s.keys
      <4>1. at.cursor \in 0 .. Words - 1
          BY <3>3 DEF Reaches
      <4>2. Reaches(d, at.cursor, s.keys, s.cursor)
          BY <4>1, StepReaches
      <4>3. \A x \in 0 .. Words - 1 : rev(x) \in Nat
          BY WordFacts
      <4> HIDE DEF s, at
      <4>4. s.cursor # 0 => rev(s.cursor) > rev(v)
          BY <3>3, <3>5, <4>2, <4>3 DEF Reaches
      <4>5. ASSUME NEW k \in Elems(d), rev(Hash[k]) >= rev(v)
            PROVE  k \in at.keys \cup s.keys \/ (s.cursor # 0 /\ rev(Hash[k]) >= rev(s.cursor))
          BY <3>3, <4>2, <4>5 DEF Reaches
      <4>6. Reaches(d, v, at.keys \cup s.keys, s.cursor)
          BY <4>2, <4>4, <4>5 DEF Reaches
      <4> QED BY <3>5, <4>6
    <3> QED BY <1>1, <3>1, <3>2, <3>4, <3>5
  <2> QED BY <2>1
<1>11. Nat \subseteq T
  <2> HIDE DEF T
  <2> QED BY <1>9, <1>10, NatSetInduction
<1>12. loops - 1 \in Nat /\ (loops - 1) + 1 = loops
    BY <1>0
<1>13. Reaches(d, v, c[loops].keys, c[loops].cursor)
  <2>1. loops - 1 \in T
      BY <1>11, <1>12
  <2> QED BY <1>12, <2>1
<1> QED BY <1>6, <1>13

-----------------------------------------------------------------------------
(* Walks *)

(* A key the walk still comes to.                                          *)
Ahead(k) == cursor # 0 /\ rev(Hash[k]) >= rev(cursor)

(* The inductive invariant of a walk: a steady key was given to it, or is  *)
(* ahead of the cursor in the order of reversed bits.  A string that was   *)
(* released is not that of a steady key, so SLOTSDEL unlinks the steady    *)
(* keys of its list by their own names.                                    *)
WalkOK ==
    /\ walker \in {"idle", "slotsscan", "del_scan", "del_unlink"}
    /\ cursor \in 0 .. Words - 1
    /\ steady \subseteq Elems(d) /\ freed \cap steady = {} /\ missed = {}
    /\ walker = "idle" => cursor = 0 /\ list = {} /\ freed = {}
    /\ walker = "slotsscan" => \A k \in steady \ seen : Ahead(k)
    /\ walker = "del_scan" => \A k \in steady : rev(Hash[k]) >= rev(cursor)
    /\ walker = "del_unlink" => \A k \in steady \ list : Ahead(k)

(* At cursor 0 everything is ahead.                                        *)
LEMMA AllAhead ==
    ASSUME DictOK(d), NEW k \in Elems(d) PROVE rev(Hash[k]) >= rev(0)
<1>1. k \in Keys
    BY TableFacts DEF DictOK, Elems
<1>2. rev(Hash[k]) \in 0 .. Words - 1 /\ rev(0) = 0 /\ Words \in Nat
    BY <1>1, WordFacts
<1> QED BY <1>2

(* One SLOTSSCAN: the first, a later, or the last of a walk.               *)
LEMMA SlotsScanKeepsWalk ==
    ASSUME WalkOK, DictOK(d), NEW n \in Counts, SlotsScan(n)
    PROVE  WalkOK' /\ (cursor' # 0 => rev(cursor') > rev(cursor))
<1> DEFINE old == IF walker = "idle" THEN Elems(d) ELSE steady
           r == SlotsMGRT_Scan(cursor, n)
<1>1. cursor \in 0 .. Words - 1
    BY DEF WalkOK
<1>2. Reaches(d, cursor, r.keys, r.cursor)
    BY <1>1, ScanReaches
<1>3. /\ walker \in {"idle", "slotsscan"} /\ d' = d
      /\ \/ /\ r.cursor # 0
            /\ walker' = "slotsscan" /\ cursor' = r.cursor
            /\ steady' = old /\ seen' = seen \cup r.keys
            /\ UNCHANGED <<list, freed, missed>>
         \/ r.cursor = 0 /\ EndWalk(old \ (seen \cup r.keys))
    BY Zenon DEF SlotsScan
<1> HIDE DEF r
<1>4. old \subseteq Elems(d) /\ freed \cap old = {}
    BY DEF WalkOK
<1>5. ASSUME NEW k \in old, k \notin seen PROVE rev(Hash[k]) >= rev(cursor)
  <2>1. CASE walker = "idle"
    <3>1. cursor = 0
        BY <2>1 DEF WalkOK
    <3> QED BY <1>4, <3>1, AllAhead
  <2>2. CASE walker = "slotsscan"
      BY <1>5, <2>2 DEF WalkOK, Ahead
  <2> QED BY <1>3, <2>1, <2>2
<1> HIDE DEF old
<1>6. \A k \in old : k \in seen \cup r.keys \/ (r.cursor # 0 /\ rev(Hash[k]) >= rev(r.cursor))
    BY <1>2, <1>4, <1>5 DEF Reaches
<1>7. r.cursor \in 0 .. Words - 1 /\ (r.cursor # 0 => rev(r.cursor) > rev(cursor))
    BY <1>2 DEF Reaches
<1>8. CASE /\ r.cursor # 0
           /\ walker' = "slotsscan" /\ cursor' = r.cursor
           /\ steady' = old /\ seen' = seen \cup r.keys
           /\ UNCHANGED <<list, freed, missed>>
  <2>1. \A k \in steady' \ seen' : Ahead(k)'
      BY <1>6, <1>8 DEF Ahead
  <2>2. steady' \subseteq Elems(d)'
      BY <1>3, <1>4, <1>8
  <2>3. freed' \cap steady' = {} /\ missed' = {}
      BY <1>4, <1>8 DEF WalkOK
  <2>4. cursor' \in 0 .. Words - 1
      BY <1>7, <1>8
  <2>5. WalkOK'
      BY <1>8, <2>1, <2>2, <2>3, <2>4 DEF WalkOK
  <2> QED BY <1>7, <1>8, <2>5
<1>9. CASE r.cursor = 0 /\ EndWalk(old \ (seen \cup r.keys))
  <2>1. old \ (seen \cup r.keys) = {}
      BY <1>6, <1>9
  <2>2. /\ walker' = "idle" /\ cursor' = 0 /\ list' = {} /\ freed' = {}
        /\ steady' = {} /\ missed' = {}
      BY <1>9, <2>1 DEF EndWalk
  <2>3. 0 \in 0 .. Words - 1
      BY WordFacts
  <2>4. WalkOK'
      BY <2>2, <2>3 DEF WalkOK
  <2> QED BY <2>2, <2>4
<1> QED BY <1>3, <1>8, <1>9

(* One m_dictScan of SLOTSDEL.                                             *)
LEMMA DelScanKeepsWalk ==
    ASSUME WalkOK, DictOK(d), DelScan
    PROVE  WalkOK' /\ (cursor' # 0 => rev(cursor') > rev(cursor))
<1> DEFINE s == m_dictScan(d, cursor)
<1>1. /\ walker = "del_scan" /\ walker' = "del_unlink" /\ list' = s.keys /\ cursor' = s.cursor
      /\ UNCHANGED <<d, freed, steady, seen, missed>>
    BY DEF DelScan
<1>2. Reaches(d, cursor, s.keys, s.cursor)
    BY StepReaches DEF WalkOK
<1> HIDE DEF s
<1>3. steady \subseteq Elems(d) /\ \A k \in steady : rev(Hash[k]) >= rev(cursor)
    BY <1>1 DEF WalkOK
<1>4. \A k \in steady' \ list' : Ahead(k)'
    BY <1>1, <1>2, <1>3 DEF Reaches, Ahead
<1>5. cursor' \in 0 .. Words - 1 /\ (cursor' # 0 => rev(cursor') > rev(cursor))
    BY <1>1, <1>2 DEF Reaches
<1>6. steady' \subseteq Elems(d)' /\ freed' \cap steady' = {} /\ missed' = {}
    BY <1>1 DEF WalkOK
<1>7. WalkOK'
    BY <1>1, <1>4, <1>5, <1>6 DEF WalkOK
<1> QED BY <1>5, <1>7

(* A step that leaves the walk where it is, and takes no steady key out of *)
(* the list.                                                               *)
LEMMA FollowKeepsWalk ==
    ASSUME WalkOK, Follow, UNCHANGED <<walker, cursor, seen, missed>>,
           list' \subseteq list, \A k \in list \ list' : k \notin steady'
    PROVE  WalkOK'
<1>1. steady' = steady \cap Elems(d') /\ freed' = (freed \cap list') \cup (list' \ Elems(d'))
    BY DEF Follow
<1>2. steady' \subseteq Elems(d') /\ steady' \subseteq steady
    BY <1>1
<1>3. freed' \cap steady' = {}
    BY <1>1 DEF WalkOK
<1>4. ASSUME walker' = "idle" PROVE cursor' = 0 /\ list' = {}
    BY <1>4 DEF WalkOK
<1>5. ASSUME walker' = "idle" PROVE freed' = {}
    BY <1>1, <1>4, <1>5
<1>6. ASSUME walker' = "slotsscan", NEW k \in steady' \ seen' PROVE Ahead(k)'
    BY <1>2, <1>6 DEF WalkOK, Ahead
<1>7. ASSUME walker' = "del_scan", NEW k \in steady' PROVE rev(Hash[k]) >= rev(cursor')
    BY <1>2, <1>7 DEF WalkOK
<1>8. ASSUME walker' = "del_unlink", NEW k \in steady' \ list' PROVE Ahead(k)'
    BY <1>2, <1>8 DEF WalkOK, Ahead
<1>9. /\ walker' \in {"idle", "slotsscan", "del_scan", "del_unlink"}
      /\ cursor' \in 0 .. Words - 1 /\ missed' = {}
    BY DEF WalkOK
<1> QED BY <1>2, <1>3, <1>4, <1>5, <1>6, <1>7, <1>8, <1>9 DEF WalkOK

(* After UNLINK the key is not in the dict, and no other key is new.       *)
LEMMA UnlinkKeepsDict ==
    ASSUME DictOK(d), NEW k, Unlink(k)
    PROVE  k \notin Elems(d') /\ Elems(d') \subseteq Elems(d)
<1>1. CASE k \in Elems(d)
  <2>1. k \in Keys
      BY <1>1, TableFacts DEF DictOK, Elems
  <2>2. d' = Deleted(d, k).dict
      BY <1>1 DEF Unlink, m_dictDelete
  <2>3. Elems(d') = Elems(d) \ {k}
      BY <2>1, <2>2, DeleteOK
  <2> QED BY <2>3
<1>2. CASE k \notin Elems(d)
    BY <1>2 DEF Unlink
<1> QED BY <1>1, <1>2

(* SLOTSDEL unlinks a key of its list, or one whose name it reads from a   *)
(* released string.                                                        *)
LEMMA DelUnlinkKeepsWalk ==
    ASSUME WalkOK, DictOK(d), DelUnlink
    PROVE  WalkOK' /\ cursor' = cursor
<1>1. PICK k \in list :
       \/ /\ list' = list \ {k}
          /\ \/ k \notin freed /\ Unlink(k)
             \/ k \in freed /\ \E j \in Keys : Unlink(j) \/ UNCHANGED d
          /\ Follow
          /\ UNCHANGED <<walker, cursor, seen, missed, down>>
       \/ /\ list' = list \ {k} /\ steady' = steady \ {k}
          /\ UNCHANGED <<d, walker, cursor, freed, seen, missed>>
       \/ /\ k \in freed /\ down' = TRUE
          /\ UNCHANGED <<d, walker, cursor, list, freed, steady, seen, missed>>
    BY DEF DelUnlink
<1>2. CASE /\ list' = list \ {k}
           /\ \/ k \notin freed /\ Unlink(k)
              \/ k \in freed /\ \E j \in Keys : Unlink(j) \/ UNCHANGED d
           /\ Follow
           /\ UNCHANGED <<walker, cursor, seen, missed, down>>
  <2>1. k \notin steady'
    <3>1. steady' = steady \cap Elems(d')
        BY <1>2 DEF Follow
    <3>2. CASE Unlink(k)
        BY <3>1, <3>2, UnlinkKeepsDict
    <3>3. CASE k \in freed
        BY <3>1, <3>3 DEF WalkOK
    <3> QED BY <1>2, <3>2, <3>3
  <2>2. list' \subseteq list /\ \A j \in list \ list' : j \notin steady'
      BY <1>2, <2>1
  <2> QED BY <1>2, <2>2, FollowKeepsWalk
<1>3. CASE UNCHANGED <<d, walker, cursor, list, freed, steady, seen, missed>>
    BY <1>3 DEF WalkOK, Ahead
<1>4. CASE /\ list' = list \ {k} /\ steady' = steady \ {k}
           /\ UNCHANGED <<d, walker, cursor, freed, seen, missed>>
  <2>1. steady' \ list' = steady \ (list \cup {k}) /\ steady' \subseteq steady
      BY <1>4
  <2> QED BY <1>4, <2>1 DEF WalkOK, Ahead
<1> QED BY <1>1, <1>2, <1>3, <1>4

(* No step loses a steady key or takes the cursor back.                    *)
LEMMA WalkStep ==
    ASSUME WalkOK, DictOK(d), [Next]_vars
    PROVE  WalkOK' /\ (cursor' # cursor /\ cursor' # 0 => rev(cursor') > rev(cursor))
<1>1. CASE \E n \in Counts : SlotsScan(n)
    BY <1>1, SlotsScanKeepsWalk
<1>2. CASE SlotsDel
  <2>1. /\ walker = "idle" /\ walker' = "del_scan" /\ steady' = Elems(d)
        /\ UNCHANGED <<d, cursor, list, freed, seen, missed>>
      BY <1>2 DEF SlotsDel
  <2>2. cursor = 0 /\ freed = {} /\ missed = {} /\ cursor \in 0 .. Words - 1
      BY <2>1 DEF WalkOK
  <2>3. \A k \in steady' : rev(Hash[k]) >= rev(cursor')
      BY <2>1, <2>2, AllAhead
  <2> QED BY <2>1, <2>2, <2>3 DEF WalkOK
<1>3. ASSUME NEW m, m = {}, EndWalk(m) PROVE WalkOK' /\ cursor' = 0
  <2>1. 0 \in 0 .. Words - 1
      BY WordFacts
  <2> QED BY <1>3, <2>1 DEF EndWalk, WalkOK
<1>4. CASE DelRefused
    BY <1>3, <1>4 DEF DelRefused
<1>5. CASE DelLoop
  <2>1. walker = "del_unlink" /\ list = {} /\ d' = d
      BY <1>5 DEF DelLoop
  <2>2. \A k \in steady : Ahead(k)
      BY <2>1 DEF WalkOK
  <2>3. CASE Finished(cursor) /\ EndWalk(steady)
    <3>1. steady = {}
        BY <2>2, <2>3 DEF Finished, Ahead
    <3> QED BY <1>3, <2>3, <3>1
  <2>4. CASE walker' = "del_scan" /\ UNCHANGED <<cursor, list, freed, steady, seen, missed>>
      BY <2>1, <2>2, <2>4 DEF WalkOK, Ahead
  <2> QED BY <1>5, <2>3, <2>4 DEF DelLoop
<1>6. CASE DelScan
    BY <1>6, DelScanKeepsWalk
<1>7. CASE DelUnlink
    BY <1>7, DelUnlinkKeepsWalk
<1>8. CASE Others
  <2>1. UNCHANGED <<walker, cursor, list, seen, missed>> /\ Follow
      BY <1>8 DEF Others
  <2>2. list' \subseteq list /\ list \ list' = {}
      BY <2>1
  <2> QED BY <2>1, <2>2, FollowKeepsWalk
<1>9. CASE UNCHANGED vars
    BY <1>9 DEF vars, walkVars, WalkOK, Ahead
<1> QED BY <1>1, <1>2, <1>4, <1>5, <1>6, <1>7, <1>8, <1>9 DEF Next, DelStep

-----------------------------------------------------------------------------
(* The invariant of the walks, with clients and the cron job changing the  *)
(* dict between their steps.                                               *)
THEOREM WalkInvariant == Spec => [](WalkOK /\ DictOK(d))
<1>1. Spec => []DictOK(d)
    BY WalksUseTheDict, DictInvariant, PTL
<1>2. Init => WalkOK
  <2>1. 0 \in 0 .. Words - 1
      BY WordFacts
  <2> QED BY <2>1 DEF Init, WalkOK
<1>3. WalkOK /\ DictOK(d) /\ [Next]_vars => WalkOK'
    BY WalkStep
<1> QED BY <1>1, <1>2, <1>3, PTL DEF Spec

(* A key that is in the dict during a whole walk is given to it, and is    *)
(* unlinked by SLOTSDEL if UNLINK has a reply: for every number of keys,   *)
(* hashes, table sizes and word lengths, whatever grows, shrinks or is     *)
(* rehashed between two steps.                                             *)
THEOREM WalksAreComplete == Spec => []WalkComplete
<1>1. WalkOK => WalkComplete
    BY DEF WalkOK, WalkComplete
<1> QED BY <1>1, WalkInvariant, PTL

(* The reversed cursor of a walk grows at every step that does not end the *)
(* walk, whatever the sizes of the tables are: the client of SLOTSSCAN and *)
(* the loop of SLOTSDEL never come back to a bucket they have passed.      *)
THEOREM CursorsAdvance == Spec => CursorAdvances
<1>1. WalkOK /\ DictOK(d) /\ [Next]_vars =>
          [cursor' # cursor /\ cursor' # 0 => rev(cursor') > rev(cursor)]_vars
    BY WalkStep
<1> QED BY <1>1, WalkInvariant, PTL DEF Spec, CursorAdvances
=============================================================================
