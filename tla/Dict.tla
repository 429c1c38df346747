-------------------------------- MODULE Dict --------------------------------
(***************************************************************************)
(* The hash table of dep/dict.c: two tables, the second one in use only    *)
(* while the entries are moved to it bucket by bucket.  Every operation    *)
(* moves one bucket first, the cron job moves more.  The operations are    *)
(* those the module uses on the dict of a slot; each runs under the lock   *)
(* of the slot (see MoverThread), so it is one step.                       *)
(*                                                                         *)
(* A bucket is the set of its keys: the order of a chain and the values    *)
(* are left out.  hash & sizemask is a remainder, a size being a power of  *)
(* two.                                                                    *)
(*                                                                         *)
(* DoubleInPlace, NotStarted, SameIndex, SearchNew, InsertOld and DrawOld  *)
(* are plausible mistakes: each is a wrong form of the definition that     *)
(* follows it, which a property must refute.                               *)
(***************************************************************************)
EXTENDS Integers, FiniteSets

CONSTANTS
    Keys,
    Hash,                 \* [Keys -> Nat]: dictHashKey
    DICT_HT_INITIAL_SIZE, \* 4 in the code
    HASHTABLE_MIN_FILL,   \* percentage, 10 in the code
    EmptyVisits,          \* empty buckets visited per bucket to move, 10
    RehashBatch,          \* buckets m_dictRehashMilliseconds asks for, 100
    MaxBatches            \* bound on its number of batches in a millisecond

ASSUME DictAssumption ==
    /\ IsFiniteSet(Keys)
    /\ Hash \in [Keys -> Nat]
    /\ DICT_HT_INITIAL_SIZE \in Nat \ {0}
    /\ HASHTABLE_MIN_FILL \in Nat
    /\ EmptyVisits \in Nat \ {0}
    /\ RehashBatch \in Nat \ {0} /\ MaxBatches \in Nat \ {0}

VARIABLE
    d   \* [ht : the two tables, rehashidx : next bucket to move or -1]

(* _dictReset                                                              *)
NoTable == [size |-> 0, used |-> 0, table |-> [i \in {} |-> {}]]
(* Allocation of a table of n buckets                                      *)
NewTable(n) == [size |-> n, used |-> 0, table |-> [i \in 0 .. n - 1 |-> {}]]
(* _dictInit, m_dictEmpty                                                  *)
NoDict == [ht |-> [i \in {0, 1} |-> NoTable], rehashidx |-> -1]

dictIsRehashing(x) == x.rehashidx # -1
dictSize(x) == x.ht[0].used + x.ht[1].used
dictSlots(x) == x.ht[0].size + x.ht[1].size

(* hash & sizemask                                                         *)
Index(t, k) == Hash[k] % t.size

(* A new entry at the head of its chain                                    *)
Linked(t, k) ==
    [t EXCEPT !.table[Index(t, k)] = @ \cup {k}, !.used = @ + 1]

Unlinked(t, k) ==
    [t EXCEPT !.table[Index(t, k)] = @ \ {k}, !.used = @ - 1]

-----------------------------------------------------------------------------
(* Growing and shrinking *)

(* DICT_HT_INITIAL_SIZE, doubled up to size times.                         *)
Powers(size) ==
    LET p[i \in 0 .. size] == IF i = 0 THEN DICT_HT_INITIAL_SIZE
                              ELSE 2 * p[i - 1]
    IN  {p[i] : i \in 0 .. size}

(* The first of them that is not below size.                               *)
_dictNextPower(size) ==
    CHOOSE p \in Powers(size) :
        p >= size /\ \A q \in Powers(size) : q >= size => p <= q

(* m_dictExpand: refused while rehashing, if the entries would not fit,    *)
(* and if the size would stay the same.                                    *)
CanExpand(x, size) ==
    /\ ~dictIsRehashing(x)
    /\ x.ht[0].used <= size
    /\ _dictNextPower(size) # x.ht[0].size

DoubleInPlace(x, size) ==
    [x EXCEPT !.ht[0] = NewTable(_dictNextPower(size))]

NotStarted(x, size) ==
    LET n == NewTable(_dictNextPower(size)) IN
    IF x.ht[0].size = 0 THEN [x EXCEPT !.ht[0] = n] ELSE [x EXCEPT !.ht[1] = n]

Expanded(x, size) ==
    LET n == NewTable(_dictNextPower(size)) IN
    IF x.ht[0].size = 0 THEN [x EXCEPT !.ht[0] = n]
    ELSE [x EXCEPT !.ht[1] = n, !.rehashidx = 0]

(* _dictExpandIfNeeded: the size to expand to, 0 for none.                 *)
GrowTo(x) ==
    LET u == x.ht[0].used
        n == x.ht[0].size
    IN  CASE ~dictIsRehashing(x) /\ n = 0           -> DICT_HT_INITIAL_SIZE
          [] ~dictIsRehashing(x) /\ n # 0 /\ u >= n -> u * 2
          [] OTHER                                  -> 0

-----------------------------------------------------------------------------
(* Incremental rehashing *)

(* The first bucket from i on that has entries, size if there is none.     *)
NextUsed(t, i) ==
    CHOOSE b \in i .. t.size :
        /\ b = t.size \/ t.table[b] # {}
        /\ \A c \in i .. b - 1 : t.table[c] = {}

SameIndex(x, b) ==
    LET moved == x.ht[0].table[b] IN
    [x EXCEPT !.ht[0].table[b] = {},
              !.ht[0].used = @ - Cardinality(moved),
              !.ht[1].table[b % x.ht[1].size] = @ \cup moved,
              !.ht[1].used = @ + Cardinality(moved),
              !.rehashidx = b + 1]

(* Move the entries of bucket b and go on to the next bucket.              *)
MoveBucket(x, b) ==
    LET moved == x.ht[0].table[b] IN
    [x EXCEPT !.ht[0].table[b] = {},
              !.ht[0].used = @ - Cardinality(moved),
              !.ht[1].table = [i \in DOMAIN @ |->
                  @[i] \cup {k \in moved : Index(x.ht[1], k) = i}],
              !.ht[1].used = @ + Cardinality(moved),
              !.rehashidx = b + 1]

(* One round of the loop of m_dictRehash; s has the dict, the empty visits *)
(* that are left, and whether they ran out.                                *)
RehashRound(s) ==
    LET b   == NextUsed(s.dict.ht[0], s.dict.rehashidx)
        gap == b - s.dict.rehashidx
    IN  CASE s.out \/ s.dict.ht[0].used = 0 -> s
          [] ~s.out /\ s.dict.ht[0].used # 0 /\ gap >= s.visits ->
               [dict |-> [s.dict EXCEPT !.rehashidx = @ + s.visits],
                visits |-> 0, out |-> TRUE]
          [] OTHER -> [dict |-> MoveBucket(s.dict, b),
                       visits |-> s.visits - gap, out |-> FALSE]

(* m_dictRehash(d, n): n rounds, then the tables are exchanged if the old  *)
(* one is empty, unless the empty visits ran out before.                   *)
m_dictRehash(x, n) ==
    LET round[i \in 0 .. n] ==
          IF i = 0 THEN [dict |-> x, visits |-> n * EmptyVisits, out |-> FALSE]
          ELSE RehashRound(round[i - 1])
        s == round[n]
    IN  CASE ~dictIsRehashing(x) -> x
          [] dictIsRehashing(x) /\ ~s.out /\ s.dict.ht[0].used = 0 ->
               [ht |-> [i \in {0, 1} |-> IF i = 0 THEN s.dict.ht[1] ELSE NoTable],
                rehashidx |-> -1]
          [] OTHER -> s.dict

_dictRehashStep(x) == m_dictRehash(x, 1)

-----------------------------------------------------------------------------
(* Operations *)

SearchNew(x, k) == IF dictIsRehashing(x) THEN {1} ELSE {0}

(* The tables that are searched for a key                                  *)
Searched(x, k) == IF dictIsRehashing(x) THEN {0, 1} ELSE {0}

(* The tables in which k is found: it is looked for in its bucket only.    *)
FoundIn(x, k) ==
    {i \in Searched(x, k) : x.ht[i].size > 0
                              /\ k \in x.ht[i].table[Index(x.ht[i], k)]}

InsertOld(x) == 0

(* The table a new entry goes to                                           *)
InsertInto(x) == IF dictIsRehashing(x) THEN 1 ELSE 0

(* m_dictAdd: a step of rehashing, then growing (also if the key is there  *)
(* already), then the search; a refused expansion fails like a key that    *)
(* exists.                                                                 *)
Added(x0, k) ==
    LET x == _dictRehashStep(x0)
        refused == GrowTo(x) # 0 /\ ~CanExpand(x, GrowTo(x))
        y == IF GrowTo(x) # 0 /\ ~refused THEN Expanded(x, GrowTo(x)) ELSE x
        ok == ~refused /\ FoundIn(y, k) = {}
    IN  [ok |-> ok,
         dict |-> IF ok THEN [y EXCEPT !.ht[InsertInto(y)] = Linked(@, k)]
                  ELSE y]

m_dictAdd(k) == d' = Added(d, k).dict

(* dictGenericDelete: the entry is taken out of the first table that has   *)
(* it.                                                                     *)
Deleted(x0, k) ==
    LET x == _dictRehashStep(x0)
        found == FoundIn(x, k)
        i == IF 0 \in found THEN 0 ELSE 1
    IN  CASE dictSize(x0) = 0 -> [ok |-> FALSE, dict |-> x0]
          [] dictSize(x0) # 0 /\ found = {} -> [ok |-> FALSE, dict |-> x]
          [] OTHER -> [ok |-> TRUE,
                       dict |-> [x EXCEPT !.ht[i] = Unlinked(@, k)]]

m_dictDelete(k) == d' = Deleted(d, k).dict

DrawOld(x) == UNION {x.ht[0].table[h] : h \in 0 .. x.ht[0].size - 1}

(* The keys m_dictGetRandomKey can draw: a bucket from rehashidx on of the *)
(* old table, or any bucket of the new one; without rehashing any bucket   *)
(* of the only table.  It draws buckets until one has entries.             *)
Drawable(x) ==
    IF dictIsRehashing(x)
    THEN UNION {IF h >= x.ht[0].size THEN x.ht[1].table[h - x.ht[0].size]
                ELSE x.ht[0].table[h] : h \in x.rehashidx .. dictSlots(x) - 1}
    ELSE UNION {x.ht[0].table[h] : h \in 0 .. x.ht[0].size - 1}

m_dictGetRandomKey == dictSize(d) # 0 /\ d' = _dictRehashStep(d)

(* The cron job on one dict: tryResizeDbSlotHashTables ...                 *)
htNeedsResize(x) ==
    /\ dictSlots(x) > DICT_HT_INITIAL_SIZE
    /\ dictSize(x) * 100 < HASHTABLE_MIN_FILL * dictSlots(x)

Minimal(x) == IF x.ht[0].used < DICT_HT_INITIAL_SIZE THEN DICT_HT_INITIAL_SIZE
              ELSE x.ht[0].used

m_dictResize ==
    /\ htNeedsResize(d) /\ CanExpand(d, Minimal(d))
    /\ d' = Expanded(d, Minimal(d))

(* ... and incrementallyDbSlotRehash: batches until the dict is done or    *)
(* the millisecond is over.                                                *)
m_dictRehashMilliseconds ==
    LET batch[n \in 0 .. MaxBatches] ==
          IF n = 0 THEN d ELSE m_dictRehash(batch[n - 1], RehashBatch)
    IN  /\ dictIsRehashing(d)
        /\ \E n \in 1 .. MaxBatches : d' = batch[n]
    
(* FlushdbCallback                                                         *)
m_dictEmpty == dictSize(d) # 0 /\ d' = NoDict

DictInit == d = NoDict

DictNext ==
    \/ \E k \in Keys : m_dictAdd(k) \/ m_dictDelete(k)
    \/ m_dictGetRandomKey
    \/ m_dictResize
    \/ m_dictRehashMilliseconds
    \/ m_dictEmpty

DictSpec == DictInit /\ [][DictNext]_d

-----------------------------------------------------------------------------
(* Properties *)

TableKeys(t) == UNION {t.table[i] : i \in DOMAIN t.table}
Elems(x) == TableKeys(x.ht[0]) \cup TableKeys(x.ht[1])

(* The sizes a table gets: 0, or the next power of what it has to hold,    *)
(* which is never more than twice the keys.                                *)
Sizes == {0} \cup {_dictNextPower(n) : n \in 0 .. 2 * Cardinality(Keys)}

IsTable(t) == /\ t.size \in Sizes /\ t.used \in 0 .. Cardinality(Keys)
              /\ t.table \in [0 .. t.size - 1 -> SUBSET Keys]

(* The type of the two tables; the second one exists exactly while the     *)
(* dict is rehashing.                                                      *)
DictTypeOK ==
    /\ IsTable(d.ht[0]) /\ IsTable(d.ht[1])
    /\ d.rehashidx \in -1 .. d.ht[0].size
    /\ dictIsRehashing(d) <=> d.ht[1].size # 0

(* Every entry is in exactly one place, and it is the place where a search *)
(* looks for it, whatever mix of growing, shrinking and steps of rehashing *)
(* went before.                                                            *)
Placed ==
    /\ \A i \in {0, 1} : \A b \in DOMAIN d.ht[i].table :
          \A k \in d.ht[i].table[b] : Index(d.ht[i], k) = b
    /\ TableKeys(d.ht[0]) \cap TableKeys(d.ht[1]) = {}

(* "Note that rehashidx can't overflow as we are sure there are more       *)
(* elements because ht[0].used != 0": the used counters are exact, and     *)
(* below rehashidx the old table is empty, so the assertion of             *)
(* m_dictRehash holds and the walk to the next bucket ends in the table.   *)
RehashIndexSafe ==
    /\ \A i \in {0, 1} : d.ht[i].used = Cardinality(TableKeys(d.ht[i]))
    /\ \A b \in 0 .. d.rehashidx - 1 : d.ht[0].table[b] = {}
    /\ dictIsRehashing(d) /\ d.ht[0].used # 0 => d.rehashidx < d.ht[0].size

(* m_dictGetRandomKey can draw every key, on a dict with two tables too: a *)
(* key it never draws would keep a slot from being migrated, and if it     *)
(* could draw none the loop would not end.                                 *)
RandomReachesAll == Drawable(d) = Elems(d)

(* Slots_Add and Slots_Del change the skiplist only if the dict answers    *)
(* DICT_OK: adding succeeds exactly for a key that is not there and        *)
(* deleting exactly for one that is, in every stage of a rehash and when   *)
(* adding grows the table.                                                 *)
AnswersRight ==
    \A k \in Keys :
        /\ Added(d, k).ok <=> k \notin Elems(d)
        /\ Deleted(d, k).ok <=> k \in Elems(d)

(* The dict behaves like a set: no operation loses, duplicates or revives  *)
(* another key on the way, and maintenance is not visible.                 *)
Set == INSTANCE KeySet WITH elems <- Elems(d)
IsKeySet == Set!Spec
=============================================================================
