------------------------------ MODULE SkipList ------------------------------
(***************************************************************************)
(* The skiplist of dep/skiplist.c.  The module keeps the tagged keys of a  *)
(* database in one, scored by the CRC of the tag, and SLOTSMGRTTAGONE and  *)
(* SLOTSMGRTTAGSLOT take all keys of a tag out of it by range.  Every call *)
(* runs under the lock of the list, so it is one step.                     *)
(*                                                                         *)
(* A node is named by its member, a positive number whose order is that of *)
(* RedisModule_StringCompare.  Node 0 is the header.  Levels are numbered  *)
(* from 0, as in the code.  Besides the functions the module calls         *)
(* (insert, delete, first in range, free) the others of skiplist.h are     *)
(* modelled, which share the walk and the removal of a node.               *)
(*                                                                         *)
(* SpanNotReset, SpanNotTaken, TailKept, MinIncluded, EqualIsEmpty and     *)
(* ScoreOnly are plausible mistakes: each is a wrong form of the           *)
(* definition that follows it, which a property must refute.               *)
(***************************************************************************)
EXTENDS Integers, FiniteSets, Sequences

CONSTANTS
    Members,            \* a finite set of positive numbers
    Scores,             \* a finite set of numbers
    ZSKIPLIST_MAXLEVEL  \* 64 in the code

ASSUME SkipListAssumption ==
    /\ Members \subseteq Nat \ {0} /\ IsFiniteSet(Members)
    /\ Scores \subseteq Int /\ IsFiniteSet(Scores)
    /\ ZSKIPLIST_MAXLEVEL \in Nat \ {0}

VARIABLE
    zsl   \* [node : the header and the linked nodes, tail, level, length]

Header == 0
NULL   == -1

AllLevels == 0 .. ZSKIPLIST_MAXLEVEL - 1

(* m_zslCreateNode: what a new node has before it is linked                *)
m_zslCreateNode(level, score) ==
    [score |-> score, backward |-> NULL,
     forward |-> [i \in 0 .. level - 1 |-> NULL],
     span    |-> [i \in 0 .. level - 1 |-> 0]]

m_zslCreate ==
    [node |-> [n \in {Header} |-> m_zslCreateNode(ZSKIPLIST_MAXLEVEL, 0)],
     tail |-> NULL, level |-> 1, length |-> 0]

Nodes(z) == DOMAIN z.node \ {Header}

(* A range of scores (m_zrangespec)                                        *)
Ranges == [min : Scores, max : Scores, minex : BOOLEAN, maxex : BOOLEAN]

-----------------------------------------------------------------------------
(* The walk all functions share: from the header, on every level from the  *)
(* top go forward as long as go has the next node with its rank, its       *)
(* distance from the header by the spans.  Path(z, go)[i] is where level i *)
(* is left: update[i] and rank[i] of the code.  A level has at most        *)
(* z.length nodes, so that many steps reach its end.                       *)
Forward(z, go, i, p) ==
    LET next == z.node[p.node].forward[i]
        dist == p.rank + z.node[p.node].span[i]
    IN  IF next # NULL /\ <<next, dist>> \in go
        THEN [node |-> next, rank |-> dist] ELSE p

Along(z, go, i, p) ==
    LET run[k \in 0 .. z.length] ==
          IF k = 0 THEN p ELSE Forward(z, go, i, run[k - 1])
    IN  run[z.length]

Path(z, go) ==
    LET path[i \in 0 .. z.level] ==
          IF i = z.level THEN [node |-> Header, rank |-> 0]
          ELSE Along(z, go, i, path[i + 1])
    IN  [i \in 0 .. z.level - 1 |-> path[i]]

(* The nodes of S at whatever rank                                         *)
AnyRank(S) == S \X Int

ScoreOnly(z, n, s, m) == z.node[n].score < s

(* Node n is before the place of member m with score s.                    *)
Before(z, n, s, m) ==
    z.node[n].score < s \/ (z.node[n].score = s /\ n < m)

(* update and rank of a search for a member                                *)
PathTo(z, s, m) == Path(z, AnyRank({n \in Nodes(z) : Before(z, n, s, m)}))

MinIncluded(v, range) == v >= range.min

m_zslValueGteMin(v, range) == IF range.minex THEN v > range.min
                              ELSE v >= range.min

m_zslValueLteMax(v, range) == IF range.maxex THEN v < range.max
                              ELSE v <= range.max

-----------------------------------------------------------------------------
(* Inserting *)

SpanNotReset(z, path, level) ==
    [i \in 0 .. (IF level > z.level THEN level ELSE z.level) - 1 |->
        IF i < z.level
        THEN [node |-> path[i].node, rank |-> path[i].rank,
              span |-> z.node[path[i].node].span[i]]
        ELSE [node |-> Header, rank |-> 0, span |-> z.node[Header].span[i]]]

(* update, rank and the span of update after the list was raised to level: *)
(* on a level that was not in use the header's span is set to the length,  *)
(* since it still has the value of the time the level was given up.        *)
Raised(z, path, level) ==
    [i \in 0 .. (IF level > z.level THEN level ELSE z.level) - 1 |->
        IF i < z.level
        THEN [node |-> path[i].node, rank |-> path[i].rank,
              span |-> z.node[path[i].node].span[i]]
        ELSE [node |-> Header, rank |-> 0, span |-> z.length]]

(* m_zslInsert with the level m_zslRandomLevel returned                    *)
Inserted(z, score, m, level) ==
    LET up   == Raised(z, PathTo(z, score, m), level)
        rank == up[0].rank
        next == z.node[up[0].node].forward[0]
        x == [score |-> score,
              backward |-> IF up[0].node = Header THEN NULL ELSE up[0].node,
              forward |-> [i \in 0 .. level - 1 |->
                  z.node[up[i].node].forward[i]],
              span |-> [i \in 0 .. level - 1 |->
                  up[i].span - (rank - up[i].rank)]]
        Relinked(n) ==
            [z.node[n] EXCEPT
                !.forward = [i \in DOMAIN @ |->
                    IF i < level /\ up[i].node = n THEN m ELSE @[i]],
                !.span = [i \in DOMAIN @ |->
                    IF i \notin DOMAIN up \/ up[i].node # n THEN @[i]
                    ELSE IF i < level THEN (rank - up[i].rank) + 1
                    ELSE @[i] + 1],
                !.backward = IF n = next THEN m ELSE @]
    IN  [node |-> [n \in DOMAIN z.node \cup {m} |->
                      IF n = m THEN x ELSE Relinked(n)],
         tail |-> IF next = NULL THEN m ELSE z.tail,
         level |-> IF level > z.level THEN level ELSE z.level,
         length |-> z.length + 1]

-----------------------------------------------------------------------------
(* Removing a node *)

(* level-- while the header has no node on the top level                   *)
LevelInUse(z) ==
    CHOOSE l \in 1 .. z.level :
        /\ l = 1 \/ z.node[Header].forward[l - 1] # NULL
        /\ \A i \in l .. z.level - 1 : z.node[Header].forward[i] = NULL

SpanNotTaken(z, x, update, n, i) ==
    IF update[i] # n THEN z.node[n].span[i]
    ELSE IF z.node[n].forward[i] = x
         THEN z.node[n].span[i] + z.node[x].span[i] - 1
         ELSE z.node[n].span[i]

(* The span of node n at level i after node x is unlinked                  *)
SpanAfter(z, x, update, n, i) ==
    IF update[i] # n THEN z.node[n].span[i]
    ELSE IF z.node[n].forward[i] = x
         THEN z.node[n].span[i] + z.node[x].span[i] - 1
         ELSE z.node[n].span[i] - 1

TailKept(z, x) == z.tail

TailAfter(z, x) ==
    IF z.node[x].forward[0] = NULL THEN z.node[x].backward ELSE z.tail

(* update is the node to the left of x on every level.                     *)
m_zslDeleteNode(z, x, update) ==
    LET next == z.node[x].forward[0]
        Around(n) ==
            [z.node[n] EXCEPT
                !.forward = [i \in DOMAIN @ |->
                    IF i < z.level /\ update[i] = n /\ @[i] = x
                    THEN z.node[x].forward[i] ELSE @[i]],
                !.span = [i \in DOMAIN @ |->
                    IF i < z.level THEN SpanAfter(z, x, update, n, i)
                    ELSE @[i]],
                !.backward = IF n = next THEN z.node[x].backward ELSE @]
        y == [z EXCEPT
                !.node = [n \in DOMAIN z.node \ {x} |-> Around(n)],
                !.tail = TailAfter(z, x),
                !.length = @ - 1]
    IN  [y EXCEPT !.level = LevelInUse(y)]

(* update does not change while nodes of a range are removed: it points to *)
(* nodes before the range.                                                 *)
Update(path) == [i \in DOMAIN path |-> path[i].node]

(* The node after the walk                                                 *)
After(z, path) == z.node[path[0].node].forward[0]

(* Remove from the node after the walk on while in has the node with its   *)
(* rank.                                                                   *)
DeleteStep(in, path, k, s) ==
    IF s.done \/ s.x = NULL \/ <<s.x, path[0].rank + k>> \notin in
    THEN [s EXCEPT !.done = TRUE]
    ELSE [list |-> m_zslDeleteNode(s.list, s.x, Update(path)),
          x |-> s.list.node[s.x].forward[0], done |-> FALSE]

DeleteWhile(z, path, in) ==
    LET step[k \in 0 .. z.length] ==
          IF k = 0 THEN [list |-> z, x |-> After(z, path), done |-> FALSE]
          ELSE DeleteStep(in, path, k, step[k - 1])
    IN  step[z.length].list

-----------------------------------------------------------------------------
(* The operations *)

(* Slots_Add calls it only for a key its dict did not have.                *)
m_zslInsert(score, m) ==
    /\ m \notin Nodes(zsl)
    /\ \E level \in 1 .. ZSKIPLIST_MAXLEVEL :
          zsl' = Inserted(zsl, score, m, level)

(* Nothing changes unless the node after the walk is the one asked for.    *)
m_zslDelete(score, m) ==
    LET path == PathTo(zsl, score, m)
        x == After(zsl, path)
    IN  /\ x # NULL /\ x = m /\ zsl.node[x].score = score
        /\ zsl' = m_zslDeleteNode(zsl, x, Update(path))

(* The node keeps its place with another score.                            *)
StaysInPlace(z, x, score) ==
    /\ z.node[x].backward # NULL =>
          z.node[z.node[x].backward].score < score
    /\ z.node[x].forward[0] # NULL =>
          z.node[z.node[x].forward[0]].score > score

m_zslUpdateScore(m, newscore) ==
    LET path == PathTo(zsl, zsl.node[m].score, m)
        x == After(zsl, path)
    IN  /\ m \in Nodes(zsl)
        /\ \/ /\ StaysInPlace(zsl, x, newscore)
              /\ zsl' = [zsl EXCEPT !.node[x].score = newscore]
           \/ /\ ~StaysInPlace(zsl, x, newscore)
              /\ \E level \in 1 .. ZSKIPLIST_MAXLEVEL :
                    zsl' = Inserted(m_zslDeleteNode(zsl, x, Update(path)),
                                    newscore, m, level)

(* The walk to the first node that is not below the range                  *)
PathBelow(z, range) ==
    Path(z, AnyRank({n \in Nodes(z) : ~m_zslValueGteMin(z.node[n].score, range)}))

(* The nodes that are not above the range                                  *)
NotAbove(z, range) ==
    {n \in Nodes(z) : m_zslValueLteMax(z.node[n].score, range)}

m_zslDeleteRangeByScore(range) ==
    zsl' = DeleteWhile(zsl, PathBelow(zsl, range), AnyRank(NotAbove(zsl, range)))

m_zslDeleteRangeByRank(start, end) ==
    zsl' = DeleteWhile(zsl, Path(zsl, Nodes(zsl) \X (0 .. start - 1)),
                       Nodes(zsl) \X (0 .. end))

(* m_zslFree and m_zslCreate: FlushdbCallback                              *)
m_zslFree == zsl.length # 0 /\ zsl' = m_zslCreate

(* Queries *)

EqualIsEmpty(z, range) ==
    /\ range.min < range.max
    /\ z.tail # NULL /\ m_zslValueGteMin(z.node[z.tail].score, range)
    /\ LET first == z.node[Header].forward[0]
       IN  first # NULL /\ m_zslValueLteMax(z.node[first].score, range)

zslIsInRange(z, range) ==
    /\ range.min < range.max
       \/ (range.min = range.max /\ ~range.minex /\ ~range.maxex)
    /\ z.tail # NULL /\ m_zslValueGteMin(z.node[z.tail].score, range)
    /\ LET first == z.node[Header].forward[0]
       IN  first # NULL /\ m_zslValueLteMax(z.node[first].score, range)

m_zslFirstInRange(z, range) ==
    LET x == After(z, PathBelow(z, range)) IN
    IF zslIsInRange(z, range) /\ m_zslValueLteMax(z.node[x].score, range)
    THEN x ELSE NULL

m_zslLastInRange(z, range) ==
    LET x == Path(z, AnyRank(NotAbove(z, range)))[0]
    IN  IF zslIsInRange(z, range)
           /\ m_zslValueGteMin(z.node[x.node].score, range)
        THEN x.node ELSE NULL

m_zslGetElementByRank(z, rank) ==
    LET path == Path(z, Nodes(z) \X (0 .. rank))
        hit  == {i \in DOMAIN path : path[i].rank = rank}
    IN  IF hit = {} THEN NULL
        ELSE path[CHOOSE i \in hit : \A j \in hit : j <= i].node

(* One turn of the loop of SlotsMGRT_TagKeys: the node goes to the batch   *)
TagStep(z, crc, s) ==
    IF s.x = NULL \/ z.node[s.x].score # crc THEN s
    ELSE [x |-> z.node[s.x].forward[0], batch |-> Append(s.batch, s.x)]

(* The keys of a tag, as SlotsMGRT_TagKeys collects them: forward from the *)
(* first node in range while the score is the CRC.                         *)
TagBatch(z, crc) ==
    LET first == m_zslFirstInRange(z, [min |-> crc, max |-> crc,
                                       minex |-> FALSE, maxex |-> FALSE])
        step[k \in 0 .. z.length] ==
          IF k = 0 THEN [x |-> first, batch |-> <<>>]
          ELSE TagStep(z, crc, step[k - 1])
    IN  step[z.length].batch

Init == zsl = m_zslCreate

Next ==
    \/ \E m \in Members, s \in Scores :
          m_zslInsert(s, m) \/ m_zslDelete(s, m) \/ m_zslUpdateScore(m, s)
    \/ \E range \in Ranges : m_zslDeleteRangeByScore(range)
    \/ \E start, end \in 1 .. Cardinality(Members) :
          m_zslDeleteRangeByRank(start, end)
    \/ m_zslFree

Spec == Init /\ [][Next]_zsl

-----------------------------------------------------------------------------
(* Properties *)

(* The order the list promises: the position of a node, the header's is 0. *)
Pos(z, n) ==
    IF n = Header THEN 0
    ELSE Cardinality({p \in Nodes(z) :
                         p = n \/ Before(z, p, z.node[n].score, n)})

(* The node at a position, NULL if there is none                           *)
NodeAt(z, p) ==
    IF p \in 1 .. Cardinality(Nodes(z))
    THEN CHOOSE n \in Nodes(z) : Pos(z, n) = p ELSE NULL

(* The nodes that are high enough for level i, the header among them       *)
On(z, i) == {n \in DOMAIN z.node : i \in DOMAIN z.node[n].forward}

(* The next node of level i after n by position                            *)
Successor(z, n, i) ==
    LET later == {p \in On(z, i) : Pos(z, p) > Pos(z, n)}
    IN  IF later = {} THEN NULL
        ELSE CHOOSE p \in later : \A q \in later : Pos(z, p) <= Pos(z, q)

InRange(range) ==
    {n \in Nodes(zsl) : LET v == zsl.node[n].score IN
        /\ range.min < v \/ (range.min = v /\ ~range.minex)
        /\ v < range.max \/ (v = range.max /\ ~range.maxex)}

(* The type of the list.  A span is unsigned, so the subtractions of       *)
(* m_zslInsert and m_zslDeleteNode must not go below 0.                    *)
SkipListTypeOK ==
    /\ Nodes(zsl) \subseteq Members
    /\ zsl.tail \in Members \cup {NULL}
    /\ zsl.level \in 1 .. ZSKIPLIST_MAXLEVEL /\ zsl.length \in Nat
    /\ \A n \in DOMAIN zsl.node : LET x == zsl.node[n] IN
          /\ x.score \in Scores \cup {0} /\ x.backward \in Members \cup {NULL}
          /\ DOMAIN x.forward = DOMAIN x.span
          /\ \A i \in DOMAIN x.span :
                x.span[i] \in Nat /\ x.forward[i] \in Members \cup {NULL}

(* Whatever inserts, deletes and score changes went before, every level is *)
(* the ordered chain of exactly the nodes that are high enough for it, and *)
(* backward, tail, length and level say the same as the chains.            *)
Linked ==
    /\ \A i \in AllLevels : \A n \in On(zsl, i) :
          zsl.node[n].forward[i] = Successor(zsl, n, i)
    /\ \A n \in Nodes(zsl) : zsl.node[n].backward = NodeAt(zsl, Pos(zsl, n) - 1)
    /\ zsl.length = Cardinality(Nodes(zsl))
    /\ zsl.tail = NodeAt(zsl, zsl.length)
    /\ \A i \in 1 .. ZSKIPLIST_MAXLEVEL - 1 :
          i < zsl.level <=> On(zsl, i) # {Header}

(* Every span in use is the distance to the next node of its level, or to  *)
(* the end of the list: the header's span of a level that was given up and *)
(* taken into use again too.                                               *)
SpansExact ==
    \A i \in 0 .. zsl.level - 1 : \A n \in On(zsl, i) :
        LET next == zsl.node[n].forward[i]
        IN  zsl.node[n].span[i] =
               (IF next = NULL THEN zsl.length ELSE Pos(zsl, next)) - Pos(zsl, n)

(* The first and last node in every range, open or closed, empty or not,   *)
(* and the node of every rank are the ones the order gives; in particular  *)
(* the assertion x != NULL of m_zslFirstInRange holds.                     *)
QueriesExact ==
    /\ \A range \in Ranges :
          LET in == InRange(range) IN
          /\ zslIsInRange(zsl, range) => After(zsl, PathBelow(zsl, range)) # NULL
          /\ m_zslFirstInRange(zsl, range) =
               IF in = {} THEN NULL
               ELSE CHOOSE n \in in : \A p \in in : Pos(zsl, n) <= Pos(zsl, p)
          /\ m_zslLastInRange(zsl, range) =
               IF in = {} THEN NULL
               ELSE CHOOSE n \in in : \A p \in in : Pos(zsl, p) <= Pos(zsl, n)
    /\ \A rank \in 1 .. Cardinality(Members) + 1 :
          m_zslGetElementByRank(zsl, rank) = NodeAt(zsl, rank)

(* A migration by tag takes every key of the tag, each once, and no other: *)
(* a key of the tag left behind would be split from the others.            *)
TagBatchExact ==
    \A crc \in Scores :
        LET batch == TagBatch(zsl, crc)
            keys  == {n \in Nodes(zsl) : zsl.node[n].score = crc}
        IN  /\ {batch[i] : i \in DOMAIN batch} = keys
            /\ Len(batch) = Cardinality(keys)

(* The list behaves like a set ordered by score and member.                *)
Ordered == INSTANCE OrderedSet
             WITH scores <- [m \in Nodes(zsl) |-> zsl.node[m].score]
IsOrderedSet == Ordered!Spec
=============================================================================
