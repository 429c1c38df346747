---------------------------- MODULE SkipListProofs ----------------------------
(***************************************************************************)
(* Proofs about SkipList for every set of members and scores and every     *)
(* number of levels: the list stays linked with exact spans whatever       *)
(* inserts, deletes and score changes are made in which order, its queries *)
(* answer what the order says, and it implements OrderedSet.               *)
(*                                                                         *)
(* Everything is said in positions.  The invariant ListOK states what each *)
(* link, span and end of the list is in terms of Pos, the rank of a node   *)
(* by score and member, which mentions no link.  From it PathFacts says    *)
(* where a walk leaves each level: at the last node of the level up to     *)
(* position c.  An insert at c then moves the positions after c up by one  *)
(* (Spliced), and removing the node at c + 1 moves them down (Closed); the *)
(* lemmas on a splice and its inverse compare old and new links under that *)
(* shift, level by level.                                                  *)
(***************************************************************************)
EXTENDS SkipList, FiniteSetTheorems, WellFoundedInduction, TLAPS

(* Induction over the naturals for a set.                                  *)
LEMMA NatSetInduction ==
    ASSUME NEW S, 0 \in S, \A n \in Nat : n \in S => n + 1 \in S
    PROVE  Nat \subseteq S
<1> SUFFICES ASSUME NEW n \in Nat, n \notin S PROVE FALSE
    OBVIOUS
<1>1. PICK x \in Nat \ S : \A y \in Nat \ S : ~(y < x)
  <2>1. Nat \ S \subseteq Nat /\ Nat \ S # {}
      OBVIOUS
  <2>2. PICK x \in Nat \ S : \A y \in Nat \ S : ~(<<y, x>> \in OpToRel(<, Nat))
      BY <2>1, NatLessThanWellFounded, WFMin
  <2> QED BY <2>2 DEF OpToRel
<1>2. x # 0 /\ x - 1 \in Nat /\ x - 1 < x /\ x = (x - 1) + 1
    OBVIOUS
<1> QED BY <1>1, <1>2

-----------------------------------------------------------------------------
(* Positions *)

(* The nodes have an order.                                                *)
Sortable(z) ==
    /\ Nodes(z) \subseteq Nat \ {0} /\ IsFiniteSet(Nodes(z))
    /\ \A n \in Nodes(z) : z.node[n].score \in Int

(* The nodes up to n                                                       *)
UpTo(z, n) == {p \in Nodes(z) : p = n \/ Before(z, p, z.node[n].score, n)}

(* A node counts itself, so positions start at 1.                          *)
LEMMA UpToFacts ==
    ASSUME NEW z, Sortable(z), NEW n \in Nodes(z)
    PROVE  /\ UpTo(z, n) \subseteq Nodes(z) /\ n \in UpTo(z, n)
           /\ IsFiniteSet(UpTo(z, n)) /\ Cardinality(UpTo(z, n)) \in Nat
           /\ Pos(z, n) = Cardinality(UpTo(z, n)) /\ Pos(z, n) \in 1 .. Cardinality(Nodes(z))
<1>1. UpTo(z, n) \in SUBSET Nodes(z) /\ n \in UpTo(z, n)
    BY DEF UpTo
<1>2. IsFiniteSet(UpTo(z, n)) /\ Cardinality(UpTo(z, n)) <= Cardinality(Nodes(z))
    BY <1>1, FS_Subset DEF Sortable
<1>3. Cardinality(UpTo(z, n)) \in Nat /\ Cardinality(UpTo(z, n)) # 0 /\ Cardinality(Nodes(z)) \in Nat
    BY <1>1, <1>2, FS_CardinalityType, FS_EmptySet DEF Sortable
<1>4. n # Header
    BY DEF Nodes
<1>5. Pos(z, n) = Cardinality(UpTo(z, n))
    BY <1>4 DEF Pos, UpTo
<1> QED BY <1>1, <1>2, <1>3, <1>5

(* Positions follow the order, and no two nodes share one.                 *)
LEMMA PosOrder ==
    ASSUME NEW z, Sortable(z), NEW p \in Nodes(z), NEW q \in Nodes(z), p # q
    PROVE  /\ Pos(z, p) # Pos(z, q)
           /\ Pos(z, p) < Pos(z, q) <=> Before(z, p, z.node[q].score, q)
<1>1. /\ p \in Nat /\ q \in Nat /\ z.node[p].score \in Int /\ z.node[q].score \in Int
      /\ \A n \in Nodes(z) : n \in Nat /\ z.node[n].score \in Int
    BY DEF Sortable
<1>2. ASSUME NEW a \in Nodes(z), NEW b \in Nodes(z), a # b, Before(z, a, z.node[b].score, b)
      PROVE  Pos(z, a) < Pos(z, b)
  <2>1. UpTo(z, a) \subseteq UpTo(z, b) \ {b}
      BY <1>1, <1>2 DEF UpTo, Before
  <2>2. /\ IsFiniteSet(UpTo(z, b) \ {b})
        /\ Cardinality(UpTo(z, b) \ {b}) = Cardinality(UpTo(z, b)) - 1
      BY UpToFacts, FS_RemoveElement
  <2>3. Cardinality(UpTo(z, a)) <= Cardinality(UpTo(z, b) \ {b})
      BY <2>1, <2>2, FS_Subset
  <2> QED BY <2>2, <2>3, UpToFacts
<1>3. Before(z, p, z.node[q].score, q) \/ Before(z, q, z.node[p].score, p)
    BY <1>1 DEF Before
<1>4. Pos(z, p) \in Nat /\ Pos(z, q) \in Nat
    BY UpToFacts
<1>5. CASE Before(z, p, z.node[q].score, q)
    BY <1>2, <1>4, <1>5
<1>6. CASE Before(z, q, z.node[p].score, p)
  <2>1. ~Before(z, p, z.node[q].score, q)
      BY <1>1, <1>6 DEF Before
  <2> QED BY <1>2, <1>4, <1>6, <2>1
<1> QED BY <1>3, <1>5, <1>6

(* Every position up to the number of nodes is taken.                      *)
LEMMA PosOnto ==
    ASSUME NEW z, Sortable(z), NEW k \in 1 .. Cardinality(Nodes(z))
    PROVE  \E n \in Nodes(z) : Pos(z, n) = k
<1> DEFINE N == Cardinality(Nodes(z))  f == [n \in Nodes(z) |-> Pos(z, n)]
<1>1. N \in Nat
    BY FS_CardinalityType DEF Sortable
<1>2. IsFiniteSet(1 .. N) /\ Cardinality(1 .. N) = N
  <2>1. 1 \in Int /\ N \in Int
      BY <1>1
  <2>2. IsFiniteSet(1 .. N) /\ Cardinality(1 .. N) = IF 1 > N THEN 0 ELSE N - 1 + 1
      BY <2>1, FS_Interval
  <2> QED BY <1>1, <2>2
<1> HIDE DEF N
<1>3. \A n \in Nodes(z) : Pos(z, n) \in 1 .. N
    BY UpToFacts DEF N
<1>4. \A p, q \in Nodes(z) : Pos(z, p) = Pos(z, q) => p = q
    BY PosOrder
<1>5. f \in [Nodes(z) -> 1 .. N] /\ \A p, q \in Nodes(z) : f[p] = f[q] => p = q
    BY <1>3, <1>4
<1> HIDE DEF f
<1>6. f \in Injection(Nodes(z), 1 .. N)
    BY <1>5 DEF Injection, IsInjective
<1>7. f \in Surjection(Nodes(z), 1 .. N)
    BY <1>2, <1>6, FS_Injection DEF N
<1>8. \E n \in Nodes(z) : f[n] = k
    BY <1>7 DEF Surjection, N
<1> QED BY <1>8 DEF f

(* z is y with one node more.                                              *)
Grown(y, z, m) ==
    /\ m \notin Nodes(y) /\ Nodes(z) = Nodes(y) \cup {m}
    /\ \A n \in Nodes(y) : z.node[n].score = y.node[n].score

(* The nodes after the new one move by one position.                       *)
LEMMA PosGrow ==
    ASSUME NEW y, NEW z, NEW m, Sortable(y), Sortable(z), Grown(y, z, m)
    PROVE  /\ Cardinality(Nodes(z)) = Cardinality(Nodes(y)) + 1
           /\ \A n \in Nodes(y) :
                /\ Pos(y, n) < Pos(z, m) <=> Before(y, n, z.node[m].score, m)
                /\ Pos(z, n) = IF Pos(y, n) < Pos(z, m) THEN Pos(y, n) ELSE Pos(y, n) + 1
<1>1. Cardinality(Nodes(z)) = Cardinality(Nodes(y)) + 1
    BY FS_AddElement DEF Sortable, Grown
<1>2. SUFFICES ASSUME NEW n \in Nodes(y)
      PROVE  /\ Pos(y, n) < Pos(z, m) <=> Before(y, n, z.node[m].score, m)
             /\ Pos(z, n) = IF Pos(y, n) < Pos(z, m) THEN Pos(y, n) ELSE Pos(y, n) + 1
    BY <1>1
<1>3. /\ n \in Nodes(z) /\ m \in Nodes(z) /\ n # m
      /\ \A p \in Nodes(z) : p \in Nat /\ z.node[p].score \in Int
      /\ \A p \in Nodes(y) : p \in Nodes(z) /\ z.node[p].score = y.node[p].score
      /\ \A p \in Nodes(z) : p = m \/ p \in Nodes(y)
      /\ m \notin Nodes(y)
    BY DEF Grown, Sortable
<1>4. /\ Pos(y, n) \in Nat /\ Pos(z, n) \in Nat /\ Pos(z, m) \in Nat
      /\ Pos(y, n) = Cardinality(UpTo(y, n)) /\ Pos(z, n) = Cardinality(UpTo(z, n))
      /\ Pos(z, m) = Cardinality(UpTo(z, m))
      /\ IsFiniteSet(UpTo(y, n)) /\ IsFiniteSet(UpTo(z, m))
    BY <1>3, UpToFacts
<1>5. CASE Before(y, n, z.node[m].score, m)
  <2>1. UpTo(z, n) = UpTo(y, n)
      BY <1>3, <1>5 DEF UpTo, Before
  <2>2. Before(z, n, z.node[m].score, m)
      BY <1>3, <1>5 DEF Before
  <2>3. Pos(z, n) < Pos(z, m)
      BY <1>3, <2>2, PosOrder
  <2> QED BY <1>4, <1>5, <2>1, <2>3
<1>6. CASE ~Before(y, n, z.node[m].score, m)
  <2>1. UpTo(z, n) = UpTo(y, n) \cup {m}
    <3>1. Before(z, m, z.node[n].score, n)
        BY <1>3, <1>6 DEF Before
    <3>2. \A p \in Nodes(y) : Before(z, p, z.node[n].score, n) <=> Before(y, p, y.node[n].score, n)
        BY <1>3 DEF Before
    <3>3. \A p : p \in UpTo(z, n) <=> p \in UpTo(y, n) \/ p = m
        BY <1>3, <3>1, <3>2 DEF UpTo
    <3> QED BY <3>3
  <2>2. m \notin UpTo(y, n)
      BY <1>3 DEF UpTo
  <2>3. Pos(z, n) = Pos(y, n) + 1
    <3>1. Cardinality(UpTo(y, n) \cup {m}) = Cardinality(UpTo(y, n)) + 1
        BY <1>4, <2>2, FS_AddElement
    <3> QED BY <1>4, <2>1, <3>1
  <2>4. ~Before(z, n, z.node[m].score, m)
      BY <1>3, <1>6 DEF Before
  <2>5. ~(Pos(z, n) < Pos(z, m)) /\ Pos(z, n) # Pos(z, m)
      BY <1>3, <2>4, PosOrder
  <2> QED BY <1>4, <1>6, <2>3, <2>5
<1> QED BY <1>5, <1>6

-----------------------------------------------------------------------------
(* The walk, step by step *)

(* The steps of the walk on one level                                      *)
LEMMA AlongSteps ==
    ASSUME NEW z, NEW go, NEW i, NEW p, z.length \in Nat
    PROVE  \E g : /\ g[0] = p /\ Along(z, go, i, p) = g[z.length]
                  /\ \A k \in 1 .. z.length : g[k] = Forward(z, go, i, g[k - 1])
<1> DEFINE F(x) == Forward(z, go, i, x)
<1> HIDE DEF F
<1> DEFINE Rec(g, n) == g = [k \in 0 .. n |-> IF k = 0 THEN p ELSE F(g[k - 1])]
           S == {n \in Nat : \E g : Rec(g, n)}
<1>1. 0 \in S
  <2> DEFINE g == [k \in 0 .. 0 |-> p]
  <2>1. Rec(g, 0)
      OBVIOUS
  <2> QED BY <2>1
<1>2. ASSUME NEW n \in Nat, n \in S PROVE n + 1 \in S
  <2>1. PICK g : Rec(g, n)
      BY <1>2
  <2> DEFINE h == [k \in 0 .. n + 1 |-> IF k = n + 1 THEN F(g[n]) ELSE g[k]]
  <2>2. \A k \in 0 .. n : g[k] = IF k = 0 THEN p ELSE F(g[k - 1])
      BY <2>1
  <2>3. ASSUME NEW k \in 0 .. n + 1
        PROVE  h[k] = IF k = 0 THEN p ELSE F(h[k - 1])
    <3>1. CASE k = n + 1
      <4>1. k # 0 /\ k - 1 = n /\ k - 1 \in 0 .. n + 1 /\ k - 1 # n + 1
          BY <3>1
      <4> QED BY <3>1, <4>1
    <3>2. CASE k = 0
        BY <2>2, <3>2
    <3>3. CASE k # 0 /\ k # n + 1
      <4>1. k \in 0 .. n /\ k - 1 \in 0 .. n + 1 /\ k - 1 # n + 1
          BY <3>3
      <4> QED BY <2>2, <3>3, <4>1
    <3> QED BY <3>1, <3>2, <3>3
  <2>4. h = [k \in 0 .. n + 1 |-> h[k]]
      OBVIOUS
  <2> HIDE DEF h
  <2>5. Rec(h, n + 1)
      BY <2>3, <2>4
  <2> QED BY <2>5
<1>3. z.length \in S
  <2> HIDE DEF S
  <2> QED BY <1>1, <1>2, NatSetInduction
<1> DEFINE g == CHOOSE r : Rec(r, z.length)
<1>4. Rec(g, z.length)
    BY <1>3
<1>5. Along(z, go, i, p) = g[z.length]
    BY DEF Along, F
<1> HIDE DEF g
<1>6. g[0] = p /\ \A k \in 1 .. z.length : g[k] = F(g[k - 1])
    BY <1>4
<1> QED BY <1>5, <1>6 DEF F

(* The levels of a walk, from the top                                      *)
LEMMA PathSteps ==
    ASSUME NEW z, NEW go, z.level \in Nat
    PROVE  \E g : /\ g[z.level] = [node |-> Header, rank |-> 0]
                  /\ \A i \in 0 .. z.level - 1 : g[i] = Along(z, go, i, g[i + 1])
                  /\ Path(z, go) = [i \in 0 .. z.level - 1 |-> g[i]]
<1> DEFINE F(i, x) == Along(z, go, i, x)  top == [node |-> Header, rank |-> 0]
           L == z.level
<1> HIDE DEF F, top
<1> DEFINE Rec(g, n) == g = [i \in n .. L |-> IF i = L THEN top ELSE F(i, g[i + 1])]
           S == {n \in Nat : n <= L => \E g : Rec(g, L - n)}
<1>0. L \in Nat
    OBVIOUS
<1> HIDE DEF L
<1>1. 0 \in S
  <2> DEFINE g == [i \in L .. L |-> top]
  <2>1. Rec(g, L) /\ L - 0 = L
      BY <1>0
  <2> QED BY <2>1
<1>2. ASSUME NEW n \in Nat, n \in S PROVE n + 1 \in S
  <2> SUFFICES ASSUME n + 1 <= L PROVE \E g : Rec(g, L - (n + 1))
      OBVIOUS
  <2> DEFINE a == L - n  b == L - (n + 1)
  <2>1. a \in Nat /\ b \in Nat /\ a = b + 1 /\ a <= L /\ n <= L
      BY <1>0
  <2>2. PICK g : Rec(g, a)
      BY <1>2, <2>1
  <2> HIDE DEF a, b
  <2> DEFINE h == [i \in b .. L |-> IF i = b THEN F(b, g[a]) ELSE g[i]]
  <2>3. \A i \in a .. L : g[i] = IF i = L THEN top ELSE F(i, g[i + 1])
      BY <2>2
  <2>4. ASSUME NEW i \in b .. L
        PROVE  h[i] = IF i = L THEN top ELSE F(i, h[i + 1])
    <3>1. CASE i = b
      <4>1. i # L /\ i + 1 = a /\ a \in b .. L /\ a # b
          BY <1>0, <2>1, <3>1
      <4> QED BY <3>1, <4>1
    <3>2. CASE i # b
      <4>1. i \in a .. L /\ (i # L => i + 1 \in b .. L /\ i + 1 # b)
          BY <1>0, <2>1, <3>2
      <4> QED BY <2>3, <3>2, <4>1
    <3> QED BY <3>1, <3>2
  <2>5. h = [i \in b .. L |-> h[i]]
      OBVIOUS
  <2> HIDE DEF h
  <2>6. Rec(h, b)
      BY <2>4, <2>5
  <2> QED BY <2>6 DEF b
<1>3. \E g : Rec(g, 0)
  <2>1. L \in S
    <3> HIDE DEF S
    <3> QED BY <1>0, <1>1, <1>2, NatSetInduction
  <2>2. L <= L /\ L - L = 0
      BY <1>0
  <2> QED BY <2>1, <2>2
<1> DEFINE g == CHOOSE r : Rec(r, 0)
<1>4. Rec(g, 0)
    BY <1>3
<1>5. Path(z, go) = [i \in 0 .. L - 1 |-> g[i]]
    BY DEF Path, F, L, top
<1> HIDE DEF g
<1>6. g[L] = top
    BY <1>0, <1>4
<1>7. ASSUME NEW i \in 0 .. L - 1 PROVE g[i] = F(i, g[i + 1])
  <2>1. i \in 0 .. L /\ i # L
      BY <1>0
  <2> QED BY <1>4, <2>1
<1> QED BY <1>5, <1>6, <1>7 DEF F, L, top

-----------------------------------------------------------------------------
(* The inductive invariant *)

(* Every node has its fields, and as many levels as its height.            *)
NodeOK(x) ==
    /\ DOMAIN x = {"score", "backward", "forward", "span"}
    /\ \E h \in 1 .. ZSKIPLIST_MAXLEVEL :
          DOMAIN x.forward = 0 .. h - 1 /\ DOMAIN x.span = 0 .. h - 1
    /\ \A i \in DOMAIN x.span : x.span[i] \in Nat

(* The fields of the list and of its nodes; the header has all levels.     *)
Shape(z) ==
    /\ DOMAIN z = {"node", "tail", "level", "length"}
    /\ Header \in DOMAIN z.node /\ Nodes(z) \subseteq Members
    /\ z.level \in 1 .. ZSKIPLIST_MAXLEVEL /\ z.length = Cardinality(Nodes(z))
    /\ \A n \in DOMAIN z.node : NodeOK(z.node[n])
    /\ \A n \in Nodes(z) : z.node[n].score \in Scores
    /\ z.node[Header].score = 0 /\ z.node[Header].backward = NULL
    /\ DOMAIN z.node[Header].forward = AllLevels

(* q is the next node of level i after n, or there is none.                *)
IsNext(z, i, n, q) ==
    \/ q = NULL /\ \A p \in On(z, i) : Pos(z, p) <= Pos(z, n)
    \/ /\ q \in On(z, i) /\ Pos(z, n) < Pos(z, q)
       /\ \A p \in On(z, i) : Pos(z, p) <= Pos(z, n) \/ Pos(z, q) <= Pos(z, p)

(* q has position k, or no node has.                                       *)
IsAt(z, k, q) ==
    \/ q = NULL /\ k \notin 1 .. z.length
    \/ q \in Nodes(z) /\ Pos(z, q) = k

(* Every level is a chain in the order of positions.                       *)
Chains(z) == \A i \in AllLevels : \A n \in On(z, i) : IsNext(z, i, n, z.node[n].forward[i])

(* backward and tail follow the positions.                                 *)
Ends(z) ==
    /\ \A n \in Nodes(z) : IsAt(z, Pos(z, n) - 1, z.node[n].backward)
    /\ IsAt(z, z.length, z.tail)

(* The levels up to z.level, and no others, have nodes.                    *)
LevelsUsed(z) == \A i \in 1 .. ZSKIPLIST_MAXLEVEL - 1 : i < z.level <=> On(z, i) # {Header}

(* The position a span leads to                                            *)
Target(z, q) == IF q = NULL THEN z.length ELSE Pos(z, q)

(* Every span in use is the distance to the next node or to the end.       *)
Spans(z) ==
    \A i \in 0 .. z.level - 1 : \A n \in On(z, i) :
        z.node[n].span[i] = Target(z, z.node[n].forward[i]) - Pos(z, n)

(* The inductive invariant                                                 *)
ListOK(z) == Shape(z) /\ Chains(z) /\ Ends(z) /\ LevelsUsed(z) /\ Spans(z)

(* What the shape alone gives *)
LEMMA ShapeFacts ==
    ASSUME NEW z, Shape(z)
    PROVE  /\ Sortable(z) /\ z.length \in Nat /\ z.level \in Nat
           /\ Pos(z, Header) = 0 /\ DOMAIN z.node = Nodes(z) \cup {Header}
           /\ NULL \notin DOMAIN z.node /\ Header \notin Nodes(z)
           /\ \A n \in DOMAIN z.node : Pos(z, n) \in 0 .. z.length
           /\ \A n \in Nodes(z) : Pos(z, n) \in 1 .. z.length
           /\ \A p, q \in DOMAIN z.node : Pos(z, p) = Pos(z, q) => p = q
           /\ \A k \in 0 .. z.length : \E n \in DOMAIN z.node : Pos(z, n) = k
           /\ On(z, 0) = DOMAIN z.node
           /\ \A i \in AllLevels : Header \in On(z, i) /\ On(z, i) \subseteq DOMAIN z.node
           /\ \A i \in 0 .. ZSKIPLIST_MAXLEVEL - 2 : On(z, i + 1) \subseteq On(z, i)
           /\ \A i, n : n \in On(z, i) => i \in AllLevels /\ i \in DOMAIN z.node[n].span
                                          /\ z.node[n].span[i] \in Nat
<1>1. IsFiniteSet(Nodes(z)) /\ Nodes(z) \subseteq Nat \ {0}
    BY SkipListAssumption, FS_Subset DEF Shape
<1>2. Sortable(z)
    BY <1>1, SkipListAssumption DEF Sortable, Shape
<1>3. z.length \in Nat /\ z.level \in Nat /\ ZSKIPLIST_MAXLEVEL \in Nat \ {0}
    BY <1>1, SkipListAssumption, FS_CardinalityType DEF Shape
<1>4. /\ DOMAIN z.node = Nodes(z) \cup {Header} /\ Header \notin Nodes(z)
      /\ NULL \notin DOMAIN z.node /\ Pos(z, Header) = 0
    BY <1>1 DEF Shape, Nodes, Header, NULL, Pos
<1>5. \A n \in Nodes(z) : Pos(z, n) \in 1 .. z.length
    BY <1>2, UpToFacts DEF Shape
<1>6. \A n \in DOMAIN z.node : Pos(z, n) \in 0 .. z.length
    BY <1>3, <1>4, <1>5
<1>7. \A p, q \in DOMAIN z.node : Pos(z, p) = Pos(z, q) => p = q
  <2>1. \A p, q \in Nodes(z) : Pos(z, p) = Pos(z, q) => p = q
      BY <1>2, PosOrder
  <2> QED BY <1>3, <1>4, <1>5, <2>1
<1>8. \A k \in 0 .. z.length : \E n \in DOMAIN z.node : Pos(z, n) = k
  <2>1. \A k \in 1 .. Cardinality(Nodes(z)) : \E n \in Nodes(z) : Pos(z, n) = k
      BY <1>2, PosOnto
  <2>2. \A k \in 0 .. z.length : k = 0 \/ k \in 1 .. Cardinality(Nodes(z))
      BY <1>3 DEF Shape
  <2> QED BY <1>4, <2>1, <2>2
<1>9. ASSUME NEW n \in DOMAIN z.node
      PROVE  /\ 0 \in DOMAIN z.node[n].forward /\ DOMAIN z.node[n].forward \subseteq AllLevels
             /\ DOMAIN z.node[n].span = DOMAIN z.node[n].forward
             /\ \A i \in DOMAIN z.node[n].span : z.node[n].span[i] \in Nat
             /\ \A i \in 0 .. ZSKIPLIST_MAXLEVEL - 2 :
                   i + 1 \in DOMAIN z.node[n].forward => i \in DOMAIN z.node[n].forward
  <2>1. NodeOK(z.node[n])
      BY DEF Shape
  <2>2. PICK h \in 1 .. ZSKIPLIST_MAXLEVEL : DOMAIN z.node[n].forward = 0 .. h - 1
      BY <2>1 DEF NodeOK
  <2>3. DOMAIN z.node[n].span = DOMAIN z.node[n].forward
        /\ \A i \in DOMAIN z.node[n].span : z.node[n].span[i] \in Nat
      BY <2>1 DEF NodeOK
  <2>4. 0 \in 0 .. h - 1 /\ 0 .. h - 1 \subseteq AllLevels
        /\ \A i \in 0 .. ZSKIPLIST_MAXLEVEL - 2 : i + 1 \in 0 .. h - 1 => i \in 0 .. h - 1
      BY <1>3 DEF AllLevels
  <2> QED BY <2>2, <2>3, <2>4
<1>10. On(z, 0) = DOMAIN z.node
    BY <1>9 DEF On
<1>11. \A i \in AllLevels : Header \in On(z, i) /\ On(z, i) \subseteq DOMAIN z.node
    BY DEF On, Shape
<1>12. \A i \in 0 .. ZSKIPLIST_MAXLEVEL - 2 : On(z, i + 1) \subseteq On(z, i)
    BY <1>9 DEF On
<1>13. \A i, n : n \in On(z, i) => i \in AllLevels /\ i \in DOMAIN z.node[n].span
                                   /\ z.node[n].span[i] \in Nat
    BY <1>9 DEF On
<1> QED BY <1>2, <1>3, <1>4, <1>5, <1>6, <1>7, <1>8, <1>10, <1>11, <1>12, <1>13

-----------------------------------------------------------------------------
(* Where a walk leads *)

(* go has the nodes up to position c and no others.                        *)
LeadsTo(z, go, c) ==
    /\ c \in 0 .. z.length
    /\ \A n \in Nodes(z) : <<n, Pos(z, n)>> \in go <=> Pos(z, n) <= c

(* n is the last node of level i up to position c.                         *)
LastUpTo(z, i, n, c) ==
    /\ n \in On(z, i) /\ Pos(z, n) <= c
    /\ \A p \in On(z, i) : Pos(z, p) <= c => Pos(z, p) <= Pos(z, n)

(* The walk on a level leaves it at its last node up to position c.        *)
LEMMA AlongFacts ==
    ASSUME NEW z, ListOK(z), NEW go, NEW c, LeadsTo(z, go, c),
           NEW i \in 0 .. z.level - 1, NEW p,
           p.node \in On(z, i), p.rank = Pos(z, p.node), p.rank <= c
    PROVE  LET q == Along(z, go, i, p) IN
           LastUpTo(z, i, q.node, c) /\ q.rank = Pos(z, q.node)
<1>1. Shape(z) /\ Chains(z) /\ Spans(z)
    BY DEF ListOK
<1>2. /\ z.length \in Nat /\ z.level \in Nat /\ c \in 0 .. z.length /\ i \in AllLevels
      /\ \A n \in On(z, i) : Pos(z, n) \in 0 .. z.length
      /\ NULL \notin On(z, i) /\ On(z, i) \subseteq DOMAIN z.node
      /\ DOMAIN z.node = Nodes(z) \cup {Header} /\ Pos(z, Header) = 0
  <2>1. i \in AllLevels
      BY <1>1, SkipListAssumption DEF AllLevels, Shape
  <2>2. c \in 0 .. z.length
      BY DEF LeadsTo
  <2> QED BY <1>1, <2>1, <2>2, ShapeFacts
<1>3. PICK g : /\ g[0] = p /\ Along(z, go, i, p) = g[z.length]
               /\ \A k \in 1 .. z.length : g[k] = Forward(z, go, i, g[k - 1])
    BY <1>2, AlongSteps
<1> DEFINE Good(k, q) ==
             /\ q.node \in On(z, i) /\ q.rank = Pos(z, q.node) /\ q.rank <= c
             /\ q.rank >= k \/ LastUpTo(z, i, q.node, c)
           S == {k \in Nat : k <= z.length => Good(k, g[k])}
<1>4. 0 \in S
    BY <1>2, <1>3
<1>5. ASSUME NEW k \in Nat, k \in S PROVE k + 1 \in S
  <2> HIDE DEF Good
  <2> SUFFICES ASSUME k + 1 <= z.length PROVE Good(k + 1, g[k + 1])
      OBVIOUS
  <2>1. k <= z.length /\ k + 1 \in 1 .. z.length /\ (k + 1) - 1 = k
      BY <1>2
  <2> DEFINE q == g[k]
  <2>2. Good(k, q) /\ g[k + 1] = Forward(z, go, i, q)
      BY <1>3, <1>5, <2>1
  <2> HIDE DEF q
  <2> DEFINE next == z.node[q.node].forward[i]
             dist == q.rank + z.node[q.node].span[i]
  <2>3. q.node \in On(z, i) /\ q.rank = Pos(z, q.node) /\ q.rank <= c /\ q.rank \in Nat
      BY <1>2, <2>2 DEF Good
  <2>4. IsNext(z, i, q.node, next) /\ z.node[q.node].span[i] = Target(z, next) - Pos(z, q.node)
      BY <1>1, <1>2, <2>3 DEF Chains, Spans
  <2> HIDE DEF next
  <2>5. CASE next # NULL /\ <<next, dist>> \in go
    <3>1. g[k + 1] = [node |-> next, rank |-> dist]
        BY <2>2, <2>5 DEF Forward, next
    <3>2. next \in On(z, i) /\ Pos(z, q.node) < Pos(z, next) /\ next \in Nodes(z)
        BY <1>2, <2>3, <2>4, <2>5 DEF IsNext
    <3>3. dist = Pos(z, next)
        BY <1>2, <2>3, <2>4, <2>5, <3>2 DEF Target
    <3>4. Pos(z, next) <= c
        BY <2>5, <3>2, <3>3 DEF LeadsTo
    <3>5. Pos(z, next) >= k + 1 \/ LastUpTo(z, i, next, c)
      <4>1. CASE q.rank >= k
          BY <1>2, <2>3, <3>2, <4>1
      <4>2. CASE LastUpTo(z, i, q.node, c)
          BY <1>2, <2>3, <3>2, <3>4, <4>2 DEF LastUpTo
      <4> QED BY <2>2, <4>1, <4>2 DEF Good
    <3> HIDE DEF dist
    <3> QED BY <3>1, <3>2, <3>3, <3>4, <3>5 DEF Good
  <2>6. CASE ~(next # NULL /\ <<next, dist>> \in go)
    <3>1. g[k + 1] = q
        BY <2>2, <2>6 DEF Forward, next
    <3>2. LastUpTo(z, i, q.node, c)
      <4>1. CASE next = NULL
        <5>1. \A n \in On(z, i) : Pos(z, n) <= Pos(z, q.node)
            BY <1>2, <2>4, <4>1 DEF IsNext
        <5> QED BY <2>3, <5>1 DEF LastUpTo
      <4>2. CASE next # NULL
        <5>1. /\ next \in On(z, i) /\ Pos(z, q.node) < Pos(z, next) /\ next \in Nodes(z)
              /\ \A n \in On(z, i) : Pos(z, n) <= Pos(z, q.node) \/ Pos(z, next) <= Pos(z, n)
            BY <1>2, <2>3, <2>4, <4>2 DEF IsNext
        <5>2. dist = Pos(z, next)
            BY <1>2, <2>3, <2>4, <4>2, <5>1 DEF Target
        <5>3. ~(Pos(z, next) <= c)
            BY <2>6, <4>2, <5>1, <5>2 DEF LeadsTo
        <5> QED BY <1>2, <2>3, <5>1, <5>3 DEF LastUpTo
      <4> QED BY <4>1, <4>2
    <3> QED BY <2>3, <3>1, <3>2 DEF Good
  <2> QED BY <2>5, <2>6
<1>6. z.length \in S
  <2> HIDE DEF S
  <2> QED BY <1>2, <1>4, <1>5, NatSetInduction
<1> DEFINE q == g[z.length]
<1>7. Good(z.length, q)
  <2> HIDE DEF Good
  <2> QED BY <1>2, <1>6
<1> HIDE DEF q
<1>8. LastUpTo(z, i, q.node, c)
  <2>1. CASE q.rank >= z.length
      BY <1>2, <1>7, <2>1 DEF LastUpTo
  <2> QED BY <1>7, <2>1
<1> QED BY <1>3, <1>7, <1>8 DEF q

(* On every level in use the walk stops at the last node up to c, with its *)
(* position as rank.                                                       *)
LEMMA PathFacts ==
    ASSUME NEW z, ListOK(z), NEW go, NEW c, LeadsTo(z, go, c)
    PROVE  /\ DOMAIN Path(z, go) = 0 .. z.level - 1
           /\ \A i \in 0 .. z.level - 1 :
                 /\ LastUpTo(z, i, Path(z, go)[i].node, c)
                 /\ Path(z, go)[i].rank = Pos(z, Path(z, go)[i].node)
<1>1. /\ z.level \in Nat \ {0} /\ z.level <= ZSKIPLIST_MAXLEVEL /\ ZSKIPLIST_MAXLEVEL \in Nat
      /\ \A i \in AllLevels : Header \in On(z, i)
      /\ \A i \in 0 .. ZSKIPLIST_MAXLEVEL - 2 : On(z, i + 1) \subseteq On(z, i)
      /\ Pos(z, Header) = 0 /\ c \in Nat
    BY ShapeFacts, SkipListAssumption DEF ListOK, Shape, LeadsTo
<1>2. PICK g : /\ g[z.level] = [node |-> Header, rank |-> 0]
               /\ \A i \in 0 .. z.level - 1 : g[i] = Along(z, go, i, g[i + 1])
               /\ Path(z, go) = [i \in 0 .. z.level - 1 |-> g[i]]
    BY <1>1, PathSteps
<1> DEFINE L == z.level
           Good(i) == LastUpTo(z, i, g[i].node, c) /\ g[i].rank = Pos(z, g[i].node)
           S == {k \in Nat : k < L => Good(L - 1 - k)}
<1> HIDE DEF Good
<1>3. 0 \in S
  <2>1. L - 1 \in 0 .. L - 1 /\ L - 1 - 0 = L - 1 /\ (L - 1) + 1 = L /\ L - 1 \in AllLevels
      BY <1>1 DEF AllLevels
  <2> DEFINE p == g[L]
  <2>2. p.node = Header /\ p.rank = 0
      BY <1>2
  <2>3. g[L - 1] = Along(z, go, L - 1, p)
      BY <1>2, <2>1
  <2> HIDE DEF p
  <2>4. p.node \in On(z, L - 1) /\ p.rank = Pos(z, p.node) /\ p.rank <= c
      BY <1>1, <2>1, <2>2
  <2>5. Good(L - 1)
      BY <2>1, <2>3, <2>4, AlongFacts DEF Good
  <2> QED BY <2>1, <2>5
<1>4. ASSUME NEW k \in Nat, k \in S PROVE k + 1 \in S
  <2> SUFFICES ASSUME k + 1 < L PROVE Good(L - 1 - (k + 1))
      OBVIOUS
  <2> DEFINE i == L - 1 - (k + 1)
  <2>1. /\ k < L /\ i \in 0 .. L - 1 /\ i + 1 = L - 1 - k
        /\ i \in 0 .. ZSKIPLIST_MAXLEVEL - 2
      BY <1>1
  <2> DEFINE p == g[i + 1]
  <2>2. Good(i + 1)
      BY <1>4, <2>1
  <2> HIDE DEF i
  <2>3. p.node \in On(z, i) /\ p.rank = Pos(z, p.node) /\ p.rank <= c
      BY <1>1, <2>1, <2>2 DEF Good, LastUpTo
  <2>4. g[i] = Along(z, go, i, p)
      BY <1>2, <2>1
  <2> HIDE DEF p
  <2>5. Good(i)
      BY <2>1, <2>3, <2>4, AlongFacts DEF Good
  <2> QED BY <2>5 DEF i
<1>5. ASSUME NEW i \in 0 .. L - 1 PROVE Good(i)
  <2>1. L - 1 - i \in Nat /\ L - 1 - i < L /\ L - 1 - (L - 1 - i) = i
      BY <1>1
  <2>2. L - 1 - i \in S
    <3> HIDE DEF S
    <3> QED BY <1>3, <1>4, <2>1, NatSetInduction
  <2> QED BY <2>1, <2>2
<1> QED BY <1>2, <1>5 DEF Good

-----------------------------------------------------------------------------
(* Inserting *)

(* How the positions of z change in y when a node is put after position c  *)
Shifted(z, y, m, c) ==
    /\ c \in 0 .. z.length /\ y.length = z.length + 1
    /\ DOMAIN y.node = DOMAIN z.node \cup {m} /\ m \notin DOMAIN z.node
    /\ Pos(y, m) = c + 1
    /\ \A n \in DOMAIN z.node :
          Pos(y, n) = IF Pos(z, n) <= c THEN Pos(z, n) ELSE Pos(z, n) + 1

(* y is z with node m of height h put after position c; u has the last     *)
(* nodes before it.                                                        *)
Spliced(z, y, m, c, u, h) ==
    /\ DOMAIN y = {"node", "tail", "level", "length"}
    /\ h \in 1 .. ZSKIPLIST_MAXLEVEL
    /\ y.level = IF h > z.level THEN h ELSE z.level
    /\ \A i \in 0 .. y.level - 1 : LastUpTo(z, i, u[i], c)
    /\ y.tail = IF z.node[u[0]].forward[0] = NULL THEN m ELSE z.tail
    /\ DOMAIN y.node[m] = {"score", "backward", "forward", "span"}
    /\ DOMAIN y.node[m].forward = 0 .. h - 1 /\ DOMAIN y.node[m].span = 0 .. h - 1
    /\ y.node[m].backward = IF u[0] = Header THEN NULL ELSE u[0]
    /\ \A i \in 0 .. h - 1 :
          /\ y.node[m].forward[i] = z.node[u[i]].forward[i]
          /\ y.node[m].span[i] = Target(z, z.node[u[i]].forward[i]) - c
    /\ \A n \in DOMAIN z.node :
          /\ DOMAIN y.node[n] = {"score", "backward", "forward", "span"}
          /\ y.node[n].score = z.node[n].score
          /\ DOMAIN y.node[n].forward = DOMAIN z.node[n].forward
          /\ DOMAIN y.node[n].span = DOMAIN z.node[n].span
          /\ y.node[n].backward = IF n = z.node[u[0]].forward[0] THEN m ELSE z.node[n].backward
          /\ \A i \in DOMAIN z.node[n].forward :
                /\ y.node[n].forward[i] =
                     IF i < h /\ u[i] = n THEN m ELSE z.node[n].forward[i]
                /\ y.node[n].span[i] =
                     IF i >= y.level \/ u[i] # n THEN z.node[n].span[i]
                     ELSE IF i < h THEN c - Pos(z, n) + 1 ELSE z.node[n].span[i] + 1

(* The levels above the list's have only the header.                       *)
LEMMA UnusedLevels ==
    ASSUME NEW z, ListOK(z), NEW i \in AllLevels, i >= z.level
    PROVE  On(z, i) = {Header} /\ z.node[Header].forward[i] = NULL
<1>1. On(z, i) = {Header}
    BY SkipListAssumption DEF ListOK, LevelsUsed, AllLevels, Shape
<1>2. IsNext(z, i, Header, z.node[Header].forward[i])
    BY <1>1 DEF ListOK, Chains
<1>3. Pos(z, Header) = 0
    BY DEF Pos
<1> QED BY <1>1, <1>2, <1>3 DEF IsNext

(* The positions after one node is put into a list                         *)
LEMMA ShiftedByNode ==
    ASSUME NEW z, Sortable(z), Header \in DOMAIN z.node, z.length = Cardinality(Nodes(z)),
           NEW m \in Members \ Nodes(z), NEW y,
           DOMAIN y.node = DOMAIN z.node \cup {m}, y.length = z.length + 1,
           y.node[m].score \in Scores,
           \A n \in DOMAIN z.node : y.node[n].score = z.node[n].score
    PROVE  /\ Shifted(z, y, m, Pos(y, m) - 1)
           /\ \A n \in Nodes(z) :
                Pos(z, n) <= Pos(y, m) - 1 <=> Before(z, n, y.node[m].score, m)
<1>1. m # Header /\ m \notin DOMAIN z.node /\ Header \in DOMAIN z.node
    BY SkipListAssumption DEF Nodes, Header
<1>2. Nodes(y) = Nodes(z) \cup {m}
    BY <1>1 DEF Nodes
<1>3. IsFiniteSet(Nodes(z)) /\ z.length \in Nat
    BY FS_CardinalityType DEF Sortable
<1>4. \A n \in Nodes(y) : y.node[n].score \in Int
  <2>1. \A n \in Nodes(z) : n \in DOMAIN z.node
      BY DEF Nodes
  <2> QED BY <1>2, <1>3, <2>1, SkipListAssumption DEF Sortable
<1>5. Sortable(y)
  <2>1. IsFiniteSet(Nodes(y))
      BY <1>2, <1>3, FS_AddElement
  <2> QED BY <1>2, <1>3, <1>4, <2>1, SkipListAssumption DEF Sortable
<1>6. Grown(z, y, m)
    BY <1>2 DEF Grown, Nodes
<1>7. /\ Cardinality(Nodes(y)) = z.length + 1
      /\ \A n \in Nodes(z) :
           /\ Pos(z, n) < Pos(y, m) <=> Before(z, n, y.node[m].score, m)
           /\ Pos(y, n) = IF Pos(z, n) < Pos(y, m) THEN Pos(z, n) ELSE Pos(z, n) + 1
    BY <1>3, <1>5, <1>6, PosGrow
<1>8. Pos(y, m) \in 1 .. z.length + 1
    BY <1>2, <1>5, <1>7, UpToFacts
<1>9. \A n \in Nodes(z) : Pos(z, n) \in 1 .. z.length
    BY UpToFacts
<1>10. Pos(z, Header) = 0 /\ Pos(y, Header) = 0 /\ DOMAIN z.node = Nodes(z) \cup {Header}
    BY DEF Pos, Nodes
<1>11. \A n \in Nodes(z) : Pos(z, n) < Pos(y, m) <=> Pos(z, n) <= Pos(y, m) - 1
    BY <1>8, <1>9, <1>10
<1>12. \A n \in DOMAIN z.node :
          Pos(y, n) = IF Pos(z, n) <= Pos(y, m) - 1 THEN Pos(z, n) ELSE Pos(z, n) + 1
  <2>1. \A n \in Nodes(z) :
          Pos(y, n) = IF Pos(z, n) <= Pos(y, m) - 1 THEN Pos(z, n) ELSE Pos(z, n) + 1
      BY <1>7, <1>11
  <2>2. Pos(z, Header) <= Pos(y, m) - 1
      BY <1>8, <1>10
  <2> QED BY <1>10, <2>1, <2>2
<1>13. Pos(y, m) - 1 \in 0 .. z.length /\ Pos(y, m) = Pos(y, m) - 1 + 1
    BY <1>3, <1>8
<1> QED BY <1>1, <1>7, <1>11, <1>12, <1>13 DEF Shifted

(* m_zslInsert puts the node where the order wants it.                     *)
LEMMA InsertSplices ==
    ASSUME NEW z, ListOK(z), NEW s \in Scores, NEW m \in Members \ Nodes(z),
           NEW h \in 1 .. ZSKIPLIST_MAXLEVEL, NEW y, y = Inserted(z, s, m, h)
    PROVE  \E c, u : /\ Shifted(z, y, m, c) /\ Spliced(z, y, m, c, u, h)
                     /\ y.node[m].score = s
<1> DEFINE path == PathTo(z, s, m)
           up == Raised(z, path, h)
           u == [i \in DOMAIN up |-> up[i].node]
           c == Pos(y, m) - 1
           L == IF h > z.level THEN h ELSE z.level
           go == AnyRank({n \in Nodes(z) : Before(z, n, s, m)})
<1>1. /\ Shape(z) /\ z.level \in 1 .. ZSKIPLIST_MAXLEVEL /\ ZSKIPLIST_MAXLEVEL \in Nat
      /\ Header \in DOMAIN z.node /\ z.length \in Nat
      /\ \A n \in DOMAIN z.node : NodeOK(z.node[n])
    BY SkipListAssumption, ShapeFacts DEF ListOK, Shape
<1>2. m # Header /\ m \notin DOMAIN z.node
    BY SkipListAssumption DEF Nodes, Header
<1>3. /\ DOMAIN y = {"node", "tail", "level", "length"}
      /\ DOMAIN y.node = DOMAIN z.node \cup {m}
      /\ y.level = L /\ y.length = z.length + 1
      /\ y.tail = IF z.node[up[0].node].forward[0] = NULL THEN m ELSE z.tail
    BY DEF Inserted
<1>4. /\ y.node[m] = [score |-> s,
              backward |-> IF up[0].node = Header THEN NULL ELSE up[0].node,
              forward |-> [i \in 0 .. h - 1 |-> z.node[up[i].node].forward[i]],
              span |-> [i \in 0 .. h - 1 |-> up[i].span - (up[0].rank - up[i].rank)]]
    BY DEF Inserted
<1>5. ASSUME NEW n \in DOMAIN z.node
      PROVE  /\ DOMAIN y.node[n] = {"score", "backward", "forward", "span"}
             /\ y.node[n].score = z.node[n].score
             /\ y.node[n].forward = [i \in DOMAIN z.node[n].forward |->
                    IF i < h /\ up[i].node = n THEN m ELSE z.node[n].forward[i]]
             /\ y.node[n].span = [i \in DOMAIN z.node[n].span |->
                    IF i \notin DOMAIN up \/ up[i].node # n THEN z.node[n].span[i]
                    ELSE IF i < h THEN (up[0].rank - up[i].rank) + 1
                    ELSE z.node[n].span[i] + 1]
             /\ y.node[n].backward = IF n = z.node[up[0].node].forward[0] THEN m
                                     ELSE z.node[n].backward
  <2> HIDE DEF up
  <2>1. n # m /\ DOMAIN z.node[n] = {"score", "backward", "forward", "span"}
      BY <1>1, <1>2 DEF NodeOK
  <2>2. y.node[n] = [z.node[n] EXCEPT
                !.forward = [i \in DOMAIN @ |->
                    IF i < h /\ up[i].node = n THEN m ELSE @[i]],
                !.span = [i \in DOMAIN @ |->
                    IF i \notin DOMAIN up \/ up[i].node # n THEN @[i]
                    ELSE IF i < h THEN (up[0].rank - up[i].rank) + 1
                    ELSE @[i] + 1],
                !.backward = IF n = z.node[up[0].node].forward[0] THEN m ELSE @]
      BY <2>1 DEF Inserted, up
  <2> QED BY <2>1, <2>2
<1>6. /\ Shifted(z, y, m, c)
      /\ \A n \in Nodes(z) : Pos(z, n) <= c <=> Before(z, n, s, m)
  <2>1. y.node[m].score = s
      BY <1>4
  <2>2. \A n \in DOMAIN z.node : y.node[n].score = z.node[n].score
      BY <1>5
  <2>3. Sortable(z) /\ z.length = Cardinality(Nodes(z))
      BY <1>1, ShapeFacts DEF Shape
  <2> QED BY <1>1, <1>3, <2>1, <2>2, <2>3, ShiftedByNode
<1>7. c \in 0 .. z.length
    BY <1>6 DEF Shifted
<1> HIDE DEF c
<1>8. LeadsTo(z, go, c)
  <2>1. \A n \in Nodes(z) : Pos(z, n) \in Int
      BY <1>1, ShapeFacts
  <2> QED BY <1>6, <1>7, <2>1 DEF LeadsTo, AnyRank
<1>9. /\ DOMAIN path = 0 .. z.level - 1
      /\ \A i \in 0 .. z.level - 1 :
            LastUpTo(z, i, path[i].node, c) /\ path[i].rank = Pos(z, path[i].node)
    BY <1>8, PathFacts DEF PathTo
<1>10. DOMAIN up = 0 .. L - 1
    BY DEF Raised
<1>11. ASSUME NEW i \in 0 .. L - 1
       PROVE  /\ LastUpTo(z, i, up[i].node, c)
              /\ up[i].rank = Pos(z, up[i].node)
              /\ up[i].span = Target(z, z.node[up[i].node].forward[i]) - Pos(z, up[i].node)
  <2>1. i \in AllLevels
      BY <1>1 DEF AllLevels
  <2>2. CASE i < z.level
    <3> HIDE DEF path
    <3>1. i \in 0 .. z.level - 1
        BY <1>1, <2>2
    <3>2. up[i] = [node |-> path[i].node, rank |-> path[i].rank,
                   span |-> z.node[path[i].node].span[i]]
        BY <2>2 DEF Raised
    <3>3. path[i].node \in On(z, i)
        BY <1>9, <3>1 DEF LastUpTo
    <3> QED BY <1>9, <3>1, <3>2, <3>3 DEF ListOK, Spans
  <2>3. CASE ~(i < z.level)
    <3>1. up[i] = [node |-> Header, rank |-> 0, span |-> z.length]
        BY <2>3 DEF Raised
    <3>2. On(z, i) = {Header} /\ z.node[Header].forward[i] = NULL
        BY <1>1, <2>1, <2>3, UnusedLevels
    <3>3. Pos(z, Header) = 0
        BY DEF Pos
    <3> HIDE DEF up
    <3>4. LastUpTo(z, i, Header, c)
        BY <1>7, <3>2, <3>3 DEF LastUpTo
    <3>5. Target(z, NULL) - 0 = z.length
        BY <1>1 DEF Target
    <3> QED BY <3>1, <3>2, <3>3, <3>4, <3>5
  <2> QED BY <2>2, <2>3
<1>12. 0 \in 0 .. L - 1 /\ \A i \in 0 .. h - 1 : i \in 0 .. L - 1
    BY <1>1
<1> HIDE DEF up, path, L
<1>13. up[0].rank = c
  <2>1. PICK n \in DOMAIN z.node : Pos(z, n) = c
      BY <1>1, <1>7, ShapeFacts
  <2>2. On(z, 0) = DOMAIN z.node /\ \A p \in DOMAIN z.node : Pos(z, p) \in Int
      BY <1>1, ShapeFacts
  <2>3. LastUpTo(z, 0, up[0].node, c) /\ up[0].rank = Pos(z, up[0].node)
      BY <1>11, <1>12
  <2> QED BY <1>7, <2>1, <2>2, <2>3 DEF LastUpTo
<1>14. \A i \in 0 .. L - 1 : u[i] = up[i].node
    BY <1>10
<1>15. \A i \in 0 .. L - 1 : Pos(z, up[i].node) \in Int /\ Target(z, z.node[up[i].node].forward[i]) \in Int
  <2> TAKE i \in 0 .. L - 1
  <2>1. up[i].node \in On(z, i) /\ i \in AllLevels
      BY <1>11, <1>1 DEF LastUpTo, AllLevels, L
  <2>2. IsNext(z, i, up[i].node, z.node[up[i].node].forward[i])
      BY <2>1 DEF ListOK, Chains
  <2>3. \A p \in On(z, i) : Pos(z, p) \in Int
      BY <1>1, <2>1, ShapeFacts
  <2> QED BY <1>1, <2>1, <2>2, <2>3 DEF IsNext, Target
<1> HIDE DEF u
<1>16. ASSUME NEW i \in 0 .. h - 1
       PROVE  /\ y.node[m].forward[i] = z.node[u[i]].forward[i]
              /\ y.node[m].span[i] = Target(z, z.node[u[i]].forward[i]) - c
  <2>1. y.node[m].forward[i] = z.node[up[i].node].forward[i]
        /\ y.node[m].span[i] = up[i].span - (up[0].rank - up[i].rank)
      BY <1>4
  <2>2. i \in 0 .. L - 1
      BY <1>12
  <2> QED BY <1>7, <1>11, <1>13, <1>14, <1>15, <2>1, <2>2
<1>17. ASSUME NEW n \in DOMAIN z.node
      PROVE  /\ DOMAIN y.node[n].forward = DOMAIN z.node[n].forward
             /\ DOMAIN y.node[n].span = DOMAIN z.node[n].span
             /\ \A i \in DOMAIN z.node[n].forward :
                /\ y.node[n].forward[i] =
                     IF i < h /\ u[i] = n THEN m ELSE z.node[n].forward[i]
                /\ y.node[n].span[i] =
                     IF i >= y.level \/ u[i] # n THEN z.node[n].span[i]
                     ELSE IF i < h THEN c - Pos(z, n) + 1 ELSE z.node[n].span[i] + 1
  <2>1. DOMAIN y.node[n].forward = DOMAIN z.node[n].forward
        /\ DOMAIN y.node[n].span = DOMAIN z.node[n].span
      BY <1>5
  <2>2. ASSUME NEW i \in DOMAIN z.node[n].forward
        PROVE  /\ y.node[n].forward[i] =
                     IF i < h /\ u[i] = n THEN m ELSE z.node[n].forward[i]
               /\ y.node[n].span[i] =
                     IF i >= y.level \/ u[i] # n THEN z.node[n].span[i]
                     ELSE IF i < h THEN c - Pos(z, n) + 1 ELSE z.node[n].span[i] + 1
    <3>1. i \in DOMAIN z.node[n].span /\ i \in Nat
        BY <1>1 DEF NodeOK
    <3>2. /\ y.node[n].forward[i] = IF i < h /\ up[i].node = n THEN m ELSE z.node[n].forward[i]
          /\ y.node[n].span[i] = IF i \notin DOMAIN up \/ up[i].node # n THEN z.node[n].span[i]
                    ELSE IF i < h THEN (up[0].rank - up[i].rank) + 1
                    ELSE z.node[n].span[i] + 1
      <4>1. y.node[n].forward = [j \in DOMAIN z.node[n].forward |->
                    IF j < h /\ up[j].node = n THEN m ELSE z.node[n].forward[j]]
          BY <1>5
      <4>2. y.node[n].span = [j \in DOMAIN z.node[n].span |->
                    IF j \notin DOMAIN up \/ up[j].node # n THEN z.node[n].span[j]
                    ELSE IF j < h THEN (up[0].rank - up[j].rank) + 1
                    ELSE z.node[n].span[j] + 1]
          BY <1>5
      <4> QED BY <3>1, <4>1, <4>2
    <3>3. CASE i \in 0 .. L - 1
      <4>1. ~(i >= y.level) /\ up[i].node = u[i] /\ i \in DOMAIN up /\ up[i].rank = Pos(z, up[i].node)
          BY <1>1, <1>3, <1>10, <1>11, <1>14, <3>3 DEF L
      <4> QED BY <1>13, <3>2, <4>1
    <3>4. CASE i \notin 0 .. L - 1
      <4>1. i >= y.level /\ i \notin DOMAIN up /\ ~(i < h)
          BY <1>1, <1>3, <1>10, <3>1, <3>4 DEF L
      <4> QED BY <3>2, <4>1
    <3> QED BY <3>3, <3>4
  <2> QED BY <2>1, <2>2
<1>18. Spliced(z, y, m, c, u, h)
  <2>1. /\ DOMAIN y.node[m] = {"score", "backward", "forward", "span"}
        /\ DOMAIN y.node[m].forward = 0 .. h - 1 /\ DOMAIN y.node[m].span = 0 .. h - 1
        /\ y.node[m].backward = IF up[0].node = Header THEN NULL ELSE up[0].node
      BY <1>4
  <2>2. u[0] = up[0].node /\ y.level = L /\ \A i \in 0 .. L - 1 : LastUpTo(z, i, u[i], c)
      BY <1>3, <1>11, <1>12, <1>14
  <2>3. y.level = IF h > z.level THEN h ELSE z.level
      BY <1>3 DEF L
  <2>4. y.tail = IF z.node[u[0]].forward[0] = NULL THEN m ELSE z.tail
      BY <1>3, <2>2
  <2>5. ASSUME NEW n \in DOMAIN z.node
        PROVE  /\ DOMAIN y.node[n] = {"score", "backward", "forward", "span"}
               /\ y.node[n].score = z.node[n].score
               /\ y.node[n].backward = IF n = z.node[u[0]].forward[0] THEN m
                                       ELSE z.node[n].backward
    <3>1. /\ DOMAIN y.node[n] = {"score", "backward", "forward", "span"}
          /\ y.node[n].score = z.node[n].score
          /\ y.node[n].backward = IF n = z.node[up[0].node].forward[0] THEN m
                                  ELSE z.node[n].backward
        BY <1>5, Zenon
    <3> QED BY <2>2, <3>1, Zenon
  <2>6. DOMAIN y = {"node", "tail", "level", "length"}
      BY <1>3
  <2>7. \A i \in 0 .. y.level - 1 : LastUpTo(z, i, u[i], c)
      BY <2>2
  <2>8. y.node[m].backward = IF u[0] = Header THEN NULL ELSE u[0]
      BY <2>1, <2>2
  <2> QED BY <1>16, <1>17, <2>1, <2>3, <2>4, <2>5, <2>6, <2>7, <2>8 DEF Spliced
<1>19. y.node[m].score = s
    BY <1>4
<1> QED BY <1>6, <1>18, <1>19

(* The nodes of a level after a node of height h is put in                 *)
LEMMA SpliceOn ==
    ASSUME NEW z, NEW y, NEW m, NEW c, NEW u, NEW h,
           Shifted(z, y, m, c), Spliced(z, y, m, c, u, h), NEW i \in AllLevels
    PROVE  On(y, i) = IF i < h THEN On(z, i) \cup {m} ELSE On(z, i)
<1>1. \A n \in DOMAIN z.node : DOMAIN y.node[n].forward = DOMAIN z.node[n].forward
    BY DEF Spliced
<1>2. i \in DOMAIN y.node[m].forward <=> i < h
  <2>1. DOMAIN y.node[m].forward = 0 .. h - 1 /\ h \in 1 .. ZSKIPLIST_MAXLEVEL
      BY DEF Spliced
  <2> QED BY <2>1, SkipListAssumption DEF AllLevels
<1>3. DOMAIN y.node = DOMAIN z.node \cup {m} /\ m \notin DOMAIN z.node
    BY DEF Shifted
<1>4. CASE i < h
    BY <1>1, <1>2, <1>3, <1>4 DEF On
<1>5. CASE ~(i < h)
    BY <1>1, <1>2, <1>3, <1>5 DEF On
<1> QED BY <1>4, <1>5

(* What the following lemmas share *)
LEMMA SpliceFacts ==
    ASSUME NEW z, ListOK(z), NEW y, NEW m \in Members \ Nodes(z), NEW c, NEW u, NEW h,
           Shifted(z, y, m, c), Spliced(z, y, m, c, u, h)
    PROVE  /\ h \in Nat \ {0} /\ h <= ZSKIPLIST_MAXLEVEL /\ ZSKIPLIST_MAXLEVEL \in Nat
           /\ z.level \in Nat \ {0} /\ z.length \in Nat /\ y.level \in Nat \ {0}
           /\ y.level <= ZSKIPLIST_MAXLEVEL /\ h <= y.level /\ z.level <= y.level
           /\ c \in Nat /\ c <= z.length /\ m # NULL /\ m # Header /\ m \notin DOMAIN z.node
           /\ NULL \notin DOMAIN z.node
           /\ \A n \in DOMAIN z.node : Pos(z, n) \in Nat /\ Pos(z, n) <= z.length
           /\ \A i \in AllLevels : i \in Nat /\ i < ZSKIPLIST_MAXLEVEL
           /\ \A i \in Nat : i < ZSKIPLIST_MAXLEVEL => i \in AllLevels
           /\ \A i \in AllLevels : /\ On(z, i) \subseteq DOMAIN z.node
                                   /\ On(y, i) = IF i < h THEN On(z, i) \cup {m} ELSE On(z, i)
           /\ \A i \in AllLevels : i < y.level => LastUpTo(z, i, u[i], c)
           /\ \A i \in AllLevels : \A n \in On(z, i) : IsNext(z, i, n, z.node[n].forward[i])
           /\ u[0] \in DOMAIN z.node /\ Pos(z, u[0]) = c
<1>1. /\ h \in Nat \ {0} /\ h <= ZSKIPLIST_MAXLEVEL /\ ZSKIPLIST_MAXLEVEL \in Nat
      /\ z.level \in Nat \ {0} /\ z.level <= ZSKIPLIST_MAXLEVEL
      /\ y.level = IF h > z.level THEN h ELSE z.level
    BY SkipListAssumption DEF Spliced, ListOK, Shape
<1>2. y.level \in Nat \ {0} /\ y.level <= ZSKIPLIST_MAXLEVEL /\ h <= y.level /\ z.level <= y.level
    BY <1>1
<1>3. z.length \in Nat /\ \A n \in DOMAIN z.node : Pos(z, n) \in Nat /\ Pos(z, n) <= z.length
    BY ShapeFacts DEF ListOK
<1>4. c \in Nat /\ c <= z.length /\ m # NULL /\ m # Header /\ m \notin DOMAIN z.node
      /\ NULL \notin DOMAIN z.node
    BY ShapeFacts, SkipListAssumption DEF Shifted, NULL, Header, ListOK
<1>5. \A i : i \in AllLevels <=> i \in Nat /\ i < ZSKIPLIST_MAXLEVEL
    BY <1>1 DEF AllLevels
<1>6. \A i \in AllLevels : /\ On(z, i) \subseteq DOMAIN z.node
                          /\ On(y, i) = IF i < h THEN On(z, i) \cup {m} ELSE On(z, i)
    BY SpliceOn DEF On
<1>7. \A i \in AllLevels : i < y.level => LastUpTo(z, i, u[i], c)
    BY <1>2, <1>5 DEF Spliced
<1>8. \A i \in AllLevels : \A n \in On(z, i) : IsNext(z, i, n, z.node[n].forward[i])
    BY DEF ListOK, Chains
<1>9. u[0] \in DOMAIN z.node /\ Pos(z, u[0]) = c
  <2>1. LastUpTo(z, 0, u[0], c)
    <3>1. 0 \in AllLevels /\ 0 < y.level
        BY <1>1, <1>2, <1>5
    <3> QED BY <1>7, <3>1
  <2>2. On(z, 0) = DOMAIN z.node /\ \A k \in 0 .. z.length : \E n \in DOMAIN z.node : Pos(z, n) = k
      BY ShapeFacts DEF ListOK
  <2>3. PICK n \in DOMAIN z.node : Pos(z, n) = c
      BY <1>3, <1>4, <2>2
  <2> QED BY <1>3, <1>4, <2>1, <2>2, <2>3 DEF LastUpTo
<1> QED BY <1>1, <1>2, <1>3, <1>4, <1>5, <1>6, <1>7, <1>8, <1>9

(* The chains of the new list *)
LEMMA SpliceChains ==
    ASSUME NEW z, ListOK(z), NEW y, NEW m \in Members \ Nodes(z), NEW c, NEW u, NEW h,
           Shifted(z, y, m, c), Spliced(z, y, m, c, u, h)
    PROVE  Chains(y)
<1>1. SUFFICES ASSUME NEW i \in AllLevels, NEW n \in On(y, i)
               PROVE  IsNext(y, i, n, y.node[n].forward[i])
    BY DEF Chains
<1>2. /\ i \in Nat /\ h \in Nat /\ h <= y.level /\ y.level \in Nat /\ c \in Nat
      /\ m # NULL /\ m \notin DOMAIN z.node /\ NULL \notin On(z, i)
      /\ On(z, i) \subseteq DOMAIN z.node
      /\ On(y, i) = IF i < h THEN On(z, i) \cup {m} ELSE On(z, i)
      /\ \A p \in On(z, i) : Pos(z, p) \in Nat
      /\ i < y.level => LastUpTo(z, i, u[i], c)
      /\ \A p \in On(z, i) : IsNext(z, i, p, z.node[p].forward[i])
  <2>1. /\ h \in Nat /\ h <= y.level /\ y.level \in Nat /\ c \in Nat
        /\ m # NULL /\ m \notin DOMAIN z.node /\ NULL \notin DOMAIN z.node
        /\ \A p \in DOMAIN z.node : Pos(z, p) \in Nat
      BY SpliceFacts
  <2>2. i \in Nat /\ On(z, i) \subseteq DOMAIN z.node
      BY SpliceFacts
  <2>3. On(y, i) = IF i < h THEN On(z, i) \cup {m} ELSE On(z, i)
      BY SpliceOn
  <2>4. /\ i < y.level => LastUpTo(z, i, u[i], c)
        /\ \A p \in On(z, i) : IsNext(z, i, p, z.node[p].forward[i])
      BY SpliceFacts
  <2> QED BY <2>1, <2>2, <2>3, <2>4
<1>3. /\ \A p \in On(z, i) : Pos(y, p) = IF Pos(z, p) <= c THEN Pos(z, p) ELSE Pos(z, p) + 1
      /\ Pos(y, m) = c + 1
    BY <1>2 DEF Shifted
<1>4. CASE n = m
  <2>1. i < h
      BY <1>1, <1>2, <1>4
  <2> DEFINE q == z.node[u[i]].forward[i]
  <2>2. y.node[m].forward[i] = q
      BY <1>2, <2>1 DEF Spliced
  <2>3. IsNext(z, i, u[i], q) /\ LastUpTo(z, i, u[i], c)
      BY <1>2, <2>1 DEF LastUpTo
  <2> HIDE DEF q
  <2>4. On(y, i) = On(z, i) \cup {m}
      BY <1>2, <2>1
  <2>5. CASE q = NULL
    <3>1. \A p \in On(z, i) : Pos(z, p) <= c
        BY <1>2, <2>3, <2>5 DEF IsNext, LastUpTo
    <3>2. \A p \in On(y, i) : Pos(y, p) <= Pos(y, m)
        BY <1>2, <1>3, <2>4, <3>1
    <3> QED BY <1>4, <2>2, <2>5, <3>2 DEF IsNext
  <2>6. CASE q # NULL
    <3>1. /\ q \in On(z, i) /\ Pos(z, u[i]) < Pos(z, q)
          /\ \A p \in On(z, i) : Pos(z, p) <= Pos(z, u[i]) \/ Pos(z, q) <= Pos(z, p)
        BY <2>3, <2>6 DEF IsNext
    <3>2. ~(Pos(z, q) <= c) /\ Pos(z, u[i]) <= c /\ u[i] \in On(z, i)
        BY <1>2, <2>3, <3>1 DEF LastUpTo
    <3>3. Pos(y, q) = Pos(z, q) + 1 /\ Pos(z, q) > c /\ Pos(z, u[i]) \in Nat /\ Pos(z, q) \in Nat
        BY <1>2, <1>3, <3>1, <3>2
    <3>4. ASSUME NEW p \in On(y, i) PROVE Pos(y, p) <= Pos(y, m) \/ Pos(y, q) <= Pos(y, p)
      <4>1. CASE p = m
          BY <1>2, <1>3, <4>1
      <4>2. CASE p \in On(z, i)
          BY <1>2, <1>3, <3>1, <3>2, <3>3, <4>2
      <4> QED BY <2>4, <4>1, <4>2
    <3>5. q \in On(y, i) /\ Pos(y, m) < Pos(y, q)
        BY <1>2, <1>3, <2>4, <3>1, <3>3
    <3> QED BY <1>4, <2>2, <3>4, <3>5 DEF IsNext
  <2> QED BY <2>5, <2>6
<1>5. CASE n # m
  <2>1. n \in On(z, i) /\ n \in DOMAIN z.node /\ i \in DOMAIN z.node[n].forward
      BY <1>2, <1>5 DEF On
  <2>2. y.node[n].forward[i] = IF i < h /\ u[i] = n THEN m ELSE z.node[n].forward[i]
      BY <2>1 DEF Spliced
  <2>3. CASE i < h /\ u[i] = n
    <3>1. y.node[n].forward[i] = m /\ On(y, i) = On(z, i) \cup {m} /\ LastUpTo(z, i, n, c)
        BY <1>2, <2>2, <2>3
    <3>2. Pos(z, n) <= c /\ Pos(y, n) = Pos(z, n) /\ Pos(z, n) \in Nat
        BY <1>2, <1>3, <2>1, <3>1 DEF LastUpTo
    <3>3. ASSUME NEW p \in On(y, i) PROVE Pos(y, p) <= Pos(y, n) \/ Pos(y, m) <= Pos(y, p)
      <4>1. CASE p = m
          BY <1>2, <1>3, <4>1
      <4>2. CASE p \in On(z, i)
          BY <1>2, <1>3, <3>1, <3>2, <4>2 DEF LastUpTo
      <4> QED BY <3>1, <4>1, <4>2
    <3>4. m \in On(y, i) /\ Pos(y, n) < Pos(y, m)
        BY <1>2, <1>3, <3>1, <3>2
    <3> QED BY <3>1, <3>3, <3>4 DEF IsNext
  <2>4. CASE ~(i < h /\ u[i] = n)
    <3> DEFINE q == z.node[n].forward[i]
    <3>1. y.node[n].forward[i] = q /\ IsNext(z, i, n, q)
        BY <1>2, <2>1, <2>2, <2>4
    <3> HIDE DEF q
    <3>2. i < h => /\ u[i] \in On(z, i) /\ Pos(z, u[i]) <= c
                   /\ \A p \in On(z, i) : Pos(z, p) <= c => Pos(z, p) <= Pos(z, u[i])
        BY <1>2 DEF LastUpTo
    <3>3. i < h => Pos(z, n) # Pos(z, u[i])
      <4>1. \A p, r \in DOMAIN z.node : Pos(z, p) = Pos(z, r) => p = r
          BY ShapeFacts DEF ListOK
      <4> QED BY <1>2, <2>1, <2>4, <3>2, <4>1
    <3>4. \A p \in On(z, i) : Pos(y, p) \in Nat /\ Pos(z, p) \in Nat
        BY <1>2, <1>3
    <3>5. CASE q = NULL
      <4>1. \A p \in On(z, i) : Pos(z, p) <= Pos(z, n)
          BY <1>2, <3>1, <3>5 DEF IsNext
      <4>2. \A p \in On(z, i) : Pos(y, p) <= Pos(y, n)
          BY <1>2, <1>3, <2>1, <3>4, <4>1
      <4>3. i < h => Pos(y, m) <= Pos(y, n)
          BY <1>2, <1>3, <2>1, <3>2, <3>3, <3>4, <4>1
      <4>4. \A p \in On(y, i) : Pos(y, p) <= Pos(y, n)
          BY <1>2, <4>2, <4>3
      <4> QED BY <3>1, <3>5, <4>4 DEF IsNext
    <3>6. CASE q # NULL
      <4>1. /\ q \in On(z, i) /\ Pos(z, n) < Pos(z, q)
            /\ \A p \in On(z, i) : Pos(z, p) <= Pos(z, n) \/ Pos(z, q) <= Pos(z, p)
          BY <3>1, <3>6 DEF IsNext
      <4>2. Pos(y, n) < Pos(y, q) /\ \A p \in On(z, i) : Pos(y, p) <= Pos(y, n) \/ Pos(y, q) <= Pos(y, p)
        <5>1. Pos(y, n) < Pos(y, q)
            BY <1>2, <1>3, <2>1, <3>4, <4>1
        <5>2. ASSUME NEW p \in On(z, i) PROVE Pos(y, p) <= Pos(y, n) \/ Pos(y, q) <= Pos(y, p)
            BY <1>2, <1>3, <2>1, <3>4, <4>1
        <5> QED BY <5>1, <5>2
      <4>3. i < h => Pos(y, m) <= Pos(y, n) \/ Pos(y, q) <= Pos(y, m)
        <5> SUFFICES ASSUME i < h, ~(Pos(y, m) <= Pos(y, n)) PROVE Pos(y, q) <= Pos(y, m)
            OBVIOUS
        <5>1. Pos(z, n) <= c /\ Pos(z, n) < Pos(z, u[i])
            BY <1>2, <1>3, <2>1, <3>2, <3>3, <3>4
        <5>2. Pos(z, q) <= Pos(z, u[i]) /\ Pos(z, q) <= c
            BY <1>2, <3>2, <3>4, <4>1, <5>1, <2>1
        <5> QED BY <1>2, <1>3, <3>4, <4>1, <5>2
      <4>4. \A p \in On(y, i) : Pos(y, p) <= Pos(y, n) \/ Pos(y, q) <= Pos(y, p)
        <5>1. i < h => Pos(y, m) <= Pos(y, n) \/ Pos(y, q) <= Pos(y, m)
            BY <4>3
        <5> QED BY <1>2, <4>2, <5>1
      <4>5. q \in On(y, i)
          BY <1>2, <4>1
      <4> QED BY <3>1, <4>2, <4>4, <4>5 DEF IsNext
    <3> QED BY <3>5, <3>6
  <2> QED BY <2>3, <2>4
<1> QED BY <1>4, <1>5

(* The spans of the new list *)
LEMMA SpliceSpans ==
    ASSUME NEW z, ListOK(z), NEW y, NEW m \in Members \ Nodes(z), NEW c, NEW u, NEW h,
           Shifted(z, y, m, c), Spliced(z, y, m, c, u, h)
    PROVE  Spans(y)
<1>1. SUFFICES ASSUME NEW i \in 0 .. y.level - 1, NEW n \in On(y, i)
               PROVE  y.node[n].span[i] = Target(y, y.node[n].forward[i]) - Pos(y, n)
    BY DEF Spans
<1>2. /\ h \in Nat /\ h <= y.level /\ y.level \in Nat /\ c \in Nat /\ z.length \in Nat
      /\ c <= z.length /\ y.level <= ZSKIPLIST_MAXLEVEL /\ ZSKIPLIST_MAXLEVEL \in Nat
      /\ z.level \in Nat /\ y.level = IF h > z.level THEN h ELSE z.level
      /\ m # NULL /\ m \notin DOMAIN z.node /\ NULL \notin DOMAIN z.node
      /\ \A p \in DOMAIN z.node : Pos(z, p) \in Nat
  <2>1. y.level = IF h > z.level THEN h ELSE z.level
      BY DEF Spliced
  <2> QED BY <2>1, SpliceFacts
<1>3. i \in AllLevels /\ i \in Nat /\ i < y.level
    BY <1>2 DEF AllLevels
<1>4. /\ On(z, i) \subseteq DOMAIN z.node /\ LastUpTo(z, i, u[i], c)
      /\ \A p \in On(z, i) : IsNext(z, i, p, z.node[p].forward[i])
    BY <1>3, SpliceFacts
<1>5. On(y, i) = IF i < h THEN On(z, i) \cup {m} ELSE On(z, i)
    BY <1>3, SpliceOn
<1>6. /\ \A p \in On(z, i) : Pos(y, p) = IF Pos(z, p) <= c THEN Pos(z, p) ELSE Pos(z, p) + 1
      /\ Pos(y, m) = c + 1 /\ y.length = z.length + 1
    BY <1>4 DEF Shifted
<1>7. /\ \A p \in On(z, i) : Pos(z, p) \in Nat
      /\ NULL \notin On(z, i) /\ u[i] \in On(z, i) /\ Pos(z, u[i]) <= c
      /\ \A p \in On(z, i) : Pos(z, p) <= c => Pos(z, p) <= Pos(z, u[i])
    BY <1>2, <1>4 DEF LastUpTo
<1>8. ASSUME NEW q, IsNext(z, i, u[i], q)
      PROVE  Target(y, q) = Target(z, q) + 1 /\ Target(z, q) \in Int /\ Target(z, q) >= c
  <2>1. CASE q = NULL
      BY <1>2, <1>6, <2>1 DEF Target
  <2>2. CASE q # NULL
    <3>1. q \in On(z, i) /\ Pos(z, u[i]) < Pos(z, q)
        BY <1>8, <2>2 DEF IsNext
    <3>2. Pos(z, q) > c /\ Pos(z, q) \in Nat
        BY <1>2, <1>7, <3>1
    <3>3. Pos(y, q) = Pos(z, q) + 1
        BY <1>2, <1>6, <3>1, <3>2
    <3> QED BY <1>2, <2>2, <3>2, <3>3 DEF Target
  <2> QED BY <2>1, <2>2
<1>9. CASE n = m
  <2>1. i < h /\ i \in 0 .. h - 1
      BY <1>1, <1>2, <1>3, <1>4, <1>5, <1>9
  <2> DEFINE q == z.node[u[i]].forward[i]
  <2>2. y.node[m].forward[i] = q /\ y.node[m].span[i] = Target(z, q) - c
      BY <2>1 DEF Spliced
  <2>3. IsNext(z, i, u[i], q)
      BY <1>4, <1>7
  <2> HIDE DEF q
  <2>4. Target(y, q) = Target(z, q) + 1 /\ Target(z, q) \in Int
      BY <1>8, <2>3
  <2> QED BY <1>2, <1>6, <1>9, <2>2, <2>4
<1>10. CASE n # m
  <2>1. n \in On(z, i) /\ n \in DOMAIN z.node /\ i \in DOMAIN z.node[n].forward
      BY <1>4, <1>5, <1>10 DEF On
  <2> DEFINE q == z.node[n].forward[i]
  <2>2. /\ y.node[n].forward[i] = IF i < h /\ u[i] = n THEN m ELSE q
        /\ y.node[n].span[i] =
                     IF i >= y.level \/ u[i] # n THEN z.node[n].span[i]
                     ELSE IF i < h THEN c - Pos(z, n) + 1 ELSE z.node[n].span[i] + 1
      BY <2>1 DEF Spliced
  <2>3. IsNext(z, i, n, q)
      BY <1>4, <2>1
  <2>4. i < z.level => z.node[n].span[i] = Target(z, q) - Pos(z, n)
    <3>1. i < z.level => i \in 0 .. z.level - 1
        BY <1>2, <1>3
    <3> QED BY <2>1, <3>1 DEF ListOK, Spans
  <2>5. Pos(z, n) \in Nat
      BY <1>7, <2>1
  <2> HIDE DEF q
  <2>6. CASE u[i] = n /\ i < h
    <3>1. y.node[n].forward[i] = m /\ y.node[n].span[i] = c - Pos(z, n) + 1
        BY <1>2, <1>3, <2>2, <2>6
    <3>2. Pos(y, n) = Pos(z, n) /\ Target(y, m) = c + 1
        BY <1>2, <1>6, <1>7, <2>1, <2>6 DEF Target
    <3> QED BY <1>2, <2>5, <3>1, <3>2
  <2>7. CASE u[i] = n /\ ~(i < h)
    <3>1. y.node[n].forward[i] = q /\ y.node[n].span[i] = z.node[n].span[i] + 1 /\ i < z.level
        BY <1>2, <1>3, <2>2, <2>7
    <3>2. Pos(y, n) = Pos(z, n) /\ Target(y, q) = Target(z, q) + 1 /\ Target(z, q) \in Int
        BY <1>6, <1>7, <1>8, <2>1, <2>3, <2>7
    <3> QED BY <2>4, <2>5, <3>1, <3>2
  <2>8. CASE u[i] # n
    <3>1. y.node[n].forward[i] = q /\ y.node[n].span[i] = z.node[n].span[i]
        BY <2>2, <2>8
    <3>2. i < z.level
      <4> SUFFICES ASSUME ~(i < z.level) PROVE FALSE
          OBVIOUS
      <4>1. On(z, i) = {Header}
          BY <1>2, <1>3, UnusedLevels
      <4> QED BY <1>7, <2>1, <2>8, <4>1
    <3>3. Pos(z, n) # Pos(z, u[i])
      <4>1. \A p, r \in DOMAIN z.node : Pos(z, p) = Pos(z, r) => p = r
          BY ShapeFacts DEF ListOK
      <4> QED BY <1>4, <1>7, <2>1, <2>8, <4>1
    <3>4. CASE Pos(z, n) <= c
      <4>1. Pos(z, n) < Pos(z, u[i]) /\ Pos(y, n) = Pos(z, n)
          BY <1>2, <1>6, <1>7, <2>1, <2>5, <3>3, <3>4
      <4>2. q # NULL /\ q \in On(z, i) /\ Pos(z, q) <= Pos(z, u[i])
          BY <1>2, <1>7, <2>3, <2>5, <4>1 DEF IsNext
      <4>3. Pos(y, q) = Pos(z, q) /\ Pos(z, q) \in Nat
          BY <1>2, <1>6, <1>7, <4>2
      <4> QED BY <2>4, <3>1, <3>2, <4>1, <4>2, <4>3 DEF Target
    <3>5. CASE ~(Pos(z, n) <= c)
      <4>1. Pos(y, n) = Pos(z, n) + 1
          BY <1>6, <2>1, <3>5
      <4>2. Target(y, q) = Target(z, q) + 1 /\ Target(z, q) \in Nat
        <5>1. CASE q = NULL
            BY <1>2, <1>6, <5>1 DEF Target
        <5>2. CASE q # NULL
          <6>1. q \in On(z, i) /\ Pos(z, n) < Pos(z, q)
              BY <2>3, <5>2 DEF IsNext
          <6>2. ~(Pos(z, q) <= c) /\ Pos(z, q) \in Nat
              BY <1>2, <1>7, <2>5, <3>5, <6>1
          <6> QED BY <1>6, <5>2, <6>1, <6>2 DEF Target
        <5> QED BY <5>1, <5>2
      <4> QED BY <2>4, <2>5, <3>1, <3>2, <4>1, <4>2
    <3> QED BY <3>4, <3>5
  <2> QED BY <2>6, <2>7, <2>8
<1> QED BY <1>9, <1>10

(* The shape, the ends and the height of the new list *)
LEMMA SpliceShape ==
    ASSUME NEW z, ListOK(z), NEW y, NEW m \in Members \ Nodes(z), NEW c, NEW u, NEW h,
           Shifted(z, y, m, c), Spliced(z, y, m, c, u, h), y.node[m].score \in Scores
    PROVE  Shape(y)
<1>1. /\ h \in 1 .. ZSKIPLIST_MAXLEVEL /\ y.level \in 1 .. ZSKIPLIST_MAXLEVEL
      /\ c \in Nat /\ z.length \in Nat /\ c <= z.length /\ h <= y.level
      /\ h \in Nat /\ y.level \in Nat /\ ZSKIPLIST_MAXLEVEL \in Nat
      /\ m # NULL /\ m # Header /\ m \notin DOMAIN z.node /\ NULL \notin DOMAIN z.node
      /\ \A p \in DOMAIN z.node : Pos(z, p) \in Nat
    BY SpliceFacts
<1>2. Shape(z) /\ DOMAIN y.node = DOMAIN z.node \cup {m} /\ y.length = z.length + 1
    BY DEF ListOK, Shifted
<1>3. Nodes(y) = Nodes(z) \cup {m} /\ Header \in DOMAIN y.node /\ Nodes(y) \subseteq Members
    BY <1>1, <1>2 DEF Nodes, Shape
<1>4. y.length = Cardinality(Nodes(y))
  <2>1. IsFiniteSet(Nodes(z)) /\ z.length = Cardinality(Nodes(z))
      BY <1>2, ShapeFacts DEF Sortable, Shape
  <2>2. Cardinality(Nodes(y)) = Cardinality(Nodes(z)) + 1
      BY <1>3, <2>1, FS_AddElement
  <2> QED BY <1>2, <2>1, <2>2
<1>5. \A i \in AllLevels : i < y.level =>
         u[i] \in On(z, i) /\ Pos(z, u[i]) <= c /\ Target(z, z.node[u[i]].forward[i]) - c \in Nat
  <2> SUFFICES ASSUME NEW i \in AllLevels, i < y.level
               PROVE  u[i] \in On(z, i) /\ Pos(z, u[i]) <= c
                      /\ Target(z, z.node[u[i]].forward[i]) - c \in Nat
      OBVIOUS
  <2> DEFINE q == z.node[u[i]].forward[i]
  <2>1. LastUpTo(z, i, u[i], c) /\ On(z, i) \subseteq DOMAIN z.node
      BY SpliceFacts
  <2>2. u[i] \in On(z, i) /\ Pos(z, u[i]) <= c
      BY <2>1 DEF LastUpTo
  <2>3. IsNext(z, i, u[i], q)
      BY <2>2, SpliceFacts
  <2> HIDE DEF q
  <2>4. Target(z, q) - c \in Nat
    <3>1. CASE q = NULL
        BY <1>1, <3>1 DEF Target
    <3>2. CASE q # NULL
      <4>1. q \in On(z, i) /\ Pos(z, u[i]) < Pos(z, q)
          BY <2>3, <3>2 DEF IsNext
      <4>2. Pos(z, q) \in Nat /\ Pos(z, u[i]) \in Nat
          BY <1>1, <2>1, <2>2, <4>1
      <4>3. Pos(z, q) > c
          BY <1>1, <2>1, <4>1, <4>2 DEF LastUpTo
      <4> QED BY <1>1, <3>2, <4>2, <4>3 DEF Target
    <3> QED BY <3>1, <3>2
  <2> QED BY <2>2, <2>4 DEF q
<1>6. ASSUME NEW n \in DOMAIN y.node PROVE NodeOK(y.node[n])
  <2>1. CASE n = m
    <3>1. /\ DOMAIN y.node[m] = {"score", "backward", "forward", "span"}
          /\ DOMAIN y.node[m].forward = 0 .. h - 1 /\ DOMAIN y.node[m].span = 0 .. h - 1
        BY DEF Spliced
    <3>2. ASSUME NEW i \in 0 .. h - 1 PROVE y.node[m].span[i] \in Nat
      <4>1. i \in AllLevels /\ i < y.level
          BY <1>1 DEF AllLevels
      <4>2. y.node[m].span[i] = Target(z, z.node[u[i]].forward[i]) - c
          BY DEF Spliced
      <4> QED BY <1>5, <4>1, <4>2
    <3> QED BY <1>1, <2>1, <3>1, <3>2 DEF NodeOK
  <2>2. CASE n # m
    <3>1. n \in DOMAIN z.node /\ NodeOK(z.node[n])
        BY <1>2, <2>2 DEF Shape
    <3>2. /\ DOMAIN y.node[n] = {"score", "backward", "forward", "span"}
          /\ DOMAIN y.node[n].forward = DOMAIN z.node[n].forward
          /\ DOMAIN y.node[n].span = DOMAIN z.node[n].span
        BY <3>1 DEF Spliced
    <3>3. ASSUME NEW i \in DOMAIN z.node[n].span PROVE y.node[n].span[i] \in Nat
      <4>1. z.node[n].span[i] \in Nat /\ i \in DOMAIN z.node[n].forward
          BY <3>1 DEF NodeOK
      <4>2. i \in AllLevels /\ i \in Nat
          BY <1>1, <3>1 DEF NodeOK, AllLevels
      <4>3. y.node[n].span[i] =
                     IF i >= y.level \/ u[i] # n THEN z.node[n].span[i]
                     ELSE IF i < h THEN c - Pos(z, n) + 1 ELSE z.node[n].span[i] + 1
          BY <3>1, <4>1 DEF Spliced
      <4>4. CASE i >= y.level \/ u[i] # n
          BY <4>1, <4>3, <4>4
      <4>5. CASE ~(i >= y.level \/ u[i] # n)
        <5>1. i < y.level /\ u[i] = n
            BY <1>1, <4>2, <4>5
        <5>2. Pos(z, n) <= c /\ Pos(z, n) \in Nat
            BY <1>1, <1>5, <3>1, <4>2, <5>1
        <5> QED BY <1>1, <4>1, <4>3, <4>5, <5>2
      <4> QED BY <4>4, <4>5
    <3> QED BY <3>1, <3>2, <3>3 DEF NodeOK
  <2> QED BY <2>1, <2>2
<1>7. \A n \in Nodes(y) : y.node[n].score \in Scores
  <2>1. \A n \in Nodes(z) : n \in DOMAIN z.node /\ z.node[n].score \in Scores
      BY <1>2 DEF Shape, Nodes
  <2>2. \A n \in DOMAIN z.node : y.node[n].score = z.node[n].score
      BY DEF Spliced
  <2> QED BY <1>3, <2>1, <2>2
<1>8. y.node[Header].score = 0 /\ y.node[Header].backward = NULL
      /\ DOMAIN y.node[Header].forward = AllLevels
  <2>1. /\ Header \in DOMAIN z.node /\ z.node[Header].score = 0 /\ z.node[Header].backward = NULL
        /\ DOMAIN z.node[Header].forward = AllLevels
      BY <1>2 DEF Shape
  <2>2. /\ y.node[Header].score = z.node[Header].score
        /\ DOMAIN y.node[Header].forward = DOMAIN z.node[Header].forward
        /\ y.node[Header].backward = IF Header = z.node[u[0]].forward[0] THEN m ELSE z.node[Header].backward
      BY <2>1 DEF Spliced
  <2>3. 0 \in AllLevels /\ u[0] \in DOMAIN z.node
      BY <1>1, SpliceFacts DEF AllLevels
  <2>4. On(z, 0) = DOMAIN z.node /\ Pos(z, Header) = 0
      BY <1>2, ShapeFacts
  <2>5. IsNext(z, 0, u[0], z.node[u[0]].forward[0])
      BY <2>3, <2>4 DEF ListOK, Chains
  <2>6. Header # z.node[u[0]].forward[0]
      BY <1>1, <2>1, <2>3, <2>4, <2>5 DEF IsNext, Header, NULL
  <2> QED BY <2>1, <2>2, <2>6
<1>9. DOMAIN y = {"node", "tail", "level", "length"}
    BY DEF Spliced
<1> QED BY <1>1, <1>3, <1>4, <1>6, <1>7, <1>8, <1>9 DEF Shape

(* backward and tail after an insert                                       *)
LEMMA SpliceEnds ==
    ASSUME NEW z, ListOK(z), NEW y, NEW m \in Members \ Nodes(z), NEW c, NEW u, NEW h,
           Shifted(z, y, m, c), Spliced(z, y, m, c, u, h)
    PROVE  Ends(y)
<1> DEFINE q == z.node[u[0]].forward[0]
<1>1. /\ c \in Nat /\ z.length \in Nat /\ c <= z.length
      /\ m # NULL /\ m # Header /\ m \notin DOMAIN z.node /\ NULL \notin DOMAIN z.node
      /\ \A p \in DOMAIN z.node : Pos(z, p) \in Nat /\ Pos(z, p) <= z.length
      /\ u[0] \in DOMAIN z.node /\ Pos(z, u[0]) = c
    BY SpliceFacts
<1>2. /\ On(z, 0) = DOMAIN z.node /\ DOMAIN z.node = Nodes(z) \cup {Header} /\ Pos(z, Header) = 0
      /\ Header \notin Nodes(z)
      /\ \A p \in Nodes(z) : Pos(z, p) >= 1
      /\ \A p, r \in DOMAIN z.node : Pos(z, p) = Pos(z, r) => p = r
      /\ \A k \in 0 .. z.length : \E n \in DOMAIN z.node : Pos(z, n) = k
    BY ShapeFacts DEF ListOK
<1>3. IsNext(z, 0, u[0], q)
  <2>1. 0 \in AllLevels
      BY SkipListAssumption DEF AllLevels
  <2> QED BY <1>1, <1>2, <2>1 DEF ListOK, Chains
<1>4. /\ DOMAIN y.node = DOMAIN z.node \cup {m} /\ y.length = z.length + 1 /\ Pos(y, m) = c + 1
      /\ \A p \in DOMAIN z.node :
            Pos(y, p) = IF Pos(z, p) <= c THEN Pos(z, p) ELSE Pos(z, p) + 1
    BY DEF Shifted
<1>5. Nodes(y) = Nodes(z) \cup {m}
    BY <1>1, <1>4 DEF Nodes
<1>6. y.node[m].backward = (IF u[0] = Header THEN NULL ELSE u[0]) /\ y.tail = IF q = NULL THEN m ELSE z.tail
    BY DEF Spliced
<1>7. \A n \in DOMAIN z.node : y.node[n].backward = IF n = q THEN m ELSE z.node[n].backward
    BY DEF Spliced
<1>8. \A n \in Nodes(z) : IsAt(z, Pos(z, n) - 1, z.node[n].backward)
    BY DEF ListOK, Ends
<1>9. IsAt(z, z.length, z.tail)
    BY DEF ListOK, Ends
<1> HIDE DEF q
(* The node after u[0] is the one at c + 1.                                *)
<1>10. /\ q = NULL => c = z.length
       /\ q # NULL => q \in Nodes(z) /\ Pos(z, q) = c + 1
  <2>1. CASE q = NULL
    <3>1. PICK p \in DOMAIN z.node : Pos(z, p) = z.length
        BY <1>1, <1>2
    <3>2. Pos(z, p) <= c
        BY <1>1, <1>2, <1>3, <2>1, <3>1 DEF IsNext
    <3> QED BY <1>1, <2>1, <3>1, <3>2
  <2>2. CASE q # NULL
    <3>1. /\ q \in DOMAIN z.node /\ c < Pos(z, q)
          /\ \A p \in DOMAIN z.node : Pos(z, p) <= c \/ Pos(z, q) <= Pos(z, p)
        BY <1>1, <1>2, <1>3, <2>2 DEF IsNext
    <3>2. c + 1 \in 0 .. z.length
        BY <1>1, <3>1
    <3>3. PICK p \in DOMAIN z.node : Pos(z, p) = c + 1
        BY <1>2, <3>2
    <3>4. Pos(z, q) = c + 1
        BY <1>1, <3>1, <3>3
    <3>5. q \in Nodes(z)
        BY <1>1, <1>2, <3>1, <3>4
    <3> QED BY <2>2, <3>4, <3>5
  <2> QED BY <2>1, <2>2
<1>11. ASSUME NEW n \in Nodes(y) PROVE IsAt(y, Pos(y, n) - 1, y.node[n].backward)
  <2>1. CASE n = m
    <3>1. CASE u[0] = Header
      <4>1. c = 0 /\ Pos(y, n) - 1 = 0 /\ y.node[n].backward = NULL
        <5>1. c = 0
            BY <1>1, <1>2, <3>1
        <5>2. y.node[m].backward = NULL
            BY <1>6, <3>1
        <5>3. Pos(y, m) = 1
            BY <1>4, <5>1
        <5> QED BY <2>1, <5>1, <5>2, <5>3
      <4>2. 0 \notin 1 .. y.length
          BY <1>1, <1>4
      <4> QED BY <4>1, <4>2 DEF IsAt
    <3>2. CASE u[0] # Header
        BY <1>1, <1>2, <1>4, <1>5, <1>6, <2>1, <3>2 DEF IsAt
    <3> QED BY <3>1, <3>2
  <2>2. CASE n # m /\ n = q
    <3>1. y.node[n].backward = m /\ n \in Nodes(z) /\ n # NULL
        BY <1>1, <1>2, <1>5, <1>7, <2>2
    <3>2. Pos(y, n) = c + 2
        BY <1>1, <1>2, <1>4, <1>10, <2>2, <3>1
    <3> QED BY <1>1, <1>4, <1>5, <3>1, <3>2 DEF IsAt
  <2>3. CASE n # m /\ n # q
    <3> DEFINE b == z.node[n].backward
    <3>1. n \in Nodes(z) /\ n \in DOMAIN z.node
        BY <1>2, <1>5, <2>3
    <3>2. y.node[n].backward = b /\ IsAt(z, Pos(z, n) - 1, b)
        BY <1>7, <1>8, <2>3, <3>1
    <3>3. Pos(z, n) # c + 1
      <4> SUFFICES ASSUME Pos(z, n) = c + 1 PROVE FALSE
          OBVIOUS
      <4>1. q # NULL
          BY <1>1, <1>10, <3>1
      <4> QED BY <1>2, <1>10, <2>3, <3>1, <4>1
    <3>4. Pos(z, n) \in Nat /\ Pos(z, n) >= 1 /\ Pos(z, n) <= z.length
        BY <1>1, <1>2, <3>1
    <3> HIDE DEF b
    <3>5. CASE b = NULL
      <4>1. Pos(z, n) - 1 \notin 1 .. z.length
          BY <1>1, <1>2, <3>2, <3>5 DEF IsAt
      <4>2. Pos(z, n) = 1
          BY <1>1, <3>4, <4>1
      <4>3. Pos(y, n) = 1
          BY <1>1, <1>4, <3>1, <3>3, <4>2
      <4> QED BY <3>2, <3>5, <4>3 DEF IsAt
    <3>6. CASE b # NULL
      <4>1. b \in Nodes(z) /\ b \in DOMAIN z.node /\ Pos(z, b) = Pos(z, n) - 1
          BY <1>2, <3>2, <3>6 DEF IsAt
      <4>2. Pos(y, b) = Pos(y, n) - 1
          BY <1>1, <1>4, <3>1, <3>3, <3>4, <4>1
      <4> QED BY <1>5, <3>2, <4>1, <4>2 DEF IsAt
    <3> QED BY <3>5, <3>6
  <2> QED BY <2>1, <2>2, <2>3
<1>12. IsAt(y, y.length, y.tail)
  <2>1. CASE q = NULL
      BY <1>4, <1>5, <1>6, <1>10, <2>1 DEF IsAt
  <2>2. CASE q # NULL
    <3>1. Pos(z, q) <= z.length /\ Pos(z, q) = c + 1
        BY <1>1, <1>2, <1>10, <2>2
    <3>2. z.length \in 1 .. z.length
        BY <1>1, <3>1
    <3>3. z.tail \in Nodes(z) /\ z.tail \in DOMAIN z.node /\ Pos(z, z.tail) = z.length
        BY <1>2, <1>9, <3>2 DEF IsAt
    <3>4. Pos(y, z.tail) = y.length
        BY <1>1, <1>4, <3>1, <3>3
    <3> QED BY <1>5, <1>6, <2>2, <3>3, <3>4 DEF IsAt
  <2> QED BY <2>1, <2>2
<1> QED BY <1>11, <1>12 DEF Ends

(* The levels in use after an insert                                       *)
LEMMA SpliceLevels ==
    ASSUME NEW z, ListOK(z), NEW y, NEW m \in Members \ Nodes(z), NEW c, NEW u, NEW h,
           Shifted(z, y, m, c), Spliced(z, y, m, c, u, h)
    PROVE  LevelsUsed(y)
<1>1. SUFFICES ASSUME NEW i \in 1 .. ZSKIPLIST_MAXLEVEL - 1
               PROVE  i < y.level <=> On(y, i) # {Header}
    BY DEF LevelsUsed
<1>2. /\ h \in Nat /\ z.level \in Nat /\ ZSKIPLIST_MAXLEVEL \in Nat /\ m # Header
      /\ h <= y.level /\ z.level <= y.level /\ y.level \in Nat
    BY SpliceFacts
<1>3. y.level = IF h > z.level THEN h ELSE z.level
    BY DEF Spliced
<1>4. i \in AllLevels /\ i \in Nat
    BY <1>2 DEF AllLevels
<1>5. On(y, i) = IF i < h THEN On(z, i) \cup {m} ELSE On(z, i)
    BY <1>4, SpliceOn
<1>6. CASE i < h
  <2>1. m \in On(y, i)
      BY <1>5, <1>6
  <2>2. i < y.level
      BY <1>2, <1>4, <1>6
  <2> QED BY <1>2, <2>1, <2>2
<1>7. CASE ~(i < h)
  <2>1. i < z.level <=> On(z, i) # {Header}
      BY DEF ListOK, LevelsUsed
  <2>2. i < y.level <=> i < z.level
      BY <1>2, <1>3, <1>4, <1>7
  <2> QED BY <1>5, <1>7, <2>1, <2>2
<1> QED BY <1>6, <1>7

(* m_zslInsert keeps the list in order.                                    *)
LEMMA InsertOK ==
    ASSUME NEW z, ListOK(z), NEW s \in Scores, NEW m \in Members \ Nodes(z),
           NEW h \in 1 .. ZSKIPLIST_MAXLEVEL
    PROVE  LET y == Inserted(z, s, m, h) IN
           /\ ListOK(y) /\ Nodes(y) = Nodes(z) \cup {m} /\ y.node[m].score = s
           /\ \A n \in Nodes(z) : y.node[n].score = z.node[n].score
<1> DEFINE y == Inserted(z, s, m, h)
<1>1. PICK c, u : /\ Shifted(z, y, m, c) /\ Spliced(z, y, m, c, u, h)
                  /\ y.node[m].score = s
    BY InsertSplices
<1> HIDE DEF y
<1>2. ListOK(y)
    BY <1>1, SpliceChains, SpliceSpans, SpliceShape, SpliceEnds, SpliceLevels DEF ListOK
<1>3. m # Header
    BY SkipListAssumption DEF Header
<1>4. Nodes(y) = Nodes(z) \cup {m}
    BY <1>1, <1>3 DEF Shifted, Nodes
<1>5. \A n \in Nodes(z) : y.node[n].score = z.node[n].score
    BY <1>1 DEF Spliced, Nodes
<1> QED BY <1>1, <1>2, <1>4, <1>5 DEF y

-----------------------------------------------------------------------------
(* Removing a node *)

(* A non-empty set of numbers up to b has a greatest one.                  *)
LEMMA Greatest ==
    ASSUME NEW b \in Nat, NEW S, S \subseteq 0 .. b, S # {}
    PROVE  \E k \in S : \A j \in S : j <= k
<1> DEFINE T == {n \in Nat : \E k \in S : n + k = b}
<1>1. PICK k0 \in S : TRUE
    OBVIOUS
<1>2. b - k0 \in T
    BY <1>1
<1>3. PICK n \in T : \A y \in T : ~(y < n)
  <2>1. T \subseteq Nat /\ T # {}
      BY <1>2
  <2> HIDE DEF T
  <2>2. PICK n \in T : \A y \in T : ~(<<y, n>> \in OpToRel(<, Nat))
      BY <2>1, NatLessThanWellFounded, WFMin
  <2> QED BY <2>1, <2>2 DEF OpToRel
<1>4. PICK k \in S : n + k = b
    BY <1>3
<1>5. ASSUME NEW j \in S PROVE j <= k
  <2>1. j \in 0 .. b /\ k \in 0 .. b /\ n \in Nat
      BY <1>3
  <2>2. b - j \in T
      BY <2>1
  <2>3. ~(b - j < n)
      BY <1>3, <2>2
  <2> QED BY <1>4, <2>1, <2>3
<1> QED BY <1>5

(* How the positions of z change in y when the node after position c goes  *)
Closed(z, y, x, c) ==
    /\ x \in Nodes(z) /\ Pos(z, x) = c + 1 /\ c \in 0 .. y.length
    /\ z.length = y.length + 1 /\ y.length \in Nat /\ y.length = Cardinality(Nodes(y))
    /\ DOMAIN y.node = DOMAIN z.node \ {x} /\ Nodes(y) = Nodes(z) \ {x}
    /\ \A n \in DOMAIN y.node :
          /\ Pos(z, n) # c + 1
          /\ Pos(y, n) = IF Pos(z, n) <= c THEN Pos(z, n) ELSE Pos(z, n) - 1

(* y is z without node x at position c + 1; u has the last nodes before x. *)
Unspliced(z, y, x, c, u) ==
    /\ DOMAIN y = {"node", "tail", "level", "length"}
    /\ \A i \in 0 .. z.level - 1 : LastUpTo(z, i, u[i], c)
    /\ y.tail = IF z.node[x].forward[0] = NULL THEN z.node[x].backward ELSE z.tail
    /\ \A n \in DOMAIN y.node :
          /\ DOMAIN y.node[n] = {"score", "backward", "forward", "span"}
          /\ y.node[n].score = z.node[n].score
          /\ DOMAIN y.node[n].forward = DOMAIN z.node[n].forward
          /\ DOMAIN y.node[n].span = DOMAIN z.node[n].span
          /\ y.node[n].backward = IF n = z.node[x].forward[0] THEN z.node[x].backward
                                  ELSE z.node[n].backward
          /\ \A i \in DOMAIN z.node[n].forward :
                /\ y.node[n].forward[i] =
                     IF i < z.level /\ u[i] = n /\ z.node[n].forward[i] = x
                     THEN z.node[x].forward[i] ELSE z.node[n].forward[i]
                /\ y.node[n].span[i] =
                     IF ~(i < z.level) \/ u[i] # n THEN z.node[n].span[i]
                     ELSE IF z.node[n].forward[i] = x
                     THEN z.node[n].span[i] + z.node[x].span[i] - 1
                     ELSE z.node[n].span[i] - 1

(* y.level is what level-- leaves.                                         *)
Lowered(z, y) ==
    /\ y.level \in 1 .. z.level
    /\ y.level = 1 \/ y.node[Header].forward[y.level - 1] # NULL
    /\ \A i \in y.level .. z.level - 1 : y.node[Header].forward[i] = NULL

(* m_zslDeleteNode is the inverse of a splice.                             *)
LEMMA DeleteUnsplices ==
    ASSUME NEW z, ListOK(z), NEW x \in Nodes(z), NEW u, NEW c, Pos(z, x) = c + 1,
           c \in Nat, \A i \in 0 .. z.level - 1 : LastUpTo(z, i, u[i], c),
           NEW y, y = m_zslDeleteNode(z, x, u)
    PROVE  Closed(z, y, x, c) /\ Unspliced(z, y, x, c, u) /\ Lowered(z, y)
<1> DEFINE next == z.node[x].forward[0]
           Around(n) ==
            [z.node[n] EXCEPT
                !.forward = [i \in DOMAIN @ |->
                    IF i < z.level /\ u[i] = n /\ @[i] = x
                    THEN z.node[x].forward[i] ELSE @[i]],
                !.span = [i \in DOMAIN @ |->
                    IF i < z.level THEN SpanAfter(z, x, u, n, i)
                    ELSE @[i]],
                !.backward = IF n = next THEN z.node[x].backward ELSE @]
           w == [z EXCEPT
                !.node = [n \in DOMAIN z.node \ {x} |-> Around(n)],
                !.tail = TailAfter(z, x),
                !.length = @ - 1]
<1>1. y = [w EXCEPT !.level = LevelInUse(w)]
    BY DEF m_zslDeleteNode
<1>2. /\ Shape(z) /\ DOMAIN z = {"node", "tail", "level", "length"} /\ Header \in DOMAIN z.node
      /\ z.level \in Nat \ {0} /\ z.length = Cardinality(Nodes(z))
      /\ \A n \in DOMAIN z.node : NodeOK(z.node[n])
    BY SkipListAssumption DEF ListOK, Shape
<1> HIDE DEF Around
<1>3. /\ DOMAIN w = {"node", "tail", "level", "length"}
      /\ w.node = [n \in DOMAIN z.node \ {x} |-> Around(n)] /\ w.tail = TailAfter(z, x)
      /\ w.level = z.level /\ w.length = z.length - 1
    BY <1>2
<1> HIDE DEF w
<1>4. /\ DOMAIN y = {"node", "tail", "level", "length"}
      /\ y.node = w.node /\ y.tail = w.tail /\ y.length = z.length - 1
      /\ y.level = LevelInUse(w)
    BY <1>1, <1>3
<1>5. DOMAIN y.node = DOMAIN z.node \ {x} /\ x # Header /\ x \in DOMAIN z.node
    BY <1>3, <1>4 DEF Nodes
<1>6. ASSUME NEW n \in DOMAIN y.node
      PROVE  /\ DOMAIN y.node[n] = {"score", "backward", "forward", "span"}
             /\ y.node[n].score = z.node[n].score
             /\ y.node[n].forward = [i \in DOMAIN z.node[n].forward |->
                    IF i < z.level /\ u[i] = n /\ z.node[n].forward[i] = x
                    THEN z.node[x].forward[i] ELSE z.node[n].forward[i]]
             /\ y.node[n].span = [i \in DOMAIN z.node[n].span |->
                    IF i < z.level THEN SpanAfter(z, x, u, n, i) ELSE z.node[n].span[i]]
             /\ y.node[n].backward = IF n = next THEN z.node[x].backward ELSE z.node[n].backward
  <2>1. y.node[n] = Around(n) /\ n \in DOMAIN z.node
      BY <1>3, <1>4, <1>5
  <2>2. DOMAIN z.node[n] = {"score", "backward", "forward", "span"}
      BY <1>2, <2>1 DEF NodeOK
  <2> QED BY <2>1, <2>2 DEF Around
<1>7. Unspliced(z, y, x, c, u)
  <2>1. ASSUME NEW n \in DOMAIN y.node, NEW i \in DOMAIN z.node[n].forward
        PROVE  /\ y.node[n].forward[i] =
                     IF i < z.level /\ u[i] = n /\ z.node[n].forward[i] = x
                     THEN z.node[x].forward[i] ELSE z.node[n].forward[i]
               /\ y.node[n].span[i] =
                     IF ~(i < z.level) \/ u[i] # n THEN z.node[n].span[i]
                     ELSE IF z.node[n].forward[i] = x
                     THEN z.node[n].span[i] + z.node[x].span[i] - 1
                     ELSE z.node[n].span[i] - 1
    <3>1. y.node[n].forward = [j \in DOMAIN z.node[n].forward |->
                    IF j < z.level /\ u[j] = n /\ z.node[n].forward[j] = x
                    THEN z.node[x].forward[j] ELSE z.node[n].forward[j]]
        BY <1>6
    <3>2. y.node[n].span = [j \in DOMAIN z.node[n].span |->
                    IF j < z.level THEN SpanAfter(z, x, u, n, j) ELSE z.node[n].span[j]]
        BY <1>6
    <3>3. i \in DOMAIN z.node[n].span
        BY <1>2, <1>5 DEF NodeOK
    <3>4. y.node[n].span[i] = IF i < z.level THEN SpanAfter(z, x, u, n, i) ELSE z.node[n].span[i]
        BY <3>2, <3>3
    <3> QED BY <3>1, <3>4 DEF SpanAfter
  <2>2. \A n \in DOMAIN y.node :
          /\ DOMAIN y.node[n] = {"score", "backward", "forward", "span"}
          /\ y.node[n].score = z.node[n].score
          /\ DOMAIN y.node[n].forward = DOMAIN z.node[n].forward
          /\ DOMAIN y.node[n].span = DOMAIN z.node[n].span
          /\ y.node[n].backward = IF n = z.node[x].forward[0] THEN z.node[x].backward
                                  ELSE z.node[n].backward
      BY <1>6
  <2>3. y.tail = IF z.node[x].forward[0] = NULL THEN z.node[x].backward ELSE z.tail
      BY <1>3, <1>4 DEF TailAfter
  <2> QED BY <1>4, <2>1, <2>2, <2>3 DEF Unspliced
<1>8. Lowered(z, y)
  <2> DEFINE S == {l \in 0 .. z.level : l # 0 /\ (l = 1 \/ w.node[Header].forward[l - 1] # NULL)}
  <2>1. 1 \in S
      BY <1>2
  <2>2. PICK k \in S : \A j \in S : j <= k
      BY <1>2, <2>1, Greatest
  <2>3. k \in 1 .. w.level /\ (k = 1 \/ w.node[Header].forward[k - 1] # NULL)
      BY <1>2, <1>3, <2>2
  <2>4. ASSUME NEW i \in k .. w.level - 1 PROVE w.node[Header].forward[i] = NULL
    <3>1. i + 1 \in 0 .. z.level /\ i + 1 # 0 /\ ~(i + 1 <= k) /\ (i + 1) - 1 = i
        BY <1>2, <1>3, <2>3
    <3>2. i + 1 \notin S
        BY <2>2, <3>1
    <3> QED BY <3>1, <3>2
  <2> DEFINE In(l) == /\ l = 1 \/ w.node[Header].forward[l - 1] # NULL
                      /\ \A i \in l .. w.level - 1 : w.node[Header].forward[i] = NULL
  <2>5. \E l \in 1 .. w.level : In(l)
      BY <2>3, <2>4
  <2>6. y.level = CHOOSE l \in 1 .. w.level : In(l)
      BY <1>4 DEF LevelInUse
  <2> HIDE DEF In
  <2>7. y.level \in 1 .. w.level /\ In(y.level)
      BY <2>5, <2>6
  <2> QED BY <1>3, <1>4, <2>7 DEF Lowered, In
<1>9. Closed(z, y, x, c)
  <2>1. Nodes(y) = Nodes(z) \ {x} /\ Nodes(z) = Nodes(y) \cup {x} /\ x \notin Nodes(y)
      BY <1>5 DEF Nodes
  <2>2. Sortable(z) /\ IsFiniteSet(Nodes(z)) /\ Nodes(z) \subseteq Members
      BY <1>2, ShapeFacts DEF Sortable, Shape
  <2>3. /\ IsFiniteSet(Nodes(y)) /\ Cardinality(Nodes(y)) = Cardinality(Nodes(z)) - 1
        /\ Cardinality(Nodes(y)) \in Nat /\ Cardinality(Nodes(z)) \in Nat
    <3>1. /\ IsFiniteSet(Nodes(z) \ {x})
          /\ Cardinality(Nodes(z) \ {x}) = Cardinality(Nodes(z)) - 1
        BY <2>2, FS_RemoveElement
    <3>2. Cardinality(Nodes(z)) \in Nat
        BY <2>2, FS_CardinalityType
    <3>3. IsFiniteSet(Nodes(y)) /\ Cardinality(Nodes(y)) = Cardinality(Nodes(z)) - 1
        BY <2>1, <3>1
    <3> QED BY <3>2, <3>3, FS_CardinalityType
  <2>4. Sortable(y)
    <3>1. \A n \in Nodes(y) : y.node[n].score = z.node[n].score
        BY <1>6 DEF Nodes
    <3> QED BY <2>1, <2>2, <2>3, <3>1 DEF Sortable
  <2>5. y.length = Cardinality(Nodes(y)) /\ z.length = y.length + 1 /\ y.length \in Nat
      BY <1>2, <1>4, <2>3
  <2>6. DOMAIN z.node = DOMAIN y.node \cup {x} /\ Header \in DOMAIN y.node /\ x \in Members \ Nodes(y)
      BY <1>2, <1>5, <2>1, <2>2
  <2>7. z.node[x].score \in Scores /\ \A n \in DOMAIN y.node : z.node[n].score = y.node[n].score
      BY <1>2, <1>6 DEF Shape
  <2>8. Pos(z, x) - 1 = c
      OBVIOUS
  <2>9. Shifted(y, z, x, c)
      BY <2>4, <2>5, <2>6, <2>7, <2>8, ShiftedByNode
  <2>10. /\ c \in 0 .. y.length
         /\ \A n \in DOMAIN y.node : Pos(z, n) = IF Pos(y, n) <= c THEN Pos(y, n) ELSE Pos(y, n) + 1
      BY <2>9 DEF Shifted
  <2>11. \A n \in DOMAIN y.node : Pos(y, n) \in Nat
    <3>1. \A n \in Nodes(y) : Pos(y, n) \in Nat
        BY <2>4, UpToFacts
    <3> QED BY <3>1 DEF Nodes, Pos
  <2>12. \A n \in DOMAIN y.node :
          /\ Pos(z, n) # c + 1
          /\ Pos(y, n) = IF Pos(z, n) <= c THEN Pos(z, n) ELSE Pos(z, n) - 1
      BY <2>10, <2>11
  <2> QED BY <1>5, <2>1, <2>5, <2>10, <2>12 DEF Closed
<1> QED BY <1>7, <1>8, <1>9

(* What the following lemmas share: types, and that positions keep their   *)
(* order.                                                                  *)
LEMMA UnspliceFacts ==
    ASSUME NEW z, ListOK(z), NEW y, NEW x, NEW c, NEW u,
           Closed(z, y, x, c), Unspliced(z, y, x, c, u)
    PROVE  /\ c \in Nat /\ z.level \in Nat \ {0} /\ z.level <= ZSKIPLIST_MAXLEVEL
           /\ ZSKIPLIST_MAXLEVEL \in Nat
           /\ x \in DOMAIN z.node /\ NULL \notin DOMAIN z.node /\ x # Header
           /\ \A n \in DOMAIN y.node : n \in DOMAIN z.node /\ n # x
           /\ \A n \in DOMAIN z.node : Pos(z, n) \in Nat /\ Pos(z, n) <= z.length
           /\ \A n \in DOMAIN y.node : Pos(y, n) \in Nat /\ Pos(y, n) <= y.length
           /\ \A p, q \in DOMAIN y.node : /\ Pos(y, p) <= Pos(y, q) <=> Pos(z, p) <= Pos(z, q)
                                          /\ Pos(y, p) < Pos(y, q) <=> Pos(z, p) < Pos(z, q)
<1>1. /\ z.level \in Nat \ {0} /\ z.level <= ZSKIPLIST_MAXLEVEL /\ ZSKIPLIST_MAXLEVEL \in Nat
    BY SkipListAssumption DEF ListOK, Shape
<1>2. /\ DOMAIN z.node = Nodes(z) \cup {Header} /\ Header \notin Nodes(z)
      /\ NULL \notin DOMAIN z.node
      /\ \A n \in DOMAIN z.node : Pos(z, n) \in Nat /\ Pos(z, n) <= z.length
    BY ShapeFacts DEF ListOK
<1>3. /\ x \in Nodes(z) /\ c \in Nat /\ z.length = y.length + 1 /\ y.length \in Nat /\ c <= y.length
      /\ DOMAIN y.node = DOMAIN z.node \ {x}
      /\ \A n \in DOMAIN y.node :
          /\ Pos(z, n) # c + 1
          /\ Pos(y, n) = IF Pos(z, n) <= c THEN Pos(z, n) ELSE Pos(z, n) - 1
    BY DEF Closed
<1>4. \A n \in DOMAIN y.node : n \in DOMAIN z.node /\ n # x
    BY <1>3
<1>5. \A n \in DOMAIN y.node : Pos(y, n) \in Nat /\ Pos(y, n) <= y.length
    BY <1>2, <1>3, <1>4
<1>6. ASSUME NEW p \in DOMAIN y.node, NEW q \in DOMAIN y.node
      PROVE  /\ Pos(y, p) <= Pos(y, q) <=> Pos(z, p) <= Pos(z, q)
             /\ Pos(y, p) < Pos(y, q) <=> Pos(z, p) < Pos(z, q)
  <2>1. Pos(z, p) \in Nat /\ Pos(z, q) \in Nat
      BY <1>2, <1>4
  <2> QED BY <1>3, <2>1
<1> QED BY <1>1, <1>2, <1>3, <1>4, <1>5, <1>6

(* The nodes of a level without x                                          *)
LEMMA UnspliceOn ==
    ASSUME NEW z, NEW y, NEW x, NEW c, NEW u, Closed(z, y, x, c), Unspliced(z, y, x, c, u),
           NEW i
    PROVE  On(y, i) = On(z, i) \ {x}
<1>1. \A n \in DOMAIN y.node : DOMAIN y.node[n].forward = DOMAIN z.node[n].forward
    BY DEF Unspliced
<1>2. DOMAIN y.node = DOMAIN z.node \ {x}
    BY DEF Closed
<1> QED BY <1>1, <1>2 DEF On

(* On a level in use the only link to x is that of u.                      *)
LEMMA LinkToRemoved ==
    ASSUME NEW z, ListOK(z), NEW y, NEW x, NEW c, NEW u,
           Closed(z, y, x, c), Unspliced(z, y, x, c, u),
           NEW i \in AllLevels, NEW n \in On(z, i), z.node[n].forward[i] = x
    PROVE  i < z.level /\ u[i] = n /\ x \in On(z, i)
<1>1. /\ c \in Nat /\ z.level \in Nat \ {0} /\ x # Header /\ x \in DOMAIN z.node
      /\ NULL \notin DOMAIN z.node /\ \A p \in DOMAIN z.node : Pos(z, p) \in Nat
    BY UnspliceFacts
<1>2. IsNext(z, i, n, x)
    BY DEF ListOK, Chains
<1>3. x # NULL
    BY <1>1
<1>4. /\ x \in On(z, i) /\ Pos(z, n) < Pos(z, x)
      /\ \A p \in On(z, i) : Pos(z, p) <= Pos(z, n) \/ Pos(z, x) <= Pos(z, p)
    BY <1>2, <1>3 DEF IsNext
<1>5. i < z.level /\ i \in 0 .. z.level - 1
  <2>1. i \in Nat
      BY SkipListAssumption DEF AllLevels
  <2>2. i < z.level
    <3> SUFFICES ASSUME ~(i < z.level) PROVE FALSE
        OBVIOUS
    <3>1. On(z, i) = {Header}
        BY <1>1, <2>1, UnusedLevels
    <3> QED BY <1>1, <1>4, <3>1
  <2> QED BY <1>1, <2>1, <2>2
<1>6. LastUpTo(z, i, u[i], c) /\ Pos(z, x) = c + 1
    BY <1>5 DEF Unspliced, Closed
<1>7. u[i] \in DOMAIN z.node /\ n \in DOMAIN z.node /\ On(z, i) \subseteq DOMAIN z.node
    BY <1>6 DEF LastUpTo, On
<1>8. Pos(z, u[i]) = Pos(z, n)
    BY <1>1, <1>4, <1>6, <1>7 DEF LastUpTo
<1>9. \A p, q \in DOMAIN z.node : Pos(z, p) = Pos(z, q) => p = q
    BY ShapeFacts DEF ListOK
<1> QED BY <1>4, <1>5, <1>7, <1>8, <1>9

(* The chains after a removal                                              *)
LEMMA UnspliceChains ==
    ASSUME NEW z, ListOK(z), NEW y, NEW x, NEW c, NEW u,
           Closed(z, y, x, c), Unspliced(z, y, x, c, u)
    PROVE  Chains(y)
<1>1. SUFFICES ASSUME NEW i \in AllLevels, NEW n \in On(y, i)
               PROVE  IsNext(y, i, n, y.node[n].forward[i])
    BY DEF Chains
<1>2. On(y, i) = On(z, i) \ {x} /\ On(y, i) \subseteq DOMAIN y.node /\ On(z, i) \subseteq DOMAIN z.node
    BY UnspliceOn DEF On
<1>3. /\ NULL \notin DOMAIN z.node
      /\ \A p \in DOMAIN y.node : p \in DOMAIN z.node /\ p # x
      /\ \A p \in DOMAIN z.node : Pos(z, p) \in Nat
      /\ \A p, q \in DOMAIN y.node : /\ Pos(y, p) <= Pos(y, q) <=> Pos(z, p) <= Pos(z, q)
                                     /\ Pos(y, p) < Pos(y, q) <=> Pos(z, p) < Pos(z, q)
    BY UnspliceFacts
<1> DEFINE q == z.node[n].forward[i]
<1>4. n \in On(z, i) /\ n \in DOMAIN y.node /\ i \in DOMAIN z.node[n].forward
    BY <1>2 DEF On
<1>5. IsNext(z, i, n, q)
    BY <1>4 DEF ListOK, Chains
<1>6. y.node[n].forward[i] = IF i < z.level /\ u[i] = n /\ q = x
                             THEN z.node[x].forward[i] ELSE q
    BY <1>4 DEF Unspliced
<1>7. CASE q = x
  <2> DEFINE r == z.node[x].forward[i]
  <2>1. i < z.level /\ u[i] = n /\ x \in On(z, i)
      BY <1>4, <1>7, LinkToRemoved
  <2>2. y.node[n].forward[i] = r /\ IsNext(z, i, x, r)
      BY <1>6, <1>7, <2>1 DEF ListOK, Chains
  <2> HIDE DEF r, q
  <2>3. /\ Pos(z, n) < Pos(z, x) /\ x # NULL
        /\ \A p \in On(z, i) : Pos(z, p) <= Pos(z, n) \/ Pos(z, x) <= Pos(z, p)
      BY <1>2, <1>3, <1>5, <1>7, <2>1 DEF IsNext
  <2>4. \A p \in On(y, i) : p \in On(z, i) /\ Pos(z, p) # Pos(z, x)
    <3>1. \A p, s \in DOMAIN z.node : Pos(z, p) = Pos(z, s) => p = s
        BY ShapeFacts DEF ListOK
    <3> QED BY <1>2, <2>1, <3>1
  <2>5. CASE r = NULL
    <3>1. \A p \in On(z, i) : Pos(z, p) <= Pos(z, x)
        BY <1>2, <1>3, <2>2, <2>5 DEF IsNext
    <3>2. ASSUME NEW p \in On(y, i) PROVE Pos(y, p) <= Pos(y, n)
      <4>1. Pos(z, p) \in Nat /\ Pos(z, x) \in Nat /\ p \in DOMAIN y.node
          BY <1>2, <1>3, <2>1
      <4>2. Pos(z, p) <= Pos(z, n)
          BY <2>3, <2>4, <3>1, <4>1
      <4> QED BY <1>3, <1>4, <4>1, <4>2
    <3> QED BY <2>2, <2>5, <3>2 DEF IsNext
  <2>6. CASE r # NULL
    <3>1. /\ r \in On(z, i) /\ Pos(z, x) < Pos(z, r)
          /\ \A p \in On(z, i) : Pos(z, p) <= Pos(z, x) \/ Pos(z, r) <= Pos(z, p)
        BY <2>2, <2>6 DEF IsNext
    <3>2. Pos(z, n) \in Nat /\ Pos(z, x) \in Nat /\ Pos(z, r) \in Nat
        BY <1>2, <1>3, <1>4, <2>1, <3>1
    <3>3. r \in On(y, i) /\ r \in DOMAIN y.node /\ Pos(z, n) < Pos(z, r)
        BY <1>2, <2>3, <3>1, <3>2
    <3>4. ASSUME NEW p \in On(y, i) PROVE Pos(y, p) <= Pos(y, n) \/ Pos(y, r) <= Pos(y, p)
      <4>1. Pos(z, p) \in Nat /\ p \in DOMAIN y.node /\ p \in On(z, i)
          BY <1>2, <1>3
      <4>2. Pos(z, p) <= Pos(z, n) \/ Pos(z, r) <= Pos(z, p)
          BY <2>3, <2>4, <3>1, <3>2, <4>1
      <4> QED BY <1>3, <1>4, <3>3, <4>1, <4>2
    <3>5. Pos(y, n) < Pos(y, r)
        BY <1>3, <1>4, <3>3
    <3> QED BY <2>2, <3>3, <3>4, <3>5 DEF IsNext
  <2> QED BY <2>5, <2>6
<1>8. CASE q # x
  <2>1. y.node[n].forward[i] = q
      BY <1>6, <1>8
  <2> HIDE DEF q
  <2>2. CASE q = NULL
    <3>1. \A p \in On(z, i) : Pos(z, p) <= Pos(z, n)
        BY <1>2, <1>3, <1>5, <2>2 DEF IsNext
    <3>2. \A p \in On(y, i) : Pos(y, p) <= Pos(y, n)
        BY <1>2, <1>3, <1>4, <3>1
    <3> QED BY <2>1, <2>2, <3>2 DEF IsNext
  <2>3. CASE q # NULL
    <3>1. /\ q \in On(z, i) /\ Pos(z, n) < Pos(z, q)
          /\ \A p \in On(z, i) : Pos(z, p) <= Pos(z, n) \/ Pos(z, q) <= Pos(z, p)
        BY <1>5, <2>3 DEF IsNext
    <3>2. q \in On(y, i) /\ q \in DOMAIN y.node
        BY <1>2, <1>8, <3>1
    <3>3. \A p \in On(y, i) : Pos(y, p) <= Pos(y, n) \/ Pos(y, q) <= Pos(y, p)
        BY <1>2, <1>3, <1>4, <3>1, <3>2
    <3>4. Pos(y, n) < Pos(y, q)
        BY <1>3, <1>4, <3>1, <3>2
    <3> QED BY <2>1, <3>2, <3>3, <3>4 DEF IsNext
  <2> QED BY <2>2, <2>3
<1> QED BY <1>7, <1>8

(* The spans of the levels that were in use, the ones given up among them  *)
LEMMA UnspliceSpans ==
    ASSUME NEW z, ListOK(z), NEW y, NEW x, NEW c, NEW u,
           Closed(z, y, x, c), Unspliced(z, y, x, c, u),
           NEW i \in 0 .. z.level - 1, NEW n \in On(y, i)
    PROVE  /\ y.node[n].span[i] = Target(y, y.node[n].forward[i]) - Pos(y, n)
           /\ y.node[n].span[i] \in Nat
<1>1. /\ c \in Nat /\ z.level \in Nat \ {0} /\ z.level <= ZSKIPLIST_MAXLEVEL
      /\ ZSKIPLIST_MAXLEVEL \in Nat
      /\ x \in DOMAIN z.node /\ NULL \notin DOMAIN z.node
      /\ \A p \in DOMAIN y.node : p \in DOMAIN z.node /\ p # x
      /\ \A p \in DOMAIN z.node : Pos(z, p) \in Nat /\ Pos(z, p) <= z.length
      /\ \A p \in DOMAIN y.node : Pos(y, p) \in Nat /\ Pos(y, p) <= y.length
    BY UnspliceFacts
<1>2. i \in AllLevels /\ i < z.level
    BY <1>1 DEF AllLevels
<1>3. /\ x \in Nodes(z) /\ Pos(z, x) = c + 1 /\ z.length = y.length + 1 /\ y.length \in Nat
      /\ \A p \in DOMAIN y.node :
          /\ Pos(z, p) # c + 1
          /\ Pos(y, p) = IF Pos(z, p) <= c THEN Pos(z, p) ELSE Pos(z, p) - 1
    BY DEF Closed
<1>4. On(y, i) = On(z, i) \ {x} /\ On(y, i) \subseteq DOMAIN y.node /\ On(z, i) \subseteq DOMAIN z.node
    BY UnspliceOn DEF On
<1> DEFINE q == z.node[n].forward[i]  t == y.node[n].forward[i]
<1>5. n \in On(z, i) /\ n \in DOMAIN y.node /\ i \in DOMAIN z.node[n].forward /\ n \in DOMAIN z.node
    BY <1>4 DEF On
<1>6. /\ IsNext(z, i, n, q) /\ z.node[n].span[i] = Target(z, q) - Pos(z, n)
    BY <1>2, <1>5 DEF ListOK, Chains, Spans
<1>7. /\ t = IF i < z.level /\ u[i] = n /\ q = x THEN z.node[x].forward[i] ELSE q
      /\ y.node[n].span[i] =
                     IF ~(i < z.level) \/ u[i] # n THEN z.node[n].span[i]
                     ELSE IF q = x
                     THEN z.node[n].span[i] + z.node[x].span[i] - 1
                     ELSE z.node[n].span[i] - 1
    BY <1>5 DEF Unspliced
<1>8. /\ u[i] \in On(z, i) /\ Pos(z, u[i]) <= c
      /\ \A p \in On(z, i) : Pos(z, p) <= c => Pos(z, p) <= Pos(z, u[i])
    BY DEF Unspliced, LastUpTo
<1>9. q = x => u[i] = n /\ x \in On(z, i)
    BY <1>2, <1>5, LinkToRemoved
<1>10. Pos(z, n) \in Nat /\ Pos(y, n) \in Nat /\ Pos(z, u[i]) \in Nat
    BY <1>1, <1>4, <1>5, <1>8
<1>11. IsNext(y, i, n, t)
    BY <1>2, UnspliceChains DEF Chains
<1> HIDE DEF q, t
(* A node after x, or the end, is one nearer.                              *)
<1>12. ASSUME NEW r, r = NULL \/ (r \in On(z, i) /\ Pos(z, r) > c + 1)
       PROVE  Target(y, r) = Target(z, r) - 1 /\ Target(z, r) \in Nat
  <2>1. CASE r = NULL
      BY <1>3, <2>1 DEF Target
  <2>2. CASE r # NULL
    <3>1. r \in On(z, i) /\ Pos(z, r) > c + 1 /\ Pos(z, r) \in Nat
        BY <1>1, <1>4, <1>12, <2>2
    <3>2. r \in DOMAIN y.node
        BY <1>1, <1>3, <1>4, <3>1
    <3> QED BY <1>1, <1>3, <2>2, <3>1, <3>2 DEF Target
  <2> QED BY <2>1, <2>2
<1>13. y.node[n].span[i] = Target(y, t) - Pos(y, n)
  <2>1. CASE q = x
    <3> DEFINE r == z.node[x].forward[i]
    <3>1. t = r /\ y.node[n].span[i] = z.node[n].span[i] + z.node[x].span[i] - 1
        BY <1>2, <1>7, <1>9, <2>1
    <3>2. IsNext(z, i, x, r) /\ z.node[x].span[i] = Target(z, r) - Pos(z, x)
        BY <1>2, <1>9, <2>1 DEF ListOK, Chains, Spans
    <3> HIDE DEF r
    <3>3. r = NULL \/ (r \in On(z, i) /\ Pos(z, r) > c + 1)
      <4>1. CASE r # NULL
        <5>1. r \in On(z, i) /\ Pos(z, x) < Pos(z, r)
            BY <3>2, <4>1 DEF IsNext
        <5> QED BY <1>1, <1>3, <1>4, <5>1
      <4> QED BY <4>1
    <3>4. Target(y, r) = Target(z, r) - 1 /\ Target(z, r) \in Nat
        BY <1>12, <3>3
    <3>5. Target(z, q) = c + 1 /\ Pos(y, n) = Pos(z, n)
      <4>1. q # NULL
          BY <1>1, <2>1
      <4> QED BY <1>3, <1>5, <1>8, <1>9, <2>1, <4>1 DEF Target
    <3> QED BY <1>1, <1>3, <1>6, <1>10, <3>1, <3>2, <3>4, <3>5
  <2>2. CASE q # x /\ u[i] = n
    <3>1. t = q /\ y.node[n].span[i] = z.node[n].span[i] - 1
        BY <1>2, <1>7, <2>2
    <3>2. Pos(y, n) = Pos(z, n)
        BY <1>3, <1>5, <1>8, <2>2
    <3>3. q = NULL \/ (q \in On(z, i) /\ Pos(z, q) > c + 1)
      <4>1. CASE q # NULL
        <5>1. q \in On(z, i) /\ Pos(z, n) < Pos(z, q)
            BY <1>6, <4>1 DEF IsNext
        <5>2. Pos(z, q) \in Nat /\ q \in DOMAIN y.node
            BY <1>1, <1>4, <2>2, <5>1
        <5>3. ~(Pos(z, q) <= c) /\ Pos(z, q) # c + 1
            BY <1>3, <1>8, <1>10, <2>2, <5>1, <5>2
        <5> QED BY <1>1, <5>1, <5>2, <5>3
      <4> QED BY <4>1
    <3>4. Target(y, q) = Target(z, q) - 1 /\ Target(z, q) \in Nat
        BY <1>12, <3>3
    <3> QED BY <1>6, <1>10, <3>1, <3>2, <3>4
  <2>3. CASE q # x /\ u[i] # n
    <3>1. t = q /\ y.node[n].span[i] = z.node[n].span[i]
        BY <1>7, <2>3
    <3>2. Pos(z, n) # Pos(z, u[i]) /\ Pos(z, n) # c + 1
      <4>1. \A p, r \in DOMAIN z.node : Pos(z, p) = Pos(z, r) => p = r
          BY ShapeFacts DEF ListOK
      <4> QED BY <1>3, <1>4, <1>5, <1>8, <2>3, <4>1
    <3>3. CASE Pos(z, n) <= c
      <4>1. Pos(z, n) < Pos(z, u[i]) /\ Pos(y, n) = Pos(z, n)
          BY <1>3, <1>5, <1>8, <1>10, <3>2, <3>3
      <4>2. q # NULL /\ q \in On(z, i) /\ Pos(z, q) <= Pos(z, u[i])
          BY <1>1, <1>4, <1>6, <1>8, <1>10, <4>1 DEF IsNext
      <4>3. q \in DOMAIN y.node /\ Pos(z, q) \in Nat
          BY <1>1, <1>4, <2>3, <4>2
      <4>4. Pos(z, q) <= c
          BY <1>1, <1>8, <1>10, <4>2, <4>3
      <4>5. Pos(y, q) = Pos(z, q)
          BY <1>3, <4>3, <4>4
      <4> QED BY <1>6, <3>1, <4>1, <4>2, <4>5 DEF Target
    <3>4. CASE ~(Pos(z, n) <= c)
      <4>1. Pos(y, n) = Pos(z, n) - 1 /\ Pos(z, n) > c + 1
          BY <1>1, <1>3, <1>5, <1>10, <3>2, <3>4
      <4>2. q = NULL \/ (q \in On(z, i) /\ Pos(z, q) > c + 1)
        <5>1. CASE q # NULL
          <6>1. q \in On(z, i) /\ Pos(z, n) < Pos(z, q)
              BY <1>6, <5>1 DEF IsNext
          <6>2. Pos(z, q) \in Nat
              BY <1>1, <1>4, <6>1
          <6> QED BY <1>1, <1>10, <4>1, <6>1, <6>2
        <5> QED BY <5>1
      <4>3. Target(y, q) = Target(z, q) - 1 /\ Target(z, q) \in Nat
          BY <1>12, <4>2
      <4> QED BY <1>6, <1>10, <3>1, <4>1, <4>3
    <3> QED BY <3>3, <3>4
  <2> QED BY <2>1, <2>2, <2>3
<1>14. Target(y, t) \in Nat /\ Pos(y, n) <= Target(y, t)
  <2>1. CASE t = NULL
      BY <1>1, <1>3, <1>5, <2>1 DEF Target
  <2>2. CASE t # NULL
    <3>1. t \in On(y, i) /\ Pos(y, n) < Pos(y, t)
        BY <1>11, <2>2 DEF IsNext
    <3>2. Pos(y, t) \in Nat
        BY <1>1, <1>4, <3>1
    <3> QED BY <1>10, <2>2, <3>1, <3>2 DEF Target
  <2> QED BY <2>1, <2>2
<1>15. y.node[n].span[i] \in Nat
    BY <1>10, <1>13, <1>14
<1> QED BY <1>13, <1>15 DEF t

(* The fields after a removal; no span goes below 0.                       *)
LEMMA UnspliceShape ==
    ASSUME NEW z, ListOK(z), NEW y, NEW x, NEW c, NEW u,
           Closed(z, y, x, c), Unspliced(z, y, x, c, u), Lowered(z, y)
    PROVE  Shape(y)
<1>1. /\ z.level \in Nat \ {0} /\ z.level <= ZSKIPLIST_MAXLEVEL /\ ZSKIPLIST_MAXLEVEL \in Nat
      /\ x # Header /\ NULL \notin DOMAIN z.node
      /\ \A p \in DOMAIN y.node : p \in DOMAIN z.node /\ p # x
    BY UnspliceFacts
<1>2. /\ Shape(z) /\ y.length = Cardinality(Nodes(y)) /\ DOMAIN y.node = DOMAIN z.node \ {x}
      /\ Nodes(y) = Nodes(z) \ {x} /\ x \in Nodes(z)
    BY DEF ListOK, Closed
<1>3. Header \in DOMAIN y.node /\ Nodes(y) \subseteq Members
    BY <1>1, <1>2 DEF Shape
<1>4. y.level \in 1 .. ZSKIPLIST_MAXLEVEL
    BY <1>1 DEF Lowered
<1>5. ASSUME NEW n \in DOMAIN y.node PROVE NodeOK(y.node[n])
  <2>1. NodeOK(z.node[n])
      BY <1>1, <1>2 DEF Shape
  <2>2. /\ DOMAIN y.node[n] = {"score", "backward", "forward", "span"}
        /\ DOMAIN y.node[n].forward = DOMAIN z.node[n].forward
        /\ DOMAIN y.node[n].span = DOMAIN z.node[n].span
      BY DEF Unspliced
  <2>3. ASSUME NEW i \in DOMAIN z.node[n].span PROVE y.node[n].span[i] \in Nat
    <3>1. z.node[n].span[i] \in Nat /\ i \in DOMAIN z.node[n].forward /\ i \in Nat
        BY <2>1 DEF NodeOK
    <3>2. CASE i < z.level
      <4>1. i \in 0 .. z.level - 1 /\ n \in On(y, i)
          BY <1>1, <2>2, <3>1, <3>2 DEF On
      <4> QED BY <4>1, UnspliceSpans
    <3>3. CASE ~(i < z.level)
      <4>1. y.node[n].span[i] = z.node[n].span[i]
          BY <3>1, <3>3 DEF Unspliced
      <4> QED BY <3>1, <4>1
    <3> QED BY <3>2, <3>3
  <2> QED BY <2>1, <2>2, <2>3 DEF NodeOK
<1>6. \A n \in Nodes(y) : y.node[n].score \in Scores
  <2>1. \A n \in Nodes(y) : n \in DOMAIN y.node /\ z.node[n].score \in Scores
      BY <1>2 DEF Shape, Nodes
  <2> QED BY <2>1 DEF Unspliced
<1>7. y.node[Header].score = 0 /\ y.node[Header].backward = NULL
      /\ DOMAIN y.node[Header].forward = AllLevels
  <2>1. /\ y.node[Header].score = z.node[Header].score
        /\ DOMAIN y.node[Header].forward = DOMAIN z.node[Header].forward
        /\ y.node[Header].backward = IF Header = z.node[x].forward[0] THEN z.node[x].backward
                                     ELSE z.node[Header].backward
      BY <1>3 DEF Unspliced
  <2>2. 0 \in AllLevels /\ On(z, 0) = DOMAIN z.node /\ Pos(z, Header) = 0 /\ x \in DOMAIN z.node
        /\ Pos(z, x) \in Nat
      BY <1>1, <1>2, ShapeFacts, UnspliceFacts DEF AllLevels
  <2>3. IsNext(z, 0, x, z.node[x].forward[0])
      BY <2>2 DEF ListOK, Chains
  <2>4. Header # z.node[x].forward[0]
      BY <1>1, <1>3, <2>2, <2>3 DEF IsNext
  <2> QED BY <1>2, <2>1, <2>4 DEF Shape
<1>8. DOMAIN y = {"node", "tail", "level", "length"}
    BY DEF Unspliced
<1> QED BY <1>2, <1>3, <1>4, <1>5, <1>6, <1>7, <1>8 DEF Shape

(* backward and tail after a removal                                       *)
LEMMA UnspliceEnds ==
    ASSUME NEW z, ListOK(z), NEW y, NEW x, NEW c, NEW u,
           Closed(z, y, x, c), Unspliced(z, y, x, c, u)
    PROVE  Ends(y)
<1> DEFINE q == z.node[x].forward[0]  a == z.node[x].backward
<1>1. /\ c \in Nat /\ x \in DOMAIN z.node /\ NULL \notin DOMAIN z.node
      /\ \A p \in DOMAIN y.node : p \in DOMAIN z.node /\ p # x
      /\ \A p \in DOMAIN z.node : Pos(z, p) \in Nat /\ Pos(z, p) <= z.length
    BY UnspliceFacts
<1>2. /\ x \in Nodes(z) /\ Pos(z, x) = c + 1 /\ z.length = y.length + 1 /\ y.length \in Nat
      /\ DOMAIN y.node = DOMAIN z.node \ {x} /\ Nodes(y) = Nodes(z) \ {x} /\ c <= y.length
      /\ \A p \in DOMAIN y.node :
          /\ Pos(z, p) # c + 1
          /\ Pos(y, p) = IF Pos(z, p) <= c THEN Pos(z, p) ELSE Pos(z, p) - 1
    BY DEF Closed
<1>3. /\ On(z, 0) = DOMAIN z.node /\ DOMAIN z.node = Nodes(z) \cup {Header} /\ Pos(z, Header) = 0
      /\ \A p \in Nodes(z) : Pos(z, p) >= 1
      /\ \A p, r \in DOMAIN z.node : Pos(z, p) = Pos(z, r) => p = r
      /\ \A k \in 0 .. z.length : \E n \in DOMAIN z.node : Pos(z, n) = k
    BY ShapeFacts DEF ListOK
<1>4. IsNext(z, 0, x, q)
  <2>1. 0 \in AllLevels
      BY SkipListAssumption DEF AllLevels
  <2> QED BY <1>1, <1>3, <2>1 DEF ListOK, Chains
<1>5. y.tail = IF q = NULL THEN a ELSE z.tail
    BY DEF Unspliced
<1>6. \A n \in DOMAIN y.node : y.node[n].backward = IF n = q THEN a ELSE z.node[n].backward
    BY DEF Unspliced
<1>7. IsAt(z, c, a)
  <2>1. IsAt(z, Pos(z, x) - 1, a)
      BY <1>2 DEF ListOK, Ends
  <2>2. Pos(z, x) - 1 = c
      BY <1>1, <1>2
  <2> QED BY <2>1, <2>2
<1>8. (\A n \in Nodes(z) : IsAt(z, Pos(z, n) - 1, z.node[n].backward)) /\ IsAt(z, z.length, z.tail)
    BY DEF ListOK, Ends
<1> HIDE DEF q, a
(* The node after x is the one at c + 2.                                   *)
<1>9. /\ q = NULL => c = y.length
      /\ q # NULL => q \in Nodes(z) /\ Pos(z, q) = c + 2
  <2>1. CASE q = NULL
    <3>1. PICK p \in DOMAIN z.node : Pos(z, p) = z.length
        BY <1>2, <1>3
    <3>2. Pos(z, p) <= c + 1
        BY <1>1, <1>2, <1>3, <1>4, <2>1, <3>1 DEF IsNext
    <3> QED BY <1>1, <1>2, <2>1, <3>1, <3>2
  <2>2. CASE q # NULL
    <3>1. /\ q \in DOMAIN z.node /\ c + 1 < Pos(z, q)
          /\ \A p \in DOMAIN z.node : Pos(z, p) <= c + 1 \/ Pos(z, q) <= Pos(z, p)
        BY <1>1, <1>2, <1>3, <1>4, <2>2 DEF IsNext
    <3>2. Pos(z, q) \in Nat /\ Pos(z, q) <= z.length
        BY <1>1, <3>1
    <3>3. c + 2 \in 0 .. z.length
        BY <1>1, <1>2, <3>1, <3>2
    <3>4. PICK p \in DOMAIN z.node : Pos(z, p) = c + 2
        BY <1>3, <3>3
    <3>5. Pos(z, q) = c + 2
        BY <1>1, <3>1, <3>2, <3>4
    <3>6. q \in Nodes(z)
        BY <1>1, <1>3, <3>1, <3>5
    <3> QED BY <2>2, <3>5, <3>6
  <2> QED BY <2>1, <2>2
(* a is at c in both lists.                                                *)
<1>10. IsAt(y, c, a)
  <2>1. CASE a = NULL
      BY <1>1, <1>2, <1>3, <1>7, <2>1 DEF IsAt
  <2>2. CASE a # NULL
    <3>1. a \in Nodes(z) /\ Pos(z, a) = c
        BY <1>7, <2>2 DEF IsAt
    <3>2. a \in DOMAIN y.node /\ a \in Nodes(y)
        BY <1>1, <1>2, <1>3, <3>1
    <3>3. Pos(y, a) = c
        BY <1>1, <1>2, <3>1, <3>2
    <3> QED BY <3>2, <3>3 DEF IsAt
  <2> QED BY <2>1, <2>2
<1>11. ASSUME NEW n \in Nodes(y) PROVE IsAt(y, Pos(y, n) - 1, y.node[n].backward)
  <2>1. n \in Nodes(z) /\ n \in DOMAIN y.node /\ n \in DOMAIN z.node
      BY <1>2, <1>3
  <2>2. Pos(z, n) \in Nat /\ Pos(z, n) >= 1 /\ Pos(z, n) <= z.length /\ Pos(z, n) # c + 1
      BY <1>1, <1>2, <1>3, <2>1
  <2>3. CASE n = q
    <3>1. q # NULL /\ Pos(z, n) = c + 2
        BY <1>1, <1>9, <2>1, <2>3
    <3>2. Pos(y, n) - 1 = c
        BY <1>1, <1>2, <2>1, <3>1
    <3> QED BY <1>6, <1>10, <2>1, <2>3, <3>2
  <2>4. CASE n # q
    <3> DEFINE b == z.node[n].backward
    <3>1. y.node[n].backward = b /\ IsAt(z, Pos(z, n) - 1, b)
        BY <1>6, <1>8, <2>1, <2>4
    <3> HIDE DEF b
    <3>2. Pos(z, n) # c + 2
      <4> SUFFICES ASSUME Pos(z, n) = c + 2 PROVE FALSE
          OBVIOUS
      <4>1. q # NULL
          BY <1>1, <1>2, <1>9, <2>2
      <4> QED BY <1>3, <1>9, <2>1, <2>4, <4>1
    <3>3. CASE b = NULL
      <4>1. Pos(z, n) - 1 \notin 1 .. z.length
          BY <1>1, <1>3, <3>1, <3>3 DEF IsAt
      <4>2. Pos(z, n) = 1
          BY <1>2, <2>2, <4>1
      <4>3. Pos(y, n) = 1
          BY <1>1, <1>2, <2>1, <2>2, <4>2
      <4> QED BY <3>1, <3>3, <4>3 DEF IsAt
    <3>4. CASE b # NULL
      <4>1. b \in Nodes(z) /\ Pos(z, b) = Pos(z, n) - 1
          BY <3>1, <3>4 DEF IsAt
      <4>2. Pos(z, b) # Pos(z, x)
          BY <1>1, <1>2, <2>2, <3>2, <4>1
      <4>3. b \in Nodes(y) /\ b \in DOMAIN y.node
          BY <1>2, <1>3, <4>1, <4>2
      <4>4. Pos(y, b) = Pos(y, n) - 1
          BY <1>1, <1>2, <2>1, <2>2, <3>2, <4>1, <4>3
      <4> QED BY <3>1, <4>3, <4>4 DEF IsAt
    <3> QED BY <3>3, <3>4
  <2> QED BY <2>3, <2>4
<1>12. IsAt(y, y.length, y.tail)
  <2>1. CASE q = NULL
      BY <1>5, <1>9, <1>10, <2>1
  <2>2. CASE q # NULL
    <3>1. q \in DOMAIN z.node /\ Pos(z, q) = c + 2 /\ Pos(z, q) <= z.length
        BY <1>1, <1>3, <1>9, <2>2
    <3>2. z.length \in 1 .. z.length /\ z.length > c + 1
        BY <1>1, <1>2, <3>1
    <3>3. z.tail \in Nodes(z) /\ Pos(z, z.tail) = z.length
        BY <1>8, <3>2 DEF IsAt
    <3>4. z.tail # x
        BY <1>1, <1>2, <3>2, <3>3
    <3>5. z.tail \in Nodes(y) /\ z.tail \in DOMAIN y.node
        BY <1>2, <1>3, <3>3, <3>4
    <3>6. Pos(y, z.tail) = y.length
        BY <1>1, <1>2, <3>2, <3>3, <3>5
    <3> QED BY <1>5, <2>2, <3>5, <3>6 DEF IsAt
  <2> QED BY <2>1, <2>2
<1> QED BY <1>11, <1>12 DEF Ends

(* The levels in use after a removal                                       *)
LEMMA UnspliceLevels ==
    ASSUME NEW z, ListOK(z), NEW y, NEW x, NEW c, NEW u,
           Closed(z, y, x, c), Unspliced(z, y, x, c, u), Lowered(z, y)
    PROVE  LevelsUsed(y)
<1>1. SUFFICES ASSUME NEW i \in 1 .. ZSKIPLIST_MAXLEVEL - 1
               PROVE  i < y.level <=> On(y, i) # {Header}
    BY DEF LevelsUsed
<1>2. /\ z.level \in Nat \ {0} /\ z.level <= ZSKIPLIST_MAXLEVEL /\ ZSKIPLIST_MAXLEVEL \in Nat
    BY UnspliceFacts
<1>3. Shape(y) /\ Chains(y)
    BY UnspliceShape, UnspliceChains
<1>4. /\ NULL \notin DOMAIN y.node /\ Pos(y, Header) = 0 /\ Header \notin Nodes(y)
      /\ \A n \in Nodes(y) : Pos(y, n) >= 1
      /\ DOMAIN y.node = Nodes(y) \cup {Header}
      /\ \A j \in AllLevels : Header \in On(y, j) /\ On(y, j) \subseteq DOMAIN y.node
    BY <1>3, ShapeFacts
<1>5. ASSUME NEW j \in AllLevels
      PROVE  On(y, j) = {Header} <=> y.node[Header].forward[j] = NULL
  <2>1. IsNext(y, j, Header, y.node[Header].forward[j]) /\ Header \in On(y, j)
        /\ On(y, j) \subseteq DOMAIN y.node
      BY <1>3, <1>4 DEF Chains
  <2>2. ASSUME y.node[Header].forward[j] = NULL PROVE On(y, j) = {Header}
    <3>1. NULL \notin On(y, j)
        BY <1>4, <2>1
    <3>2. \A p \in On(y, j) : Pos(y, p) <= 0
        BY <1>4, <2>1, <2>2, <3>1 DEF IsNext
    <3>3. \A p \in Nodes(y) : Pos(y, p) \in Nat
        BY <1>3, ShapeFacts
    <3>4. \A p \in On(y, j) : p = Header
        BY <1>4, <2>1, <3>2, <3>3
    <3> QED BY <2>1, <3>4
  <2>3. ASSUME On(y, j) = {Header} PROVE y.node[Header].forward[j] = NULL
      BY <1>4, <2>1, <2>3 DEF IsNext
  <2> QED BY <2>2, <2>3
<1>6. i \in AllLevels /\ i \in Nat
    BY <1>2 DEF AllLevels
<1>7. /\ y.level \in 1 .. z.level
      /\ y.level = 1 \/ y.node[Header].forward[y.level - 1] # NULL
      /\ \A j \in y.level .. z.level - 1 : y.node[Header].forward[j] = NULL
    BY DEF Lowered
<1>8. CASE i < y.level
  <2>1. y.level # 1 /\ y.level - 1 \in AllLevels /\ i <= y.level - 1
      BY <1>2, <1>6, <1>7, <1>8 DEF AllLevels
  <2>2. On(y, y.level - 1) # {Header} /\ Header \in On(y, y.level - 1)
      BY <1>4, <1>5, <1>7, <2>1
  <2>3. PICK n \in On(y, y.level - 1) : n # Header
      BY <2>2
  <2>4. n \in DOMAIN y.node /\ y.level - 1 \in DOMAIN y.node[n].forward
      BY <2>3 DEF On
  <2>5. PICK h \in 1 .. ZSKIPLIST_MAXLEVEL : DOMAIN y.node[n].forward = 0 .. h - 1
      BY <1>3, <2>4 DEF Shape, NodeOK
  <2>6. i \in DOMAIN y.node[n].forward
      BY <1>2, <1>6, <1>7, <2>1, <2>4, <2>5
  <2>7. n \in On(y, i)
      BY <2>4, <2>6 DEF On
  <2> QED BY <1>8, <2>3, <2>7
<1>9. CASE ~(i < y.level)
  <2>1. On(y, i) = {Header}
    <3>1. CASE i < z.level
      <4>1. i \in y.level .. z.level - 1
          BY <1>2, <1>6, <1>7, <1>9, <3>1
      <4> QED BY <1>5, <1>6, <1>7, <4>1
    <3>2. CASE ~(i < z.level)
      <4>1. On(z, i) = {Header}
          BY <1>2, <1>6, <3>2, UnusedLevels
      <4>2. x # Header
          BY UnspliceFacts
      <4> QED BY <4>1, <4>2, UnspliceOn
    <3> QED BY <3>1, <3>2
  <2> QED BY <1>9, <2>1
<1> QED BY <1>8, <1>9

(* m_zslDeleteNode keeps the list in order, and update stays right for the *)
(* node that follows.                                                      *)
LEMMA DeleteOK ==
    ASSUME NEW z, ListOK(z), NEW x \in Nodes(z), NEW u, NEW c \in Nat, Pos(z, x) = c + 1,
           \A i \in 0 .. z.level - 1 : LastUpTo(z, i, u[i], c)
    PROVE  LET y == m_zslDeleteNode(z, x, u) IN
           /\ ListOK(y) /\ Closed(z, y, x, c) /\ y.level <= z.level
           /\ \A n \in DOMAIN y.node : y.node[n].score = z.node[n].score
           /\ \A i \in 0 .. y.level - 1 : LastUpTo(y, i, u[i], c)
<1> DEFINE y == m_zslDeleteNode(z, x, u)
<1>1. Closed(z, y, x, c) /\ Unspliced(z, y, x, c, u) /\ Lowered(z, y)
    BY DeleteUnsplices
<1> HIDE DEF y
<1>2. y.level \in 1 .. z.level /\ z.level \in Nat
    BY <1>1, UnspliceFacts DEF Lowered
<1>3. Shape(y) /\ Chains(y) /\ Ends(y) /\ LevelsUsed(y)
    BY <1>1, UnspliceShape, UnspliceChains, UnspliceEnds, UnspliceLevels
<1>4. \A i \in 0 .. y.level - 1 : i \in 0 .. z.level - 1
    BY <1>2
<1>5. Spans(y)
    BY <1>1, <1>4, UnspliceSpans DEF Spans
<1>6. ASSUME NEW i \in 0 .. y.level - 1 PROVE LastUpTo(y, i, u[i], c)
  <2>1. LastUpTo(z, i, u[i], c) /\ On(y, i) = On(z, i) \ {x} /\ On(y, i) \subseteq DOMAIN y.node
        /\ On(z, i) \subseteq DOMAIN z.node
      BY <1>1, <1>4, UnspliceOn DEF On
  <2>2. /\ \A n \in DOMAIN z.node : Pos(z, n) \in Nat
        /\ \A n \in DOMAIN y.node : n \in DOMAIN z.node
        /\ \A n \in DOMAIN y.node : Pos(y, n) = IF Pos(z, n) <= c THEN Pos(z, n) ELSE Pos(z, n) - 1
        /\ \A n \in DOMAIN y.node : Pos(z, n) # c + 1
      BY <1>1, UnspliceFacts DEF Closed
  <2>3. u[i] # x
      BY <2>1 DEF LastUpTo
  <2>4. u[i] \in On(y, i) /\ u[i] \in DOMAIN y.node /\ Pos(z, u[i]) <= c /\ Pos(y, u[i]) = Pos(z, u[i])
      BY <2>1, <2>2, <2>3 DEF LastUpTo
  <2>5. ASSUME NEW p \in On(y, i), Pos(y, p) <= c PROVE Pos(y, p) <= Pos(y, u[i])
    <3>1. p \in DOMAIN y.node /\ p \in On(z, i) /\ Pos(z, p) \in Nat
        BY <2>1, <2>2
    <3>2. Pos(z, p) <= c
        BY <2>2, <2>5, <3>1
    <3>3. Pos(z, p) <= Pos(z, u[i])
        BY <2>1, <3>1, <3>2 DEF LastUpTo
    <3> QED BY <2>2, <2>4, <3>1, <3>2, <3>3
  <2> QED BY <2>4, <2>5 DEF LastUpTo
<1>7. \A n \in DOMAIN y.node : y.node[n].score = z.node[n].score
    BY <1>1 DEF Unspliced
<1>8. ListOK(y)
    BY <1>3, <1>5 DEF ListOK
<1> QED BY <1>1, <1>2, <1>6, <1>7, <1>8 DEF y

-----------------------------------------------------------------------------
(* Where the walks of the operations lead *)

(* The next node of level 0 is at the next position.                       *)
LEMMA NextIsAt ==
    ASSUME NEW z, ListOK(z), NEW n \in DOMAIN z.node
    PROVE  IsAt(z, Pos(z, n) + 1, z.node[n].forward[0])
<1> DEFINE q == z.node[n].forward[0]
<1>1. /\ On(z, 0) = DOMAIN z.node /\ DOMAIN z.node = Nodes(z) \cup {Header} /\ Pos(z, Header) = 0
      /\ NULL \notin DOMAIN z.node /\ z.length \in Nat
      /\ \A p \in DOMAIN z.node : Pos(z, p) \in Nat /\ Pos(z, p) <= z.length
      /\ \A k \in 0 .. z.length : \E p \in DOMAIN z.node : Pos(z, p) = k
    BY ShapeFacts DEF ListOK
<1>2. IsNext(z, 0, n, q)
  <2>1. 0 \in AllLevels
      BY SkipListAssumption DEF AllLevels
  <2> QED BY <1>1, <2>1 DEF ListOK, Chains
<1> HIDE DEF q
<1>3. CASE q = NULL
  <2>1. PICK p \in DOMAIN z.node : Pos(z, p) = z.length
      BY <1>1
  <2>2. Pos(z, p) <= Pos(z, n)
      BY <1>1, <1>2, <1>3 DEF IsNext
  <2>3. Pos(z, n) + 1 \notin 1 .. z.length
      BY <1>1, <2>1, <2>2
  <2> QED BY <1>3, <2>3 DEF IsAt, q
<1>4. CASE q # NULL
  <2>1. /\ q \in DOMAIN z.node /\ Pos(z, n) < Pos(z, q)
        /\ \A p \in DOMAIN z.node : Pos(z, p) <= Pos(z, n) \/ Pos(z, q) <= Pos(z, p)
      BY <1>1, <1>2, <1>4 DEF IsNext
  <2>2. Pos(z, n) + 1 \in 0 .. z.length
      BY <1>1, <2>1
  <2>3. PICK p \in DOMAIN z.node : Pos(z, p) = Pos(z, n) + 1
      BY <1>1, <2>2
  <2>4. Pos(z, q) = Pos(z, n) + 1
      BY <1>1, <2>1, <2>3
  <2>5. q \in Nodes(z)
      BY <1>1, <2>1, <2>4
  <2> QED BY <2>4, <2>5 DEF IsAt, q
<1> QED BY <1>3, <1>4

(* The walk ends at position c, and the node after it is the one at c + 1. *)
LEMMA AfterFacts ==
    ASSUME NEW z, ListOK(z), NEW go, NEW c, LeadsTo(z, go, c)
    PROVE  LET path == Path(z, go) IN
           /\ path[0].node \in DOMAIN z.node /\ Pos(z, path[0].node) = c /\ path[0].rank = c
           /\ IsAt(z, c + 1, After(z, path))
           /\ \A i \in 0 .. z.level - 1 : LastUpTo(z, i, Update(path)[i], c)
<1> DEFINE path == Path(z, go)
<1>1. /\ On(z, 0) = DOMAIN z.node /\ \A k \in 0 .. z.length : \E p \in DOMAIN z.node : Pos(z, p) = k
      /\ \A p \in DOMAIN z.node : Pos(z, p) \in Nat
    BY ShapeFacts DEF ListOK
<1>2. 0 \in 0 .. z.level - 1 /\ c \in 0 .. z.length /\ z.length \in Nat
    BY ShapeFacts, SkipListAssumption DEF ListOK, Shape, LeadsTo
<1>3. /\ DOMAIN path = 0 .. z.level - 1
      /\ \A i \in 0 .. z.level - 1 :
            LastUpTo(z, i, path[i].node, c) /\ path[i].rank = Pos(z, path[i].node)
    BY PathFacts
<1> HIDE DEF path
<1>4. PICK p \in DOMAIN z.node : Pos(z, p) = c
    BY <1>1, <1>2
<1>5. LastUpTo(z, 0, path[0].node, c)
    BY <1>2, <1>3
<1>6. path[0].node \in DOMAIN z.node /\ Pos(z, path[0].node) = c
    BY <1>1, <1>2, <1>4, <1>5 DEF LastUpTo
<1>7. path[0].rank = c
    BY <1>2, <1>3, <1>6
<1>8. IsAt(z, c + 1, After(z, path))
    BY <1>6, NextIsAt DEF After
<1>9. \A i \in 0 .. z.level - 1 : LastUpTo(z, i, Update(path)[i], c)
    BY <1>3 DEF Update
<1> QED BY <1>6, <1>7, <1>8, <1>9 DEF path

(* A set that has all nodes before the ones it has leads somewhere.        *)
LEMMA DownClosed ==
    ASSUME NEW z, ListOK(z), NEW D, D \subseteq Nodes(z),
           \A p \in Nodes(z) : \A q \in D : Before(z, p, z.node[q].score, q) => p \in D
    PROVE  \E c : LeadsTo(z, AnyRank(D), c)
<1> DEFINE S == {k \in 0 .. z.length : k = 0 \/ \E n \in D : Pos(z, n) = k}
<1>1. z.length \in Nat /\ Sortable(z) /\ \A n \in Nodes(z) : Pos(z, n) \in 1 .. z.length
    BY ShapeFacts DEF ListOK
<1>2. 0 \in S /\ S \subseteq 0 .. z.length
    BY <1>1
<1>3. PICK k \in S : \A j \in S : j <= k
  <2> HIDE DEF S
  <2> QED BY <1>1, <1>2, Greatest
<1>4. ASSUME NEW n \in Nodes(z) PROVE n \in D <=> Pos(z, n) <= k
  <2>1. n \in D => Pos(z, n) <= k
      BY <1>1, <1>3
  <2>2. ASSUME Pos(z, n) <= k PROVE n \in D
    <3>1. PICK q \in D : Pos(z, q) = k
        BY <1>1, <1>3, <2>2
    <3>2. CASE n # q
      <4>1. Pos(z, n) # Pos(z, q) /\ (Pos(z, n) < Pos(z, q) <=> Before(z, n, z.node[q].score, q))
          BY <1>1, <3>2, PosOrder
      <4>2. Pos(z, n) < Pos(z, q)
          BY <1>1, <2>2, <3>1, <4>1
      <4> QED BY <3>1, <4>1, <4>2
    <3> QED BY <3>1, <3>2
  <2> QED BY <2>1, <2>2
<1>5. \A n \in Nodes(z) : <<n, Pos(z, n)>> \in AnyRank(D) <=> n \in D
    BY <1>1 DEF AnyRank
<1>6. LeadsTo(z, AnyRank(D), k)
    BY <1>2, <1>4, <1>5 DEF LeadsTo
<1> QED BY <1>6

(* The search for a member of the list                                     *)
LEMMA SearchFacts ==
    ASSUME NEW z, ListOK(z), NEW m \in Nodes(z)
    PROVE  LET path == PathTo(z, z.node[m].score, m) IN
           /\ After(z, path) = m /\ Pos(z, m) - 1 \in Nat
           /\ \A i \in 0 .. z.level - 1 : LastUpTo(z, i, Update(path)[i], Pos(z, m) - 1)
<1> DEFINE s == z.node[m].score  c == Pos(z, m) - 1
           go == AnyRank({n \in Nodes(z) : Before(z, n, s, m)})
<1>1. /\ Sortable(z) /\ z.length \in Nat /\ Header \notin Nodes(z)
      /\ DOMAIN z.node = Nodes(z) \cup {Header} /\ NULL \notin DOMAIN z.node
      /\ \A n \in Nodes(z) : Pos(z, n) \in 1 .. z.length
      /\ \A p, q \in DOMAIN z.node : Pos(z, p) = Pos(z, q) => p = q
    BY ShapeFacts DEF ListOK
<1>2. \A n \in Nodes(z) : Before(z, n, s, m) <=> Pos(z, n) < Pos(z, m)
  <2> TAKE n \in Nodes(z)
  <2>1. CASE n = m
    <3>1. m \in Nat /\ s \in Int
        BY <1>1 DEF Sortable
    <3> QED BY <1>1, <2>1, <3>1 DEF Before
  <2>2. CASE n # m
      BY <1>1, <2>2, PosOrder
  <2> QED BY <2>1, <2>2
<1>3. LeadsTo(z, go, c)
  <2>1. c \in 0 .. z.length
      BY <1>1
  <2>2. \A n \in Nodes(z) : Pos(z, n) \in Int /\ (Pos(z, n) < Pos(z, m) <=> Pos(z, n) <= c)
      BY <1>1
  <2> HIDE DEF s, c
  <2> QED BY <1>2, <2>1, <2>2 DEF LeadsTo, AnyRank
<1>4. PathTo(z, s, m) = Path(z, go)
    BY DEF PathTo
<1> DEFINE path == PathTo(z, s, m)
<1>5. c + 1 = Pos(z, m) /\ c \in Nat
    BY <1>1
<1> HIDE DEF go, s
<1>6. /\ IsAt(z, c + 1, After(z, path))
      /\ \A i \in 0 .. z.level - 1 : LastUpTo(z, i, Update(path)[i], c)
    BY <1>3, <1>4, AfterFacts
<1> HIDE DEF path
<1>7. After(z, path) = m
    BY <1>1, <1>5, <1>6 DEF IsAt
<1> QED BY <1>5, <1>6, <1>7 DEF path, s

(* A search finds only what is in the list.                                *)
LEMMA FoundFacts ==
    ASSUME NEW z, ListOK(z), NEW s \in Scores, NEW m \in Members,
           After(z, PathTo(z, s, m)) = m
    PROVE  m \in Nodes(z)
<1> DEFINE D == {n \in Nodes(z) : Before(z, n, s, m)}
<1>1. Sortable(z)
    BY ShapeFacts DEF ListOK
<1>2. ASSUME NEW p \in Nodes(z), NEW q \in D, Before(z, p, z.node[q].score, q) PROVE p \in D
  <2>1. /\ p \in Nat /\ q \in Nat /\ m \in Nat /\ s \in Int
        /\ z.node[p].score \in Int /\ z.node[q].score \in Int
      BY <1>1, SkipListAssumption DEF Sortable
  <2>2. Before(z, q, s, m)
      OBVIOUS
  <2> QED BY <1>2, <2>1, <2>2 DEF Before
<1>3. D \subseteq Nodes(z) /\ PathTo(z, s, m) = Path(z, AnyRank(D))
    BY DEF PathTo
<1> HIDE DEF D
<1>4. PICK c : LeadsTo(z, AnyRank(D), c)
    BY <1>2, <1>3, DownClosed
<1>5. IsAt(z, c + 1, After(z, Path(z, AnyRank(D))))
    BY <1>4, AfterFacts
<1>6. m # NULL
    BY SkipListAssumption DEF NULL
<1> QED BY <1>3, <1>5, <1>6 DEF IsAt

(* Positions follow the scores.                                            *)
LEMMA ScoreOrder ==
    ASSUME NEW z, ListOK(z), NEW p \in Nodes(z), NEW q \in Nodes(z), Pos(z, p) <= Pos(z, q)
    PROVE  z.node[p].score <= z.node[q].score
<1>1. /\ Sortable(z) /\ Pos(z, p) \in Nat /\ Pos(z, q) \in Nat
    BY ShapeFacts DEF ListOK
<1>2. z.node[p].score \in Int /\ z.node[q].score \in Int
    BY <1>1 DEF Sortable
<1>3. CASE p = q
    BY <1>2, <1>3
<1>4. CASE p # q
  <2>1. Before(z, p, z.node[q].score, q)
      BY <1>1, <1>4, PosOrder
  <2> QED BY <1>2, <2>1 DEF Before
<1> QED BY <1>3, <1>4

(* A list with the same nodes, links and positions is in order too.        *)
LEMMA SameLinks ==
    ASSUME NEW z, ListOK(z), NEW y,
           DOMAIN y = DOMAIN z, DOMAIN y.node = DOMAIN z.node, y.tail = z.tail,
           y.level = z.level, y.length = z.length,
           y.node[Header] = z.node[Header],
           \A n \in DOMAIN z.node :
              /\ DOMAIN y.node[n] = DOMAIN z.node[n] /\ y.node[n].forward = z.node[n].forward
              /\ y.node[n].span = z.node[n].span /\ y.node[n].backward = z.node[n].backward
              /\ Pos(y, n) = Pos(z, n),
           \A n \in Nodes(z) : y.node[n].score \in Scores
    PROVE  ListOK(y)
<1>1. Nodes(y) = Nodes(z) /\ \A i : On(y, i) = On(z, i)
    BY DEF Nodes, On
<1>2. \A n \in Nodes(z) : n \in DOMAIN z.node
    BY DEF Nodes
<1>3. \A i, n : n \in On(z, i) => n \in DOMAIN z.node
    BY DEF On
<1>4. Shape(y)
  <2>1. ASSUME NEW n \in DOMAIN y.node PROVE NodeOK(y.node[n])
    <3>1. NodeOK(z.node[n])
        BY DEF ListOK, Shape
    <3> QED BY <3>1 DEF NodeOK
  <2> QED BY <1>1, <2>1 DEF ListOK, Shape
<1>5. NULL \notin DOMAIN z.node
    BY ShapeFacts DEF ListOK
<1>6. ASSUME NEW i \in AllLevels, NEW n \in On(y, i) PROVE IsNext(y, i, n, y.node[n].forward[i])
  <2>1. IsNext(z, i, n, z.node[n].forward[i]) /\ n \in DOMAIN z.node
        /\ y.node[n].forward = z.node[n].forward
      BY <1>1, <1>3 DEF ListOK, Chains
  <2>2. \A p \in On(z, i) : Pos(y, p) = Pos(z, p)
      BY <1>3
  <2>3. Pos(y, n) = Pos(z, n)
      BY <2>1
  <2> QED BY <1>1, <2>1, <2>2, <2>3 DEF IsNext
<1>7. Ends(y)
  <2>1. \A n \in Nodes(z) : Pos(y, n) = Pos(z, n)
      BY <1>2
  <2>2. \A k, q : IsAt(z, k, q) => IsAt(y, k, q)
      BY <1>1, <2>1 DEF IsAt
  <2> QED BY <1>1, <1>2, <2>1, <2>2 DEF ListOK, Ends
<1>8. LevelsUsed(y)
    BY <1>1 DEF ListOK, LevelsUsed
<1>9. ASSUME NEW i \in 0 .. y.level - 1, NEW n \in On(y, i)
      PROVE  y.node[n].span[i] = Target(y, y.node[n].forward[i]) - Pos(y, n)
  <2>1. /\ n \in On(z, i) /\ n \in DOMAIN z.node
        /\ z.node[n].span[i] = Target(z, z.node[n].forward[i]) - Pos(z, n)
      BY <1>1, <1>3 DEF ListOK, Spans
  <2>2. i \in AllLevels
      BY SkipListAssumption DEF ListOK, Shape, AllLevels
  <2>3. IsNext(z, i, n, z.node[n].forward[i])
      BY <2>1, <2>2 DEF ListOK, Chains
  <2>4. Target(y, z.node[n].forward[i]) = Target(z, z.node[n].forward[i])
      BY <1>3, <2>3 DEF IsNext, Target
  <2> QED BY <2>1, <2>4
<1> QED BY <1>4, <1>6, <1>7, <1>8, <1>9 DEF ListOK, Chains, Spans

(* A score that keeps the node between its neighbours changes no position. *)
LEMMA RescoreOK ==
    ASSUME NEW z, ListOK(z), NEW m \in Nodes(z), NEW s \in Scores, StaysInPlace(z, m, s)
    PROVE  LET y == [z EXCEPT !.node[m].score = s] IN
           /\ ListOK(y) /\ Nodes(y) = Nodes(z) /\ y.node[m].score = s
           /\ \A n \in Nodes(z) \ {m} : y.node[n].score = z.node[n].score
<1> DEFINE y == [z EXCEPT !.node[m].score = s]
<1>1. /\ Shape(z) /\ DOMAIN z = {"node", "tail", "level", "length"} /\ m \in DOMAIN z.node
      /\ m # Header /\ Header \in DOMAIN z.node
      /\ \A n \in DOMAIN z.node : DOMAIN z.node[n] = {"score", "backward", "forward", "span"}
    BY DEF ListOK, Shape, Nodes, NodeOK
<1>2. /\ Sortable(z) /\ z.length \in Nat /\ \A n \in Nodes(z) : Pos(z, n) \in 1 .. z.length
      /\ \A p, q \in DOMAIN z.node : Pos(z, p) = Pos(z, q) => p = q
      /\ NULL \notin DOMAIN z.node /\ DOMAIN z.node = Nodes(z) \cup {Header}
      /\ \A n \in Nodes(z) : n \in Nat /\ z.node[n].score \in Int
    BY <1>1, ShapeFacts DEF Sortable
<1>3. s \in Int
    BY SkipListAssumption
<1>4. /\ DOMAIN y = DOMAIN z /\ DOMAIN y.node = DOMAIN z.node /\ y.tail = z.tail
      /\ y.level = z.level /\ y.length = z.length
    BY <1>1
<1>5. ASSUME NEW n \in DOMAIN z.node
      PROVE  /\ DOMAIN y.node[n] = DOMAIN z.node[n] /\ y.node[n].forward = z.node[n].forward
             /\ y.node[n].span = z.node[n].span /\ y.node[n].backward = z.node[n].backward
             /\ y.node[n].score = IF n = m THEN s ELSE z.node[n].score
             /\ n # m => y.node[n] = z.node[n]
  <2>1. y.node[n] = IF n = m THEN [z.node[m] EXCEPT !.score = s] ELSE z.node[n]
      BY <1>1
  <2>2. CASE n = m
      BY <1>1, <2>1, <2>2
  <2>3. CASE n # m
      BY <2>1, <2>3
  <2> QED BY <2>2, <2>3
<1> HIDE DEF y
<1>6. Nodes(y) = Nodes(z)
    BY <1>4 DEF Nodes
(* Every other node is on the same side of m as before.                    *)
<1>7. ASSUME NEW p \in Nodes(z), p # m
      PROVE  /\ Pos(z, p) < Pos(z, m) => z.node[p].score < s
             /\ Pos(z, m) < Pos(z, p) => s < z.node[p].score
  <2>1. ASSUME Pos(z, p) < Pos(z, m) PROVE z.node[p].score < s
    <3> DEFINE b == z.node[m].backward
    <3>1. IsAt(z, Pos(z, m) - 1, b)
        BY DEF ListOK, Ends
    <3>2. b \in Nodes(z) /\ Pos(z, b) = Pos(z, m) - 1 /\ b # NULL
        BY <1>2, <2>1, <3>1 DEF IsAt
    <3>3. z.node[b].score < s
        BY <3>2 DEF StaysInPlace
    <3> HIDE DEF b
    <3>4. Pos(z, p) <= Pos(z, b)
        BY <1>2, <2>1, <3>2
    <3>5. z.node[p].score <= z.node[b].score
        BY <3>2, <3>4, ScoreOrder
    <3> QED BY <1>2, <1>3, <3>2, <3>3, <3>5
  <2>2. ASSUME Pos(z, m) < Pos(z, p) PROVE s < z.node[p].score
    <3> DEFINE f == z.node[m].forward[0]
    <3>1. IsAt(z, Pos(z, m) + 1, f)
        BY <1>1, NextIsAt
    <3>2. f \in Nodes(z) /\ Pos(z, f) = Pos(z, m) + 1 /\ f # NULL
        BY <1>2, <2>2, <3>1 DEF IsAt
    <3>3. z.node[f].score > s
        BY <3>2 DEF StaysInPlace
    <3> HIDE DEF f
    <3>4. Pos(z, f) <= Pos(z, p)
        BY <1>2, <2>2, <3>2
    <3>5. z.node[f].score <= z.node[p].score
        BY <3>2, <3>4, ScoreOrder
    <3> QED BY <1>2, <1>3, <3>2, <3>3, <3>5
  <2> QED BY <2>1, <2>2
<1>8. ASSUME NEW p \in Nodes(z), NEW q \in Nodes(z), p # q
      PROVE  Before(y, p, y.node[q].score, q) <=> Before(z, p, z.node[q].score, q)
  <2>1. /\ y.node[p].score = (IF p = m THEN s ELSE z.node[p].score)
        /\ y.node[q].score = (IF q = m THEN s ELSE z.node[q].score)
      BY <1>2, <1>5
  <2>2. /\ Pos(z, p) # Pos(z, q) /\ Pos(z, p) \in Nat /\ Pos(z, q) \in Nat
        /\ Pos(z, p) < Pos(z, q) <=> Before(z, p, z.node[q].score, q)
      BY <1>2, <1>8, PosOrder
  <2>3. p \in Nat /\ q \in Nat /\ z.node[p].score \in Int /\ z.node[q].score \in Int
      BY <1>2
  <2>4. CASE p # m /\ q # m
      BY <2>1, <2>4 DEF Before
  <2>5. CASE p = m
    <3>1. /\ Pos(z, q) < Pos(z, m) => z.node[q].score < s
          /\ Pos(z, m) < Pos(z, q) => s < z.node[q].score
        BY <1>7, <1>8, <2>5
    <3>2. y.node[p].score = s /\ y.node[q].score = z.node[q].score
        BY <1>8, <2>1, <2>5
    <3>3. Before(y, p, y.node[q].score, q) <=> Pos(z, p) < Pos(z, q)
        BY <1>3, <2>2, <2>3, <2>5, <3>1, <3>2 DEF Before
    <3> QED BY <2>2, <3>3
  <2>6. CASE q = m
    <3>1. /\ Pos(z, p) < Pos(z, m) => z.node[p].score < s
          /\ Pos(z, m) < Pos(z, p) => s < z.node[p].score
        BY <1>7, <1>8, <2>6
    <3>2. y.node[q].score = s /\ y.node[p].score = z.node[p].score
        BY <1>8, <2>1, <2>6
    <3>3. Before(y, p, y.node[q].score, q) <=> Pos(z, p) < Pos(z, q)
        BY <1>3, <2>2, <2>3, <2>6, <3>1, <3>2 DEF Before
    <3> QED BY <2>2, <3>3
  <2> QED BY <2>4, <2>5, <2>6
<1>9. ASSUME NEW n \in DOMAIN z.node PROVE Pos(y, n) = Pos(z, n)
  <2>1. CASE n = Header
      BY <2>1 DEF Pos
  <2>2. CASE n # Header
    <3>1. n \in Nodes(z)
        BY <1>2, <2>2
    <3>2. {p \in Nodes(y) : p = n \/ Before(y, p, y.node[n].score, n)}
            = {p \in Nodes(z) : p = n \/ Before(z, p, z.node[n].score, n)}
        BY <1>6, <1>8, <3>1
    <3> QED BY <2>2, <3>2 DEF Pos
  <2> QED BY <2>1, <2>2
<1>10. \A n \in Nodes(z) : y.node[n].score \in Scores
  <2>1. \A n \in Nodes(z) : z.node[n].score \in Scores /\ n \in DOMAIN z.node
      BY <1>1 DEF Shape, Nodes
  <2> QED BY <1>5, <2>1
<1>11. y.node[Header] = z.node[Header]
    BY <1>1, <1>5
<1>12. ListOK(y)
    BY <1>4, <1>5, <1>9, <1>10, <1>11, SameLinks
<1>13. y.node[m].score = s /\ \A n \in Nodes(z) \ {m} : y.node[n].score = z.node[n].score
    BY <1>1, <1>2, <1>5
<1> QED BY <1>6, <1>12, <1>13 DEF y

-----------------------------------------------------------------------------
(* Removing a range *)

(* The steps of the loop of the range deletions                            *)
LEMMA DeleteSteps ==
    ASSUME NEW z, NEW path, NEW in, z.length \in Nat
    PROVE  \E g : /\ g[0] = [list |-> z, x |-> After(z, path), done |-> FALSE]
                  /\ DeleteWhile(z, path, in) = g[z.length].list
                  /\ \A k \in 1 .. z.length : g[k] = DeleteStep(in, path, k, g[k - 1])
<1> DEFINE F(k, s) == DeleteStep(in, path, k, s)
           p == [list |-> z, x |-> After(z, path), done |-> FALSE]
<1> HIDE DEF F, p
<1> DEFINE Rec(g, n) == g = [k \in 0 .. n |-> IF k = 0 THEN p ELSE F(k, g[k - 1])]
           S == {n \in Nat : \E g : Rec(g, n)}
<1>1. 0 \in S
  <2> DEFINE g == [k \in 0 .. 0 |-> p]
  <2>1. Rec(g, 0)
      OBVIOUS
  <2> QED BY <2>1
<1>2. ASSUME NEW n \in Nat, n \in S PROVE n + 1 \in S
  <2>1. PICK g : Rec(g, n)
      BY <1>2
  <2> DEFINE h == [k \in 0 .. n + 1 |-> IF k = n + 1 THEN F(n + 1, g[n]) ELSE g[k]]
  <2>2. \A k \in 0 .. n : g[k] = IF k = 0 THEN p ELSE F(k, g[k - 1])
      BY <2>1
  <2>3. ASSUME NEW k \in 0 .. n + 1
        PROVE  h[k] = IF k = 0 THEN p ELSE F(k, h[k - 1])
    <3>1. CASE k = n + 1
      <4>1. k # 0 /\ k - 1 = n /\ k - 1 \in 0 .. n + 1 /\ k - 1 # n + 1
          BY <3>1
      <4> QED BY <3>1, <4>1
    <3>2. CASE k = 0
        BY <2>2, <3>2
    <3>3. CASE k # 0 /\ k # n + 1
      <4>1. k \in 0 .. n /\ k - 1 \in 0 .. n + 1 /\ k - 1 # n + 1
          BY <3>3
      <4> QED BY <2>2, <3>3, <4>1
    <3> QED BY <3>1, <3>2, <3>3
  <2>4. h = [k \in 0 .. n + 1 |-> h[k]]
      OBVIOUS
  <2> HIDE DEF h
  <2>5. Rec(h, n + 1)
      BY <2>3, <2>4
  <2> QED BY <2>5
<1>3. z.length \in S
  <2> HIDE DEF S
  <2> QED BY <1>1, <1>2, NatSetInduction
<1> DEFINE g == CHOOSE r : Rec(r, z.length)
<1>4. Rec(g, z.length)
    BY <1>3
<1>5. DeleteWhile(z, path, in) = g[z.length].list
    BY DEF DeleteWhile, F, p
<1> HIDE DEF g
<1>6. g[0] = p /\ \A k \in 1 .. z.length : g[k] = F(k, g[k - 1])
    BY <1>4
<1> QED BY <1>5, <1>6 DEF F, p

(* y is z without the j nodes after position c.                            *)
Cut(z, y, c, j) ==
    /\ ListOK(y) /\ y.length = z.length - j
    /\ Nodes(y) = {n \in Nodes(z) : Pos(z, n) <= c \/ Pos(z, n) > c + j}
    /\ \A n \in Nodes(y) :
          /\ y.node[n].score = z.node[n].score
          /\ Pos(y, n) = IF Pos(z, n) <= c THEN Pos(z, n) ELSE Pos(z, n) - j

(* What the loop keeps: j nodes are gone, x is the next of z, and update   *)
(* still is the path to position c.                                        *)
Cutting(z, path, in, c, k, j, s) ==
    /\ j \in 0 .. k /\ Cut(z, s.list, c, j) /\ IsAt(z, c + j + 1, s.x)
    /\ \A i \in 0 .. s.list.level - 1 : LastUpTo(s.list, i, Update(path)[i], c)
    /\ \A n \in Nodes(z) : Pos(z, n) > c /\ Pos(z, n) <= c + j => <<n, Pos(z, n)>> \in in
    /\ \/ s.done = FALSE /\ j = k
       \/ s.done = TRUE /\ (s.x = NULL \/ <<s.x, c + j + 1>> \notin in)
    /\ DOMAIN s = {"list", "x", "done"}

(* One step of the loop                                                    *)
LEMMA CuttingStep ==
    ASSUME NEW z, ListOK(z), NEW path, NEW in, NEW c \in 0 .. z.length, path[0].rank = c,
           NEW k \in Nat, NEW j, NEW s, Cutting(z, path, in, c, k, j, s)
    PROVE  \E l : Cutting(z, path, in, c, k + 1, l, DeleteStep(in, path, k + 1, s))
<1> DEFINE t == DeleteStep(in, path, k + 1, s)
<1>1. /\ j \in 0 .. k /\ j \in Nat /\ Cut(z, s.list, c, j) /\ IsAt(z, c + j + 1, s.x)
      /\ \A i \in 0 .. s.list.level - 1 : LastUpTo(s.list, i, Update(path)[i], c)
      /\ \A n \in Nodes(z) : Pos(z, n) > c /\ Pos(z, n) <= c + j => <<n, Pos(z, n)>> \in in
      /\ \/ s.done = FALSE /\ j = k
         \/ s.done = TRUE /\ (s.x = NULL \/ <<s.x, c + j + 1>> \notin in)
      /\ DOMAIN s = {"list", "x", "done"} /\ j \in 0 .. k + 1
    BY DEF Cutting
<1>2. /\ z.length \in Nat /\ c \in Nat /\ c <= z.length /\ NULL \notin DOMAIN z.node
      /\ DOMAIN z.node = Nodes(z) \cup {Header} /\ Header \notin Nodes(z)
      /\ \A n \in Nodes(z) : Pos(z, n) \in Nat /\ Pos(z, n) >= 1 /\ Pos(z, n) <= z.length
      /\ \A p, q \in DOMAIN z.node : Pos(z, p) = Pos(z, q) => p = q
    BY ShapeFacts DEF ListOK
<1>3. CASE s.done \/ s.x = NULL \/ <<s.x, path[0].rank + (k + 1)>> \notin in
  <2>1. t = [s EXCEPT !.done = TRUE]
      BY <1>3 DEF DeleteStep
  <2>2. t.list = s.list /\ t.x = s.x /\ t.done = TRUE /\ DOMAIN t = {"list", "x", "done"}
      BY <1>1, <2>1
  <2>3. s.x = NULL \/ <<s.x, c + j + 1>> \notin in
    <3>1. CASE s.done = TRUE
        BY <1>1, <3>1
    <3>2. CASE s.done = FALSE
      <4>1. j = k /\ path[0].rank + (k + 1) = c + j + 1
          BY <1>1, <1>2, <3>2
      <4> QED BY <1>3, <3>2, <4>1
    <3> QED BY <1>1, <3>1, <3>2
  <2> HIDE DEF t
  <2>4. Cutting(z, path, in, c, k + 1, j, t)
      BY <1>1, <2>2, <2>3 DEF Cutting
  <2> QED BY <2>4 DEF t
<1>4. CASE ~(s.done \/ s.x = NULL \/ <<s.x, path[0].rank + (k + 1)>> \notin in)
  <2> DEFINE y == s.list  x == s.x  w == m_zslDeleteNode(y, x, Update(path))
             l == j + 1
  <2>1. t = [list |-> w, x |-> y.node[x].forward[0], done |-> FALSE]
      BY <1>4 DEF DeleteStep
  <2>2. t.list = w /\ t.x = y.node[x].forward[0] /\ t.done = FALSE /\ DOMAIN t = {"list", "x", "done"}
      BY <2>1
  <2>3. j = k /\ <<x, c + j + 1>> \in in /\ x # NULL
      BY <1>1, <1>2, <1>4
  <2>4. x \in Nodes(z) /\ Pos(z, x) = c + j + 1
      BY <1>1, <2>3 DEF IsAt
  <2>5. /\ ListOK(y) /\ y.length = z.length - j
        /\ Nodes(y) = {n \in Nodes(z) : Pos(z, n) <= c \/ Pos(z, n) > c + j}
        /\ \A n \in Nodes(y) :
             /\ y.node[n].score = z.node[n].score
             /\ Pos(y, n) = IF Pos(z, n) <= c THEN Pos(z, n) ELSE Pos(z, n) - j
      BY <1>1 DEF Cut
  <2>6. x \in Nodes(y) /\ Pos(y, x) = c + 1
    <3>1. x \in Nodes(y)
        BY <1>1, <1>2, <2>4, <2>5
    <3>2. ~(Pos(z, x) <= c)
        BY <1>1, <1>2, <2>4
    <3> QED BY <1>1, <1>2, <2>4, <2>5, <3>1, <3>2
  <2>7. /\ ListOK(w) /\ Closed(y, w, x, c)
        /\ \A n \in DOMAIN w.node : w.node[n].score = y.node[n].score
        /\ \A i \in 0 .. w.level - 1 : LastUpTo(w, i, Update(path)[i], c)
    <3> HIDE DEF y, x
    <3>1. c \in Nat /\ \A i \in 0 .. y.level - 1 : LastUpTo(y, i, Update(path)[i], c)
        BY <1>1, <1>2 DEF y
    <3>2. ListOK(y) /\ x \in Nodes(y) /\ Pos(y, x) = c + 1
        BY <2>5, <2>6, Zenon
    <3> QED BY <3>1, <3>2, DeleteOK
  <2>8. IsAt(y, c + 1 + 1, y.node[x].forward[0])
    <3>1. x \in DOMAIN y.node
        BY <2>6 DEF Nodes
    <3> QED BY <2>5, <2>6, <3>1, NextIsAt
  <2> DEFINE f == y.node[x].forward[0]
  <2> HIDE DEF w, f, y, x, t
  <2>9. IsAt(z, c + l + 1, f)
    <3>1. CASE f = NULL
      <4>1. NULL \notin Nodes(y)
          BY <1>2, <2>5
      <4>2. c + 1 + 1 \notin 1 .. y.length
          BY <2>8, <3>1, <4>1 DEF IsAt, f
      <4>3. c + l + 1 \notin 1 .. z.length
          BY <1>1, <1>2, <2>5, <4>2
      <4> QED BY <3>1, <4>3 DEF IsAt
    <3>2. CASE f # NULL
      <4>1. f \in Nodes(y) /\ Pos(y, f) = c + 2
          BY <1>2, <2>8, <3>2 DEF IsAt, f
      <4>2. f \in Nodes(z) /\ Pos(z, f) \in Nat
          BY <1>2, <2>5, <4>1
      <4>3. Pos(y, f) = IF Pos(z, f) <= c THEN Pos(z, f) ELSE Pos(z, f) - j
          BY <2>5, <4>1
      <4>4. Pos(z, f) = c + j + 2
          BY <1>1, <1>2, <4>1, <4>2, <4>3
      <4>5. c + l + 1 = c + j + 2
          BY <1>1, <1>2
      <4> QED BY <4>2, <4>4, <4>5 DEF IsAt
    <3> QED BY <3>1, <3>2
  <2>10. /\ w.length = z.length - l
         /\ Nodes(w) = {n \in Nodes(z) : Pos(z, n) <= c \/ Pos(z, n) > c + l}
    <3>1. /\ Nodes(w) = Nodes(y) \ {x} /\ y.length = w.length + 1 /\ w.length \in Nat
        BY <2>7 DEF Closed
    <3>2. w.length = z.length - l
        BY <1>1, <1>2, <2>5, <3>1
    <3>3. \A n \in Nodes(z) : n # x => Pos(z, n) # c + j + 1
        BY <1>2, <2>4
    <3>4. \A n : n \in Nodes(w) <=> n \in Nodes(z) /\ (Pos(z, n) <= c \/ Pos(z, n) > c + l)
      <4> TAKE n
      <4>1. ASSUME n \in Nodes(w) PROVE n \in Nodes(z) /\ (Pos(z, n) <= c \/ Pos(z, n) > c + l)
        <5>1. n \in Nodes(z) /\ n # x /\ (Pos(z, n) <= c \/ Pos(z, n) > c + j)
            BY <2>5, <3>1, <4>1
        <5> QED BY <1>1, <1>2, <3>3, <5>1
      <4>2. ASSUME n \in Nodes(z), Pos(z, n) <= c \/ Pos(z, n) > c + l PROVE n \in Nodes(w)
        <5>1. Pos(z, n) \in Nat
            BY <1>2, <4>2
        <5>2. Pos(z, n) <= c \/ Pos(z, n) > c + j
            BY <1>1, <1>2, <4>2, <5>1
        <5>3. n # x
            BY <1>1, <1>2, <2>4, <4>2, <5>1
        <5> QED BY <2>5, <3>1, <4>2, <5>2, <5>3
      <4> QED BY <4>1, <4>2
    <3> QED BY <3>2, <3>4
  <2>11. ASSUME NEW n \in Nodes(w)
         PROVE  /\ w.node[n].score = z.node[n].score
                /\ Pos(w, n) = IF Pos(z, n) <= c THEN Pos(z, n) ELSE Pos(z, n) - l
    <3>1. n \in DOMAIN w.node /\ n \in Nodes(y) /\ n \in Nodes(z)
        BY <2>5, <2>7 DEF Closed, Nodes
    <3>2. w.node[n].score = z.node[n].score
        BY <2>5, <2>7, <3>1
    <3>3. Pos(w, n) = IF Pos(y, n) <= c THEN Pos(y, n) ELSE Pos(y, n) - 1
        BY <2>7, <3>1 DEF Closed
    <3>4. Pos(y, n) = IF Pos(z, n) <= c THEN Pos(z, n) ELSE Pos(z, n) - j
        BY <2>5, <3>1
    <3>5. Pos(z, n) \in Nat /\ (Pos(z, n) <= c \/ Pos(z, n) > c + l)
        BY <1>2, <2>10, <3>1
    <3>6. Pos(w, n) = IF Pos(z, n) <= c THEN Pos(z, n) ELSE Pos(z, n) - l
        BY <1>1, <1>2, <3>3, <3>4, <3>5
    <3> QED BY <3>2, <3>6
  <2>12. Cut(z, w, c, l)
      BY <2>7, <2>10, <2>11 DEF Cut
  <2>13. ASSUME NEW n \in Nodes(z), Pos(z, n) > c, Pos(z, n) <= c + l PROVE <<n, Pos(z, n)>> \in in
    <3>1. CASE n = x
        BY <2>3, <2>4, <3>1
    <3>2. CASE n # x
      <4>1. Pos(z, n) # c + j + 1
          BY <1>2, <2>4, <3>2
      <4>2. Pos(z, n) <= c + j
          BY <1>1, <1>2, <2>13, <4>1
      <4> QED BY <1>1, <2>13, <4>2
    <3> QED BY <3>1, <3>2
  <2>14. l \in 0 .. k + 1 /\ l = k + 1
      BY <1>1, <2>3
  <2>15. t.list = w /\ t.x = f
      BY <2>2 DEF f
  <2> HIDE DEF l
  <2>16. Cutting(z, path, in, c, k + 1, l, t)
      BY <2>2, <2>7, <2>9, <2>12, <2>13, <2>14, <2>15 DEF Cutting
  <2> QED BY <2>16 DEF t
<1> QED BY <1>3, <1>4

(* The loop removes the nodes after position c as long as in has them.     *)
LEMMA DeleteWhileFacts ==
    ASSUME NEW z, ListOK(z), NEW go, NEW in, NEW c, LeadsTo(z, go, c)
    PROVE  \E j \in Nat :
              /\ Cut(z, DeleteWhile(z, Path(z, go), in), c, j)
              /\ \A n \in Nodes(z) : Pos(z, n) > c /\ Pos(z, n) <= c + j => <<n, Pos(z, n)>> \in in
              /\ \A n \in Nodes(z) : Pos(z, n) = c + j + 1 => <<n, Pos(z, n)>> \notin in
<1> DEFINE path == Path(z, go)
<1>1. /\ z.length \in Nat /\ c \in 0 .. z.length /\ c \in Nat /\ c <= z.length
      /\ NULL \notin DOMAIN z.node
      /\ DOMAIN z.node = Nodes(z) \cup {Header} /\ Header \notin Nodes(z)
      /\ \A n \in Nodes(z) : Pos(z, n) \in Nat /\ Pos(z, n) >= 1 /\ Pos(z, n) <= z.length
      /\ \A p, q \in DOMAIN z.node : Pos(z, p) = Pos(z, q) => p = q
  <2>1. z.length \in Nat /\ c \in 0 .. z.length
      BY ShapeFacts DEF ListOK, LeadsTo
  <2>2. c \in Nat /\ c <= z.length
      BY <2>1
  <2> QED BY <2>1, <2>2, ShapeFacts DEF ListOK
<1>2. /\ path[0].rank = c /\ IsAt(z, c + 1, After(z, path))
      /\ \A i \in 0 .. z.level - 1 : LastUpTo(z, i, Update(path)[i], c)
    BY AfterFacts
<1> HIDE DEF path
<1>3. PICK g : /\ g[0] = [list |-> z, x |-> After(z, path), done |-> FALSE]
               /\ DeleteWhile(z, path, in) = g[z.length].list
               /\ \A k \in 1 .. z.length : g[k] = DeleteStep(in, path, k, g[k - 1])
    BY <1>1, DeleteSteps
<1> DEFINE S == {k \in Nat : k <= z.length => \E j : Cutting(z, path, in, c, k, j, g[k])}
<1>4. 0 \in S
  <2> DEFINE s == g[0]
  <2>1. s.list = z /\ s.x = After(z, path) /\ s.done = FALSE /\ DOMAIN s = {"list", "x", "done"}
      BY <1>3
  <2> HIDE DEF s
  <2>2. Cut(z, z, c, 0)
    <3>1. Nodes(z) = {n \in Nodes(z) : Pos(z, n) <= c \/ Pos(z, n) > c + 0}
        BY <1>1
    <3>2. \A n \in Nodes(z) : Pos(z, n) = IF Pos(z, n) <= c THEN Pos(z, n) ELSE Pos(z, n) - 0
        BY <1>1
    <3>3. z.length = z.length - 0
        BY <1>1
    <3> QED BY <3>1, <3>2, <3>3 DEF Cut
  <2>3. c + 0 + 1 = c + 1 /\ \A n \in Nodes(z) : ~(Pos(z, n) > c /\ Pos(z, n) <= c + 0)
      BY <1>1
  <2>4. Cutting(z, path, in, c, 0, 0, s)
      BY <1>2, <2>1, <2>2, <2>3 DEF Cutting
  <2> QED BY <2>4 DEF s
<1>5. ASSUME NEW k \in Nat, k \in S PROVE k + 1 \in S
  <2> SUFFICES ASSUME k + 1 <= z.length PROVE \E j : Cutting(z, path, in, c, k + 1, j, g[k + 1])
      OBVIOUS
  <2>1. k <= z.length /\ k + 1 \in 1 .. z.length /\ (k + 1) - 1 = k
      BY <1>1
  <2>2. PICK j : Cutting(z, path, in, c, k, j, g[k])
      BY <1>5, <2>1
  <2>3. g[k + 1] = DeleteStep(in, path, k + 1, g[k])
      BY <1>3, <2>1
  <2> QED BY <1>1, <1>2, <2>2, <2>3, CuttingStep
<1>6. z.length \in S
  <2> HIDE DEF S
  <2> QED BY <1>1, <1>4, <1>5, NatSetInduction
<1> DEFINE s == g[z.length]
<1>7. PICK j : Cutting(z, path, in, c, z.length, j, s)
    BY <1>1, <1>6
<1>8. DeleteWhile(z, path, in) = s.list
    BY <1>3
<1> HIDE DEF s
<1>9. /\ j \in 0 .. z.length /\ j \in Nat /\ Cut(z, s.list, c, j) /\ IsAt(z, c + j + 1, s.x)
      /\ \A n \in Nodes(z) : Pos(z, n) > c /\ Pos(z, n) <= c + j => <<n, Pos(z, n)>> \in in
      /\ \/ s.done = FALSE /\ j = z.length
         \/ s.done = TRUE /\ (s.x = NULL \/ <<s.x, c + j + 1>> \notin in)
    BY <1>7 DEF Cutting
<1>10. ASSUME NEW n \in Nodes(z), Pos(z, n) = c + j + 1 PROVE <<n, Pos(z, n)>> \notin in
  <2>1. c + j + 1 \in 1 .. z.length /\ j # z.length
      BY <1>1, <1>9, <1>10
  <2>2. s.x \in Nodes(z) /\ Pos(z, s.x) = c + j + 1
      BY <1>9, <2>1 DEF IsAt
  <2>3. s.x = n /\ s.x # NULL
      BY <1>1, <1>10, <2>2
  <2> QED BY <1>9, <1>10, <2>1, <2>3
<1> QED BY <1>8, <1>9, <1>10 DEF path

(* Which nodes that are, if in has no node after one it does not have      *)
LEMMA DeleteRange ==
    ASSUME NEW z, ListOK(z), NEW go, NEW in, NEW c, LeadsTo(z, go, c),
           \A p, q \in Nodes(z) :
              Pos(z, p) < Pos(z, q) /\ <<q, Pos(z, q)>> \in in => <<p, Pos(z, p)>> \in in
    PROVE  LET y == DeleteWhile(z, Path(z, go), in) IN
           /\ ListOK(y)
           /\ Nodes(y) = {n \in Nodes(z) : <<n, Pos(z, n)>> \in go \/ <<n, Pos(z, n)>> \notin in}
           /\ \A n \in Nodes(y) : y.node[n].score = z.node[n].score
<1> DEFINE y == DeleteWhile(z, Path(z, go), in)
<1>1. PICK j \in Nat :
              /\ Cut(z, y, c, j)
              /\ \A n \in Nodes(z) : Pos(z, n) > c /\ Pos(z, n) <= c + j => <<n, Pos(z, n)>> \in in
              /\ \A n \in Nodes(z) : Pos(z, n) = c + j + 1 => <<n, Pos(z, n)>> \notin in
    BY DeleteWhileFacts
<1> HIDE DEF y
<1>2. /\ z.length \in Nat /\ Pos(z, Header) = 0 /\ DOMAIN z.node = Nodes(z) \cup {Header}
      /\ \A n \in Nodes(z) : Pos(z, n) \in Nat /\ Pos(z, n) >= 1 /\ Pos(z, n) <= z.length
      /\ \A k \in 0 .. z.length : \E n \in DOMAIN z.node : Pos(z, n) = k
    BY ShapeFacts DEF ListOK
<1>3. c \in Nat /\ \A n \in Nodes(z) : <<n, Pos(z, n)>> \in go <=> Pos(z, n) <= c
    BY <1>2 DEF LeadsTo
<1>4. ASSUME NEW n \in Nodes(z)
      PROVE  (Pos(z, n) <= c \/ Pos(z, n) > c + j)
               <=> (<<n, Pos(z, n)>> \in go \/ <<n, Pos(z, n)>> \notin in)
  <2>1. CASE Pos(z, n) <= c
      BY <1>3, <2>1
  <2>2. CASE ~(Pos(z, n) <= c) /\ Pos(z, n) <= c + j
    <3>1. Pos(z, n) > c /\ ~(Pos(z, n) > c + j)
        BY <1>2, <1>3, <2>2
    <3> QED BY <1>1, <1>3, <2>2, <3>1
  <2>3. CASE ~(Pos(z, n) <= c + j)
    <3>1. Pos(z, n) > c + j /\ c + j + 1 \in 0 .. z.length /\ c + j + 1 <= Pos(z, n) /\ c + j + 1 # 0
        BY <1>2, <1>3, <2>3
    <3>2. PICK r \in DOMAIN z.node : Pos(z, r) = c + j + 1
        BY <1>2, <3>1
    <3>3. r \in Nodes(z) /\ <<r, Pos(z, r)>> \notin in
        BY <1>1, <1>2, <3>1, <3>2
    <3>4. <<n, Pos(z, n)>> \notin in
      <4>1. CASE Pos(z, r) < Pos(z, n)
          BY <3>3, <4>1
      <4>2. CASE Pos(z, n) = c + j + 1
          BY <1>1, <4>2
      <4> QED BY <1>2, <1>3, <3>1, <3>2, <4>1, <4>2
    <3> QED BY <3>1, <3>4
  <2> QED BY <2>1, <2>2, <2>3
<1>5. /\ ListOK(y) /\ Nodes(y) = {n \in Nodes(z) : Pos(z, n) <= c \/ Pos(z, n) > c + j}
      /\ \A n \in Nodes(y) : y.node[n].score = z.node[n].score
    BY <1>1 DEF Cut
<1>6. Nodes(y) = {n \in Nodes(z) : <<n, Pos(z, n)>> \in go \/ <<n, Pos(z, n)>> \notin in}
    BY <1>4, <1>5
<1> QED BY <1>5, <1>6 DEF y

(* The walks of the range functions                                        *)
LEMMA BelowRange ==
    ASSUME NEW z, ListOK(z), NEW range \in Ranges
    PROVE  LET D == {n \in Nodes(z) : ~m_zslValueGteMin(z.node[n].score, range)} IN
           /\ PathBelow(z, range) = Path(z, AnyRank(D)) /\ \E c : LeadsTo(z, AnyRank(D), c)
<1> DEFINE D == {n \in Nodes(z) : ~m_zslValueGteMin(z.node[n].score, range)}
<1>1. \A n \in Nodes(z) : z.node[n].score \in Int
    BY ShapeFacts DEF ListOK, Sortable
<1>2. range.min \in Int /\ range.max \in Int
    BY SkipListAssumption DEF Ranges
<1>3. ASSUME NEW p \in Nodes(z), NEW q \in D, Before(z, p, z.node[q].score, q) PROVE p \in D
  <2>1. ~m_zslValueGteMin(z.node[q].score, range) /\ z.node[p].score \in Int /\ z.node[q].score \in Int
      BY <1>1
  <2>2. z.node[p].score <= z.node[q].score
      BY <1>3, <2>1 DEF Before
  <2>3. ~m_zslValueGteMin(z.node[p].score, range)
      BY <1>2, <2>1, <2>2 DEF m_zslValueGteMin
  <2> QED BY <2>3
<1>4. D \subseteq Nodes(z) /\ PathBelow(z, range) = Path(z, AnyRank(D))
    BY DEF PathBelow
<1> HIDE DEF D
<1>5. \E c : LeadsTo(z, AnyRank(D), c)
    BY <1>3, <1>4, DownClosed
<1> QED BY <1>4, <1>5 DEF D

(* The nodes not above a range are closed downwards.                       *)
LEMMA NotAboveRange ==
    ASSUME NEW z, ListOK(z), NEW range \in Ranges
    PROVE  \A p \in Nodes(z) : \A q \in NotAbove(z, range) :
              z.node[p].score <= z.node[q].score => p \in NotAbove(z, range)
<1>1. \A n \in Nodes(z) : z.node[n].score \in Int
    BY ShapeFacts DEF ListOK, Sortable
<1>2. range.min \in Int /\ range.max \in Int
    BY SkipListAssumption DEF Ranges
<1>3. SUFFICES ASSUME NEW p \in Nodes(z), NEW q \in NotAbove(z, range),
                      z.node[p].score <= z.node[q].score
               PROVE  p \in NotAbove(z, range)
    OBVIOUS
<1>4. q \in Nodes(z) /\ m_zslValueLteMax(z.node[q].score, range)
    BY DEF NotAbove
<1>5. m_zslValueLteMax(z.node[p].score, range)
    BY <1>1, <1>2, <1>3, <1>4 DEF m_zslValueLteMax
<1> QED BY <1>5 DEF NotAbove

(* m_zslDeleteRangeByScore removes the nodes in the range.                 *)
LEMMA DeleteByScore ==
    ASSUME NEW z, ListOK(z), NEW range \in Ranges
    PROVE  LET y == DeleteWhile(z, PathBelow(z, range), AnyRank(NotAbove(z, range))) IN
           /\ ListOK(y)
           /\ Nodes(y) = {n \in Nodes(z) : ~(/\ m_zslValueGteMin(z.node[n].score, range)
                                             /\ m_zslValueLteMax(z.node[n].score, range))}
           /\ \A n \in Nodes(y) : y.node[n].score = z.node[n].score
<1> DEFINE D == {n \in Nodes(z) : ~m_zslValueGteMin(z.node[n].score, range)}
           in == AnyRank(NotAbove(z, range))
           y == DeleteWhile(z, PathBelow(z, range), in)
<1>1. PathBelow(z, range) = Path(z, AnyRank(D)) /\ \E c : LeadsTo(z, AnyRank(D), c)
    BY BelowRange
<1>2. PICK c : LeadsTo(z, AnyRank(D), c)
    BY <1>1
<1>3. \A n \in Nodes(z) : Pos(z, n) \in Nat
    BY ShapeFacts DEF ListOK
<1>4. \A n \in Nodes(z) : /\ <<n, Pos(z, n)>> \in in <=> n \in NotAbove(z, range)
                          /\ <<n, Pos(z, n)>> \in AnyRank(D) <=> n \in D
    BY <1>3 DEF AnyRank
<1>5. ASSUME NEW p \in Nodes(z), NEW q \in Nodes(z), Pos(z, p) < Pos(z, q), <<q, Pos(z, q)>> \in in
      PROVE  <<p, Pos(z, p)>> \in in
  <2>1. Pos(z, p) <= Pos(z, q)
      BY <1>3, <1>5
  <2>2. z.node[p].score <= z.node[q].score
      BY <2>1, ScoreOrder
  <2> HIDE DEF in
  <2>3. p \in NotAbove(z, range)
      BY <1>4, <1>5, <2>2, NotAboveRange
  <2> QED BY <1>4, <2>3
<1> DEFINE go == AnyRank(D)
<1>6. y = DeleteWhile(z, Path(z, go), in)
    BY <1>1
<1>7. \A n \in Nodes(z) : /\ n \in D <=> ~m_zslValueGteMin(z.node[n].score, range)
                          /\ n \in NotAbove(z, range) <=> m_zslValueLteMax(z.node[n].score, range)
    BY DEF NotAbove
<1> HIDE DEF D, in, y, go
<1>8. /\ ListOK(y)
      /\ Nodes(y) = {n \in Nodes(z) : <<n, Pos(z, n)>> \in go \/ <<n, Pos(z, n)>> \notin in}
      /\ \A n \in Nodes(y) : y.node[n].score = z.node[n].score
  <2>1. LeadsTo(z, go, c)
      BY <1>2 DEF go
  <2> QED BY <1>5, <1>6, <2>1, DeleteRange
<1>9. Nodes(y) = {n \in Nodes(z) : ~(/\ m_zslValueGteMin(z.node[n].score, range)
                                     /\ m_zslValueLteMax(z.node[n].score, range))}
    BY <1>4, <1>7, <1>8 DEF go
<1> QED BY <1>8, <1>9 DEF y, in

(* A walk by rank: to the position of the rank, or to the end              *)
LEMMA RankWalk ==
    ASSUME NEW z, ListOK(z), NEW r \in Nat
    PROVE  LeadsTo(z, Nodes(z) \X (0 .. r), IF r <= z.length THEN r ELSE z.length)
<1>1. z.length \in Nat /\ \A n \in Nodes(z) : Pos(z, n) \in 1 .. z.length
    BY ShapeFacts DEF ListOK
<1>2. \A n \in Nodes(z) : <<n, Pos(z, n)>> \in Nodes(z) \X (0 .. r) <=> Pos(z, n) <= r
    BY <1>1
<1> QED BY <1>1, <1>2 DEF LeadsTo

(* m_zslDeleteRangeByRank removes the nodes with a rank in the range.      *)
LEMMA DeleteByRank ==
    ASSUME NEW z, ListOK(z), NEW start \in Nat \ {0}, NEW end \in Nat
    PROVE  LET y == DeleteWhile(z, Path(z, Nodes(z) \X (0 .. start - 1)), Nodes(z) \X (0 .. end)) IN
           /\ ListOK(y)
           /\ Nodes(y) = {n \in Nodes(z) : Pos(z, n) \notin start .. end}
           /\ \A n \in Nodes(y) : y.node[n].score = z.node[n].score
<1> DEFINE go == Nodes(z) \X (0 .. start - 1)  in == Nodes(z) \X (0 .. end)
           y == DeleteWhile(z, Path(z, go), in)
           c == IF start - 1 <= z.length THEN start - 1 ELSE z.length
<1>1. start - 1 \in Nat
    OBVIOUS
<1>2. LeadsTo(z, go, c)
    BY <1>1, RankWalk
<1>3. \A n \in Nodes(z) : Pos(z, n) \in Nat
    BY ShapeFacts DEF ListOK
<1>4. \A n \in Nodes(z) : /\ <<n, Pos(z, n)>> \in in <=> Pos(z, n) <= end
                          /\ <<n, Pos(z, n)>> \in go <=> Pos(z, n) <= start - 1
    BY <1>1, <1>3
<1> HIDE DEF go, in, c
<1>5. \A p, q \in Nodes(z) :
         Pos(z, p) < Pos(z, q) /\ <<q, Pos(z, q)>> \in in => <<p, Pos(z, p)>> \in in
    BY <1>3, <1>4
<1>6. /\ ListOK(y)
      /\ Nodes(y) = {n \in Nodes(z) : <<n, Pos(z, n)>> \in go \/ <<n, Pos(z, n)>> \notin in}
      /\ \A n \in Nodes(y) : y.node[n].score = z.node[n].score
    BY <1>2, <1>5, DeleteRange
<1> HIDE DEF y
<1>7. \A n \in Nodes(z) : (<<n, Pos(z, n)>> \in go \/ <<n, Pos(z, n)>> \notin in)
                             <=> Pos(z, n) \notin start .. end
    BY <1>3, <1>4
<1>8. Nodes(y) = {n \in Nodes(z) : Pos(z, n) \notin start .. end}
    BY <1>6, <1>7
<1> QED BY <1>6, <1>8 DEF y, go, in

-----------------------------------------------------------------------------
(* The invariant *)

(* The empty list                                                          *)
LEMMA CreateOK ==
    ListOK(m_zslCreate) /\ Nodes(m_zslCreate) = {}
<1> DEFINE z == m_zslCreate  M == ZSKIPLIST_MAXLEVEL  x == m_zslCreateNode(M, 0)
<1>1. M \in Nat \ {0} /\ AllLevels = 0 .. M - 1 /\ 0 \in AllLevels
    BY SkipListAssumption DEF AllLevels
<1>2. /\ DOMAIN z = {"node", "tail", "level", "length"} /\ z.node = [n \in {Header} |-> x]
      /\ z.tail = NULL /\ z.level = 1 /\ z.length = 0
    BY DEF m_zslCreate
<1>3. /\ DOMAIN x = {"score", "backward", "forward", "span"} /\ x.score = 0 /\ x.backward = NULL
      /\ x.forward = [i \in AllLevels |-> NULL] /\ x.span = [i \in AllLevels |-> 0]
    BY <1>1 DEF m_zslCreateNode
<1> HIDE DEF z, x
<1>4. Nodes(z) = {} /\ DOMAIN z.node = {Header} /\ z.node[Header] = x
    BY <1>2 DEF Nodes
<1>5. Pos(z, Header) = 0 /\ \A i \in AllLevels : On(z, i) = {Header}
    BY <1>3, <1>4 DEF Pos, On
<1>6. Shape(z)
  <2>1. Cardinality(Nodes(z)) = 0
      BY <1>4, FS_EmptySet
  <2>2. NodeOK(x)
    <3>1. M \in 1 .. M /\ DOMAIN x.forward = 0 .. M - 1 /\ DOMAIN x.span = 0 .. M - 1
        BY <1>1, <1>3
    <3>2. \A i \in DOMAIN x.span : x.span[i] \in Nat
        BY <1>3
    <3> QED BY <1>3, <3>1, <3>2 DEF NodeOK
  <2>3. DOMAIN x.forward = AllLevels
      BY <1>3
  <2>4. 1 \in 1 .. M
      BY <1>1
  <2> QED BY <1>2, <1>3, <1>4, <2>1, <2>2, <2>3, <2>4 DEF Shape
<1>7. Chains(z)
  <2>1. \A i \in AllLevels : z.node[Header].forward[i] = NULL
      BY <1>3, <1>4
  <2>2. \A i \in AllLevels : IsNext(z, i, Header, NULL)
      BY <1>5 DEF IsNext
  <2> QED BY <1>5, <2>1, <2>2 DEF Chains
<1>8. Ends(z)
    BY <1>2, <1>4 DEF Ends, IsAt
<1>9. LevelsUsed(z)
    BY <1>1, <1>2, <1>5 DEF LevelsUsed
<1>10. Spans(z)
  <2>1. \A i \in 0 .. z.level - 1 : i \in AllLevels
      BY <1>1, <1>2
  <2>2. \A i \in AllLevels : z.node[Header].span[i] = 0 /\ z.node[Header].forward[i] = NULL
      BY <1>3, <1>4
  <2>3. Target(z, NULL) - Pos(z, Header) = 0
      BY <1>2, <1>5 DEF Target
  <2> QED BY <1>5, <2>1, <2>2, <2>3 DEF Spans
<1> QED BY <1>4, <1>6, <1>7, <1>8, <1>9, <1>10 DEF ListOK, z

(* What each operation makes of the list: it stays in order, and its nodes *)
(* and their scores are                                                    *)
Becomes(S) ==
    /\ ListOK(zsl') /\ Nodes(zsl') = S
    /\ \A n \in S \cap Nodes(zsl) : zsl'.node[n].score = zsl.node[n].score

(* m_zslInsert                                                             *)
LEMMA InsertEffect ==
    ASSUME ListOK(zsl), NEW s \in Scores, NEW m \in Members, m_zslInsert(s, m)
    PROVE  /\ Becomes(Nodes(zsl) \cup {m})
           /\ m \notin Nodes(zsl) /\ zsl'.node[m].score = s
<1>1. m \in Members \ Nodes(zsl)
    BY DEF m_zslInsert
<1>2. PICK level \in 1 .. ZSKIPLIST_MAXLEVEL : zsl' = Inserted(zsl, s, m, level)
    BY DEF m_zslInsert
<1> QED BY <1>1, <1>2, InsertOK DEF Becomes

(* The node a search finds, taken out                                      *)
LEMMA TakeOut ==
    ASSUME NEW z, ListOK(z), NEW m \in Nodes(z)
    PROVE  LET path == PathTo(z, z.node[m].score, m)
               y == m_zslDeleteNode(z, m, Update(path)) IN
           /\ ListOK(y) /\ Nodes(y) = Nodes(z) \ {m}
           /\ \A n \in Nodes(y) : y.node[n].score = z.node[n].score
<1> DEFINE path == PathTo(z, z.node[m].score, m)
           u == Update(path)
           y == m_zslDeleteNode(z, m, u)
           c == Pos(z, m) - 1
<1>1. c \in Nat /\ \A i \in 0 .. z.level - 1 : LastUpTo(z, i, u[i], c)
    BY SearchFacts
<1>2. Pos(z, m) = c + 1
  <2>1. Pos(z, m) \in Nat
      BY ShapeFacts DEF ListOK
  <2> QED BY <2>1
<1> HIDE DEF u, c
<1>3. /\ ListOK(y) /\ Closed(z, y, m, c)
      /\ \A n \in DOMAIN y.node : y.node[n].score = z.node[n].score
    BY <1>1, <1>2, DeleteOK
<1> HIDE DEF y
<1>4. Nodes(y) = Nodes(z) \ {m} /\ \A n \in Nodes(y) : n \in DOMAIN y.node
    BY <1>3 DEF Closed, Nodes
<1> QED BY <1>3, <1>4 DEF y, u

(* m_zslDelete                                                             *)
LEMMA DeleteEffect ==
    ASSUME ListOK(zsl), NEW s \in Scores, NEW m \in Members, m_zslDelete(s, m)
    PROVE  Becomes(Nodes(zsl) \ {m}) /\ m \in Nodes(zsl) /\ zsl.node[m].score = s
<1>1. /\ After(zsl, PathTo(zsl, s, m)) = m /\ zsl.node[m].score = s
      /\ zsl' = m_zslDeleteNode(zsl, m, Update(PathTo(zsl, s, m)))
    BY DEF m_zslDelete
<1>2. m \in Nodes(zsl)
    BY <1>1, FoundFacts
<1>3. /\ ListOK(zsl') /\ Nodes(zsl') = Nodes(zsl) \ {m}
      /\ \A n \in Nodes(zsl') : zsl'.node[n].score = zsl.node[n].score
    BY <1>1, <1>2, TakeOut
<1> QED BY <1>1, <1>2, <1>3 DEF Becomes

(* m_zslUpdateScore: in place, or by a deletion and an insert              *)
LEMMA UpdateEffect ==
    ASSUME ListOK(zsl), NEW s \in Scores, NEW m \in Members, m_zslUpdateScore(m, s)
    PROVE  /\ ListOK(zsl') /\ Nodes(zsl') = Nodes(zsl) /\ m \in Nodes(zsl)
           /\ zsl'.node[m].score = s
           /\ \A n \in Nodes(zsl) \ {m} : zsl'.node[n].score = zsl.node[n].score
<1> DEFINE path == PathTo(zsl, zsl.node[m].score, m)
<1>1. m \in Nodes(zsl)
    BY DEF m_zslUpdateScore
<1>2. After(zsl, path) = m
    BY <1>1, SearchFacts
<1>3. CASE StaysInPlace(zsl, m, s) /\ zsl' = [zsl EXCEPT !.node[m].score = s]
    BY <1>1, <1>3, RescoreOK
<1>4. CASE \E level \in 1 .. ZSKIPLIST_MAXLEVEL :
             zsl' = Inserted(m_zslDeleteNode(zsl, m, Update(path)), s, m, level)
  <2> DEFINE w == m_zslDeleteNode(zsl, m, Update(path))
  <2>1. PICK level \in 1 .. ZSKIPLIST_MAXLEVEL : zsl' = Inserted(w, s, m, level)
      BY <1>4
  <2>2. /\ ListOK(w) /\ Nodes(w) = Nodes(zsl) \ {m}
        /\ \A n \in Nodes(w) : w.node[n].score = zsl.node[n].score
      BY <1>1, TakeOut
  <2> HIDE DEF w
  <2>3. m \in Members \ Nodes(w)
      BY <2>2
  <2>4. /\ ListOK(zsl') /\ Nodes(zsl') = Nodes(w) \cup {m} /\ zsl'.node[m].score = s
        /\ \A n \in Nodes(w) : zsl'.node[n].score = w.node[n].score
      BY <2>1, <2>2, <2>3, InsertOK
  <2> QED BY <1>1, <2>2, <2>4
<1>5. \/ StaysInPlace(zsl, m, s) /\ zsl' = [zsl EXCEPT !.node[m].score = s]
      \/ \E level \in 1 .. ZSKIPLIST_MAXLEVEL :
             zsl' = Inserted(m_zslDeleteNode(zsl, m, Update(path)), s, m, level)
    BY <1>2 DEF m_zslUpdateScore
<1> QED BY <1>3, <1>4, <1>5

(* m_zslDeleteRangeByScore                                                 *)
LEMMA ByScoreEffect ==
    ASSUME ListOK(zsl), NEW range \in Ranges, m_zslDeleteRangeByScore(range)
    PROVE  Becomes({n \in Nodes(zsl) : ~(/\ m_zslValueGteMin(zsl.node[n].score, range)
                                         /\ m_zslValueLteMax(zsl.node[n].score, range))})
BY DeleteByScore DEF m_zslDeleteRangeByScore, Becomes

(* m_zslDeleteRangeByRank                                                  *)
LEMMA ByRankEffect ==
    ASSUME ListOK(zsl), NEW start \in 1 .. Cardinality(Members), NEW end \in 1 .. Cardinality(Members),
           m_zslDeleteRangeByRank(start, end)
    PROVE  Becomes({n \in Nodes(zsl) : Pos(zsl, n) \notin start .. end})
<1>1. Cardinality(Members) \in Nat
    BY SkipListAssumption, FS_CardinalityType
<1>2. start \in Nat \ {0} /\ end \in Nat
    BY <1>1
<1> QED BY <1>2, DeleteByRank DEF m_zslDeleteRangeByRank, Becomes

(* m_zslFree and m_zslCreate                                               *)
LEMMA FreeEffect ==
    ASSUME m_zslFree
    PROVE  Becomes({})
BY CreateOK DEF m_zslFree, Becomes

(* The list is in order in every state.                                    *)
THEOREM ListInvariant == Spec => []ListOK(zsl)
<1>1. Init => ListOK(zsl)
    BY CreateOK DEF Init
<1>2. ASSUME ListOK(zsl), [Next]_zsl PROVE ListOK(zsl)'
  <2>1. ASSUME NEW m \in Members, NEW s \in Scores, m_zslInsert(s, m) PROVE ListOK(zsl')
      BY <1>2, <2>1, InsertEffect DEF Becomes
  <2>2. ASSUME NEW m \in Members, NEW s \in Scores, m_zslDelete(s, m) PROVE ListOK(zsl')
      BY <1>2, <2>2, DeleteEffect DEF Becomes
  <2>3. ASSUME NEW m \in Members, NEW s \in Scores, m_zslUpdateScore(m, s) PROVE ListOK(zsl')
      BY <1>2, <2>3, UpdateEffect
  <2>4. ASSUME NEW range \in Ranges, m_zslDeleteRangeByScore(range) PROVE ListOK(zsl')
      BY <1>2, <2>4, ByScoreEffect DEF Becomes
  <2>5. ASSUME NEW start \in 1 .. Cardinality(Members), NEW end \in 1 .. Cardinality(Members),
               m_zslDeleteRangeByRank(start, end)
        PROVE  ListOK(zsl')
      BY <1>2, <2>5, ByRankEffect DEF Becomes
  <2>6. ASSUME m_zslFree PROVE ListOK(zsl')
      BY <2>6, FreeEffect DEF Becomes
  <2>7. CASE Next
      BY <2>1, <2>2, <2>3, <2>4, <2>5, <2>6, <2>7 DEF Next
  <2>8. CASE UNCHANGED zsl
      BY <1>2, <2>8
  <2> QED BY <1>2, <2>7, <2>8
<1> QED BY <1>1, <1>2, PTL DEF Spec

(* Every field keeps its type; no unsigned span goes below 0.              *)
THEOREM TypeCorrect == Spec => []SkipListTypeOK
<1>1. ASSUME ListOK(zsl) PROVE SkipListTypeOK
  <2>1. /\ Shape(zsl) /\ zsl.level \in 1 .. ZSKIPLIST_MAXLEVEL /\ Nodes(zsl) \subseteq Members
        /\ zsl.node[Header].score = 0 /\ zsl.node[Header].backward = NULL
        /\ \A n \in Nodes(zsl) : zsl.node[n].score \in Scores
        /\ \A n \in DOMAIN zsl.node : NodeOK(zsl.node[n])
      BY <1>1 DEF ListOK, Shape
  <2>2. /\ DOMAIN zsl.node = Nodes(zsl) \cup {Header} /\ Pos(zsl, Header) = 0 /\ zsl.length \in Nat
        /\ \A n \in DOMAIN zsl.node : Pos(zsl, n) \in Nat
        /\ \A i, n : n \in On(zsl, i) => i \in AllLevels
      BY <2>1, ShapeFacts
  <2>3. zsl.tail \in Members \cup {NULL}
      BY <1>1, <2>1 DEF ListOK, Ends, IsAt
  <2>4. ASSUME NEW n \in DOMAIN zsl.node
        PROVE  LET x == zsl.node[n] IN
               /\ x.score \in Scores \cup {0} /\ x.backward \in Members \cup {NULL}
               /\ DOMAIN x.forward = DOMAIN x.span
               /\ \A i \in DOMAIN x.span :
                     x.span[i] \in Nat /\ x.forward[i] \in Members \cup {NULL}
    <3> DEFINE x == zsl.node[n]
    <3>1. DOMAIN x.forward = DOMAIN x.span /\ \A i \in DOMAIN x.span : x.span[i] \in Nat
        BY <2>1 DEF NodeOK
    <3>2. x.score \in Scores \cup {0} /\ x.backward \in Members \cup {NULL}
      <4>1. CASE n = Header
          BY <2>1, <4>1
      <4>2. CASE n \in Nodes(zsl)
        <5>1. IsAt(zsl, Pos(zsl, n) - 1, zsl.node[n].backward)
            BY <1>1, <4>2 DEF ListOK, Ends
        <5> QED BY <2>1, <4>2, <5>1 DEF IsAt
      <4> QED BY <2>2, <4>1, <4>2
    <3>3. ASSUME NEW i \in DOMAIN x.span PROVE x.forward[i] \in Members \cup {NULL}
      <4>1. n \in On(zsl, i)
          BY <3>1 DEF On
      <4>2. IsNext(zsl, i, n, x.forward[i])
          BY <1>1, <2>2, <4>1 DEF ListOK, Chains
      <4>3. x.forward[i] # NULL => /\ x.forward[i] \in DOMAIN zsl.node
                                   /\ Pos(zsl, n) < Pos(zsl, x.forward[i])
          BY <4>2 DEF IsNext, On
      <4>4. x.forward[i] # Header
        <5>1. CASE x.forward[i] = NULL
            BY <5>1 DEF NULL, Header
        <5>2. CASE x.forward[i] # NULL
            BY <2>2, <4>3, <5>2
        <5> QED BY <5>1, <5>2
      <4> QED BY <2>1, <2>2, <4>3, <4>4
    <3> QED BY <3>1, <3>2, <3>3
  <2> QED BY <2>1, <2>2, <2>3, <2>4 DEF SkipListTypeOK
<1> QED BY <1>1, ListInvariant, PTL

(* The node at a position                                                  *)
LEMMA NodeAtFacts ==
    ASSUME NEW z, ListOK(z), NEW k, NEW q, IsAt(z, k, q)
    PROVE  NodeAt(z, k) = q
<1>1. /\ z.length = Cardinality(Nodes(z)) /\ NULL \notin Nodes(z)
      /\ \A n \in Nodes(z) : Pos(z, n) \in 1 .. z.length /\ n \in DOMAIN z.node
      /\ \A p, r \in DOMAIN z.node : Pos(z, p) = Pos(z, r) => p = r
  <2>1. Shape(z) /\ z.length = Cardinality(Nodes(z))
      BY DEF ListOK, Shape
  <2> QED BY <2>1, ShapeFacts
<1>2. CASE q = NULL
  <2>1. k \notin 1 .. Cardinality(Nodes(z))
      BY <1>1, <1>2 DEF IsAt
  <2> QED BY <1>2, <2>1 DEF NodeAt
<1>3. CASE q # NULL
  <2>1. q \in Nodes(z) /\ Pos(z, q) = k /\ k \in 1 .. Cardinality(Nodes(z))
      BY <1>1, <1>3 DEF IsAt
  <2>2. \A n \in Nodes(z) : Pos(z, n) = k => n = q
      BY <1>1, <2>1
  <2>3. NodeAt(z, k) = CHOOSE n \in Nodes(z) : Pos(z, n) = k
      BY <2>1 DEF NodeAt
  <2> QED BY <2>1, <2>2, <2>3
<1> QED BY <1>2, <1>3

(* Every level is the ordered chain of its nodes; backward, tail, length   *)
(* and level agree with it.                                                *)
THEOREM ListLinked == Spec => []Linked
<1>1. ASSUME ListOK(zsl) PROVE Linked
  <2>1. /\ Shape(zsl) /\ zsl.length = Cardinality(Nodes(zsl)) /\ Ends(zsl) /\ LevelsUsed(zsl)
      BY <1>1 DEF ListOK, Shape
  <2>2. /\ NULL \notin DOMAIN zsl.node /\ \A n \in DOMAIN zsl.node : Pos(zsl, n) \in Nat
        /\ \A p, r \in DOMAIN zsl.node : Pos(zsl, p) = Pos(zsl, r) => p = r
      BY <2>1, ShapeFacts
  <2>3. ASSUME NEW i \in AllLevels, NEW n \in On(zsl, i)
        PROVE  zsl.node[n].forward[i] = Successor(zsl, n, i)
    <3> DEFINE q == zsl.node[n].forward[i]
               later == {p \in On(zsl, i) : Pos(zsl, p) > Pos(zsl, n)}
               First(p) == \A r \in later : Pos(zsl, p) <= Pos(zsl, r)
    <3>1. IsNext(zsl, i, n, q) /\ On(zsl, i) \subseteq DOMAIN zsl.node
        BY <1>1 DEF ListOK, Chains, On
    <3>2. Successor(zsl, n, i) = IF later = {} THEN NULL ELSE CHOOSE p \in later : First(p)
        BY DEF Successor
    <3>3. NULL \notin On(zsl, i) /\ \A p \in On(zsl, i) : Pos(zsl, p) \in Nat
        BY <2>2, <3>1
    <3> HIDE DEF q
    <3>4. CASE q = NULL
      <4>1. \A p \in On(zsl, i) : Pos(zsl, p) <= Pos(zsl, n)
          BY <3>1, <3>3, <3>4 DEF IsNext
      <4>2. later = {}
          BY <3>3, <4>1
      <4> HIDE DEF later
      <4> QED BY <3>2, <3>4, <4>2 DEF q
    <3>5. CASE q # NULL
      <4>1. /\ q \in On(zsl, i) /\ Pos(zsl, n) < Pos(zsl, q)
            /\ \A p \in On(zsl, i) : Pos(zsl, p) <= Pos(zsl, n) \/ Pos(zsl, q) <= Pos(zsl, p)
          BY <3>1, <3>5 DEF IsNext
      <4>2. q \in later /\ First(q)
          BY <3>3, <4>1
      <4>3. ASSUME NEW p \in later, First(p) PROVE p = q
        <5>1. p \in On(zsl, i) /\ Pos(zsl, p) <= Pos(zsl, q) /\ Pos(zsl, q) <= Pos(zsl, p)
            BY <4>2, <4>3
        <5>2. Pos(zsl, p) = Pos(zsl, q)
            BY <3>3, <4>1, <5>1
        <5> QED BY <2>2, <3>1, <4>1, <5>1, <5>2
      <4> HIDE DEF later, First
      <4> QED BY <3>2, <4>2, <4>3 DEF q
    <3> QED BY <3>4, <3>5 DEF q
  <2>4. \A n \in Nodes(zsl) : zsl.node[n].backward = NodeAt(zsl, Pos(zsl, n) - 1)
      BY <1>1, <2>1, NodeAtFacts DEF Ends
  <2>5. zsl.tail = NodeAt(zsl, zsl.length)
      BY <1>1, <2>1, NodeAtFacts DEF Ends
  <2>6. \A i \in 1 .. ZSKIPLIST_MAXLEVEL - 1 : i < zsl.level <=> On(zsl, i) # {Header}
      BY <2>1 DEF LevelsUsed
  <2> QED BY <2>1, <2>3, <2>4, <2>5, <2>6 DEF Linked
<1> QED BY <1>1, ListInvariant, PTL

(* Every span in use is the distance it stands for.                        *)
THEOREM ListSpansExact == Spec => []SpansExact
<1>1. ASSUME ListOK(zsl) PROVE SpansExact
    BY <1>1 DEF ListOK, Spans, SpansExact, Target
<1> QED BY <1>1, ListInvariant, PTL

-----------------------------------------------------------------------------
(* The queries *)

(* The nodes of a range by the tests of the code                           *)
LEMMA InRangeFacts ==
    ASSUME ListOK(zsl), NEW range \in Ranges
    PROVE  InRange(range) = {n \in Nodes(zsl) : /\ m_zslValueGteMin(zsl.node[n].score, range)
                                                /\ m_zslValueLteMax(zsl.node[n].score, range)}
<1>1. \A n \in Nodes(zsl) : zsl.node[n].score \in Int
    BY ShapeFacts DEF ListOK, Sortable
<1>2. /\ range.min \in Int /\ range.max \in Int
      /\ range.minex \in BOOLEAN /\ range.maxex \in BOOLEAN
    BY SkipListAssumption DEF Ranges
<1>3. ASSUME NEW v \in Int
      PROVE  /\ (range.min < v \/ (range.min = v /\ ~range.minex)) <=> m_zslValueGteMin(v, range)
             /\ (v < range.max \/ (v = range.max /\ ~range.maxex)) <=> m_zslValueLteMax(v, range)
  <2>1. (range.min < v \/ (range.min = v /\ ~range.minex)) <=> m_zslValueGteMin(v, range)
    <3>1. CASE range.minex
      <4>1. m_zslValueGteMin(v, range) <=> v > range.min
          BY <3>1 DEF m_zslValueGteMin
      <4>2. v > range.min <=> range.min < v
          BY <1>2
      <4> QED BY <3>1, <4>1, <4>2, Zenon
    <3>2. CASE ~range.minex
      <4>1. m_zslValueGteMin(v, range) <=> v >= range.min
          BY <3>2 DEF m_zslValueGteMin
      <4>2. v >= range.min <=> range.min < v \/ range.min = v
          BY <1>2
      <4> QED BY <3>2, <4>1, <4>2, Zenon
    <3> QED BY <3>1, <3>2
  <2>2. (v < range.max \/ (v = range.max /\ ~range.maxex)) <=> m_zslValueLteMax(v, range)
    <3>1. CASE range.maxex
      <4>1. m_zslValueLteMax(v, range) <=> v < range.max
          BY <3>1 DEF m_zslValueLteMax
      <4> QED BY <3>1, <4>1, Zenon
    <3>2. CASE ~range.maxex
      <4>1. m_zslValueLteMax(v, range) <=> v <= range.max
          BY <3>2 DEF m_zslValueLteMax
      <4>2. v <= range.max <=> v < range.max \/ v = range.max
          BY <1>2
      <4> QED BY <3>2, <4>1, <4>2, Zenon
    <3> QED BY <3>1, <3>2
  <2> QED BY <2>1, <2>2
<1>4. ASSUME NEW n \in Nodes(zsl)
      PROVE  LET v == zsl.node[n].score IN
             (/\ range.min < v \/ (range.min = v /\ ~range.minex)
              /\ v < range.max \/ (v = range.max /\ ~range.maxex))
             <=> m_zslValueGteMin(v, range) /\ m_zslValueLteMax(v, range)
    BY <1>1, <1>3
<1> QED BY <1>4 DEF InRange

(* The first and the last node, when there is one                          *)
LEMMA EndFacts ==
    ASSUME NEW z, ListOK(z)
    PROVE  /\ IsAt(z, 1, z.node[Header].forward[0])
           /\ IsAt(z, z.length, z.tail)
<1>1. Header \in DOMAIN z.node /\ Pos(z, Header) = 0
    BY DEF ListOK, Shape, Pos
<1>2. IsAt(z, 0 + 1, z.node[Header].forward[0])
    BY <1>1, NextIsAt
<1> QED BY <1>2 DEF ListOK, Ends

(* A range with a node in it passes zslIsInRange.                          *)
LEMMA InRangePasses ==
    ASSUME NEW z, ListOK(z), NEW range \in Ranges, NEW n \in Nodes(z),
           m_zslValueGteMin(z.node[n].score, range), m_zslValueLteMax(z.node[n].score, range)
    PROVE  zslIsInRange(z, range)
<1> DEFINE first == z.node[Header].forward[0]  last == z.tail
<1>1. /\ \A p \in Nodes(z) : z.node[p].score \in Int
      /\ \A p \in Nodes(z) : Pos(z, p) \in 1 .. z.length
      /\ z.length \in Nat /\ NULL \notin Nodes(z)
  <2>1. Sortable(z)
      BY ShapeFacts DEF ListOK
  <2>2. \A p \in Nodes(z) : z.node[p].score \in Int
      BY <2>1 DEF Sortable
  <2> QED BY <2>2, ShapeFacts DEF ListOK
<1>2. /\ range.min \in Int /\ range.max \in Int
      /\ range.minex \in BOOLEAN /\ range.maxex \in BOOLEAN
    BY SkipListAssumption DEF Ranges
<1>3. 1 \in 1 .. z.length /\ z.length \in 1 .. z.length
    BY <1>1
<1>4. /\ first \in Nodes(z) /\ Pos(z, first) = 1 /\ first # NULL
      /\ last \in Nodes(z) /\ Pos(z, last) = z.length /\ last # NULL
    BY <1>1, <1>3, EndFacts DEF IsAt
<1>5. Pos(z, first) <= Pos(z, n) /\ Pos(z, n) <= Pos(z, last)
    BY <1>1, <1>4
<1> DEFINE v == z.node[n].score  a == z.node[first].score  b == z.node[last].score
<1>6. a <= v /\ v <= b
    BY <1>4, <1>5, ScoreOrder
<1>7. v \in Int /\ a \in Int /\ b \in Int
    BY <1>1, <1>4
<1>8. m_zslValueGteMin(v, range) /\ m_zslValueLteMax(v, range)
    OBVIOUS
<1> HIDE DEF v, a, b
<1>9. m_zslValueGteMin(b, range)
    BY <1>2, <1>6, <1>7, <1>8 DEF m_zslValueGteMin
<1>10. m_zslValueLteMax(a, range)
    BY <1>2, <1>6, <1>7, <1>8 DEF m_zslValueLteMax
<1>11. range.min < range.max \/ (range.min = range.max /\ ~range.minex /\ ~range.maxex)
  <2>1. range.min <= v /\ (range.minex => range.min < v)
      BY <1>2, <1>7, <1>8 DEF m_zslValueGteMin
  <2>2. v <= range.max /\ (range.maxex => v < range.max)
      BY <1>2, <1>7, <1>8 DEF m_zslValueLteMax
  <2> QED BY <1>2, <1>7, <2>1, <2>2
<1> QED BY <1>4, <1>9, <1>10, <1>11 DEF zslIsInRange, a, b

(* In a range that passes, the walk stops before a node, and the walk to   *)
(* the last one stops at a node.                                           *)
LEMMA RangeWalks ==
    ASSUME NEW z, ListOK(z), NEW range \in Ranges
    PROVE  LET x == After(z, PathBelow(z, range))
               y == Path(z, AnyRank(NotAbove(z, range)))[0].node IN
           \E c, d :
             /\ IsAt(z, c + 1, x) /\ c \in Nat /\ d \in Nat
             /\ \A n \in Nodes(z) : m_zslValueGteMin(z.node[n].score, range) <=> Pos(z, n) > c
             /\ y \in DOMAIN z.node /\ Pos(z, y) = d
             /\ \A n \in Nodes(z) : m_zslValueLteMax(z.node[n].score, range) <=> Pos(z, n) <= d
             /\ zslIsInRange(z, range) => x \in Nodes(z) /\ y \in Nodes(z)
<1> DEFINE D == {n \in Nodes(z) : ~m_zslValueGteMin(z.node[n].score, range)}
           E == NotAbove(z, range)
           x == After(z, PathBelow(z, range))
           y == Path(z, AnyRank(E))[0].node
           Gte(n) == m_zslValueGteMin(z.node[n].score, range)
           Lte(n) == m_zslValueLteMax(z.node[n].score, range)
<1>1. /\ \A p \in Nodes(z) : Pos(z, p) \in Nat /\ Pos(z, p) >= 1 /\ Pos(z, p) <= z.length
      /\ z.length \in Nat /\ NULL \notin Nodes(z) /\ DOMAIN z.node = Nodes(z) \cup {Header}
      /\ Pos(z, Header) = 0
    BY ShapeFacts DEF ListOK
<1>2. PICK c : LeadsTo(z, AnyRank(D), c)
    BY BelowRange
<1>3. IsAt(z, c + 1, x) /\ c \in 0 .. z.length
    BY <1>2, BelowRange, AfterFacts DEF LeadsTo
<1>4. \A n \in Nodes(z) : Gte(n) <=> Pos(z, n) > c
  <2>1. \A n \in Nodes(z) : <<n, Pos(z, n)>> \in AnyRank(D) <=> ~Gte(n)
      BY <1>1 DEF AnyRank
  <2>2. \A n \in Nodes(z) : <<n, Pos(z, n)>> \in AnyRank(D) <=> Pos(z, n) <= c
      BY <1>2 DEF LeadsTo
  <2> HIDE DEF D, Gte
  <2>3. ASSUME NEW n \in Nodes(z) PROVE Pos(z, n) > c <=> ~(Pos(z, n) <= c)
    <3>1. Pos(z, n) \in Nat /\ c \in Nat
        BY <1>1, <1>3
    <3> QED BY <3>1
  <2> QED BY <2>1, <2>2, <2>3, Zenon
<1>5. PICK d : LeadsTo(z, AnyRank(E), d)
  <2>1. ASSUME NEW p \in Nodes(z), NEW q \in E, Before(z, p, z.node[q].score, q) PROVE p \in E
    <3>1. q \in Nodes(z) /\ Sortable(z)
        BY ShapeFacts DEF NotAbove, ListOK
    <3>2. z.node[p].score <= z.node[q].score
        BY <2>1, <3>1 DEF Before, Sortable
    <3> QED BY <3>2, NotAboveRange
  <2>2. E \subseteq Nodes(z)
      BY DEF NotAbove
  <2> HIDE DEF E
  <2> QED BY <2>1, <2>2, DownClosed
<1>6. y \in DOMAIN z.node /\ Pos(z, y) = d /\ d \in 0 .. z.length
    BY <1>5, AfterFacts DEF LeadsTo
<1>7. \A n \in Nodes(z) : Lte(n) <=> Pos(z, n) <= d
  <2>1. \A n \in Nodes(z) : <<n, Pos(z, n)>> \in AnyRank(E) <=> Lte(n)
      BY <1>1 DEF AnyRank, NotAbove
  <2>2. \A n \in Nodes(z) : <<n, Pos(z, n)>> \in AnyRank(E) <=> Pos(z, n) <= d
      BY <1>5 DEF LeadsTo
  <2> HIDE DEF E, Lte
  <2> QED BY <2>1, <2>2
<1>8. ASSUME zslIsInRange(z, range) PROVE x \in Nodes(z) /\ y \in Nodes(z)
  <2> DEFINE first == z.node[Header].forward[0]  last == z.tail
  <2>1. last # NULL /\ Gte(last) /\ first # NULL /\ Lte(first)
      BY <1>8 DEF zslIsInRange
  <2>2. first \in Nodes(z) /\ Pos(z, first) = 1 /\ last \in Nodes(z) /\ Pos(z, last) = z.length
      BY <2>1, EndFacts DEF IsAt
  <2> HIDE DEF first, last, x, y, Gte, Lte
  <2>3. c + 1 \in 1 .. z.length
      BY <1>1, <1>3, <1>4, <2>1, <2>2
  <2>4. d >= 1
      BY <1>1, <1>7, <2>1, <2>2
  <2> QED BY <1>1, <1>3, <1>6, <2>3, <2>4 DEF IsAt
<1> HIDE DEF x, y
<1>9. c \in Nat /\ d \in Nat
    BY <1>1, <1>3, <1>6
<1> QED BY <1>3, <1>4, <1>6, <1>7, <1>8, <1>9 DEF x, y

(* The queries give what the order gives.                                  *)
THEOREM ListQueriesExact == Spec => []QueriesExact
<1>1. ASSUME ListOK(zsl) PROVE QueriesExact
  <2>1. /\ NULL \notin DOMAIN zsl.node /\ DOMAIN zsl.node = Nodes(zsl) \cup {Header}
        /\ \A n \in Nodes(zsl) : Pos(zsl, n) \in Nat /\ Pos(zsl, n) >= 1 /\ Pos(zsl, n) <= zsl.length
        /\ \A p, r \in Nodes(zsl) : Pos(zsl, p) = Pos(zsl, r) => p = r
        /\ zsl.length \in Nat /\ Pos(zsl, Header) = 0
      BY <1>1, ShapeFacts DEF ListOK
  <2>2. ASSUME NEW range \in Ranges
        PROVE  LET in == InRange(range) IN
          /\ zslIsInRange(zsl, range) => After(zsl, PathBelow(zsl, range)) # NULL
          /\ m_zslFirstInRange(zsl, range) =
               IF in = {} THEN NULL
               ELSE CHOOSE n \in in : \A p \in in : Pos(zsl, n) <= Pos(zsl, p)
          /\ m_zslLastInRange(zsl, range) =
               IF in = {} THEN NULL
               ELSE CHOOSE n \in in : \A p \in in : Pos(zsl, p) <= Pos(zsl, n)
    <3> DEFINE in == InRange(range)
               x == After(zsl, PathBelow(zsl, range))
               y == Path(zsl, AnyRank(NotAbove(zsl, range)))[0].node
               Gte(n) == m_zslValueGteMin(zsl.node[n].score, range)
               Lte(n) == m_zslValueLteMax(zsl.node[n].score, range)
               First(n) == \A p \in in : Pos(zsl, n) <= Pos(zsl, p)
               Last(n) == \A p \in in : Pos(zsl, p) <= Pos(zsl, n)
    <3>1. \A n : n \in in <=> n \in Nodes(zsl) /\ Gte(n) /\ Lte(n)
        BY <1>1, InRangeFacts
    <3>2. PICK c, d :
             /\ IsAt(zsl, c + 1, x) /\ c \in Nat /\ d \in Nat
             /\ \A n \in Nodes(zsl) : Gte(n) <=> Pos(zsl, n) > c
             /\ y \in DOMAIN zsl.node /\ Pos(zsl, y) = d
             /\ \A n \in Nodes(zsl) : Lte(n) <=> Pos(zsl, n) <= d
             /\ zslIsInRange(zsl, range) => x \in Nodes(zsl) /\ y \in Nodes(zsl)
        BY <1>1, RangeWalks
    <3>3. ASSUME NEW n \in in PROVE zslIsInRange(zsl, range)
        BY <1>1, <3>1, InRangePasses
    <3>4. m_zslFirstInRange(zsl, range) = IF zslIsInRange(zsl, range) /\ Lte(x) THEN x ELSE NULL
        BY DEF m_zslFirstInRange
    <3>5. m_zslLastInRange(zsl, range) = IF zslIsInRange(zsl, range) /\ Gte(y) THEN y ELSE NULL
        BY DEF m_zslLastInRange
    <3> HIDE DEF in, x, y, Gte, Lte
    <3>6. zslIsInRange(zsl, range) => x # NULL /\ Pos(zsl, x) = c + 1
        BY <2>1, <3>2 DEF IsAt
    <3>7. CASE in = {}
      <4>1. ~(zslIsInRange(zsl, range) /\ Lte(x))
          BY <2>1, <3>1, <3>2, <3>6, <3>7
      <4>2. ~(zslIsInRange(zsl, range) /\ Gte(y))
        <5> SUFFICES ASSUME zslIsInRange(zsl, range), Gte(y) PROVE FALSE
            OBVIOUS
        <5>1. y \in Nodes(zsl) /\ Pos(zsl, y) <= d
            BY <2>1, <3>2
        <5> QED BY <3>1, <3>2, <3>7, <5>1
      <4> QED BY <3>4, <3>5, <3>6, <3>7, <4>1, <4>2 DEF x, in
    <3>8. CASE in # {}
      <4>1. PICK n \in in : TRUE
          BY <3>8
      <4>2. /\ zslIsInRange(zsl, range) /\ x \in Nodes(zsl) /\ y \in Nodes(zsl) /\ Pos(zsl, x) = c + 1
            /\ n \in Nodes(zsl) /\ Pos(zsl, n) > c /\ Pos(zsl, n) <= d /\ Pos(zsl, n) \in Nat
          BY <2>1, <3>1, <3>2, <3>3, <3>6, <4>1
      <4>3. x \in in /\ First(x)
        <5>1. Gte(x) /\ Lte(x)
            BY <2>1, <3>2, <4>2
        <5>2. ASSUME NEW p \in in PROVE Pos(zsl, x) <= Pos(zsl, p)
            BY <2>1, <3>1, <3>2, <4>2
        <5> QED BY <3>1, <4>2, <5>1, <5>2
      <4>4. y \in in /\ Last(y)
        <5>1. Gte(y) /\ Lte(y)
            BY <2>1, <3>2, <4>2
        <5>2. ASSUME NEW p \in in PROVE Pos(zsl, p) <= Pos(zsl, y)
            BY <3>1, <3>2
        <5> QED BY <3>1, <4>2, <5>1, <5>2
      <4>5. ASSUME NEW p \in in, NEW r \in in, Pos(zsl, p) <= Pos(zsl, r), Pos(zsl, r) <= Pos(zsl, p)
            PROVE  p = r
        <5>1. p \in Nodes(zsl) /\ r \in Nodes(zsl)
            BY <3>1
        <5>2. Pos(zsl, p) = Pos(zsl, r)
            BY <2>1, <4>5, <5>1
        <5> QED BY <2>1, <5>1, <5>2
      <4>6. \A p \in in : First(p) => p = x
          BY <4>3, <4>5
      <4>7. \A p \in in : Last(p) => p = y
          BY <4>4, <4>5
      <4> DEFINE a == CHOOSE p \in in : First(p)  b == CHOOSE p \in in : Last(p)
      <4> HIDE DEF First, Last
      <4>8. a = x /\ b = y
          BY <4>3, <4>4, <4>6, <4>7
      <4>9. m_zslFirstInRange(zsl, range) = x /\ m_zslLastInRange(zsl, range) = y
          BY <3>1, <3>4, <3>5, <4>2, <4>3, <4>4
      <4> QED BY <3>6, <3>8, <4>8, <4>9 DEF x, in, First, Last
    <3> QED BY <3>7, <3>8
  <2>3. ASSUME NEW rank \in 1 .. Cardinality(Members) + 1
        PROVE  m_zslGetElementByRank(zsl, rank) = NodeAt(zsl, rank)
    <3> DEFINE go == Nodes(zsl) \X (0 .. rank)
               path == Path(zsl, go)
               hit == {i \in DOMAIN path : path[i].rank = rank}
               top == CHOOSE i \in hit : \A j \in hit : j <= i
               c == IF rank <= zsl.length THEN rank ELSE zsl.length
    <3>1. rank \in Nat /\ rank >= 1
      <4>1. Cardinality(Members) \in Nat
          BY SkipListAssumption, FS_CardinalityType
      <4> QED BY <4>1
    <3>2. LeadsTo(zsl, go, c)
        BY <1>1, <3>1, RankWalk
    <3>3. m_zslGetElementByRank(zsl, rank) = IF hit = {} THEN NULL ELSE path[top].node
        BY DEF m_zslGetElementByRank
    <3> HIDE DEF go, c
    <3>4. /\ DOMAIN path = 0 .. zsl.level - 1 /\ path[0].rank = c
          /\ \A i \in 0 .. zsl.level - 1 :
                /\ LastUpTo(zsl, i, path[i].node, c) /\ path[i].rank = Pos(zsl, path[i].node)
        BY <1>1, <3>2, PathFacts, AfterFacts
    <3> HIDE DEF path
    <3>5. zsl.level \in Nat \ {0}
        BY <1>1, SkipListAssumption DEF ListOK, Shape
    <3>6. CASE rank <= zsl.length
      <4>1. 0 \in hit /\ hit \subseteq 0 .. zsl.level
          BY <3>4, <3>5, <3>6 DEF c
      <4>2. PICK i \in hit : \A j \in hit : j <= i
        <5> HIDE DEF hit
        <5>1. zsl.level \in Nat /\ hit # {}
            BY <3>5, <4>1
        <5> QED BY <4>1, <5>1, Greatest
      <4>3. top \in hit
        <5> HIDE DEF hit
        <5> QED BY <4>2
      <4> HIDE DEF top
      <4>4. path[top].node \in DOMAIN zsl.node /\ Pos(zsl, path[top].node) = rank
          BY <3>4, <4>3 DEF LastUpTo, On
      <4>5. IsAt(zsl, rank, path[top].node)
          BY <2>1, <3>1, <4>4 DEF IsAt
      <4>6. hit # {}
          BY <4>1
      <4> HIDE DEF hit
      <4> QED BY <1>1, <3>3, <4>5, <4>6, NodeAtFacts
    <3>7. CASE ~(rank <= zsl.length)
      <4>1. ASSUME NEW i \in hit PROVE FALSE
        <5>1. path[i].node \in DOMAIN zsl.node /\ Pos(zsl, path[i].node) = rank
            BY <3>4 DEF LastUpTo, On
        <5> QED BY <2>1, <3>1, <3>7, <5>1
      <4>2. hit = {}
          BY <4>1
      <4>3. IsAt(zsl, rank, NULL)
          BY <2>1, <3>1, <3>7 DEF IsAt
      <4> HIDE DEF hit
      <4> QED BY <1>1, <3>3, <4>2, <4>3, NodeAtFacts
    <3> QED BY <3>6, <3>7
  <2> QED BY <2>2, <2>3 DEF QueriesExact
<1> QED BY <1>1, ListInvariant, PTL

-----------------------------------------------------------------------------
(* The keys of a tag *)

(* The steps of the loop of SlotsMGRT_TagKeys                              *)
LEMMA TagSteps ==
    ASSUME NEW z, NEW crc, z.length \in Nat
    PROVE  LET first == m_zslFirstInRange(z, [min |-> crc, max |-> crc,
                                              minex |-> FALSE, maxex |-> FALSE])
           IN  \E g : /\ g[0] = [x |-> first, batch |-> <<>>]
                      /\ TagBatch(z, crc) = g[z.length].batch
                      /\ \A k \in 1 .. z.length : g[k] = TagStep(z, crc, g[k - 1])
<1> DEFINE F(s) == TagStep(z, crc, s)
           p == [x |-> m_zslFirstInRange(z, [min |-> crc, max |-> crc,
                                             minex |-> FALSE, maxex |-> FALSE]),
                 batch |-> <<>>]
<1> HIDE DEF F, p
<1> DEFINE Rec(g, n) == g = [k \in 0 .. n |-> IF k = 0 THEN p ELSE F(g[k - 1])]
           S == {n \in Nat : \E g : Rec(g, n)}
<1>1. 0 \in S
  <2> DEFINE g == [k \in 0 .. 0 |-> p]
  <2>1. Rec(g, 0)
      OBVIOUS
  <2> QED BY <2>1
<1>2. ASSUME NEW n \in Nat, n \in S PROVE n + 1 \in S
  <2>1. PICK g : Rec(g, n)
      BY <1>2
  <2> DEFINE h == [k \in 0 .. n + 1 |-> IF k = n + 1 THEN F(g[n]) ELSE g[k]]
  <2>2. \A k \in 0 .. n : g[k] = IF k = 0 THEN p ELSE F(g[k - 1])
      BY <2>1
  <2>3. ASSUME NEW k \in 0 .. n + 1
        PROVE  h[k] = IF k = 0 THEN p ELSE F(h[k - 1])
    <3>1. CASE k = n + 1
      <4>1. k # 0 /\ k - 1 = n /\ k - 1 \in 0 .. n + 1 /\ k - 1 # n + 1
          BY <3>1
      <4> QED BY <3>1, <4>1
    <3>2. CASE k = 0
        BY <2>2, <3>2
    <3>3. CASE k # 0 /\ k # n + 1
      <4>1. k \in 0 .. n /\ k - 1 \in 0 .. n + 1 /\ k - 1 # n + 1
          BY <3>3
      <4> QED BY <2>2, <3>3, <4>1
    <3> QED BY <3>1, <3>2, <3>3
  <2>4. h = [k \in 0 .. n + 1 |-> h[k]]
      OBVIOUS
  <2> HIDE DEF h
  <2>5. Rec(h, n + 1)
      BY <2>3, <2>4
  <2> QED BY <2>5
<1>3. z.length \in S
  <2> HIDE DEF S
  <2> QED BY <1>1, <1>2, NatSetInduction
<1> DEFINE g == CHOOSE r : Rec(r, z.length)
<1>4. Rec(g, z.length)
    BY <1>3
<1>5. TagBatch(z, crc) = g[z.length].batch
    BY DEF TagBatch, F, p
<1> HIDE DEF g
<1>6. g[0] = p /\ \A k \in 1 .. z.length : g[k] = F(g[k - 1])
    BY <1>4
<1> QED BY <1>5, <1>6 DEF F, p

(* Where the walk over a tag starts: at its first node, or nowhere if no   *)
(* node has its score.                                                     *)
LEMMA TagFirst ==
    ASSUME NEW z, ListOK(z), NEW crc \in Scores
    PROVE  LET first == m_zslFirstInRange(z, [min |-> crc, max |-> crc,
                                              minex |-> FALSE, maxex |-> FALSE])
           IN  \/ /\ first \in Nodes(z) /\ z.node[first].score = crc
                  /\ \A n \in Nodes(z) : z.node[n].score = crc => Pos(z, first) <= Pos(z, n)
               \/ /\ first = NULL
                  /\ \A n \in Nodes(z) : z.node[n].score # crc
<1> DEFINE range == [min |-> crc, max |-> crc, minex |-> FALSE, maxex |-> FALSE]
           first == m_zslFirstInRange(z, range)
           x == After(z, PathBelow(z, range))
           Gte(n) == m_zslValueGteMin(z.node[n].score, range)
           Lte(n) == m_zslValueLteMax(z.node[n].score, range)
<1>1. range \in Ranges /\ crc \in Int
    BY SkipListAssumption DEF Ranges
<1>2. /\ \A n \in Nodes(z) : z.node[n].score \in Int
      /\ \A n \in Nodes(z) : Pos(z, n) \in Nat
      /\ NULL \notin Nodes(z)
  <2>1. Sortable(z)
      BY ShapeFacts DEF ListOK
  <2> QED BY <2>1, ShapeFacts DEF ListOK, Sortable
<1>3. \A n \in Nodes(z) : /\ Gte(n) <=> z.node[n].score >= crc
                          /\ Lte(n) <=> z.node[n].score <= crc
    BY DEF m_zslValueGteMin, m_zslValueLteMax
<1>4. first = IF zslIsInRange(z, range) /\ Lte(x) THEN x ELSE NULL
    BY DEF m_zslFirstInRange
<1>5. \A n \in Nodes(z) : Gte(n) /\ Lte(n) => zslIsInRange(z, range)
    BY <1>1, InRangePasses
<1>6. PICK c : /\ IsAt(z, c + 1, x) /\ c \in Nat
               /\ \A n \in Nodes(z) : Gte(n) <=> Pos(z, n) > c
               /\ zslIsInRange(z, range) => x \in Nodes(z)
    BY <1>1, RangeWalks
<1> HIDE DEF range, first, x, Gte, Lte
<1>7. zslIsInRange(z, range) => x \in Nodes(z) /\ Pos(z, x) = c + 1 /\ Gte(x)
    BY <1>2, <1>6 DEF IsAt
<1>8. \A n \in Nodes(z) : z.node[n].score = crc => Gte(n) /\ Lte(n) /\ c + 1 <= Pos(z, n)
    BY <1>1, <1>2, <1>3, <1>6
<1>9. CASE zslIsInRange(z, range) /\ Lte(x)
  <2>1. first = x /\ x \in Nodes(z) /\ Pos(z, x) = c + 1
      BY <1>4, <1>7, <1>9
  <2>2. z.node[x].score = crc
      BY <1>1, <1>2, <1>3, <1>7, <1>9, <2>1
  <2> QED BY <1>8, <2>1, <2>2 DEF first, range
<1>10. CASE ~(zslIsInRange(z, range) /\ Lte(x))
  <2>1. ASSUME NEW n \in Nodes(z), z.node[n].score = crc PROVE FALSE
    <3>1. x \in Nodes(z) /\ Pos(z, x) <= Pos(z, n)
        BY <1>5, <1>7, <1>8, <2>1
    <3>2. z.node[x].score <= crc
        BY <2>1, <3>1, ScoreOrder
    <3> QED BY <1>3, <1>5, <1>8, <1>10, <2>1, <3>1, <3>2
  <2>2. first = NULL
      BY <1>4, <1>10
  <2> QED BY <2>1, <2>2 DEF first, range
<1> QED BY <1>9, <1>10

(* What the loop keeps after k steps: j nodes are collected, the ones from *)
(* position f on, and x is the next; it stopped only at the end of the tag.*)
Collected(z, crc, f, k, j, s) ==
    /\ j \in 0 .. k /\ s.batch \in Seq(Nodes(z)) /\ Len(s.batch) = j
    /\ \A i \in 1 .. j : Pos(z, s.batch[i]) = f + i - 1 /\ z.node[s.batch[i]].score = crc
    /\ IsAt(z, f + j, s.x)
    /\ j = k \/ s.x = NULL \/ z.node[s.x].score # crc

(* One step of the loop                                                    *)
LEMMA CollectedStep ==
    ASSUME NEW z, ListOK(z), NEW crc, NEW f \in Nat \ {0}, NEW k \in Nat, NEW j,
           NEW s, Collected(z, crc, f, k, j, s)
    PROVE  \E i : Collected(z, crc, f, k + 1, i, TagStep(z, crc, s))
<1> DEFINE t == TagStep(z, crc, s)
<1>1. /\ j \in Nat /\ j <= k /\ s.batch \in Seq(Nodes(z)) /\ Len(s.batch) = j
      /\ \A i \in 1 .. j : Pos(z, s.batch[i]) = f + i - 1 /\ z.node[s.batch[i]].score = crc
      /\ IsAt(z, f + j, s.x)
    BY DEF Collected
<1>2. CASE s.x = NULL \/ z.node[s.x].score # crc
  <2>1. t = s
      BY <1>2 DEF TagStep
  <2>2. j \in 0 .. k + 1
      BY <1>1
  <2>3. Collected(z, crc, f, k + 1, j, t)
      BY <1>1, <1>2, <2>1, <2>2 DEF Collected
  <2> QED BY <2>3
<1>3. CASE s.x # NULL /\ z.node[s.x].score = crc
  <2>1. t.x = z.node[s.x].forward[0] /\ t.batch = Append(s.batch, s.x)
      BY <1>3 DEF TagStep
  <2>2. j = k
      BY <1>3 DEF Collected
  <2>3. s.x \in Nodes(z) /\ Pos(z, s.x) = f + j
      BY <1>1, <1>3 DEF IsAt
  <2>4. IsAt(z, f + j + 1, t.x)
    <3>1. s.x \in DOMAIN z.node
        BY <2>3 DEF Nodes
    <3> QED BY <2>1, <2>3, <3>1, NextIsAt
  <2> HIDE DEF t
  <2>5. /\ t.batch \in Seq(Nodes(z)) /\ Len(t.batch) = j + 1
        /\ \A i \in 1 .. j : t.batch[i] = s.batch[i]
        /\ t.batch[j + 1] = s.x
      BY <1>1, <2>1, <2>3
  <2>6. ASSUME NEW i \in 1 .. j + 1
        PROVE  Pos(z, t.batch[i]) = f + i - 1 /\ z.node[t.batch[i]].score = crc
    <3>1. CASE i = j + 1
      <4>1. f + i - 1 = f + j
          BY <1>1, <3>1
      <4> QED BY <1>3, <2>3, <2>5, <3>1, <4>1
    <3>2. CASE i # j + 1
      <4>1. i \in 1 .. j
          BY <1>1, <3>2
      <4> QED BY <1>1, <2>5, <4>1
    <3> QED BY <3>1, <3>2
  <2>7. f + (j + 1) = f + j + 1 /\ j + 1 \in 0 .. k + 1
      BY <1>1
  <2>8. IsAt(z, f + (j + 1), t.x)
      BY <2>4, <2>7
  <2>9. Collected(z, crc, f, k + 1, j + 1, t)
      BY <2>2, <2>5, <2>6, <2>7, <2>8 DEF Collected
  <2> QED BY <2>9 DEF t
<1> QED BY <1>2, <1>3

(* A migration by tag takes every key of the tag once, and no other.       *)
THEOREM ListTagBatchExact == Spec => []TagBatchExact
<1>1. ASSUME ListOK(zsl), NEW crc \in Scores
      PROVE  LET batch == TagBatch(zsl, crc)
                 keys  == {n \in Nodes(zsl) : zsl.node[n].score = crc}
             IN  /\ {batch[i] : i \in DOMAIN batch} = keys
                 /\ Len(batch) = Cardinality(keys)
  <2> DEFINE first == m_zslFirstInRange(zsl, [min |-> crc, max |-> crc,
                                              minex |-> FALSE, maxex |-> FALSE])
             keys == {n \in Nodes(zsl) : zsl.node[n].score = crc}
             batch == TagBatch(zsl, crc)
             N == zsl.length
  <2>1. /\ N \in Nat /\ NULL \notin Nodes(zsl)
        /\ \A n \in Nodes(zsl) : Pos(zsl, n) \in Nat /\ Pos(zsl, n) >= 1 /\ Pos(zsl, n) <= N
        /\ \A p, q \in Nodes(zsl) : Pos(zsl, p) = Pos(zsl, q) => p = q
      BY <1>1, ShapeFacts DEF ListOK
  <2>2. PICK g : /\ g[0] = [x |-> first, batch |-> <<>>] /\ batch = g[N].batch
                 /\ \A k \in 1 .. N : g[k] = TagStep(zsl, crc, g[k - 1])
      BY <2>1, TagSteps
  <2>3. \/ /\ first \in Nodes(zsl) /\ zsl.node[first].score = crc
           /\ \A n \in Nodes(zsl) : zsl.node[n].score = crc => Pos(zsl, first) <= Pos(zsl, n)
        \/ first = NULL /\ \A n \in Nodes(zsl) : zsl.node[n].score # crc
      BY <1>1, TagFirst
  <2> HIDE DEF first, batch, N
  <2>4. CASE first = NULL
    <3> DEFINE S == {k \in Nat : k <= N => g[k] = [x |-> NULL, batch |-> <<>>]}
    <3>1. 0 \in S
        BY <2>2, <2>4
    <3>2. ASSUME NEW k \in Nat, k \in S PROVE k + 1 \in S
      <4>1. ASSUME k + 1 <= N PROVE g[k + 1] = [x |-> NULL, batch |-> <<>>]
        <5>1. k <= N /\ k + 1 \in 1 .. N /\ (k + 1) - 1 = k
            BY <2>1, <4>1
        <5>2. g[k] = [x |-> NULL, batch |-> <<>>] /\ g[k + 1] = TagStep(zsl, crc, g[k])
            BY <2>2, <3>2, <5>1
        <5> QED BY <5>2 DEF TagStep
      <4> QED BY <4>1
    <3>3. N \in S
      <4> HIDE DEF S
      <4> QED BY <2>1, <3>1, <3>2, NatSetInduction
    <3>4. batch = <<>>
        BY <2>1, <2>2, <3>3
    <3>5. keys = {}
        BY <2>1, <2>3, <2>4
    <3>6. Cardinality(keys) = 0 /\ Len(batch) = 0
        BY <3>4, <3>5, FS_EmptySet
    <3>7. {batch[i] : i \in DOMAIN batch} = {}
        BY <3>4
    <3> QED BY <3>5, <3>6, <3>7 DEF batch
  <2>5. CASE first # NULL
    <3> DEFINE f == Pos(zsl, first)
    <3>1. /\ first \in Nodes(zsl) /\ zsl.node[first].score = crc /\ f \in Nat \ {0}
          /\ \A n \in Nodes(zsl) : zsl.node[n].score = crc => f <= Pos(zsl, n)
        BY <2>1, <2>3, <2>5
    <3> HIDE DEF f
    <3> DEFINE S == {k \in Nat : k <= N => \E j : Collected(zsl, crc, f, k, j, g[k])}
    <3>2. 0 \in S
      <4>1. g[0].batch = <<>> /\ g[0].x = first
          BY <2>2
      <4>2. <<>> \in Seq(Nodes(zsl)) /\ Len(<<>>) = 0 /\ 0 \in 0 .. 0 /\ f + 0 = f
            /\ \A i \in 1 .. 0 : FALSE
          BY <3>1
      <4>3. IsAt(zsl, f + 0, first)
          BY <3>1, <4>2 DEF IsAt, f
      <4>4. Collected(zsl, crc, f, 0, 0, g[0])
          BY <4>1, <4>2, <4>3 DEF Collected
      <4> QED BY <4>4
    <3>3. ASSUME NEW k \in Nat, k \in S PROVE k + 1 \in S
      <4>1. ASSUME k + 1 <= N PROVE \E j : Collected(zsl, crc, f, k + 1, j, g[k + 1])
        <5>1. k <= N /\ k + 1 \in 1 .. N /\ (k + 1) - 1 = k
            BY <2>1, <4>1
        <5>2. g[k + 1] = TagStep(zsl, crc, g[k])
            BY <2>2, <5>1
        <5>3. PICK j : Collected(zsl, crc, f, k, j, g[k])
            BY <3>3, <5>1
        <5> QED BY <1>1, <3>1, <5>2, <5>3, CollectedStep
      <4> QED BY <4>1
    <3>4. N \in S
      <4> HIDE DEF S
      <4> QED BY <2>1, <3>2, <3>3, NatSetInduction
    <3>5. PICK j : Collected(zsl, crc, f, N, j, g[N])
        BY <2>1, <3>4
    <3> DEFINE x == g[N].x
    <3>6. /\ j \in Nat /\ j <= N /\ batch \in Seq(Nodes(zsl)) /\ Len(batch) = j
          /\ \A i \in 1 .. j : Pos(zsl, batch[i]) = f + i - 1 /\ zsl.node[batch[i]].score = crc
          /\ IsAt(zsl, f + j, x) /\ (j = N \/ x = NULL \/ zsl.node[x].score # crc)
        BY <2>1, <2>2, <3>5 DEF Collected
    <3> HIDE DEF x
    <3>7. ASSUME NEW n \in keys PROVE Pos(zsl, n) - f + 1 \in 1 .. j
      <4>1. n \in Nodes(zsl) /\ f <= Pos(zsl, n) /\ Pos(zsl, n) \in Nat /\ Pos(zsl, n) <= N
          BY <2>1, <3>1
      <4>2. CASE x = NULL
        <5>1. f + j \notin 1 .. N
            BY <2>1, <3>6, <4>2 DEF IsAt, N
        <5>2. f \in Nat /\ f >= 1 /\ j \in Nat /\ N \in Nat
            BY <2>1, <3>1, <3>6
        <5>3. f + j > N
            BY <5>1, <5>2
        <5> QED BY <4>1, <5>2, <5>3
      <4>3. CASE x # NULL
        <5>1. x \in Nodes(zsl) /\ Pos(zsl, x) = f + j /\ f + j <= N
            BY <2>1, <3>6, <4>3 DEF IsAt
        <5>2. zsl.node[x].score # crc
            BY <2>1, <3>1, <3>6, <4>3, <5>1
        <5>3. zsl.node[first].score <= zsl.node[x].score
          <6>1. Pos(zsl, first) <= Pos(zsl, x)
              BY <3>1, <3>6, <5>1 DEF f
          <6> QED BY <1>1, <3>1, <5>1, <6>1, ScoreOrder
        <5>4. ~(f + j <= Pos(zsl, n))
          <6> SUFFICES ASSUME f + j <= Pos(zsl, n) PROVE FALSE
              OBVIOUS
          <6>1. zsl.node[x].score <= zsl.node[n].score
              BY <1>1, <4>1, <5>1, ScoreOrder
          <6>2. zsl.node[n].score = crc /\ crc \in Int /\ zsl.node[x].score \in Int
            <7>1. Sortable(zsl)
                BY <1>1, ShapeFacts DEF ListOK
            <7> QED BY <5>1, <7>1, SkipListAssumption DEF Sortable
          <6> QED BY <3>1, <5>2, <5>3, <6>1, <6>2
        <5> QED BY <3>1, <3>6, <4>1, <5>4
      <4> QED BY <4>2, <4>3
    <3>8. batch \in [1 .. j -> Nodes(zsl)] /\ DOMAIN batch = 1 .. j
        BY <3>6
    <3>9. batch \in [1 .. j -> keys]
      <4>1. \A i \in 1 .. j : batch[i] \in keys
          BY <3>6, <3>8
      <4> QED BY <3>8, <4>1
    <3>10. ASSUME NEW a \in 1 .. j, NEW b \in 1 .. j, batch[a] = batch[b] PROVE a = b
      <4>1. f + a - 1 = f + b - 1
          BY <3>6, <3>10
      <4> QED BY <3>1, <3>6, <4>1
    <3>11. ASSUME NEW n \in keys PROVE \E i \in 1 .. j : batch[i] = n
      <4> DEFINE i == Pos(zsl, n) - f + 1
      <4>1. i \in 1 .. j /\ n \in Nodes(zsl)
          BY <3>7
      <4>2. f + i - 1 = Pos(zsl, n)
          BY <2>1, <3>1, <4>1
      <4> HIDE DEF i
      <4>3. Pos(zsl, batch[i]) = Pos(zsl, n) /\ batch[i] \in Nodes(zsl)
          BY <3>6, <3>8, <4>1, <4>2
      <4> QED BY <2>1, <4>1, <4>3
    <3> HIDE DEF keys
    <3>12. {batch[i] : i \in DOMAIN batch} = keys
        BY <3>8, <3>9, <3>11
    <3>13. Cardinality(keys) = j
      <4>1. batch \in Bijection(1 .. j, keys)
          BY <3>9, <3>10, <3>11 DEF Bijection, Injection, IsInjective, Surjection
      <4>2. ExistsBijection(1 .. j, keys)
          BY <4>1 DEF ExistsBijection
      <4>3. IsFiniteSet(1 .. j) /\ Cardinality(1 .. j) = j
        <5>1. 1 \in Int /\ j \in Int
            BY <3>6
        <5>2. IsFiniteSet(1 .. j) /\ Cardinality(1 .. j) = IF 1 > j THEN 0 ELSE j - 1 + 1
            BY <5>1, FS_Interval
        <5> QED BY <3>6, <5>2
      <4> QED BY <4>2, <4>3, FS_Bijection
    <3> QED BY <3>6, <3>12, <3>13 DEF batch, keys
  <2> QED BY <2>4, <2>5
<1>2. ASSUME ListOK(zsl) PROVE TagBatchExact
    BY <1>1, <1>2 DEF TagBatchExact
<1> QED BY <1>2, ListInvariant, PTL

-----------------------------------------------------------------------------
(* The list implements the ordered set *)


(* The cardinality the abstract module takes from FiniteSets is the same.  *)
LEMMA SameCardinality ==
    ASSUME NEW S
    PROVE  Ordered!Cardinality(S) = Cardinality(S)
BY DEF Ordered!Cardinality, Cardinality

(* The rank of the ordered set is the position in the list.                *)
LEMMA RankIsPos ==
    ASSUME ListOK(zsl), NEW m \in Nodes(zsl)
    PROVE  Ordered!Rank(m) = Pos(zsl, m)
<1> DEFINE sc == [n \in Nodes(zsl) |-> zsl.node[n].score]
           after(n) == sc[m] < sc[n] \/ (sc[m] = sc[n] /\ m < n)
<1>1. Sortable(zsl)
    BY ShapeFacts DEF ListOK
<1>2. \A n \in Nodes(zsl) : n \in Nat /\ zsl.node[n].score \in Int
    BY <1>1 DEF Sortable
<1>3. \A n \in Nodes(zsl) : sc[n] = zsl.node[n].score
    OBVIOUS
<1>4. Ordered!Rank(m) = Cardinality({n \in DOMAIN sc : ~after(n)})
    BY SameCardinality DEF Ordered!Rank, Ordered!elems, Ordered!Before
<1>5. \A n \in Nodes(zsl) : ~after(n) <=> n = m \/ Before(zsl, n, zsl.node[m].score, m)
    BY <1>2, <1>3 DEF Before
<1>6. DOMAIN sc = Nodes(zsl)
    OBVIOUS
<1> HIDE DEF sc, after
<1>7. {n \in DOMAIN sc : ~after(n)} = UpTo(zsl, m)
    BY <1>5, <1>6 DEF UpTo
<1> QED BY <1>1, <1>4, <1>7, UpToFacts

(* A range by score that has a node in it has the scores of its first and  *)
(* last node as closed bounds.                                             *)
LEMMA ClosedRange ==
    ASSUME NEW z, ListOK(z), NEW range \in Ranges, NEW r \in Nodes(z),
           m_zslValueGteMin(z.node[r].score, range), m_zslValueLteMax(z.node[r].score, range)
    PROVE  \E min, max \in Scores : \A n \in Nodes(z) :
              (/\ m_zslValueGteMin(z.node[n].score, range)
               /\ m_zslValueLteMax(z.node[n].score, range)) <=> z.node[n].score \in min .. max
<1> DEFINE Gte(n) == m_zslValueGteMin(z.node[n].score, range)
           Lte(n) == m_zslValueLteMax(z.node[n].score, range)
<1>1. /\ \A n \in Nodes(z) : z.node[n].score \in Int /\ z.node[n].score \in Scores
      /\ \A n \in Nodes(z) : Pos(z, n) \in Nat /\ Pos(z, n) >= 1
      /\ NULL \notin Nodes(z) /\ DOMAIN z.node = Nodes(z) \cup {Header} /\ Pos(z, Header) = 0
  <2>1. Sortable(z)
      BY ShapeFacts DEF ListOK
  <2>2. \A n \in Nodes(z) : z.node[n].score \in Int /\ z.node[n].score \in Scores
      BY <2>1 DEF Sortable, ListOK, Shape
  <2> QED BY <2>2, ShapeFacts DEF ListOK
<1>2. range.min \in Int /\ range.max \in Int
    BY SkipListAssumption DEF Ranges
<1>3. \A p, n \in Nodes(z) : /\ z.node[p].score <= z.node[n].score /\ Gte(p) => Gte(n)
                             /\ z.node[p].score <= z.node[n].score /\ Lte(n) => Lte(p)
    BY <1>1, <1>2 DEF m_zslValueGteMin, m_zslValueLteMax
<1>4. zslIsInRange(z, range)
    BY InRangePasses
<1>5. PICK x, y, c, d :
         /\ IsAt(z, c + 1, x) /\ c \in Nat /\ d \in Nat
         /\ \A n \in Nodes(z) : Gte(n) <=> Pos(z, n) > c
         /\ y \in Nodes(z) /\ Pos(z, y) = d
         /\ \A n \in Nodes(z) : Lte(n) <=> Pos(z, n) <= d
         /\ x \in Nodes(z)
    BY <1>4, RangeWalks
<1>6. Gte(r) /\ Lte(r)
    OBVIOUS
<1> HIDE DEF Gte, Lte
<1>7. Pos(z, x) = c + 1 /\ c + 1 <= d
    BY <1>1, <1>5, <1>6 DEF IsAt
<1>8. Gte(x) /\ Lte(x) /\ Gte(y) /\ Lte(y)
    BY <1>1, <1>5, <1>7
<1> DEFINE min == z.node[x].score  max == z.node[y].score
<1>9. min \in Scores /\ max \in Scores /\ min \in Int /\ max \in Int
    BY <1>1, <1>5
<1>10. ASSUME NEW n \in Nodes(z) PROVE (Gte(n) /\ Lte(n)) <=> z.node[n].score \in min .. max
  <2>1. ASSUME Gte(n), Lte(n) PROVE z.node[n].score \in min .. max
    <3>1. Pos(z, x) <= Pos(z, n) /\ Pos(z, n) <= Pos(z, y)
        BY <1>1, <1>5, <1>7, <2>1
    <3>2. min <= z.node[n].score /\ z.node[n].score <= max
        BY <1>5, <3>1, ScoreOrder
    <3> QED BY <1>1, <1>9, <3>2
  <2>2. ASSUME z.node[n].score \in min .. max PROVE Gte(n) /\ Lte(n)
    <3>1. min <= z.node[n].score /\ z.node[n].score <= max
        BY <1>1, <1>9, <2>2
    <3> QED BY <1>3, <1>5, <1>8, <3>1
  <2> QED BY <2>1, <2>2
<1> HIDE DEF min, max
<1> QED BY <1>9, <1>10 DEF Gte, Lte

(* Whatever the chains, levels and spans do, a user of the list sees a set *)
(* ordered by score and member: each operation is the one of the set.      *)
THEOREM ListIsOrderedSet == Spec => IsOrderedSet
<1>1. Init => Ordered!Init
  <2> SUFFICES ASSUME Init PROVE Ordered!Init
      OBVIOUS
  <2>1. Nodes(zsl) = {}
      BY CreateOK DEF Init
  <2>2. [m \in Nodes(zsl) |-> zsl.node[m].score] = [m \in {} |-> 0]
      BY <2>1
  <2> QED BY <2>2 DEF Ordered!Init
<1>2. ASSUME ListOK(zsl), [Next]_zsl
      PROVE  [Ordered!Next]_([m \in Nodes(zsl) |-> zsl.node[m].score])
  <2> DEFINE a == [m \in Nodes(zsl) |-> zsl.node[m].score]
             b == [m \in Nodes(zsl') |-> zsl'.node[m].score]
  <2>1. /\ DOMAIN a = Nodes(zsl) /\ DOMAIN b = Nodes(zsl')
        /\ \A n \in Nodes(zsl) : a[n] = zsl.node[n].score
        /\ \A n \in Nodes(zsl') : b[n] = zsl'.node[n].score
        /\ a = [n \in Nodes(zsl) |-> a[n]] /\ b = [n \in Nodes(zsl') |-> b[n]]
      OBVIOUS
  <2>2. ASSUME NEW S, Becomes(Nodes(zsl) \ S) PROVE b = [m \in DOMAIN a \ S |-> a[m]]
    <3>1. /\ Nodes(zsl') = DOMAIN a \ S
          /\ \A n \in DOMAIN a \ S : b[n] = a[n]
        BY <2>1, <2>2 DEF Becomes
    <3> HIDE DEF a, b
    <3> QED BY <2>1, <3>1
  <2>3. ASSUME NEW m \in Members, NEW s \in Scores, m_zslInsert(s, m) PROVE Ordered!Insert(s, m)
    <3>1. /\ m \notin DOMAIN a /\ Nodes(zsl') = DOMAIN a \cup {m} /\ b[m] = s
          /\ \A n \in DOMAIN a : b[n] = a[n]
        BY <1>2, <2>1, <2>3, InsertEffect DEF Becomes
    <3> HIDE DEF a, b
    <3>2. b = [n \in DOMAIN a \cup {m} |-> IF n = m THEN s ELSE a[n]]
        BY <2>1, <3>1
    <3> QED BY <3>1, <3>2 DEF Ordered!Insert, Ordered!elems, a, b
  <2>4. ASSUME NEW m \in Members, NEW s \in Scores, m_zslDelete(s, m) PROVE Ordered!Delete(s, m)
    <3>1. Becomes(Nodes(zsl) \ {m}) /\ m \in DOMAIN a /\ a[m] = s
        BY <1>2, <2>4, DeleteEffect
    <3>2. b = [n \in DOMAIN a \ {m} |-> a[n]]
        BY <2>2, <3>1
    <3> QED BY <3>1, <3>2 DEF Ordered!Delete, Ordered!elems, Ordered!Without
  <2>5. ASSUME NEW m \in Members, NEW s \in Scores, m_zslUpdateScore(m, s)
        PROVE  Ordered!UpdateScore(m, s)
    <3>1. /\ m \in DOMAIN a /\ Nodes(zsl') = DOMAIN a /\ b[m] = s
          /\ \A n \in DOMAIN a \ {m} : b[n] = a[n]
        BY <1>2, <2>1, <2>5, UpdateEffect
    <3> HIDE DEF a, b
    <3>2. b = [a EXCEPT ![m] = s]
        BY <2>1, <3>1
    <3> QED BY <3>1, <3>2 DEF Ordered!UpdateScore, Ordered!elems, a, b
  <2>6. ASSUME NEW range \in Ranges, m_zslDeleteRangeByScore(range)
        PROVE  b = a \/ \E min, max \in Scores : Ordered!DeleteRangeByScore(min, max)
    <3> DEFINE In(n) == /\ m_zslValueGteMin(zsl.node[n].score, range)
                        /\ m_zslValueLteMax(zsl.node[n].score, range)
               R == {n \in Nodes(zsl) : In(n)}
    <3>1. Becomes(Nodes(zsl) \ R)
      <4>1. Becomes({n \in Nodes(zsl) : ~In(n)})
          BY <1>2, <2>6, ByScoreEffect
      <4>2. {n \in Nodes(zsl) : ~In(n)} = Nodes(zsl) \ R
          OBVIOUS
      <4> QED BY <4>1, <4>2
    <3>2. b = [n \in DOMAIN a \ R |-> a[n]]
        BY <2>2, <3>1
    <3>3. CASE R = {}
      <4> HIDE DEF a, b, R
      <4>1. DOMAIN a \ R = DOMAIN a
          BY <3>3
      <4> QED BY <2>1, <3>2, <4>1
    <3>4. CASE R # {}
      <4>1. PICK r \in Nodes(zsl) : In(r)
          BY <3>4
      <4>2. PICK min \in Scores, max \in Scores :
               \A n \in Nodes(zsl) : In(n) <=> zsl.node[n].score \in min .. max
          BY <1>2, <4>1, ClosedRange
      <4>3. R = {n \in DOMAIN a : a[n] \in min .. max}
          BY <2>1, <4>2
      <4> HIDE DEF R
      <4>4. Ordered!DeleteRangeByScore(min, max)
          BY <3>2, <4>3 DEF Ordered!DeleteRangeByScore, Ordered!elems, Ordered!Without
      <4> QED BY <4>4
    <3> QED BY <3>3, <3>4
  <2>7. ASSUME NEW start \in 1 .. Cardinality(Members), NEW end \in 1 .. Cardinality(Members),
               m_zslDeleteRangeByRank(start, end)
        PROVE  Ordered!DeleteRangeByRank(start, end)
    <3> DEFINE R == {n \in DOMAIN a : Ordered!Rank(n) \in start .. end}
    <3>1. Becomes({n \in Nodes(zsl) : Pos(zsl, n) \notin start .. end})
        BY <1>2, <2>7, ByRankEffect
    <3>2. \A n \in Nodes(zsl) : Ordered!Rank(n) = Pos(zsl, n)
        BY <1>2, RankIsPos
    <3>3. {n \in Nodes(zsl) : Pos(zsl, n) \notin start .. end} = Nodes(zsl) \ R
        BY <2>1, <3>2
    <3>4. b = [n \in DOMAIN a \ R |-> a[n]]
      <4>1. Becomes(Nodes(zsl) \ R)
          BY <3>1, <3>3
      <4> QED BY <2>2, <4>1
    <3> QED BY <3>4 DEF Ordered!DeleteRangeByRank, Ordered!elems, Ordered!Without
  <2>8. ASSUME m_zslFree PROVE Ordered!Clear
    <3>1. Nodes(zsl') = {}
        BY <2>8, FreeEffect DEF Becomes
    <3>2. b = [m \in {} |-> 0]
        BY <3>1
    <3> QED BY <3>2 DEF Ordered!Clear
  <2>9. CASE Next
    <3>1. Ordered!Next \/ b = a
        BY <2>3, <2>4, <2>5, <2>6, <2>7, <2>8, <2>9, SameCardinality DEF Next, Ordered!Next
    <3> QED BY <3>1
  <2>10. CASE UNCHANGED zsl
      BY <2>10
  <2> QED BY <1>2, <2>9, <2>10
<1> QED BY <1>1, <1>2, ListInvariant, PTL DEF Spec, IsOrderedSet, Ordered!Spec
=============================================================================
