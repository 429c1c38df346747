----------------------------- MODULE OrderedSet -----------------------------
(***************************************************************************)
(* What the users of dep/skiplist.c rely on: a set of members with scores, *)
(* ordered by score and then by member.  The chains, levels and spans that *)
(* make it fast are not visible.  SkipList implements this specification.  *)
(***************************************************************************)
EXTENDS Integers, FiniteSets

CONSTANTS Members, Scores

VARIABLE scores   \* [the members of the set -> Scores]

elems == DOMAIN scores

(* m comes before the place of member n with score s.                      *)
Before(m, s, n) == scores[m] < s \/ (scores[m] = s /\ m < n)

(* The number of elements up to and including m                            *)
Rank(m) == Cardinality({n \in elems : ~Before(m, scores[n], n)})

Without(S) == [m \in elems \ S |-> scores[m]]

Init == scores = [m \in {} |-> 0]

Insert(s, m) ==
    /\ m \notin elems
    /\ scores' = [n \in elems \cup {m} |-> IF n = m THEN s ELSE scores[n]]

Delete(s, m) == m \in elems /\ scores[m] = s /\ scores' = Without({m})

UpdateScore(m, s) == m \in elems /\ scores' = [scores EXCEPT ![m] = s]

DeleteRangeByScore(min, max) ==
    scores' = Without({m \in elems : scores[m] \in min .. max})

DeleteRangeByRank(start, end) ==
    scores' = Without({m \in elems : Rank(m) \in start .. end})

Clear == scores' = [m \in {} |-> 0]

Next ==
    \/ \E m \in Members, s \in Scores :
          Insert(s, m) \/ Delete(s, m) \/ UpdateScore(m, s)
    \/ \E min, max \in Scores : DeleteRangeByScore(min, max)
    \/ \E start, end \in 1 .. Cardinality(Members) :
          DeleteRangeByRank(start, end)
    \/ Clear

Spec == Init /\ [][Next]_scores
=============================================================================
