------------------------------- MODULE KeySet -------------------------------
(***************************************************************************)
(* What the users of dep/dict.c rely on: a set of keys that changes by one *)
(* key at a time, or is emptied.  How the entries are spread over tables   *)
(* and buckets, and when they are moved, is not visible.  Dict implements  *)
(* this specification.                                                     *)
(***************************************************************************)
CONSTANT Keys

VARIABLE elems   \* the keys of the set

Init == elems = {}

Add(k) == k \notin elems /\ elems' = elems \cup {k}

Remove(k) == k \in elems /\ elems' = elems \ {k}

Clear == elems' = {}

Next ==
    \/ \E k \in Keys : Add(k) \/ Remove(k)
    \/ Clear

Spec == Init /\ [][Next]_elems
=============================================================================
