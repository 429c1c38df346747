----------------------------- MODULE KeyHandoff -----------------------------
(***************************************************************************)
(* What a migration promises to the users of a key: its latest value is on *)
(* the source, then on both servers, then on the destination, and at no    *)
(* moment on neither.  It leaves the source only when the destination has  *)
(* it, and does not come back.  Batches, chunks, connections and errors    *)
(* are not visible.  Migrate implements this specification.                *)
(***************************************************************************)
CONSTANT Keys

VARIABLE place   \* [Keys -> where the latest value of a key is]

Places == {"none", "source", "both", "destination"}

Init == place = [k \in Keys |-> "source"]

Becomes(k, p) == place' = [place EXCEPT ![k] = p]

(* A write on the source makes a copy on the destination an old one.       *)
Write(k) == place[k] \in {"none", "source", "both"} /\ Becomes(k, "source")

(* A key that was deleted on the source, and of which a failed migration   *)
(* had left a copy, may be written on the destination.                     *)
WriteThere(k) == place[k] = "none" /\ Becomes(k, "destination")

Delete(k) == place[k] \in {"source", "both"} /\ Becomes(k, "none")

Copy(k) == place[k] = "source" /\ Becomes(k, "both")

Drop(k) == place[k] = "both" /\ Becomes(k, "destination")

Next == \E k \in Keys :
            Write(k) \/ WriteThere(k) \/ Delete(k) \/ Copy(k) \/ Drop(k)

Spec == Init /\ [][Next]_place
=============================================================================
