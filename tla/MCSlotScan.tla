----------------------------- MODULE MCSlotScan -----------------------------
(***************************************************************************)
(* Four keys and tables of 2, 4 and 8 buckets.  In the smallest table k1,  *)
(* k2 and k4 share a bucket, in the biggest one all keys are apart;        *)
(* writing an existing key is enough to grow, deleting one to shrink.      *)
(***************************************************************************)
EXTENDS SlotScan, TLC

CONSTANTS k1, k2, k3, k4

MCKeys == {k1, k2, k3, k4}
MCHash == (k1 :> 0) @@ (k2 :> 4) @@ (k3 :> 1) @@ (k4 :> 6)
=============================================================================
