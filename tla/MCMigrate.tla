------------------------------ MODULE MCMigrate ------------------------------
(***************************************************************************)
(* Instances of Migrate for TLC.  a, b and d have one tag, c has none.     *)
(* The limit of a chunk is one object: a batch of three is cut after the   *)
(* second object, because the size is looked at before an object is added. *)
(***************************************************************************)
EXTENDS Migrate

CONSTANTS a, b, c, d, tag

FourKeys  == {a, b, c, d}
ThreeKeys == {a, b, d}
TwoKeys   == {a, b}

MCTag  == [k \in Keys |-> IF k = c THEN NoTag ELSE tag]
MCSize == [k \in Keys |-> 1]

NoTTL    == {0}
SomeTTL  == {0, 1}

SyncFaults  == {"dump_err", "connect", "lost_request", "lost_reply",
                "restore_err", "unlink_null"}
LateFaults  == SyncFaults \cup {"late"}
AsyncFaults == {"dump_err", "connect", "lost_request", "lost_reply", "late",
                "unlink_err", "unlink_null", "dump_null", "pttl_null"}
ExpiryFaults == AllFaults \ {"unlink_err"}
=============================================================================
