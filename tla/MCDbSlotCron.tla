----------------------------- MODULE MCDbSlotCron -----------------------------
(* Instances of DbSlotCron for TLC: the sizes are in the .cfg files.       *)
EXTENDS DbSlotCron
=============================================================================
