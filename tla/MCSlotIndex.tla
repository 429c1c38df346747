----------------------------- MODULE MCSlotIndex -----------------------------
(***************************************************************************)
(* The instance of SlotIndex for TLC: t1 is tagged, u1 is not, and they    *)
(* have different slots.                                                   *)
(***************************************************************************)
EXTENDS SlotIndex, TLC

CONSTANTS t1, u1, w1

MCThreads  == {w1}
MCObjects  == {<<0, t1>>}
MCKeys     == {t1, u1}
MCTagged   == {t1}
MCSlotsNum == [k \in MCKeys |-> IF k = u1 THEN 1 ELSE 0]
=============================================================================
