---------------------------- MODULE MCMoverThread ----------------------------
(***************************************************************************)
(* Two clients whose commands overlap: one migrates or deletes keys, with  *)
(* or without a worker that may get two chunks one after the other, the    *)
(* other one restores keys of the same slot.                               *)
(***************************************************************************)
EXTENDS MoverThread

CONSTANTS c1, c2

MCClients == {c1, c2}

MCCommands ==
    [c \in MCClients |-> IF c = c1 THEN AllCommands \ {"slotsrestore"}
                                   ELSE {"slotsrestore"}]
=============================================================================
