----------------------------- MODULE MCSkipList -----------------------------
(***************************************************************************)
(* Four members, two scores and three levels: a level can be given up and  *)
(* taken into use again with another length, and a removed node can have   *)
(* neighbours of its own, of a lower and of a greater height.              *)
(***************************************************************************)
EXTENDS SkipList

MCMembers == 1 .. 4
MCScores  == 1 .. 2
=============================================================================
