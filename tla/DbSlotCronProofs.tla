--------------------------- MODULE DbSlotCronProofs ---------------------------
(***************************************************************************)
(* Proofs about DbSlotCron for any number of databases and slots and any   *)
(* budget per call: the cursors never leave the tables they index.         *)
(***************************************************************************)
EXTENDS DbSlotCron, FiniteSetTheorems, TLAPS

(* A cursor taken modulo the size of its table is an index of the table.   *)
LEMMA ModInRange ==
    ASSUME NEW x \in Nat, NEW n \in Nat \ {0}
    PROVE  x % n \in 0 .. n - 1
OBVIOUS

(* The budgets of a call are positive.                                     *)
LEMMA Budgets ==
    /\ dbs_per_call \in Nat \ {0}
    /\ db_slots_per_call \in Nat \ {0}
    /\ dbs_per_call * db_slots_per_call \in Nat
    /\ databases * hash_slots_size \in Nat
BY CronAssumption DEF dbs_per_call, db_slots_per_call, Least

(* The dicts that the two loops visit exist.                               *)
LEMMA VisitsExist ==
    ASSUME TypeOK
    PROVE  /\ ResizeVisits \subseteq Tables
           /\ Resized \subseteq sparse
           /\ \A n \in Nat : RehashVisit(n) \in Tables
<1> USE CronAssumption
<1>1. resize_db \in Nat /\ resize_db_slot \in Nat /\ rehash_db \in Nat
    BY DEF TypeOK, Dbs, Slots
<1>2. ASSUME NEW i \in 0 .. dbs_per_call - 1, NEW j \in 0 .. db_slots_per_call - 1
      PROVE  <<(resize_db + i) % databases,
               (resize_db_slot + i * db_slots_per_call + j) % hash_slots_size>> \in Tables
  <2>1. i \in Nat /\ j \in Nat /\ i * db_slots_per_call \in Nat /\ resize_db + i \in Nat
      BY <1>1, Budgets
  <2>2. (resize_db + i) % databases \in Dbs
      BY <2>1, ModInRange DEF Dbs
  <2>3. resize_db_slot + i * db_slots_per_call + j \in Nat
      BY <1>1, <2>1
  <2>4. (resize_db_slot + i * db_slots_per_call + j) % hash_slots_size \in Slots
      BY <2>3, ModInRange DEF Slots
  <2> QED BY <2>2, <2>4 DEF Tables
<1>3. ResizeVisits \subseteq Tables
    BY <1>2 DEF ResizeVisits
<1>4. ASSUME NEW n \in Nat PROVE RehashVisit(n) \in Tables
  <2>0. rehash_db + n \in Nat
      BY <1>1
  <2>1. (rehash_db + n) % databases \in Dbs
      BY <2>0, ModInRange DEF Dbs
  <2>2. n % hash_slots_size \in Slots
      BY ModInRange DEF Slots
  <2> QED BY <2>1, <2>2 DEF RehashVisit, Tables
<1> QED BY <1>3, <1>4 DEF Resized

(* What a call has started is again a number of rounds.                    *)
LEMMA StartedInRange ==
    ASSUME TypeOK
    PROVE  [t \in Tables |-> Started(t)] \in [Tables -> 0 .. RehashWork]
BY CronAssumption DEF TypeOK, Started

(* The resize half of a call.                                              *)
LEMMA AfterResizeType ==
    ASSUME TypeOK, AfterResize
    PROVE  sparse' \subseteq Tables /\ resize_db' \in Dbs /\ resize_db_slot' \in Slots
<1> USE CronAssumption
<1>1. resize_db + dbs_per_call \in Nat
    BY Budgets DEF TypeOK, Dbs
<1>2. resize_db_slot + dbs_per_call * db_slots_per_call \in Nat
    BY Budgets DEF TypeOK, Slots
<1>3. resize_db' \in Dbs
    BY <1>1, ModInRange DEF AfterResize, Advance, Dbs
<1>4. resize_db_slot' \in Slots
    BY <1>2, ModInRange DEF AfterResize, Advance, Slots
<1> QED BY <1>3, <1>4 DEF AfterResize, TypeOK

(* One call of dbSlotCron leaves work and rehash cursor in their ranges,   *)
(* whether a dict was found or the loops ran to their end.                 *)
LEMMA CronLoopEffect ==
    ASSUME TypeOK, CronLoop
    PROVE  /\ todo' \in [Tables -> 0 .. RehashWork]
           /\ rehash_db' \in Dbs
<1> USE CronAssumption
<1> DEFINE hits == {n \in 0 .. databases * hash_slots_size - 1 :
                       Started(RehashVisit(n)) > 0}
<1>1. rehash_db \in Nat /\ \A n \in hits : n \in Nat
    BY Budgets DEF TypeOK, Dbs
<1>2. [t \in Tables |-> Started(t)] \in [Tables -> 0 .. RehashWork]
    BY StartedInRange
<1>3. CASE /\ hits = {}
           /\ todo' = [t \in Tables |-> Started(t)]
           /\ rehash_db' = (rehash_db + databases * hash_slots_size) % databases
  <2>1. rehash_db + databases * hash_slots_size \in Nat
      BY <1>1, Budgets
  <2>2. rehash_db' \in Dbs
      BY <1>3, <2>1, ModInRange DEF Dbs
  <2> QED BY <1>2, <1>3, <2>2
<1>4. ASSUME NEW n \in hits,
             NEW left \in 0 .. Started(RehashVisit(n)) - 1,
             todo' = [t \in Tables |-> IF t = RehashVisit(n) THEN left ELSE Started(t)],
             rehash_db' = (rehash_db + n) % databases
      PROVE  /\ todo' \in [Tables -> 0 .. RehashWork]
             /\ rehash_db' \in Dbs
  <2>0. rehash_db + n \in Nat
      BY <1>1
  <2>1. rehash_db' \in Dbs
      BY <1>4, <2>0, ModInRange DEF Dbs
  <2>2. RehashVisit(n) \in Tables
      BY <1>1, VisitsExist
  <2>3. left \in 0 .. RehashWork
      BY <1>2, <2>2
  <2> QED BY <1>2, <1>4, <2>1, <2>2, <2>3
<1> QED BY <1>3, <1>4 DEF CronLoop

(* Clients.                                                                *)
LEMMA ClientType ==
    ASSUME TypeOK, NEW t \in Tables, Grow(t) \/ Shrink(t) \/ Access(t)
    PROVE  TypeOK'
<1> USE CronAssumption
<1>1. CASE Grow(t)
    BY <1>1 DEF Grow, Op, TypeOK, cursors
<1>2. CASE Shrink(t)
    BY <1>2 DEF Shrink, Op, TypeOK, cursors
<1>3. CASE Access(t)
    BY <1>3 DEF Access, Op, dictIsRehashing, TypeOK, cursors
<1> QED BY <1>1, <1>2, <1>3

(* Every step keeps the types.                                             *)
LEMMA NextType == TypeOK /\ [Next]_vars => TypeOK'
<1> SUFFICES ASSUME TypeOK, [Next]_vars PROVE TypeOK'
    OBVIOUS
<1>1. CASE UNCHANGED vars
    BY <1>1 DEF vars, cursors, TypeOK
<1>2. CASE CronWithChild
    BY <1>2, AfterResizeType, StartedInRange DEF CronWithChild, TypeOK
<1>3. CASE CronLoop
  <2>1. AfterResize /\ ops' = ops
      BY <1>3 DEF CronLoop
  <2> QED BY <1>3, <2>1, AfterResizeType, CronLoopEffect DEF TypeOK
<1> QED BY <1>1, <1>2, <1>3, ClientType DEF Next

(* dbSlotCron's three static cursors: for any number of databases and      *)
(* slots, and whatever budget per call the macros give, no call indexes a  *)
(* dict outside slotkey_tables.                                            *)
THEOREM CursorsInRange == Spec => []TypeOK
<1>1. Init => TypeOK
    BY CronAssumption DEF Init, TypeOK, Dbs, Slots
<1> QED BY <1>1, NextType, PTL DEF Spec

=============================================================================
