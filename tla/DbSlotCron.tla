------------------------------ MODULE DbSlotCron ------------------------------
(***************************************************************************)
(* The cron job that keeps the dicts of the slot index compact: dbSlotCron *)
(* in module.c, run by CronLoopCallback from Redis' serverCron.  Each call *)
(* first offers a bounded number of dicts to htNeedsResize and then gives  *)
(* one rehashing dict a millisecond of work.  Three static cursors carry   *)
(* the position from one call to the next.                                 *)
(*                                                                         *)
(* A dict is reduced to two facts: whether it is so empty that it should   *)
(* be resized, and how much of a started rehash is left to do.             *)
(*                                                                         *)
(* NotWrapped, Stuck and SameDb are plausible mistakes: each is a wrong    *)
(* form of a definition that follows, which a property must refute (the    *)
(* mutants of PROJECT.json).                                               *)
(***************************************************************************)
EXTENDS Naturals, FiniteSets

CONSTANTS
    databases, hash_slots_size,
    CRON_DBS_PER_CALL, CRON_DB_SLOTS_PER_CALL,
    RehashWork,   \* rounds of rehashing a resized dict needs
    MaxOps        \* bound on the number of client operations

ASSUME CronAssumption ==
    /\ {databases, hash_slots_size, CRON_DBS_PER_CALL, CRON_DB_SLOTS_PER_CALL,
        RehashWork} \subseteq Nat \ {0}
    /\ MaxOps \in Nat

Dbs    == 0 .. databases - 1
Slots  == 0 .. hash_slots_size - 1
Tables == Dbs \X Slots

VARIABLES
    sparse,     \* the dicts below HASHTABLE_MIN_FILL
    todo,       \* [Tables -> 0 .. RehashWork]: rehashing while > 0
    resize_db, resize_db_slot, rehash_db,   \* statics of dbSlotCron
    ops         \* number of client operations so far

cursors == <<resize_db, resize_db_slot, rehash_db>>
vars == <<sparse, todo, cursors, ops>>

dictIsRehashing(t) == todo[t] > 0

Init ==
    /\ sparse = {}
    /\ todo = [t \in Tables |-> 0]
    /\ resize_db = 0 /\ resize_db_slot = 0 /\ rehash_db = 0
    /\ ops = 0

-----------------------------------------------------------------------------
(* Clients: a write that makes the dict grow starts a rehash, deletions    *)
(* make it sparse, and any access to a rehashing dict does one round.      *)

Op == ops < MaxOps /\ ops' = ops + 1

Grow(t) ==
    /\ Op /\ ~dictIsRehashing(t)
    /\ todo' = [todo EXCEPT ![t] = RehashWork]
    /\ sparse' = sparse \ {t}
    /\ UNCHANGED cursors

Shrink(t) ==
    /\ Op /\ t \notin sparse
    /\ sparse' = sparse \cup {t}
    /\ UNCHANGED <<todo, cursors>>

Access(t) ==
    /\ Op /\ dictIsRehashing(t)
    /\ todo' = [todo EXCEPT ![t] = @ - 1]
    /\ UNCHANGED <<sparse, cursors>>

-----------------------------------------------------------------------------
Least(x, y) == IF x < y THEN x ELSE y
dbs_per_call      == Least(CRON_DBS_PER_CALL, databases)
db_slots_per_call == Least(CRON_DB_SLOTS_PER_CALL, hash_slots_size)

(* The dicts the resize loops visit: for each of dbs_per_call databases    *)
(* the next db_slots_per_call slots.  The slot cursor goes on from one     *)
(* database to the next.                                                   *)
ResizeVisits ==
    {<<(resize_db + i) % databases,
       (resize_db_slot + i * db_slots_per_call + j) % hash_slots_size>> :
       i \in 0 .. dbs_per_call - 1, j \in 0 .. db_slots_per_call - 1}

(* tryResizeDbSlotHashTables: m_dictResize refuses a rehashing dict.       *)
Resized == {t \in ResizeVisits : t \in sparse /\ ~dictIsRehashing(t)}

NotWrapped(cursor, n, size) == cursor + n
Stuck(cursor, n, size) == cursor

Advance(cursor, n, size) == (cursor + n) % size

AfterResize ==
    /\ sparse' = sparse \ Resized
    /\ resize_db' = Advance(resize_db, dbs_per_call, databases)
    /\ resize_db_slot' = Advance(resize_db_slot, dbs_per_call * db_slots_per_call,
                                 hash_slots_size)

Started(t) == IF t \in Resized THEN RehashWork ELSE todo[t]

SameDb(n) == <<rehash_db, n % hash_slots_size>>

(* The n-th dict of the rehash loops: rehash_db advances with every slot.  *)
RehashVisit(n) == <<(rehash_db + n) % databases, n % hash_slots_size>>

(* No active rehashing, or Redis has a child process: return before it.    *)
CronWithChild ==
    /\ AfterResize
    /\ todo' = [t \in Tables |-> Started(t)]
    /\ UNCHANGED <<rehash_db, ops>>

(* incrementallyDbSlotRehash on one dict after the other; the first one    *)
(* that is rehashing gets its millisecond - at least one round - and ends  *)
(* the call with rehash_db left at its database.                           *)
CronLoop ==
    LET hits == {n \in 0 .. databases * hash_slots_size - 1 :
                    Started(RehashVisit(n)) > 0}
    IN  /\ AfterResize
        /\ \/ /\ hits = {}
              /\ todo' = [t \in Tables |-> Started(t)]
              /\ rehash_db' = (rehash_db + databases * hash_slots_size) % databases
           \/ \E n \in hits :
              /\ \A i \in hits : n <= i
              /\ \E left \in 0 .. Started(RehashVisit(n)) - 1 :
                    todo' = [t \in Tables |-> IF t = RehashVisit(n) THEN left
                                              ELSE Started(t)]
              /\ rehash_db' = (rehash_db + n) % databases
        /\ UNCHANGED ops

-----------------------------------------------------------------------------
Next ==
    \/ \E t \in Tables : Grow(t) \/ Shrink(t) \/ Access(t)
    \/ CronWithChild
    \/ CronLoop

(* serverCron runs hz times a second, and a child process ends some day.   *)
Spec == Init /\ [][Next]_vars /\ WF_vars(CronLoop)

-----------------------------------------------------------------------------
(* The type of every variable; the cursors are in range.                   *)
TypeOK ==
    /\ sparse \subseteq Tables
    /\ todo \in [Tables -> 0 .. RehashWork]
    /\ resize_db \in Dbs /\ resize_db_slot \in Slots /\ rehash_db \in Dbs
    /\ ops \in 0 .. MaxOps

(* incrementallyDbSlotRehash: "if the server is idle, the hash table will  *)
(* use two tables for a long time", so the cron job finishes every rehash  *)
(* even if no client touches the dict again.                               *)
RehashFinishes == \A t \in Tables : dictIsRehashing(t) ~> ~dictIsRehashing(t)

(* tryResizeDbSlotHashTables: a dict that has become nearly empty is       *)
(* resized sooner or later "to save memory", whichever slot it belongs to. *)
SparseIsResized == \A t \in Tables : t \in sparse ~> t \notin sparse
=============================================================================
