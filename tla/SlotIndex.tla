------------------------------ MODULE SlotIndex ------------------------------
(***************************************************************************)
(* The slot index of RedisXSlot: for every database one dict of keys per   *)
(* slot (slotkey_tables) and one skiplist of the tagged keys               *)
(* (tagged_key_list).  The module has no access to the keyspace itself; it *)
(* learns of changes only through keyspace notifications, which Redis      *)
(* delivers synchronously on the thread that holds the GIL, one callback   *)
(* per event, in the order the command raises them.                        *)
(*                                                                         *)
(* Slots_Add and Slots_Del change the dict and the skiplist in two         *)
(* critical sections under two different locks, so the asynchronous        *)
(* migration threads can observe the state in between: each half is a step *)
(* of its own here.                                                        *)
(*                                                                         *)
(* NotifyUnchecked, TypedOnly, FromNotKept, ClearTarget, KeyNotReset and   *)
(* AddedAgain are plausible mistakes: each is a wrong form of the          *)
(* definition that follows it, which a property must refute (the mutants   *)
(* of PROJECT.json).                                                       *)
(***************************************************************************)
EXTENDS Naturals, Sequences

CONSTANTS
    Keys,             \* key names
    TaggedKeys,       \* the keys with a {tag}: hastag of slots_num
    databases,        \* number of databases
    hash_slots_size,  \* number of slots
    slots_num,        \* the slot of a key, a function on Keys
    NoKey,            \* the NULL pointer, for from_key and to_key
    Commands,         \* the commands clients use, a subset of AllCommands
    RestoreThreads,   \* the threads of SLOTSRESTORE in asynchronous mode
    AsyncObjects,     \* bound: the <<db, key>> such commands restore
    MaxRestarts,      \* bound on the number of server restarts
    MaxForeign,       \* bound on the foreign commands between two restarts
    MaxOpenRestarts   \* bound: restarts up to which these and asynchronous restores come

Dbs   == 0 .. databases - 1
Slots == 0 .. hash_slots_size - 1

(* Commands whose events the module handles, and the ones it does not.     *)
HandledCommands == {"write", "pop", "lmove", "del", "expired", "touch",
                    "rename", "move", "flushdb", "flushall", "slotsrestore",
                    "slotsrestore_async", "save", "restart"}
ForeignCommands == {"restore", "copy", "module_load", "evict", "swapdb"}
AllCommands     == HandledCommands \cup ForeignCommands

ASSUME IndexAssumption ==
    /\ databases \in Nat \ {0}
    /\ hash_slots_size \in Nat \ {0}
    /\ TaggedKeys \subseteq Keys
    /\ slots_num \in [Keys -> Slots]
    /\ NoKey \notin Keys
    /\ Commands \subseteq AllCommands
    /\ AsyncObjects \subseteq Dbs \X Keys
    /\ MaxRestarts \in Nat /\ MaxForeign \in Nat /\ MaxOpenRestarts \in Nat

VARIABLES
    keyspace,         \* [Dbs -> SUBSET Keys]: the keys Redis holds (external)
    rdb,              \* [Dbs -> SUBSET Keys]: the keys of the last RDB (external)
    unloaded,         \* keys of the RDB still to be loaded, as <<db, key>>
    restarts,         \* number of restarts so far
    foreign,          \* foreign commands since the server started (history)
    restored,         \* <<thread, db, key>>: restored, not notified yet
    slotkey_tables,   \* [Dbs -> [Slots -> SUBSET Keys]]: dicts of a slot
    tagged_key_list,  \* [Dbs -> [Keys -> Nat]]: nodes of a key in the skiplist
    events,           \* notifications the current command has still to deliver
    calls,            \* Slots_Add / Slots_Del calls of the running callback
    zsl,              \* the call whose skiplist half is still to come, or NoCall
    in_pair,          \* the running callback is past line 920 for a pair event
    from_key, to_key, from_dbid, to_dbid, cmd_flag \* statics of the callback

server    == <<keyspace, rdb, unloaded, restarts, foreign, restored>>
index     == <<slotkey_tables, tagged_key_list>>
progress  == <<calls, zsl, in_pair>>
pair_stat == <<from_key, to_key, from_dbid, to_dbid, cmd_flag>>
vars == <<server, index, events, progress, pair_stat>>

CMD_NONE   == "CMD_NONE"
CMD_RENAME == "CMD_RENAME"
CMD_MOVE   == "CMD_MOVE"

(* "typed" stands for any event of the HASH, SET, STRING, LIST and ZSET    *)
(* classes, "other" for the generic events the callback does not name      *)
(* (restore, copy_to, expire, persist, ...).                               *)
TypeChangeEvents == {"typed", "loaded"}
GenericEvents    == {"del", "expired", "rename_from", "rename_to",
                     "move_from", "move_to", "other"}

Event == [name : TypeChangeEvents \cup GenericEvents, db : Dbs, key : Keys]
Call  == [op : {"add", "del"}, db : Dbs, key : Keys]
NoCall == [op |-> "none"]

Ev(n, d, k)   == [name |-> n, db |-> d, key |-> k]
Do(o, d, k)   == [op |-> o, db |-> d, key |-> k]

hastag(k)  == k \in TaggedKeys
Indexed(d) == UNION {slotkey_tables[d][s] : s \in Slots}

EmptyTables == [d \in Dbs |-> [s \in Slots |-> {}]]
EmptyList   == [d \in Dbs |-> [k \in Keys |-> 0]]
EmptyDbs    == [d \in Dbs |-> {}]

(* No callback is running, no event is pending.                            *)
CallbackDone == calls = <<>> /\ zsl = NoCall /\ ~in_pair
Idle == events = <<>> /\ CallbackDone

-----------------------------------------------------------------------------
Slots_Init ==
    /\ slotkey_tables = EmptyTables
    /\ tagged_key_list = EmptyList

Init ==
    /\ Slots_Init
    /\ keyspace = EmptyDbs /\ rdb = EmptyDbs
    /\ unloaded = {} /\ restarts = 0 /\ foreign = 0 /\ restored = {}
    /\ events = <<>> /\ calls = <<>> /\ zsl = NoCall /\ in_pair = FALSE
    /\ from_key = NoKey /\ to_key = NoKey /\ from_dbid = 0 /\ to_dbid = 0
    /\ cmd_flag = CMD_NONE

-----------------------------------------------------------------------------
(* Redis (external): a command changes the keyspace and raises its events. *)
(* The events are those the callbacks of module.c rely on.                 *)

CanRun(c) ==
    /\ c \in Commands /\ Idle /\ unloaded = {}
    /\ c \in ForeignCommands => foreign < MaxForeign /\ restarts <= MaxOpenRestarts

Raise(c, ks, evs) ==
    /\ CanRun(c)
    /\ keyspace' = ks
    /\ events' = evs
    /\ foreign' = IF c \in ForeignCommands THEN foreign + 1 ELSE foreign
    /\ UNCHANGED <<rdb, unloaded, restarts, index, progress, pair_stat>>

Command(c, ks, evs) == Raise(c, ks, evs) /\ UNCHANGED restored

(* Any write of a string, list, hash, set or sorted set.                   *)
Write(d, k) ==
    Command("write", [keyspace EXCEPT ![d] = @ \cup {k}],
            <<Ev("typed", d, k)>>)

(* Removing the last element deletes the key: LPOP, SREM, HDEL, ...        *)
Pop(d, k) ==
    /\ k \in keyspace[d]
    /\ Command("pop", [keyspace EXCEPT ![d] = @ \ {k}],
               <<Ev("typed", d, k), Ev("del", d, k)>>)

(* RPOPLPUSH of the only element.                                          *)
LMove(d, k, j) ==
    /\ k \in keyspace[d] /\ j # k
    /\ Command("lmove", [keyspace EXCEPT ![d] = (@ \ {k}) \cup {j}],
               <<Ev("typed", d, j), Ev("typed", d, k), Ev("del", d, k)>>)

Del(d, k) ==
    /\ k \in keyspace[d]
    /\ Command("del", [keyspace EXCEPT ![d] = @ \ {k}], <<Ev("del", d, k)>>)

Expired(d, k) ==
    /\ k \in keyspace[d]
    /\ Command("expired", [keyspace EXCEPT ![d] = @ \ {k}],
               <<Ev("expired", d, k)>>)

(* EXPIRE, PERSIST: a generic event the callback does not name.            *)
Touch(d, k) ==
    /\ k \in keyspace[d]
    /\ Command("touch", keyspace, <<Ev("other", d, k)>>)

(* RENAME overwrites its target without a del event for it.                *)
Rename(d, k, j) ==
    /\ k \in keyspace[d] /\ j # k
    /\ Command("rename", [keyspace EXCEPT ![d] = (@ \ {k}) \cup {j}],
               <<Ev("rename_from", d, k), Ev("rename_to", d, j)>>)

Move(d, e, k) ==
    /\ d # e /\ k \in keyspace[d] /\ k \notin keyspace[e]
    /\ Command("move",
               [keyspace EXCEPT ![d] = @ \ {k}, ![e] = @ \cup {k}],
               <<Ev("move_from", d, k), Ev("move_to", e, k)>>)

(* RESTORE ... REPLACE followed by notifyOne: the destination's handling   *)
(* of one object of SLOTSRESTORE, in a synchronous server.                 *)
SlotsRestore(d, k) ==
    Command("slotsrestore", [keyspace EXCEPT ![d] = @ \cup {k}],
            <<Ev("other", d, k), Ev("typed", d, k)>>)

(* In an asynchronous server a thread of SLOTSRESTORE lets go of the GIL   *)
(* between the RESTORE and notifyOne, and each client may run a command.   *)
RestoreOneWithReplace(w, d, k) ==
    /\ <<d, k>> \in AsyncObjects /\ restarts <= MaxOpenRestarts
    /\ \A r \in restored : r[1] # w
    /\ Raise("slotsrestore_async", [keyspace EXCEPT ![d] = @ \cup {k}],
             <<Ev("other", d, k)>>)
    /\ restored' = restored \cup {<<w, d, k>>}

NotifyUnchecked(d, k) == <<Ev("typed", d, k)>>

(* notifyOne opens the key anew: only a key that is still there has a type *)
(* to be notified.                                                         *)
TypeEvents(d, k) == IF k \in keyspace[d] THEN <<Ev("typed", d, k)>> ELSE <<>>

NotifyOne(w, d, k) ==
    /\ <<w, d, k>> \in restored
    /\ Raise("slotsrestore_async", keyspace, TypeEvents(d, k))
    /\ restored' = restored \ {<<w, d, k>>}

(* RESTORE and COPY by a client raise only generic events the callback     *)
(* ignores; eviction and SWAPDB raise none the module subscribes to.       *)
Restore(d, k) ==
    Command("restore", [keyspace EXCEPT ![d] = @ \cup {k}],
            <<Ev("other", d, k)>>)

Copy(d, k, j) ==
    /\ k \in keyspace[d] /\ j # k
    /\ Command("copy", [keyspace EXCEPT ![d] = @ \cup {j}],
               <<Ev("other", d, j)>>)

Evict(d, k) ==
    /\ k \in keyspace[d]
    /\ Command("evict", [keyspace EXCEPT ![d] = @ \ {k}], <<>>)

SwapDb(d, e) ==
    /\ d # e
    /\ Command("swapdb",
               [keyspace EXCEPT ![d] = keyspace[e], ![e] = keyspace[d]], <<>>)

(* FLUSHDB (dbnum = d) and FLUSHALL (dbnum = -1): the START event runs     *)
(* FlushdbCallback, then Redis empties the databases F.                    *)
FlushdbCallback(F) ==
    /\ slotkey_tables' = [d \in Dbs |-> IF d \in F THEN EmptyTables[d]
                                        ELSE slotkey_tables[d]]
    /\ tagged_key_list' = [d \in Dbs |-> IF d \in F THEN EmptyList[d]
                                         ELSE tagged_key_list[d]]

Flush(c, F) ==
    /\ CanRun(c)
    /\ keyspace' = [d \in Dbs |-> IF d \in F THEN {} ELSE keyspace[d]]
    /\ FlushdbCallback(F)
    /\ UNCHANGED <<rdb, unloaded, restarts, foreign, restored, events,
                   progress, pair_stat>>

Save ==
    /\ CanRun("save")
    /\ rdb' = keyspace
    /\ UNCHANGED <<keyspace, unloaded, restarts, foreign, restored, index,
                   events, progress, pair_stat>>

(* The process stops at any point and starts again: RedisModule_OnLoad     *)
(* calls Slots_Init, then Redis loads the RDB key by key.                  *)
OnLoad ==
    /\ slotkey_tables' = EmptyTables
    /\ tagged_key_list' = EmptyList
    /\ calls' = <<>> /\ zsl' = NoCall /\ in_pair' = FALSE
    /\ restored' = {}
    /\ from_key' = NoKey /\ to_key' = NoKey /\ from_dbid' = 0 /\ to_dbid' = 0
    /\ cmd_flag' = CMD_NONE

Restart ==
    /\ "restart" \in Commands /\ restarts < MaxRestarts
    /\ OnLoad
    /\ keyspace' = EmptyDbs
    /\ unloaded' = {p \in Dbs \X Keys : p[2] \in rdb[p[1]]}
    /\ restarts' = restarts + 1
    /\ foreign' = 0
    /\ events' = <<>>
    /\ UNCHANGED rdb

(* Redis adds one key of the RDB and raises its "loaded" event.            *)
LoadKey(d, k) ==
    /\ Idle /\ <<d, k>> \in unloaded
    /\ keyspace' = [keyspace EXCEPT ![d] = @ \cup {k}]
    /\ unloaded' = unloaded \ {<<d, k>>}
    /\ events' = <<Ev("loaded", d, k)>>
    /\ UNCHANGED <<rdb, restarts, foreign, restored, index, progress, pair_stat>>

(* MODULE LOAD into a running server: the keyspace stays as it is.         *)
ModuleLoad ==
    /\ CanRun("module_load")
    /\ OnLoad
    /\ foreign' = foreign + 1
    /\ UNCHANGED <<keyspace, rdb, unloaded, restarts, events>>

-----------------------------------------------------------------------------
(* The notification callbacks.                                             *)

Deliver(names) ==
    /\ CallbackDone /\ events # <<>>
    /\ Head(events).name \in names
    /\ events' = Tail(events)

TypedOnly(e) == IF e.name = "typed" THEN <<Do("add", e.db, e.key)>> ELSE <<>>

TypeChangeCalls(e) == <<Do("add", e.db, e.key)>>

NotifyTypeChangeCallback ==
    /\ Deliver(TypeChangeEvents)
    /\ calls' = TypeChangeCalls(Head(events))
    /\ UNCHANGED <<server, index, zsl, in_pair, pair_stat>>

DelEvents == {"del", "expired"}

(* del and expired return before the pair state is looked at.              *)
NotifyDel ==
    /\ Deliver(DelEvents)
    /\ calls' = <<Do("del", Head(events).db, Head(events).key)>>
    /\ UNCHANGED <<server, index, zsl, in_pair, pair_stat>>

FromNotKept(e) == from_key

NewFrom(e) == IF e.name = "rename_from" THEN e.key ELSE from_key

NewFlag(e) == CASE e.name = "rename_to" -> CMD_RENAME
                [] e.name = "move_to"   -> CMD_MOVE
                [] OTHER                -> cmd_flag

ClearTarget(d, from, to) == <<Do("del", d, from), Do("del", d, to), Do("add", d, to)>>

RenameCalls(d, from, to) == <<Do("del", d, from), Do("add", d, to)>>

MoveCalls(k, from, to) == <<Do("del", from, k), Do("add", to, k)>>

(* Every other generic event: the first event of a pair is only            *)
(* remembered, the second one sets cmd_flag, and while cmd_flag is         *)
(* CMD_NONE the callback returns at line 921.                              *)
NotifyPair ==
    /\ Deliver(GenericEvents \ DelEvents)
    /\ LET e == Head(events) IN
         /\ from_key'  = NewFrom(e)
         /\ to_key'    = IF e.name = "rename_to" THEN e.key ELSE to_key
         /\ from_dbid' = IF e.name = "move_from" THEN e.db ELSE from_dbid
         /\ to_dbid'   = IF e.name = "move_to" THEN e.db ELSE to_dbid
         /\ cmd_flag'  = NewFlag(e)
         /\ in_pair' = (cmd_flag' # CMD_NONE)
         /\ calls' = CASE cmd_flag' = CMD_NONE   -> <<>>
                        [] cmd_flag' = CMD_RENAME -> RenameCalls(e.db, from_key', to_key')
                        [] cmd_flag' = CMD_MOVE   -> MoveCalls(e.key, from_dbid', to_dbid')
    /\ UNCHANGED <<server, index, zsl>>

KeyNotReset(k) == k

Released(k) == IF cmd_flag = CMD_RENAME THEN NoKey ELSE k

(* Release the key copies of a rename and reset the flag.                  *)
ReleasePair ==
    /\ in_pair /\ calls = <<>> /\ zsl = NoCall
    /\ from_key' = Released(from_key)
    /\ to_key' = Released(to_key)
    /\ cmd_flag' = CMD_NONE
    /\ in_pair' = FALSE
    /\ UNCHANGED <<server, index, events, calls, zsl, from_dbid, to_dbid>>

-----------------------------------------------------------------------------
(* Slots_Add and Slots_Del: the dict half under the slot's lock ...        *)

NextCall(op) ==
    /\ zsl = NoCall /\ calls # <<>> /\ Head(calls).op = op
    /\ calls' = Tail(calls)

AddedAgain(d, k) == TRUE

(* m_dictAdd refuses a key that is there: DICT_ERR, early return.          *)
Added(d, k) == k \notin slotkey_tables[d][slots_num[k]]

Slots_Add ==
    /\ NextCall("add")
    /\ LET d == Head(calls).db
           k == Head(calls).key
           s == slots_num[k]
       IN  /\ slotkey_tables' = [slotkey_tables EXCEPT ![d][s] = @ \cup {k}]
           /\ zsl' = IF Added(d, k) /\ hastag(k)
                     THEN Head(calls) ELSE NoCall
    /\ UNCHANGED <<server, tagged_key_list, events, in_pair, pair_stat>>

(* m_dictDelete of a key that is not there: DICT_ERR, early return.        *)
Slots_Del ==
    /\ NextCall("del")
    /\ LET d == Head(calls).db
           k == Head(calls).key
           s == slots_num[k]
       IN  /\ slotkey_tables' = [slotkey_tables EXCEPT ![d][s] = @ \ {k}]
           /\ zsl' = IF k \in slotkey_tables[d][s] /\ hastag(k)
                     THEN Head(calls) ELSE NoCall
    /\ UNCHANGED <<server, tagged_key_list, events, in_pair, pair_stat>>

(* ... and the skiplist half under the list's lock: m_zslInsert does not   *)
(* look for the member, m_zslDelete removes one node of it if there is any.*)
TaggedListUpdate ==
    /\ zsl # NoCall
    /\ tagged_key_list' =
         [tagged_key_list EXCEPT ![zsl.db][zsl.key] =
             IF zsl.op = "add" THEN @ + 1 ELSE IF @ > 0 THEN @ - 1 ELSE @]
    /\ zsl' = NoCall
    /\ UNCHANGED <<server, slotkey_tables, events, calls, in_pair, pair_stat>>

-----------------------------------------------------------------------------
Callback ==
    \/ NotifyTypeChangeCallback
    \/ NotifyDel
    \/ NotifyPair
    \/ ReleasePair
    \/ Slots_Add
    \/ Slots_Del
    \/ TaggedListUpdate

Load == \E d \in Dbs, k \in Keys : LoadKey(d, k)

Client ==
    \/ \E d \in Dbs, k \in Keys :
          \/ Write(d, k)
          \/ Pop(d, k)
          \/ Del(d, k)
          \/ Expired(d, k)
          \/ Touch(d, k)
          \/ SlotsRestore(d, k)
          \/ \E w \in RestoreThreads :
                RestoreOneWithReplace(w, d, k) \/ NotifyOne(w, d, k)
          \/ Restore(d, k)
          \/ Evict(d, k)
    \/ \E d \in Dbs, k, j \in Keys :
          \/ LMove(d, k, j)
          \/ Rename(d, k, j)
          \/ Copy(d, k, j)
    \/ \E d, e \in Dbs :
          \/ SwapDb(d, e)
          \/ \E k \in Keys : Move(d, e, k)
    \/ \E d \in Dbs : Flush("flushdb", {d})
    \/ Flush("flushall", Dbs)
    \/ Save
    \/ Restart
    \/ ModuleLoad

Next == Client \/ Load \/ Callback

Spec == Init /\ [][Next]_vars

(* The thread that runs a command delivers its events and finishes the     *)
(* callbacks before it reads another command, and loading runs to its end. *)
FairSpec == Spec /\ WF_vars(Callback) /\ WF_vars(Load)

-----------------------------------------------------------------------------
(* Properties *)

(* The type of every variable.                                             *)
TypeOK ==
    /\ keyspace \in [Dbs -> SUBSET Keys]
    /\ rdb \in [Dbs -> SUBSET Keys]
    /\ unloaded \subseteq Dbs \X Keys
    /\ restarts \in Nat /\ foreign \in Nat
    /\ restored \subseteq RestoreThreads \X Dbs \X Keys
    /\ slotkey_tables \in [Dbs -> [Slots -> SUBSET Keys]]
    /\ tagged_key_list \in [Dbs -> [Keys -> Nat]]
    /\ events \in Seq(Event)
    /\ calls \in Seq(Call)
    /\ zsl \in Call \cup {NoCall}
    /\ in_pair \in BOOLEAN
    /\ from_key \in Keys \cup {NoKey} /\ to_key \in Keys \cup {NoKey}
    /\ from_dbid \in Dbs /\ to_dbid \in Dbs
    /\ cmd_flag \in {CMD_NONE, CMD_RENAME, CMD_MOVE}

(* How many nodes a key should have, given the dicts and the list update   *)
(* that is still to come.                                                  *)
Pending(op, d, k) == zsl # NoCall /\ zsl.op = op /\ zsl.db = d /\ zsl.key = k
ListedIn(d, k) ==
    \/ hastag(k) /\ k \in slotkey_tables[d][slots_num[k]]
                 /\ ~Pending("add", d, k)
    \/ Pending("del", d, k)

(* Slots_Add / Slots_Del: at every moment, also between the two critical   *)
(* sections, the skiplist holds exactly one node for each tagged key of    *)
(* the dicts (give or take the one update in progress) and none for any    *)
(* other key: never two nodes, never a node left behind, although          *)
(* m_zslInsert itself does not refuse duplicates.                          *)
ListAgrees ==
    \A d \in Dbs, k \in Keys :
        tagged_key_list[d][k] = IF ListedIn(d, k) THEN 1 ELSE 0

(* A thread of SLOTSRESTORE has restored the key and has not come to       *)
(* notifyOne yet.                                                          *)
Outstanding(d, k) == \E w \in RestoreThreads : <<w, d, k>> \in restored

(* Whenever no command is in progress, the dicts hold exactly the keys of  *)
(* the keyspace, each in the dict of its own slot; only a key whose        *)
(* notifyOne is still to come in an asynchronous SLOTSRESTORE may be       *)
(* missing, and without one pending nothing is.  So no sequence of writes, *)
(* deletions, expirations, renames onto existing keys, moves, flushes and  *)
(* restores makes the index drift (NotifyGenericCallback,                  *)
(* NotifyTypeChangeCallback, FlushdbCallback, notifyOne), also none        *)
(* between a RESTORE and its notifyOne.  Commands whose events the module  *)
(* does not handle do, and a restart then sets the index right.            *)
IndexExact ==
    Idle /\ foreign = 0 => \A d \in Dbs, s \in Slots :
        LET here == {k \in keyspace[d] : slots_num[k] = s}
        IN  /\ slotkey_tables[d][s] \subseteq here
            /\ \A k \in here \ slotkey_tables[d][s] : Outstanding(d, k)

(* The static pair state of NotifyGenericCallback: between commands no     *)
(* half of a pair is left over, so no later command can be completed with  *)
(* an earlier command's key, and Slots_Del is never called with NULL.      *)
PairReset ==
    /\ Idle => cmd_flag = CMD_NONE /\ from_key = NoKey /\ to_key = NoKey
    /\ \A i \in 1 .. Len(calls) : calls[i].key # NoKey

(* A key that stays in the keyspace and is indexed is never taken out of   *)
(* the index, not even for one step: a migration thread that reads the     *)
(* index while a RENAME onto that key or a SLOTSRESTORE replaces it still  *)
(* finds it.                                                               *)
NoFlicker ==
    [][\/ ModuleLoad
       \/ \A d \in Dbs, k \in Keys :
             /\ k \in keyspace[d] \cap keyspace'[d]
             /\ k \in slotkey_tables[d][slots_num[k]]
             => k \in slotkey_tables'[d][slots_num[k]]]_vars

(* Loading after a restart ends with every key of the RDB in the index     *)
(* (NOTIFY_LOADED), even if the server stops again while it is loading.    *)
ReloadIndexes ==
    unloaded # {} ~> /\ unloaded = {} /\ Idle
                     /\ \A d \in Dbs : rdb[d] = Indexed(d)
=============================================================================
