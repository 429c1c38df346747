# A TLA+ model of RedisXSlot

RedisXSlot is a Redis module that divides the keys of every database into hash
slots and moves the keys of a slot, one by one or all keys of one `{tag}`
together, to another Redis. This directory holds TLA+ modules of its core, TLC
configurations that check them on small instances, and proofs that TLAPS
checks for every instance. `PROJECT.json` lists components, runs, properties,
hazards, findings and, for every definition, the source lines it stands for.

## 1. The system

| component | state | operations | works with |
|---|---|---|---|
| slot index (`redisxslot.c`, `module.c`) | per database: one dict of keys per slot, each with its rwlock; one skiplist of tagged keys, ordered by crc, with its rwlock; statics of `NotifyGenericCallback` | `Slots_Init`, `Slots_Add`, `Slots_Del`, the notification callbacks, `FlushdbCallback` | Redis calls the callbacks synchronously; the migration commands read the index |
| key migration, source side | batch of keys, `objs[]`, chunks, results of the workers | `SLOTSMGRTONE`, `SLOTSMGRTSLOT`, `SLOTSMGRTTAGONE`, `SLOTSMGRTTAGSLOT` → `migrateKeys` | reads the index, calls `DUMP`, `PTTL`, `UNLINK`, sends `SLOTSRESTORE` |
| key migration, destination side | the objects of a request | `SLOTSRESTORE` → `restoreOneWithReplace`, `notifyOne` | calls `RESTORE`; its notification feeds the destination's index |
| slot scan and deletion | a cursor, the list of a step | `SLOTSSCAN`, `SLOTSDEL` | `m_dictScan` on a dict that changes between two steps; `UNLINK` |
| connection cache | connections by thread, host and port, `last_time` | `SlotsMGRT_GetConnCtx`, `SlotsMGRT_CloseConn`, `SlotsMGRT_CloseTimedoutConns` | movers, pool workers, cron |
| asynchronous blocks, locks | blocked client, arguments; GIL, rwlocks of slots and list, mutex of the cache | `SlotsMGRTAsyncBlock_*`, `SlotsRestoreAsyncBlock_*`, `dispatchCmd` | one thread per command, GIL around each call into Redis, callbacks inside it |
| dict maintenance cron | three static cursors | `dbSlotCron` from `CronLoopCallback` | resizes and rehashes the dicts of the index |
| dict (`dep/dict.c`) | two tables and a rehash index | add, delete, random key, scan, resize, rehash, empty | the index, the cron job, scans |
| skiplist (`dep/skiplist.c`) | nodes with levels and spans | insert, delete, change a score, ranges by score and rank | the index, tag batches |
| reading commands | — | `SLOTSINFO`, `SLOTSHASHKEY` | the index |
| list, slot number, CRC32, siphash, utilities | — | `m_list*`, `slots_num`, `slots_tag`, … | everything that has a key |

What is hard, and so what the properties are about:

* **two copies of the truth** – the index only follows the keyspace through
  notifications, one at a time, joined by static variables for rename and move
  (`IndexExact`, `PairReset`), and is lost with the process (`ReloadIndexes`);
* **two structures, two locks** – the dict and the skiplist change one after
  the other while migration threads read them (`ListAgrees`, `NoFlicker`);
* **moving a key without losing it** – dump, send and remove are three steps on
  two servers, in several chunks, over connections that fail, with requests
  that arrive late, keys that expire and clients that write
  (`NoKeyLost`, `KeyNeverVanishes`, `IsHandoff`, `NoEarlyExpiry`, `TtlKept`,
  `ChunksFit`, `DumpZeroOrN`);
* **what the orchestrator is told** – the number of keys moved, an error, and
  whether repeating the command ends (`AnswerIsExact`, `ErrorKeepsKeys`,
  `Drains`);
* **walking through something that changes** – a cursor across resizes and
  half-done rehashes, random draws over two tables, updates that must end in
  the right table (`WalkComplete`, `CursorAdvances`, `SlotsDelEnds`,
  `RandomReachesAll`, `AnswersRight`, `RehashIndexSafe`, `Placed`);
* **many pointers that say one thing** – levels, spans, tail and backward of
  the skiplist after any history (`Linked`, `SpansExact`, `QueriesExact`,
  `TagBatchExact`);
* **threads** – callbacks that take locks inside a call made under the GIL, a
  cron job that frees connections of others, errors on every path
  (`LockOrder`, `LocksReturned`, `ConnOwned`, `Released`, `IdleClosed`);
* **cursors that must reach everything** (`RehashFinishes`, `SparseIsResized`).

## 2. Modules

### SlotIndex

State: `keyspace`, `rdb`, `unloaded` are Redis' (external); `slotkey_tables`
and `tagged_key_list` are the index (a dict is a set of keys, the skiplist a
number of nodes per key, because `m_zslInsert` does not refuse duplicates);
`events` are the notifications the current command has still to deliver;
`from_key` … `cmd_flag` are the statics of `NotifyGenericCallback`; `calls`,
`zsl` and `in_pair` say how far the running callback has come. Slots of keys
and tags are the constants `slots_num` and `TaggedKeys`.

Actions: one per Redis command that changes the keyspace, with the events it
raises; one per callback (`NotifyTypeChangeCallback`, the two halves
`NotifyDel` and `NotifyPair` of `NotifyGenericCallback`, `ReleasePair` for its
end); `Slots_Add` and `Slots_Del` for their dict half under the slot's lock and
`TaggedListUpdate` for their skiplist half under the list's lock. `Restart`
may happen between any two steps. `FlushdbCallback` runs inside `Flush`, as
the START event of the flush. `SlotsRestore` is a synchronous SLOTSRESTORE:
RESTORE with its generic event and the `notifyOne` that follows. With the async
option these are two sections under the GIL (`RestoreOneWithReplace`,
`NotifyOne`), and anything may happen to the key in between; `restored` holds
the keys a restoring thread has still to notify.

Not every command is followed: RESTORE and COPY by clients raise generic events
the callback does not name, eviction and SWAPDB raise none the module
subscribes to, MODULE LOAD into a running server sees no loaded events (streams
are like them: their class is not subscribed to). `foreign` counts these since
the server started: while it is 0 the index is exact, afterwards it may be
stale until the server loads an RDB again.

### Migrate

One slot, a source, a destination, movers and clients. `src` and `dst` map keys
to entries (version, expiry); `truth` is what clients last wrote. A mover goes
through `size → walk → dump → connect → send → del → reply`, one step per
section under a lock, call into Redis or message: `TagSize` and `TagWalk`
collect the keys of a tag (the dict under one lock, the skiplist under
another), then `Dump` and `Pttl` per key, `MGRT` (splitting by size), `Connect`,
`doSplitRestoreCommand` / `GetReply` / `Timeout` per chunk, `SendDone`,
`delKeys` per key, `delDone`, `Reply`. The answer counts the UNLINKs that had a
reply; a key whose UNLINK had none is passed over. How it sends is decided as in `MGRT`
(`SendMode`): by the thread pool if `slots_mgrt_threads > 0` (one worker and
connection per chunk, in any order), else as a pipeline if the command ends in
`withpipeline` and the source is not `async` (each object its own command),
else in batches (chunks one after the other).
Without `async` the mover is the main thread, so clients, clock and other
movers wait (`Busy`); with it they interleave at every step.

Undefined behaviour is explicit: an element of `objs[]` that was never assigned
is `Hole`; sending one either crashes the source (`down`) or sends some
leftover object.

Faults, bounded together by `MaxFaults`: DUMP, RESTORE or UNLINK refused, any of
them or PTTL without a reply (each has its own path in the code), no
connection, request lost, reply lost, request run after the source has given
up (`late`). When the source has read an error in a pipeline it stops reading;
the destination runs the rest of the pipeline, before it does anything else
unless `late` requests are allowed (`InOrder`).

`KeyHandoff` is what a migration promises to the users of a key, without
batches, chunks and errors: its latest value is on the source, on both servers,
or on the destination, leaves the source only when it is on both, and does not
come back. The refinement mapping (`Place`) looks at which side holds the
latest version; a value that is nowhere maps to a place the abstract
specification does not have, so `IsHandoff` includes `NoKeyLost`.

### Dict, KeySet and SlotScan

`Dict` is the hash table: two tables of buckets, `rehashidx`, and the
operations the module uses, each with the step of a rehash it takes first. A
bucket is a set, since the order of a chain is visible to nobody. Loops of a
bounded number of rounds (`m_dictRehash`) are recursive functions. `KeySet` is
what its users see: a set that changes by one key or is emptied; `Dict`
refines it (`IsKeySet`), and SlotIndex uses a set for a dict on the strength
of that.

`SlotScan` extends it by a walk: SLOTSSCAN, whose client comes back with the
cursor, or SLOTSDEL, whose loop is cut into the scan, the UNLINK of one key and
the end of a round. Between two steps anybody may use the dict (`Others`), for
SLOTSDEL only with the async option. An UNLINK without a reply leaves the key. The cursor is a word of `WordBits` bits
and really reversed, by its effect (`Reversed`: the lowest bit becomes the
highest, and so on) and not by the parallel swaps of `rev`. The strings SLOTSDEL has listed may be released meanwhile
(`freed`); reading one is UNLINK of some other name, or a crash. `steady`,
`seen` and `missed` are history for `WalkComplete`.

### SkipList and OrderedSet

All functions of `skiplist.h` on a record of nodes with `forward`, `span` and
`backward`. `Path` is the walk they share: from the top level down go forward
as long as the set `go` has the next node with its rank; it returns `update[]`
and `rank[]` of the code. The random level is any level. The loops
(`DeleteWhile`, `TagBatch`) are recursive functions of the number of steps,
which the length of the list bounds, so that they can be proved about.
`m_zslInsert` requires a member that is not there, which `ListAgrees` of
SlotIndex shows of its caller. The header keeps its stale span of a level that
was given up, as in the code. `OrderedSet` is the reference (`IsOrderedSet`).

### MoverThread

The threads of a server with the async option. A thread is the sequence of
instructions it has still to execute: take a lock for reading or writing,
release it, or do something. The programs follow the code call by call:
`migrateKeys` is `dumpObj`, `MGRT` and `UNLINK`; a call of Redis takes the GIL
and runs the callbacks of the module, which take the locks of the slot and then
of the list; a failure jumps to the end of the command (`Exits`). Every loop is
there with one round, since a second one takes the same locks in the same
order; a pool's worker may get several chunks, because what it left in the
cache after the first one matters for the second. What the instructions do to
keys is in Migrate and SlotScan.

A connection is `live` from its opening to its release, `cached` while the dict
of connections has it, and has an age since `last_time`; `ptr` says that its
thread has a pointer to it. `last_time` is the time read before the connection
is looked up or opened (`unixtime`), and is set again when all chunks have been
sent. A second may pass between any two steps (`Tick`), so the cron job may free
a connection in use; a use after that crashes the server or goes unnoticed
(`Touch`). It deletes with `strlen` of a key that need not end in 0: the
constant `KeysTerminated` says whether a 0 happens to follow. Workers end with
their pool, and what they leave in the cache belongs to no thread any more
(`orphans`). The main thread holds the GIL but for one moment of each turn of
its event loop. Failed `pthread_create` is an action; after it
`SlotsMGRTAsyncBlock_RedisCommand` reads freed memory, which may crash the
server.

### DbSlotCron

`dbSlotCron` as one action per call (it runs on the main thread), split in two
by the check for a child process. A dict is `sparse` (below
`HASHTABLE_MIN_FILL`) and has `todo` rounds of its rehash left; clients start,
step and shrink dicts. The visits of the nested loops are given in closed form.

### Proof modules

`SlotIndexProofs` is about SlotIndex; `SkipListProofs` about SkipList;
`DbSlotCronProofs` about DbSlotCron; `MoverThreadProofs` about MoverThread;
`MigrateProofs`, `MigrateSafetyProofs` and `MigrateHandoffProofs`,
each on top of the one before, about Migrate; `DictProofs` about Dict and
SlotScan. See section 5.

Some definitions in each module are not of the program: plausible mistakes
(named in the head comment of the module), each placed before the definition it
misstates. Replacing the definition by the mistake must violate the property
`PROJECT.json` names with it; this shows that the property can fail.

## 3. Runs

| run | shows | instance | states |
|---|---|---|---|
| `index_exact` | index = keyspace between commands, dict and skiplist agree always, no flicker, with crashes at any step; every key of the RDB is indexed again | 2 keys (one tagged), 2 slots, 2 databases, all commands, one asynchronous SLOTSRESTORE, 1 foreign command before the first restart, 2 restarts, fair | 802,126 |
| `mgrt_sync` | all four commands, synchronous, batch and pipeline: a handoff, exact answers, chunks right | 3 keys of one tag, 2 faults, 1 client write, deletions | 554,488 |
| `mgrt_pool` | parallel workers and late requests: no key vanishes; repeated SLOTSMGRTTAGSLOT empties the slot | 4 keys (3 of one tag), 2 faults, 1 write, fair | 81,170 |
| `mgrt_two_movers` | two asynchronous movers with a pool on the same keys: no key vanishes | 2 keys, 2 writes, 1 fault | 1,337,572 |
| `mgrt_ttl` | keys that expire before and during their batch; the crash | 2 keys, clock to 3, 1 write, 1 fault of any kind but a refused UNLINK | 1,202,553 |
| `cron_coprime` | every dict is reached | 3 databases, 2 slots, 3 operations, fair | 3,912 |
| `slot_scan` | the dict is a set in every stage of a rehash; walks are complete and end | 4 keys, tables of 2, 4 and 8 buckets, cursor of 3 bits, COUNT 1 and 2, async, fair | 115,237 |
| `skiplist` | chains, spans and queries exact; an ordered set | 4 members, 2 scores, 3 levels | 5,248 |
| `threads` | lock order, locks returned, ownership of connections, no client waits forever | 2 clients (one migrates, deletes or tests, one restores), pools of 0 and 1 workers, 2 chunks, timeout 0, fair | 147,656 |

`mgrt_ttl`, `slot_scan`, `threads` (and `mgrt_holes`) do not check for
deadlock: a server that crashed stops. In `threads` and `slot_scan` the
liveness properties say that nothing else does.

Three runs expect a violation; each is a disagreement between the code and its
own comments, described under `findings`: `mgrt_holes` (a batch with a
key that has gone sends the wrong objects and unlinks all), `mgrt_async_dst`
(an asynchronous destination's failure looks like a success) and
`cron_rehash_diagonal` (cursors that move in step). They, and the hazards whose
note says so, explain what the passing runs leave out:

* no property is about `left`: for an untagged key SLOTSMGRTTAGSLOT answers
  `left = 0` whatever remains (`SlotsMGRT_TagKeys`, line 1097), while
  `tests/redisxslot.tcl` takes 0 for "the slot is empty";
* `ConnOwned` says when the cron job may free a connection that a thread uses
  (when its `last_time` is older than the limit), not that it never does: the
  code bounds neither the timeout argument of its commands nor the number of
  chunks between two settings of `last_time`;
* `threads` has `KeysTerminated`: without it a connection may be freed and stay
  in the cache, to be freed again: `IdleClosed` does not hold, the theorems
  about the threads do;
* `mgrt_two_movers` has no refused RESTORE, because the asynchronous
  destination hides it, and checks only that a key is somewhere, because with
  `async` a client's write between DUMP and UNLINK is lost;
* two movers use SLOTSMGRTONE only: tag batches of two movers meet the same
  holes as batches with an expired key;
* `IsHandoff` and `AnswerIsExact` are checked without ttls and without missing
  replies to DUMP and PTTL (a batch with a hole loses the keys after it), and
  without `restore_null` (RESTORE without a reply counts as a success);
* `TtlKept` is about a synchronous source. There a PTTL of 0, which is sent as
  "no expiry", belongs to a key in its last tick. With `async` the key may also
  go between DUMP and PTTL, and its copy becomes permanent;
* `SparseIsResized` holds for 3 databases and 2 slots but, like
  `RehashFinishes`, not if both cursors wrap together (2 databases, 4 slots,
  2 slots per call).

**Bounds.** The chunk limit is one object's size, so a batch of three is cut in
two, the smallest case with a border inside and a rest after it. Two faults
allow a failed attempt and a failed retry. One client write is enough to tell
an old value from a new one, two let a write come before and after a late
request. Two keys in two slots and two databases include a rename across
slots and onto an existing key and a move. Two restarts let the server stop
while it is loading; one foreign command is enough to make the index stale.
Clock 3 allows a ttl to be given, to be in force and to run out. Tables of 2, 4
and 8 buckets let a walk begin in one size, go on with two tables and end in a
third size; `EmptyVisits` 2 and `RehashBatch` 1 make a step of a rehash run out
of visits, which takes 10 and 100 empty buckets in the code. Three levels have
a node below, at and above the height of a removed one. With a timeout of 0 a
connection used in this second is in time and one used before is not; any
larger one only adds ages that are treated like 0. `index_exact` has one
asynchronous SLOTSRESTORE at a time (`RestoreThreads`), of one tagged key
(`AsyncObjects`). It and foreign commands come before the first restart only
(`MaxOpenRestarts` 0): a restart forgets both.

**Fairness.** `SlotIndex!FairSpec`: the thread that runs a command finishes its
callbacks, and loading goes on (Redis is single-threaded here, so nothing can
take its turn); not that clients do anything. `Migrate!FairSpec`: movers and
the destination keep running, and the operator repeats SLOTSMGRTTAGSLOT; the
number of faults is finite, which is the bound. `DbSlotCron!Spec`: the cron job
runs again and again without a child process (`serverCron` runs `hz` times a
second, and a child ends some day); clients are not assumed to touch a dict.
`SlotScan!Spec`: the thread of SLOTSDEL is scheduled. `MoverThread!FairSpec`:
the main thread goes on and time passes (weak fairness), and a command with its
workers gets on if it can again and again (strong fairness): the GIL and the
other locks are released and taken again by others all the time, so weak
fairness would let a thread wait forever; the main thread releases the GIL in
every turn of its loop for that purpose.

## 4. What the checks do not say

* Time stands still on the destination too while a synchronous command runs on
  the source, so the extra life a key gets by the delay of the transfer is not
  seen; `NoKeyLost` only asks that it does not expire early.
* Clients are assumed to use the source as long as the key is there and the
  destination afterwards, as a proxy does. A late SLOTSRESTORE may then overwrite a
  newer value on the destination, which is why the runs with `late` requests
  check `KeyNeverVanishes` and not `NoKeyLost`.
* The dump and restore thread pools are disabled in `Slots_Init` (lines 102,
  104) and not modelled.
* Every operation on a dict or the skiplist is one step. It runs under a lock,
  except in the cron job, in `FlushdbCallback` and in SLOTSINFO, which take
  none, and except for the step of a rehash that `m_dictGetRandomKey` does
  under a read lock: with the async option these are data races, whose outcome
  is not modelled (see `hazards`).
* Memory is modelled for connections and for the strings SLOTSDEL lists. A use
  of a freed connection is a crash or has no effect; that it may corrupt other
  memory is not modelled. The entries and keys that a mover has read from the
  index are taken by value.

## 5. Proofs

TLAPS checks the following for every value of the constants: any number of
databases, slots, keys, commands, movers, workers, chunks, faults, writes and
restarts, any sizes of objects. The assumptions on the constants
(`IndexAssumption`, `CronAssumption`, `ThreadAssumption`, `NamesAssumption`,
`MigrateAssumption`, `DictAssumption`, `ScanAssumption`, `SkipListAssumption`)
say what they are: sets (non-empty or finite where that matters), naturals,
distinct names. TLC evaluates them in every run. Theorems about some configurations only say so in their
ASSUME part; the conditions are listed with the reason the code has for them.

| theorem | states | condition |
|---|---|---|
| `SlotIndexProofs!TypeCorrect` | `TypeOK`: `Slots_Add` and `Slots_Del` never get the NULL of `from_key` | |
| `SlotIndexProofs!SkiplistAgrees` | `ListAgrees` | |
| `SlotIndexProofs!PairStateReset` | `PairReset` | |
| `SlotIndexProofs!IndexIsExact` | `IndexExact` | |
| `SlotIndexProofs!IndexedKeysStay` | `NoFlicker` (of every step) | |
| `DbSlotCronProofs!CursorsInRange` | `TypeOK`: the cursors index existing dicts | |
| `MoverThreadProofs!BlockedWhileRunning` | `TypeOK`: a client is blocked as long as its thread runs | |
| `MoverThreadProofs!LocksAreReturned` | `LocksReturned` | |
| `MoverThreadProofs!LocksAreOrdered` | `LockOrder` | |
| `MoverThreadProofs!ConnectionsAreOwned` | `ConnOwned` | |
| `MigrateProofs!TypeCorrect` | `TypeOK` | |
| `MigrateProofs!BatchesAreCutRight` | `ChunksFit` | |
| `MigrateSafetyProofs!TtlsNeverShorten` | `NoEarlyExpiry` | |
| `MigrateSafetyProofs!TtlsAreKept` | `TtlKept` | synchronous source |
| `MigrateSafetyProofs!ErrorsAreHarmless` | `ErrorKeepsKeys` | UNLINK is not refused |
| `MigrateHandoffProofs!NoKeyVanishes` | `KeyNeverVanishes` | `Delivers`, `Gapless` |
| `MigrateHandoffProofs!AnswersAreExact` | `AnswerIsExact` | the same, UNLINK is not refused |
| `MigrateHandoffProofs!MigrationIsHandoff` | `IsHandoff`: Migrate implements KeyHandoff | `HandsOver` |
| `DictProofs!DictTypeCorrect` | `DictTypeOK` | |
| `DictProofs!EntriesArePlaced` | `Placed` | |
| `DictProofs!RehashNeverOverruns` | `RehashIndexSafe` | |
| `DictProofs!RandomDrawsAll` | `RandomReachesAll` | |
| `DictProofs!AnswersAreRight` | `AnswersRight` | |
| `DictProofs!DictIsKeySet` | `IsKeySet`: Dict implements KeySet | |
| `DictProofs!WalksUseTheDict` | SlotScan's steps on the dict are steps of Dict | |
| `DictProofs!WalksAreComplete` | `WalkComplete`, for words of every width | |
| `DictProofs!CursorsAdvance` | `CursorAdvances` (of every step) | |
| `SkipListProofs!TypeCorrect` | `SkipListTypeOK`: no unsigned span goes below 0 | |
| `SkipListProofs!ListLinked` | `Linked` | |
| `SkipListProofs!ListSpansExact` | `SpansExact` | |
| `SkipListProofs!ListQueriesExact` | `QueriesExact` | |
| `SkipListProofs!ListTagBatchExact` | `TagBatchExact` | |
| `SkipListProofs!ListIsOrderedSet` | `IsOrderedSet`: SkipList implements OrderedSet | |

The conditions, each met by a run, and what goes wrong without them:

* `Delivers`: RESTORE always answers (`restore_null` is not among the faults)
  and, if it may be refused, the destination is synchronous. `mgrt_async_dst`
  shows an asynchronous one hiding the refusal;
* `Gapless`: only commands for one key (or one key of a slot), or a synchronous
  source, keys without ttl, and DUMP and PTTL always answer. `mgrt_holes` shows
  a batch with a key that has gone;
* `HandsOver`: source and destination synchronous, no ttls, no late requests,
  DUMP, PTTL and RESTORE always answer, and no `withpipeline` if RESTORE may be
  refused (the rest of the pipeline is a late request too; `mgrt_sync` checks
  that case, with the destination keeping the order). With an asynchronous
  source a client's write between DUMP and UNLINK is lost, and a late request
  overwrites a newer value;
* UNLINK is not refused: otherwise the command answers with an error after it
  has removed some keys;
* synchronous source: otherwise the key may go between DUMP and PTTL, whose -2
  is sent as "no expiry".

**Slot index.** None of the properties is inductive. `IInv` adds to
`TypeOK` and `ListAgrees`

* `PairInv`: the order of the pending events (`Shape`: `rename_to` follows
  `rename_from` at once, the second event of a pair is a command's last), that
  `from_key` is set exactly while its `rename_to` is awaited or handled, and
  that `cmd_flag` is set exactly inside the callback. Without it a `rename_to`
  could be delivered while `from_key` is NULL;
* `ZslInv`: a pending skiplist update is for a tagged key and the dict already
  shows its effect. Without it `TaggedListUpdate` could add a second node.

`CommandIInv` reduces every client command to the shape of its events
(`EventSequences`), `TailShape` says that taking an event off keeps the shape,
and `CallbackIInv` has one step per action of a callback and under it one per
conjunct. `ExactInv` adds what the future does to each key: pending deletions
are of keys that have gone, unless the key is added again afterwards; a key
whose dict entry differs from the keyspace has a pending event, call or half
of a pair that repairs it; a key is in no slot but its own. `IndexExact` is
the case in which nothing is pending (a key in `restored` has a `notifyOne` to
come, which repairs it like an event), and `NoFlicker` follows because a
deletion is only ever of a key that has gone.

**Cron.** `TypeOK` is inductive once cursors are remainders.

**Threads.** The programs are sequences, so the invariant cannot list control
points. It is a Hoare logic: a condition is a set of locks held and a phase in
the use of a connection, `Effect` gives the condition before and after an
instruction, and `Runs(s, p, q)` says that program `s` leads from `p` to `q`.
`IInv` says that what every thread has still to execute runs from what it holds
to holding nothing. Each program of the module, each continuation and each
error exit is shown once to run (`ConnPrograms`, `ExitsRun`, …); steps of one
thread keep the others' conditions because locks exclude each other and the
phases say of a connection only what the cron job cannot change: that it is
live or was freed by it after the limit. `LockOrder`, `LocksReturned` and
`ConnOwned` are read off the first condition; for `LocksReturned` a program
that runs from some locks to none releases, before it takes it again, exactly
what it holds.

**Migration.** `TypeInv` has the shapes of chunks, statuses and requests; what
`Split` does to a batch (every object once, no chunk empty) is an induction
over the position in the batch, done with sets of naturals
(`NatSetInduction`). On it rest, each with one lemma per action:

* `ChunksInv`: the chunks of a mover are `Split` of the objects it sends.
  `SplitFits` adds to the induction that the closed chunks and the open one
  together are the objects so far, that the counted size is the open chunk's,
  and that every chunk without its last object is within the limit;
* `TtlInv`: every dump anywhere, in a batch, a chunk or a request of any age,
  carries no shorter ttl than the version of the key it was taken from;
* `SyncInv`: a synchronous source has one busy mover, whose dumps are what the
  source holds;
* `LastInv`: with one busy mover, a dump whose ttl was asked for and that will
  be restored without an expiry is of a key that has none or ends by now, or of
  an older value; no dump is sent before its ttl was asked for;
* `DeliverInv`: requests, chunks and statuses belong together, no two requests
  carry the same chunk of a mover, and what a request that has not failed has
  passed is on the destination, so that a chunk with status `ok` is there;
* `LossInv`: when `delKeys` runs, the keys of the batch are on the destination;
  what has left the source is there;
* `HandInv`: the same with *the latest value*: `Copied(k)` says that the
  destination has the version clients last wrote.

For the refinement, `Place(k)` is rewritten in terms of `src[k]` and
`Copied(k)`: a step changes the place of one key at most, and is then `Write`,
`WriteThere` or `Delete` (clients), `Copy` (`restoreOneWithReplace`) or `Drop`
(`delKeys`) of KeyHandoff; every other step changes no place.

**Dict.** `DictOK` says of each table that its counter is the number of its
entries and that every entry is in the bucket of its hash; that no key is in
both tables; that the buckets below `rehashidx` are empty; that the second
table exists exactly while the dict rehashes, and the first one then too. Exact counters are what makes the
walk to the next used bucket end (a positive `used` means an entry, and it is
not below `rehashidx`) and disjointness is what makes the answers of add and
delete right. Table sizes are the initial size doubled; that they are powers of
two matters for `hash & sizemask`, which the model writes as a remainder, and
for the walks below.
Growing is never refused because `_dictNextPower` of twice the entries exceeds
the size the table has when it is full. The loops of `m_dictRehash` and of its
milliseconds are folded out by induction over the number of rounds, as above:
one round keeps `DictOK` and the set of keys. For `DictIsKeySet` each operation
is shown to change `Elems(d)` as `Add`, `Remove` or nothing. `WalksUseTheDict`
carries all of it over to SlotScan, whose run checks these properties.

**Walks.** The theorems about `m_dictScan` need two more facts of the constants
(`ScanAssumption`): the initial size is a power of two (4), and a word counts
twice the keys. Every table size is then a power of two that a word holds
(`SizeIsPower`; this uses that `_dictNextPower` takes the smallest).

* `Blocks` is the arithmetic: in words of `m` bits, the words that agree with
  `v` in their `p` low bits are, reversed, one block of `TwoTo[m - p]`
  consecutive words that starts at the reversal of the bucket number `v % 2^p`
  and ends at that of `v` with the other bits set. It goes by induction over
  `m`, one low bit at a time (`RevBit`, `BlockBit`); `RevRev` says that
  reversing twice gives the word back.
* So a bucket is a block, `NextCursor` is the first word of the next block or 0
  after the last (`NextCursorFacts`), and a bucket of a bigger table is a block
  inside that of the smaller one (`ModMod`, `ExpansionCovers`): the keys that
  `Expansion` leaves out are behind the cursor.
* `Reaches(x, v, ks, w)`: every key of the dict that is not behind `v` is among
  the keys given or not behind the next cursor, and that one is further or 0.
  It holds of one step with one or two tables (`StepReaches`) and, by induction
  over the steps, of one SLOTSSCAN (`ScanReaches`).
* `WalkOK`, the inductive invariant: a steady key was given to the walk or is
  ahead of the cursor; for SLOTSDEL it is on the list or ahead. "Ahead" compares
  reversed hashes with the reversed cursor and mentions no table, so growing,
  shrinking and rehashing between two steps leave it alone. That no released
  string belongs to a steady key is part of it: otherwise SLOTSDEL could take a
  steady key off its list without unlinking it. A key whose UNLINK had no reply
  is not steady any more: the walk has reached it.

**Skiplist.** The invariant `ListOK` says everything in positions: `Pos(z, n)`
counts the nodes up to `n` by score and member and mentions no link, so it can
be compared before and after a change of links. `Chains` says that `forward[i]`
of a node is the node of level `i` with the next position (`IsNext`), `Ends`
the same of `backward` and `tail` (`IsAt`), `Spans` that a span is a difference
of positions, `LevelsUsed` that the level of the list is the highest in use.
`Linked` and `SpansExact` are not inductive apart: `rank[]` of an insert is
computed from spans, and spans are only right if the chains are.

* `PathFacts`: if the nodes that let a walk go on are those up to position `c`
  (`LeadsTo`), it leaves every level at the level's last node up to `c`
  (`LastUpTo`) and with that node's position as rank. This is an induction over
  the steps on a level, and over the levels.
* `InsertSplices`: `Inserted` links the node in behind these nodes (`Spliced`),
  a level that was not in use being an empty chain whose span is the length.
  Positions up to `c` stay and those after it move up by one (`PosGrow`); the
  lemmas `Splice…` conclude the parts of `ListOK` one by one, `InsertOK` all.
* `DeleteUnsplices`, `Closed` and the lemmas `Unsplice…` are the same backwards;
  `DeleteOK` is their conclusion. `Greatest` gives the level that `LevelInUse`
  chooses.
* `DeleteWhileFacts`: after `k` rounds of a range deletion the first `j` nodes
  after `c` are gone (`Cut`) and `update[]`, computed once before the loop,
  still is the path to `c` in the list as it is now.
* A score changed in place keeps every position (`RescoreOK`), because
  `StaysInPlace` compares with both neighbours.

The lemmas `…Effect` say of each operation which nodes and scores it leaves;
`ListInvariant` and the refinement `ListIsOrderedSet` both rest on them. A
deletion by score is `DeleteRangeByScore` of the scores of the first and last
node in the range (`ClosedRange`), or a stutter if there is none; the rank of
the ordered set is `Pos` (`RankIsPos`). For the queries, `RangeWalks` turns the
tests of a range into bounds on positions, and for tag batches `Collected` says
that the batch so far is the run of positions from the first node of the tag.

TLC has checked the inductive invariants on the instances of the runs before
they were proved.

**Only model-checked.** Liveness (`ReloadIndexes`, `Drains`, `SlotsDelEnds`,
`Released`, `IdleClosed`, `RehashFinishes`, `SparseIsResized`), which is out of
the prover's reach. Every invariant, action property and refinement of the
passing runs is proved, under the conditions of the table.

## 6. Plan

Done: SlotIndex, Migrate with KeyHandoff, Dict with KeySet, SlotScan, SkipList
with OrderedSet, MoverThread, DbSlotCron, and the proofs of section 5.

## 7. Not modelled

The bytes of keys, dumps and replies, logging, CPU affinity, siphash, CRC32 and
string utilities (pure functions without state), `slots_num` (a constant
function), option parsing (its results are the constants), the doubly linked
list (a local queue), SLOTSINFO and SLOTSHASHKEY (they change nothing), the
functions of dict.c the module does not use on its dicts (replace, find,
iterators, sampling, statistics), shutdown (the process ends), replication and
the AOF, reference counts of strings, and the vendored
libraries, which appear only as faults and messages.
