------------------------------- MODULE Migrate -------------------------------
(***************************************************************************)
(* Migration of the keys of one slot from a source to a destination Redis. *)
(*                                                                         *)
(* On the source a mover runs SLOTSMGRTONE, SLOTSMGRTSLOT, SLOTSMGRTTAGONE *)
(* or SLOTSMGRTTAGSLOT: it picks a batch of keys, dumps them, sends them   *)
(* in chunks of SLOTSRESTORE to the destination, and, when every chunk was *)
(* answered well, unlinks the keys (migrateKeys).  Without the async       *)
(* option the mover is the main thread and the source serves nobody else   *)
(* meanwhile; with it every command runs in a thread of its own that holds *)
(* the GIL only around each single DUMP, PTTL and UNLINK.                  *)
(*                                                                         *)
(* Clients use a key on the source as long as it is there, and on the      *)
(* destination afterwards.  Connections fail, requests and replies are     *)
(* lost or late, and DUMP, RESTORE or UNLINK may be refused: a bounded     *)
(* number of times.                                                        *)
(*                                                                         *)
(* LeftBySubtraction, SplitWithoutRest, ErrorIgnored, NoReplyIgnored,      *)
(* LastChunkFailed, AllButLast, CountSent, WholeBatch, TtlDropped and      *)
(* TtlAsTime are plausible mistakes: each is a wrong form of the           *)
(* definition that follows it, which a property must refute (the mutants   *)
(* of PROJECT.json).                                                       *)
(***************************************************************************)
EXTENDS Integers, Sequences, FiniteSets, SequencesExt

CONSTANTS
    Keys,         \* the keys of the slot
    Tag,          \* the tag (crc) of a key, NoTag for an untagged one
    NoTag,
    Absent,       \* no entry
    Hole,         \* an element of objs[] that was never assigned
    ObjSize,      \* bytes of a key, its ttl and its dump
    MaxCmdSize,   \* REDIS_MGRT_CMD_PARAMS_SIZE
    Movers,       \* clients that issue migration commands
    Cmds,         \* the migration commands they use
    mgrtTypes,    \* the last arguments they use: none, or withpipeline
    slots_mgrt_threads, \* size of the source's thread pool, 0 for none
    async,        \* the async option of the source
    async_dst,    \* the async option of the destination
    Faults,       \* kinds of faults that happen, a subset of AllFaults
    MaxFaults,    \* bound on their number
    MaxVersion,   \* bound on the number of writes by clients
    TTLs,         \* the ttls clients give to keys, 0 for none
    MaxClock,     \* bound on the clock
    ClientDeletes \* whether clients delete keys

AllCmds  == {"one", "slot", "tagone", "tagslot"}
AllFaults == {"dump_err", "connect", "lost_request", "lost_reply", "late",
              "restore_err", "restore_null", "unlink_err", "unlink_null",
              "dump_null", "pttl_null"}
SLOTS_MGRT_ERR == -1

ASSUME MigrateAssumption ==
    /\ IsFiniteSet(Keys)
    /\ Absent \notin [ver : Nat, exp : Nat]
    /\ Hole \notin [key : Keys, ver : Nat, ttl : Int]
    /\ ObjSize \in [Keys -> Nat] /\ MaxCmdSize \in Nat
    /\ Cmds \subseteq AllCmds /\ Faults \subseteq AllFaults
    /\ mgrtTypes \subseteq {"none", "withpipeline"}
    /\ slots_mgrt_threads \in Nat
    /\ async \in BOOLEAN /\ async_dst \in BOOLEAN /\ ClientDeletes \in BOOLEAN
    /\ MaxFaults \in Nat /\ MaxVersion \in Nat /\ MaxClock \in Nat
    /\ TTLs \subseteq Nat

VARIABLES
    src, dst,   \* [Keys -> entry or Absent]: the two keyspaces
    truth,      \* [Keys -> entry or Absent]: what clients last wrote (history)
    now,        \* the clock
    version,    \* number of writes so far
    faults,     \* number of faults so far
    down,       \* the source process has crashed
    pc,         \* [Movers -> control location]
    cmd,        \* [Movers -> the command a mover runs]
    mode,       \* [Movers -> how it sends: batch, pool or pipeline]
    keys,       \* [Movers -> Seq(Keys)]: the batch, keys[] of migrateKeys
    objs,       \* [Movers -> sequence of dump objects]: objs[] of migrateKeys
    chunks,     \* [Movers -> sequence of chunks], one SLOTSRESTORE each
    status,     \* [Movers -> status of each chunk]: todo, sent, ok, err
    unlinked,   \* [Movers -> number of keys delKeys has gone through]
    reply,      \* [Movers -> [ret, left]]: what the client is answered; ret
                \* counts the answered UNLINKs while delKeys runs
    reqs        \* SLOTSRESTORE requests on the way to or at the destination

data  == <<src, dst, truth, version>>
mover == <<pc, cmd, mode, keys, objs, chunks, status, unlinked, reply>>
vars  == <<data, now, faults, down, mover, reqs>>

NoExp == 0
Entry(v, x) == [ver |-> v, exp |-> x]
Live(e) == e # Absent /\ (e.exp = NoExp \/ now <= e.exp)

(* The keys the index of the source holds: expired ones too, until they    *)
(* are looked at (see SlotIndex: the index is exact).                      *)
Indexed == {k \in Keys : src[k] # Absent}
dictSize == Cardinality(Indexed)

(* Without async the main thread runs the command from its first to its    *)
(* last step: nothing else happens on the source, and Redis keeps the time *)
(* it uses for expiry fixed.                                               *)
Busy == down \/ (~async /\ \E m \in Movers : pc[m] # "idle")

-----------------------------------------------------------------------------
Init ==
    /\ src \in [Keys -> {Entry(0, IF t = 0 THEN NoExp ELSE t) : t \in TTLs}]
    /\ dst = [k \in Keys |-> Absent]
    /\ truth = src
    /\ now = 0 /\ version = 0 /\ faults = 0 /\ down = FALSE
    /\ pc = [m \in Movers |-> "idle"]
    /\ cmd = [m \in Movers |-> "one"]
    /\ mode = [m \in Movers |-> "batch"]
    /\ keys = [m \in Movers |-> <<>>]
    /\ objs = [m \in Movers |-> <<>>]
    /\ chunks = [m \in Movers |-> <<>>]
    /\ status = [m \in Movers |-> <<>>]
    /\ unlinked = [m \in Movers |-> 0]
    /\ reply = [m \in Movers |-> [ret |-> 0, left |-> 0]]
    /\ reqs = {}

-----------------------------------------------------------------------------
(* Clients and time *)

Expiry(t) == IF t = 0 THEN NoExp ELSE now + t

SrcWrite(k, t) ==
    /\ ~Busy /\ version < MaxVersion
    /\ src[k] # Absent \/ dst[k] = Absent
    /\ src' = [src EXCEPT ![k] = Entry(version + 1, Expiry(t))]
    /\ truth' = [truth EXCEPT ![k] = src'[k]]
    /\ version' = version + 1
    /\ UNCHANGED <<dst, now, faults, down, mover, reqs>>

SrcDelete(k) ==
    /\ ClientDeletes /\ ~Busy /\ src[k] # Absent
    /\ src' = [src EXCEPT ![k] = Absent]
    /\ truth' = [truth EXCEPT ![k] = Absent]
    /\ UNCHANGED <<dst, version, now, faults, down, mover, reqs>>

(* A synchronous destination runs a SLOTSRESTORE without interruption.     *)
DstBusy == \E r \in reqs : ~async_dst /\ ~r.each /\ r.next > 1
                              /\ r.next <= Len(r.objs)

(* What is left of a pipeline whose sender has seen an error runs to its   *)
(* end all the same.  A destination does what it was sent earlier before   *)
(* what comes later, except for the delays of the fault "late".            *)
LeftOver == \E r \in reqs : ~r.waiting /\ r.next <= Len(r.objs)
InOrder  == "late" \in Faults \/ ~LeftOver

DstWrite(k, t) ==
    /\ ~DstBusy /\ InOrder /\ version < MaxVersion
    /\ src[k] = Absent /\ dst[k] # Absent
    /\ dst' = [dst EXCEPT ![k] = Entry(version + 1, Expiry(t))]
    /\ truth' = [truth EXCEPT ![k] = dst'[k]]
    /\ version' = version + 1
    /\ UNCHANGED <<src, now, faults, down, mover, reqs>>

Tick ==
    /\ ~Busy /\ now < MaxClock
    /\ now' = now + 1
    /\ UNCHANGED <<data, faults, down, mover, reqs>>

(* The active expire cycle of the source.                                  *)
SrcExpire(k) ==
    /\ ~Busy /\ src[k] # Absent /\ ~Live(src[k])
    /\ src' = [src EXCEPT ![k] = Absent]
    /\ UNCHANGED <<dst, truth, version, now, faults, down, mover, reqs>>

-----------------------------------------------------------------------------
(* The migration commands: picking the batch.                              *)

CanStart(m, c) == c \in Cmds /\ pc[m] = "idle" /\ ~Busy

(* The thread pool goes first, and withpipeline is for the main thread.    *)
SendMode(t) == CASE slots_mgrt_threads > 0 -> "pool"
                 [] /\ slots_mgrt_threads = 0 /\ ~async
                    /\ t = "withpipeline"   -> "pipeline"
                 [] OTHER                   -> "batch"

Begin(m, c, batch, l) ==
    /\ pc' = [pc EXCEPT ![m] = l]
    /\ cmd' = [cmd EXCEPT ![m] = c]
    /\ \E t \in mgrtTypes : mode' = [mode EXCEPT ![m] = SendMode(t)]
    /\ keys' = [keys EXCEPT ![m] = batch]
    /\ UNCHANGED <<data, now, faults, down, objs, chunks, status, unlinked,
                   reply, reqs>>

SlotsMGRT_OneKey(m, k) == CanStart(m, "one") /\ Begin(m, "one", <<k>>, "dump")

(* A random key of the slot, or 0 keys migrated if there is none.          *)
SlotsMGRT_SlotOneKey(m) ==
    /\ CanStart(m, "slot")
    /\ \/ Indexed = {} /\ Begin(m, "slot", <<>>, "reply")
       \/ \E k \in Indexed : Begin(m, "slot", <<k>>, "dump")

(* A key without a tag goes alone, for another one the batch is collected. *)
ByTag(k) == IF Tag[k] = NoTag THEN "dump" ELSE "size"

SlotsMGRT_TagKeys(m, k) ==
    CanStart(m, "tagone") /\ Begin(m, "tagone", <<k>>, ByTag(k))

SlotsMGRT_TagSlotKeys(m) ==
    /\ CanStart(m, "tagslot")
    /\ \/ Indexed = {} /\ Begin(m, "tagslot", <<>>, "reply")
       \/ \E k \in Indexed : Begin(m, "tagslot", <<k>>, ByTag(k))

(* SlotsMGRT_TagKeys looks at the size of the dict under its lock, and     *)
(* then walks through the skiplist under another one.                      *)
TagSize(m) ==
    /\ pc[m] = "size" /\ ~down
    /\ pc' = [pc EXCEPT ![m] = IF Indexed = {} THEN "reply" ELSE "walk"]
    /\ UNCHANGED <<data, now, faults, down, cmd, mode, keys, objs, chunks, status,
                   unlinked, reply, reqs>>

(* All keys with the crc of the picked one, which may have gone since.     *)
(* The order of keys with one crc is left open.                            *)
SameTag(k) == SetToSeq({j \in Indexed : Tag[j] = Tag[k]})

TagWalk(m) ==
    /\ pc[m] = "walk" /\ ~down
    /\ LET batch == SameTag(keys[m][1]) IN
       /\ keys' = [keys EXCEPT ![m] = batch]
       /\ pc' = [pc EXCEPT ![m] = IF batch = <<>> THEN "reply" ELSE "dump"]
    /\ UNCHANGED <<data, now, faults, down, cmd, mode, objs, chunks, status,
                   unlinked, reply, reqs>>

-----------------------------------------------------------------------------
(* migrateKeys: dump the batch.                                            *)

Goto(m, l) == pc' = [pc EXCEPT ![m] = l]

(* The reply of a command that ends with ret.  SlotsMGRT_TagKeys stores    *)
(* left after migrateKeys; for an untagged key it returns before that, and *)
(* left keeps the 0 of SlotsMGRTTagSlot_RedisCommand.                      *)
SetsLeft(m) == \/ cmd[m] = "slot"
               \/ cmd[m] = "tagslot" /\ Tag[keys[m][1]] # NoTag

LeftBySubtraction(m) == IF SetsLeft(m) THEN dictSize - Len(keys[m]) ELSE 0

Left(m) == IF SetsLeft(m) THEN dictSize ELSE 0

Finish(m, ret) ==
    /\ Goto(m, "reply")
    /\ reply' = [reply EXCEPT ![m] = [ret |-> ret, left |-> Left(m)]]

Fault(f) == f \in Faults /\ faults < MaxFaults /\ faults' = faults + 1

Unset == -3   \* PTTL not asked yet; it answers -2, -1 or a ttl
Dumped(k, v) == [key |-> k, ver |-> v, ttl |-> Unset]

(* DUMP of the next key: a key that is gone, or expires by being looked    *)
(* at, or for which there is no reply, gives SLOTS_MGRT_NOTHING and leaves *)
(* objs[i] unassigned; a reply of another type (to DUMP, or to the PTTL    *)
(* that follows) ends the command.                                         *)
Dump(m) ==
    LET n == Len(objs[m])
        k == keys[m][n + 1]
    IN  /\ pc[m] = "dump" /\ ~down
        /\ n < Len(keys[m])
        /\ (n > 0 /\ objs[m][n] # Hole) => objs[m][n].ttl # Unset
        /\ \/ /\ objs' = [objs EXCEPT ![m] = Append(@,
                    IF Live(src[k]) THEN Dumped(k, src[k].ver) ELSE Hole)]
              /\ src' = [src EXCEPT ![k] = IF Live(src[k]) THEN @ ELSE Absent]
              /\ UNCHANGED <<faults, pc, reply>>
           \/ /\ Live(src[k]) /\ Fault("dump_null")
              /\ objs' = [objs EXCEPT ![m] = Append(@, Hole)]
              /\ UNCHANGED <<src, pc, reply>>
           \/ /\ Live(src[k]) /\ Fault("dump_err") /\ Finish(m, SLOTS_MGRT_ERR)
              /\ UNCHANGED <<objs, src>>
        /\ UNCHANGED <<dst, truth, version, now, down, cmd, mode, keys, chunks,
                       status, unlinked, reqs>>

(* PTTL: -2 for a key that has gone since DUMP, -1 for one without expiry. *)
(* Without a reply objs[i] stays unassigned although there is a dump.      *)
Pttl(m) ==
    LET n == Len(objs[m])
        o == objs[m][n]
        e == src[o.key]
    IN  /\ pc[m] = "dump" /\ ~down /\ n > 0
        /\ o # Hole /\ o.ttl = Unset
        /\ \/ /\ objs' = [objs EXCEPT ![m][n].ttl =
                    CASE ~Live(e) -> -2 [] Live(e) /\ e.exp = NoExp -> -1
                      [] OTHER -> e.exp - now]
              /\ src' = [src EXCEPT ![o.key] = IF Live(e) THEN @ ELSE Absent]
              /\ UNCHANGED faults
           \/ /\ Fault("pttl_null")
              /\ objs' = [objs EXCEPT ![m][n] = Hole]
              /\ UNCHANGED src
        /\ UNCHANGED <<dst, truth, version, now, down, pc, cmd, mode, keys,
                       chunks, status, unlinked, reply, reqs>>

(* BatchSend_SlotsRestore, its thread pool variant and                     *)
(* Pipeline_SlotsRestore cut objs[] the same way: before an object is      *)
(* added, the objects so far are sent if their size exceeds the limit.     *)
Size(o) == IF o = Hole THEN 0 ELSE ObjSize[o.key]

Cut(os) ==
    LET cut[i \in 0 .. Len(os)] ==
          IF i = 0 THEN [size |-> 0, done |-> <<>>, open |-> <<>>]
          ELSE LET p == cut[i - 1] IN
               IF p.size > MaxCmdSize
               THEN [size |-> Size(os[i]), done |-> Append(p.done, p.open),
                     open |-> <<os[i]>>]
               ELSE [size |-> p.size + Size(os[i]), done |-> p.done,
                     open |-> Append(p.open, os[i])]
    IN  cut[Len(os)]

SplitWithoutRest(os) ==
    IF Cut(os).done = <<>> THEN <<Cut(os).open>> ELSE Cut(os).done

Split(os) == Append(Cut(os).done, Cut(os).open)

(* getRdbDumpObjs returns the number j of dumped objects and MGRT sends    *)
(* objs[0..j).  If an unassigned element is among them the program reads   *)
(* an uninitialised pointer: it crashes, or sends some leftover object     *)
(* that is none of this batch.                                             *)
Sent(os) == SubSeq(os, 1, Cardinality({i \in DOMAIN os : os[i] # Hole}))

MGRT(m) ==
    /\ pc[m] = "dump" /\ ~down
    /\ Len(objs[m]) = Len(keys[m])
    /\ Last(objs[m]) # Hole => Last(objs[m]).ttl # Unset
    /\ LET send == Sent(objs[m]) IN
       \/ /\ send = <<>>
          /\ Finish(m, 0)
          /\ UNCHANGED <<chunks, status, down>>
       \/ /\ send # <<>>
          /\ chunks' = [chunks EXCEPT ![m] = Split(send)]
          /\ status' = [status EXCEPT ![m] = [c \in 1 .. Len(Split(send)) |-> "todo"]]
          /\ Goto(m, IF mode[m] = "pool" THEN "send" ELSE "connect")
          /\ UNCHANGED <<reply, down>>
       \/ /\ Hole \in Range(send)
          /\ down' = TRUE
          /\ UNCHANGED <<pc, chunks, status, reply>>
    /\ UNCHANGED <<data, now, faults, cmd, mode, keys, objs, unlinked, reqs>>

-----------------------------------------------------------------------------
(* Sending *)

SetStatus(m, c, s) == status' = [status EXCEPT ![m][c] = s]

(* GetConnCtx and SELECT of a mover that sends itself.                     *)
Connect(m) ==
    /\ pc[m] = "connect" /\ ~down
    /\ \/ Goto(m, "send") /\ UNCHANGED <<reply, faults>>
       \/ Fault("connect") /\ Finish(m, SLOTS_MGRT_ERR)
    /\ UNCHANGED <<data, now, down, cmd, mode, keys, objs, chunks, status, unlinked,
                   reqs>>

(* One SLOTSRESTORE command with the objects of chunk c.  A worker of the  *)
(* thread pool opens a connection of its own first; without the pool the   *)
(* chunks go one after the other over one connection.                      *)
Turn(m, c) == mode[m] = "pool" \/ \A b \in 1 .. c - 1 : status[m][b] = "ok"

Request(m, c) ==
    [mover |-> m, chunk |-> c, objs |-> chunks[m][c], next |-> 1,
     failed |-> FALSE, each |-> mode[m] = "pipeline", waiting |-> TRUE]

doSplitRestoreCommand(m, c) ==
    /\ pc[m] = "send" /\ ~down
    /\ status[m][c] = "todo" /\ Turn(m, c)
    /\ \/ /\ SetStatus(m, c, "sent")
          /\ reqs' = reqs \cup {Request(m, c)}
          /\ UNCHANGED faults
       \/ /\ mode[m] = "pool" /\ Fault("connect")
          /\ SetStatus(m, c, "err")
          /\ UNCHANGED reqs
    /\ UNCHANGED <<data, now, down, pc, cmd, mode, keys, objs, chunks, unlinked, reply>>

(* The reply to chunk c.  An asynchronous destination answers with the     *)
(* integer -1 where a synchronous one answers with an error, and only the  *)
(* reply type is looked at.  In a pipeline the replies to the objects are  *)
(* read in order, up to the first error; the rest of the commands has been *)
(* sent, and the destination runs it.                                      *)
Complete(r) == r.next > Len(r.objs)
ErrorIgnored(r) == FALSE
ReplyIsError(r) == r.failed /\ ~async_dst

GetReply(m, r) ==
    /\ ~down /\ r.waiting /\ r.mover = m
    /\ Complete(r) \/ (r.each /\ ReplyIsError(r))
    /\ SetStatus(m, r.chunk, IF ReplyIsError(r) THEN "err" ELSE "ok")
    /\ reqs' = (reqs \ {r}) \cup (IF Complete(r) THEN {}
                                  ELSE {[r EXCEPT !.waiting = FALSE]})
    /\ UNCHANGED <<data, now, faults, down, pc, cmd, mode, keys, objs, chunks,
                   unlinked, reply>>

NoReplyIgnored == "ok"

(* conn_ctx->err is set, or the reply is NULL.                             *)
NoReplyStatus == "err"

(* The read times out, or the connection breaks: the request was lost, its *)
(* reply was lost, or the destination will run it, or the rest of it,      *)
(* later.                                                                  *)
Timeout(m, r) ==
    /\ ~down /\ r.waiting /\ r.mover = m
    /\ SetStatus(m, r.chunk, NoReplyStatus)
    /\ \/ Fault("lost_request") /\ r.next = 1 /\ reqs' = reqs \ {r}
       \/ Fault("lost_reply") /\ Complete(r) /\ reqs' = reqs \ {r}
       \/ /\ Fault("late") /\ ~Complete(r)
          /\ reqs' = (reqs \ {r}) \cup {[r EXCEPT !.waiting = FALSE]}
    /\ UNCHANGED <<data, now, down, pc, cmd, mode, keys, objs, chunks, unlinked, reply>>

LastChunkFailed(m) == Last(status[m]) = "err"

SendFailed(m) == "err" \in Range(status[m])

(* Without the pool the first error ends the sending; with it all workers  *)
(* are waited for, and one error is enough.                                *)
SendDone(m) ==
    LET st == Range(status[m]) IN
    /\ pc[m] = "send" /\ ~down
    /\ IF mode[m] = "pool" THEN st \subseteq {"ok", "err"}
       ELSE "err" \in st \/ st = {"ok"}
    /\ IF SendFailed(m) THEN Finish(m, SLOTS_MGRT_ERR)
       ELSE Goto(m, "del") /\ UNCHANGED reply
    /\ UNCHANGED <<data, now, faults, down, cmd, mode, keys, objs, chunks, status,
                   unlinked, reqs>>

AllButLast(m) == Len(keys[m]) - 1

ToUnlink(m) == Len(keys[m])

(* delKeys: UNLINK of the next key of the batch, whether it was sent or    *)
(* not and whether it was there or not.  A key is passed over if UNLINK    *)
(* has no reply; a reply that is no integer ends the command, the keys     *)
(* before it are gone.                                                     *)
delKeys(m) ==
    LET i == unlinked[m] + 1 IN
    /\ pc[m] = "del" /\ ~down
    /\ i <= ToUnlink(m)
    /\ \/ /\ src' = [src EXCEPT ![keys[m][i]] = Absent]
          /\ unlinked' = [unlinked EXCEPT ![m] = i]
          /\ reply' = [reply EXCEPT ![m].ret = @ + 1]
          /\ UNCHANGED <<pc, faults>>
       \/ /\ Fault("unlink_null")
          /\ unlinked' = [unlinked EXCEPT ![m] = i]
          /\ UNCHANGED <<src, pc, reply>>
       \/ /\ Fault("unlink_err") /\ Finish(m, SLOTS_MGRT_ERR)
          /\ UNCHANGED <<src, unlinked>>
    /\ UNCHANGED <<dst, truth, version, now, down, cmd, mode, keys, objs, chunks,
                   status, reqs>>

CountSent(m) == IF Len(Sent(objs[m])) < Len(keys[m]) THEN SLOTS_MGRT_ERR
                ELSE Len(keys[m])

WholeBatch(m) == Len(keys[m])

(* The answer: the UNLINKs that were answered.                             *)
Deleted(m) == reply[m].ret

delDone(m) ==
    /\ pc[m] = "del" /\ ~down
    /\ unlinked[m] = ToUnlink(m)
    /\ Finish(m, Deleted(m))
    /\ UNCHANGED <<data, now, faults, down, cmd, mode, keys, objs, chunks, status,
                   unlinked, reqs>>

(* The command's reply is handed to the client, and its locals are gone.   *)
Reply(m) ==
    /\ pc[m] = "reply" /\ ~down
    /\ Goto(m, "idle")
    /\ cmd' = [cmd EXCEPT ![m] = "one"]
    /\ mode' = [mode EXCEPT ![m] = "batch"]
    /\ keys' = [keys EXCEPT ![m] = <<>>]
    /\ objs' = [objs EXCEPT ![m] = <<>>]
    /\ chunks' = [chunks EXCEPT ![m] = <<>>]
    /\ status' = [status EXCEPT ![m] = <<>>]
    /\ unlinked' = [unlinked EXCEPT ![m] = 0]
    /\ reply' = [reply EXCEPT ![m] = [ret |-> 0, left |-> 0]]
    /\ UNCHANGED <<data, now, faults, down, reqs>>

-----------------------------------------------------------------------------
(* The destination *)

TtlDropped(ttl) == NoExp
TtlAsTime(ttl) == IF ttl > 0 THEN ttl ELSE NoExp

(* What is sent and restored for a ttl that PTTL answered: only a positive *)
(* one is kept.                                                            *)
RestoredExp(ttl) == IF ttl > 0 THEN now + ttl ELSE NoExp

(* restoreOneWithReplace for the next object of a request; restoreMutli    *)
(* stops at the first error, and takes a missing reply for a success.      *)
(* The commands of a pipeline are independent of each other.               *)
restoreOneWithReplace(r) ==
    LET o == r.objs[r.next]
        stop == IF r.each THEN r.next + 1 ELSE Len(r.objs) + 1
    IN  /\ ~Complete(r)
        /\ DstBusy => r.next > 1 /\ ~r.each
        /\ r.waiting => InOrder
        /\ \/ /\ dst' = IF o = Hole THEN dst
                        ELSE [dst EXCEPT ![o.key] = Entry(o.ver, RestoredExp(o.ttl))]
              /\ reqs' = (reqs \ {r}) \cup {[r EXCEPT !.next = @ + 1]}
              /\ UNCHANGED faults
           \/ /\ Fault("restore_err")
              /\ reqs' = (reqs \ {r})
                           \cup {[r EXCEPT !.next = stop, !.failed = TRUE]}
              /\ UNCHANGED dst
           \/ /\ Fault("restore_null")
              /\ reqs' = (reqs \ {r}) \cup {[r EXCEPT !.next = @ + 1]}
              /\ UNCHANGED dst
        /\ UNCHANGED <<src, truth, version, now, down, mover>>

(* A request nobody waits for any more has run to its end.                 *)
Forget(r) ==
    /\ ~r.waiting /\ Complete(r)
    /\ reqs' = reqs \ {r}
    /\ UNCHANGED <<data, now, faults, down, mover>>

-----------------------------------------------------------------------------
Start(m) ==
    \/ \E k \in Keys : SlotsMGRT_OneKey(m, k) \/ SlotsMGRT_TagKeys(m, k)
    \/ SlotsMGRT_SlotOneKey(m)
    \/ SlotsMGRT_TagSlotKeys(m)

MoverStep(m) ==
    \/ TagSize(m)
    \/ TagWalk(m)
    \/ Dump(m)
    \/ Pttl(m)
    \/ MGRT(m)
    \/ Connect(m)
    \/ \E c \in DOMAIN status[m] : doSplitRestoreCommand(m, c)
    \/ \E r \in reqs : GetReply(m, r)
    \/ SendDone(m)
    \/ delKeys(m)
    \/ delDone(m)
    \/ Reply(m)

Destination == \E r \in reqs : restoreOneWithReplace(r) \/ Forget(r)

Client ==
    \/ \E k \in Keys, t \in TTLs : SrcWrite(k, t) \/ DstWrite(k, t)
    \/ \E k \in Keys : SrcDelete(k) \/ SrcExpire(k)
    \/ Tick

Next ==
    \/ \E m \in Movers :
          Start(m) \/ MoverStep(m) \/ \E r \in reqs : Timeout(m, r)
    \/ Destination
    \/ Client

Spec == Init /\ [][Next]_vars

(* Threads and the two servers keep running, and the administrator repeats *)
(* SLOTSMGRTTAGSLOT.                                                       *)
FairSpec ==
    /\ Spec
    /\ \A m \in Movers : WF_vars(MoverStep(m)) /\ WF_vars(Start(m))
    /\ WF_vars(Destination)

-----------------------------------------------------------------------------
(* Properties *)

(* The type of every variable.                                             *)
TypeOK ==
    LET entries == [ver : 0 .. MaxVersion, exp : Nat] \cup {Absent}
        dumps == [key : Keys, ver : 0 .. MaxVersion, ttl : Nat \cup {-3, -2, -1}]
                    \cup {Hole}
    IN  /\ {src, dst, truth} \subseteq [Keys -> entries]
        /\ now \in 0 .. MaxClock /\ version \in 0 .. MaxVersion
        /\ faults \in 0 .. MaxFaults /\ down \in BOOLEAN
        /\ \A m \in Movers :
             /\ pc[m] \in {"idle", "size", "walk", "dump", "connect", "send", "del",
                          "reply"}
             /\ cmd[m] \in AllCmds /\ mode[m] \in {"batch", "pool", "pipeline"}
             /\ Range(keys[m]) \subseteq Keys
             /\ Range(objs[m]) \subseteq dumps
             /\ DOMAIN status[m] = DOMAIN chunks[m]
             /\ Range(status[m]) \subseteq {"todo", "sent", "ok", "err"}
             /\ unlinked[m] \in 0 .. Len(keys[m])
             /\ reply[m].ret \in -1 .. Cardinality(Keys)
             /\ reply[m].left \in 0 .. Cardinality(Keys)

(* SlotsMGRT_OneKey: "3.if migrate ok, remove key".  In every state, also  *)
(* between two steps of a migration that later fails, each live key has    *)
(* its latest value on the source or on the destination, and does not      *)
(* expire there before its time.                                           *)
Holds(e, t) == e # Absent /\ e.ver = t.ver
                 /\ (e.exp = NoExp \/ (t.exp # NoExp /\ e.exp >= t.exp))
NoKeyLost ==
    ~down => \A k \in Keys :
        Live(truth[k]) => Holds(src[k], truth[k]) \/ Holds(dst[k], truth[k])

(* Where the latest value of a key is                                      *)
Place(k) ==
    CASE truth[k] = Absent -> "none"
      [] truth[k] # Absent /\ Holds(src[k], truth[k])
         /\ ~Holds(dst[k], truth[k]) -> "source"
      [] truth[k] # Absent /\ Holds(src[k], truth[k])
         /\ Holds(dst[k], truth[k]) -> "both"
      [] truth[k] # Absent /\ ~Holds(src[k], truth[k])
         /\ Holds(dst[k], truth[k]) -> "destination"
      [] OTHER -> "lost"

(* A synchronous migration of keys without ttl hands every key over: over  *)
(* several chunks, failed attempts and retries, a key leaves the source    *)
(* only when the destination has its latest value, and never comes back.   *)
Handoff == INSTANCE KeyHandoff WITH place <- [k \in Keys |-> Place(k)]
IsHandoff == Handoff!Spec

(* With writes going on during an asynchronous migration the value may be  *)
(* an older one, but a key that was never deleted is always somewhere.     *)
KeyNeverVanishes ==
    ~down => \A k \in Keys :
        Live(truth[k]) => src[k] # Absent \/ dst[k] # Absent

(* A command that answers with an error has removed none of its keys,      *)
(* whichever step failed and however many chunks had arrived by then       *)
(* (migrateKeys returns before delKeys), unless UNLINK itself is refused.  *)
(* Keys that were gone before it looked at them do not count.              *)
GoneBefore(m, k) ==
    \E i \in DOMAIN objs[m] : keys[m][i] = k /\ objs[m][i] = Hole
ErrorKeepsKeys ==
    \A m \in Movers :
        (pc[m] = "reply" /\ ~async /\ reply[m].ret = SLOTS_MGRT_ERR) =>
            \A k \in Range(keys[m]) :
                ~GoneBefore(m, k) /\ Live(truth[k]) => Holds(src[k], truth[k])

(* The answer tells what has happened to the batch, however many chunks    *)
(* and faults there were: after an error nothing has left the source, and  *)
(* after the answer n exactly n keys have, each of them is on the          *)
(* destination, and the source has kept the others as they were (the       *)
(* comment on MGRT: "# of success migration").                             *)
Taken(m) == {keys[m][i] : i \in {j \in DOMAIN objs[m] : objs[m][j] # Hole}}
AnswerIsExact ==
    /\ ErrorKeepsKeys
    /\ \A m \in Movers :
          (pc[m] = "reply" /\ ~async /\ reply[m].ret # SLOTS_MGRT_ERR) =>
             LET moved == {k \in Taken(m) : src[k] = Absent}
             IN  /\ reply[m].ret = Cardinality(moved)
                 /\ \A k \in moved : dst[k] # Absent
                 /\ \A k \in Taken(m) \ moved :
                       Live(truth[k]) => Holds(src[k], truth[k])

(* Splitting a batch by size loses, repeats and reorders nothing, sends no *)
(* empty SLOTSRESTORE, and no chunk exceeds the limit by more than its     *)
(* last object.                                                            *)
ChunkBytes(os) ==
    LET bytes[i \in 0 .. Len(os)] == IF i = 0 THEN 0 ELSE bytes[i - 1] + Size(os[i])
    IN  bytes[Len(os)]
ChunksFit ==
    \A m \in Movers : chunks[m] # <<>> =>
        /\ FlattenSeq(chunks[m]) = Sent(objs[m])
        /\ \A c \in DOMAIN chunks[m] :
              /\ chunks[m][c] # <<>>
              /\ ChunkBytes(Front(chunks[m][c])) <= MaxCmdSize

(* getRdbDumpObjs: the comment promises "# of success get rdb_dump_objs    *)
(* num (0 or n)", and migrateKeys relies on it: it sends the first that    *)
(* many elements of objs[] and unlinks all n keys.                         *)
DumpZeroOrN ==
    \A m \in Movers : Len(objs[m]) = Len(keys[m]) =>
        Len(Sent(objs[m])) \in {0, Len(keys[m])}

(* A ttl travels as a duration and is turned into a time again by RESTORE, *)
(* possibly much later: the copy never expires before the key would have,  *)
(* whoever wrote it last and however often it was sent.                    *)
NoEarlyExpiry ==
    \A k \in Keys :
        Live(truth[k]) /\ dst[k] # Absent /\ dst[k].ver = truth[k].ver
        => dst[k].exp = NoExp
             \/ (truth[k].exp # NoExp /\ dst[k].exp >= truth[k].exp)

(* A ttl of 0 is sent as no expiry.  A synchronous migration makes a key   *)
(* with a ttl permanent only if PTTL caught it in the last tick of its     *)
(* life: then it has expired for its clients one tick later.               *)
TtlKept ==
    \A k \in Keys :
        Live(truth[k]) /\ dst[k] # Absent /\ dst[k].ver = truth[k].ver
          /\ dst[k].exp = NoExp
        => truth[k].exp \in {NoExp, now}

(* Repeating SLOTSMGRTTAGSLOT empties the slot once clients stop adding    *)
(* keys to it, whatever (finitely many) faults happen on the way.          *)
Drains == <>[](Indexed = {})
=============================================================================
