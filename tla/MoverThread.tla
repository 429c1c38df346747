----------------------------- MODULE MoverThread -----------------------------
(***************************************************************************)
(* The threads of a server that runs with the async option: the main       *)
(* thread, one thread per asynchronous command, the workers of its thread  *)
(* pool; the locks they share, the clients that are blocked meanwhile, and *)
(* the cache of connections, which the workers use and the cron job        *)
(* cleans.                                                                 *)
(*                                                                         *)
(* A thread is the sequence of instructions it has still to execute.  An   *)
(* instruction takes a lock, releases one, or does something; the data it  *)
(* works on is the subject of Migrate, SlotScan and SlotIndex and left out *)
(* here.  Connections fail at any time and any number of times.            *)
(*                                                                         *)
(* NestedLocks, LockedCall, FreedFirst, EarlyReturn, KeepsLock and NotDue  *)
(* are plausible mistakes: each is a wrong form of the definition that     *)
(* follows it, which a property must refute.                               *)
(***************************************************************************)
EXTENDS Naturals, Sequences, FiniteSets, FiniteSetsExt

CONSTANTS
    Main,                    \* the main thread
    Clients,                 \* each has at most one command at a time
    Commands,                \* [Clients -> the commands a client uses]
    ThreadCounts,            \* the sizes of a thread pool configured, 0 for none
    MaxChunks,               \* bound on the chunks of a batch
    MGRT_BATCH_KEY_TIMEOUT,  \* 30 s in the code
    KeysTerminated           \* a 0 happens to follow the keys the cron job reads

AllCommands == {"slotsmgrtone", "slotsmgrtslot", "slotsmgrttagone",
                "slotsmgrttagslot", "slotsdel", "slotstest", "slotsrestore"}

ASSUME ThreadAssumption ==
    /\ Main \notin Clients /\ Commands \in [Clients -> SUBSET AllCommands]
    /\ ThreadCounts \subseteq Nat /\ IsFiniteSet(ThreadCounts)
    /\ MaxChunks \in Nat \ {0}
    /\ MGRT_BATCH_KEY_TIMEOUT \in Nat
    /\ KeysTerminated \in BOOLEAN

(* The thread of a client's command is named like the client.              *)
MaxThreads == Max(ThreadCounts \cup {0})
Workers(c) == {c} \X (1 .. MaxThreads)
Threads == Clients \cup UNION {Workers(c) : c \in Clients}
Actors  == Threads \cup {Main}
Locks   == {"gil", "slot", "list", "cache"}

(* The threads of a pool are threads of their own.                         *)
ASSUME NamesAssumption ==
    \A c \in Clients : Workers(c) \cap (Clients \cup {Main}) = {}

VARIABLES
    slots_mgrt_threads,  \* the configured size of a thread pool
    code,       \* [Actors -> instructions still to execute]
    readers,    \* [Locks -> actors that hold it for reading]
    writer,     \* [Locks -> the set of the actor that holds it, or {}]
    client,     \* [Clients -> idle, blocked, or ready (unblocked)]
    chunks,     \* [Clients -> chunks its thread pool has still to take]
    conn,       \* [Threads -> the connection a thread has opened last]
    ptr,        \* [Threads -> it has a pointer to that connection]
    unixtime,   \* [Threads -> age of the time read for its last_time]
    orphans,    \* ages of cached connections whose thread has ended
    due,        \* a second has passed since the cron job closed connections
    down        \* the server has crashed

locks == <<readers, writer>>
conns == <<conn, ptr, unixtime>>
vars  == <<slots_mgrt_threads, code, locks, client, chunks, conns, orphans,
           due, down>>

(* The age of a connection is the time since last_time, and not counted    *)
(* beyond the first value for which it has timed out.  A time that is not  *)
(* used any more is of that age too.  A connection is live until it is     *)
(* freed, cached while the dict refers to it.                              *)
Oldest == MGRT_BATCH_KEY_TIMEOUT + 1
Ages == 0 .. Oldest
Older(age) == Min({age + 1, Oldest})
NoConn == [live |-> FALSE, cached |-> FALSE, age |-> 0]

-----------------------------------------------------------------------------
(* Programs *)

Rd(l) == <<"rd", l>>
Wr(l) == <<"wr", l>>
Un(l) == <<"un", l>>
Do(x) == <<"do", x>>

Reading(l) == <<Rd(l), Un(l)>>
Writing(l) == <<Wr(l), Un(l)>>

NestedLocks == {<<Wr("slot"), Un("slot")>>,
                <<Wr("slot"), Wr("list"), Un("list"), Un("slot")>>}

(* Slots_Add and Slots_Del: the skiplist only for a tagged key, and only   *)
(* if the dict has changed.                                                *)
IndexChange == {Writing("slot"), Writing("slot") \o Writing("list")}

(* What a call of Redis under the GIL does to the index: the events it     *)
(* raises run the callbacks of the module on this thread.  DUMP and PTTL   *)
(* may find the key expired; RESTORE raises no event the module handles.   *)
Callbacks(x) == CASE x = "RESTORE" -> {<<>>}
                  [] x = "notify"  -> IndexChange
                  [] OTHER         -> {<<>>} \cup IndexChange

LockedCall(x) == <<Rd("slot"), Wr("gil"), Do(x), Un("gil"), Un("slot")>>

(* ASYNC_LOCK, RedisModule_Call, ASYNC_UNLOCK                              *)
Call(x) == <<Wr("gil"), Do(x), Un("gil")>>

(* SlotsMGRT_GetConnCtx; "refresh" goes on if no connection was found.     *)
GetConnCtx == <<Do("time"), Wr("cache"), Do("find"), Un("cache"), Do("refresh")>>
NewConn    == <<Do("connect"), Wr("cache"), Do("insert"), Un("cache")>>

(* SlotsMGRT_CloseConn; "close" goes on if the connection was cached.      *)
CloseConn == <<Wr("cache"), Do("fetch"), Un("cache"), Do("close")>>

FreedFirst == <<Do("free"), Wr("cache"), Do("remove"), Un("cache")>>

FreeConn == <<Wr("cache"), Do("remove"), Un("cache"), Do("free")>>

(* A task of the thread pool                                               *)
doSplitRestoreCmdTask ==
    GetConnCtx \o <<Do("SELECT"), Do("SLOTSRESTORE")>> \o CloseConn

dumpObj == Call("DUMP") \o Call("PTTL")

migrateKeys == dumpObj \o <<Do("MGRT")>> \o Call("UNLINK")

(* The ways through a command.  Some read the number of remaining keys     *)
(* last.                                                                   *)
Left == Reading("slot")

SlotsMGRT_OneKey      == {migrateKeys}
SlotsMGRT_SlotOneKey  == {Reading("slot"), Reading("slot") \o migrateKeys \o Left}
SlotsMGRT_TagKeys     == {migrateKeys, Reading("slot"),
                          Reading("slot") \o Reading("list"),
                          Reading("slot") \o Reading("list") \o migrateKeys
                            \o Left}
SlotsMGRT_TagSlotKeys == {Reading("slot")}
                           \cup {Reading("slot") \o p : p \in SlotsMGRT_TagKeys}
SlotsMGRT_DelSlotKeys == {Reading("slot"),
                          Reading("slot") \o Reading("slot") \o Call("UNLINK")}
SlotsTest             == {Call("sleep")}

restoreOneWithReplace == Call("RESTORE") \o Call("notify")
slotsRestoreCmd       == {restoreOneWithReplace}

(* dispatchCmd, and SLOTSRESTORE, which has a thread function of its own   *)
dispatchCmd(x) == CASE x = "slotsmgrtone"     -> SlotsMGRT_OneKey
                    [] x = "slotsmgrtslot"    -> SlotsMGRT_SlotOneKey
                    [] x = "slotsmgrttagone"  -> SlotsMGRT_TagKeys
                    [] x = "slotsmgrttagslot" -> SlotsMGRT_TagSlotKeys
                    [] x = "slotsdel"         -> SlotsMGRT_DelSlotKeys
                    [] x = "slotstest"        -> SlotsTest
                    [] x = "slotsrestore"     -> slotsRestoreCmd

(* What the main thread does itself: a command of a client that changes    *)
(* keys, and SLOTSSCAN.                                                    *)
MainPrograms == IndexChange \cup {Reading("slot") \o Reading("slot")}

Init ==
    /\ slots_mgrt_threads \in ThreadCounts
    /\ code = [a \in Actors |-> <<>>]
    /\ readers = [l \in Locks |-> {}]
    /\ writer = [l \in Locks |-> IF l = "gil" THEN {Main} ELSE {}]
    /\ client = [c \in Clients |-> "idle"]
    /\ chunks = [c \in Clients |-> 0]
    /\ conn = [t \in Threads |-> NoConn]
    /\ ptr = [t \in Threads |-> FALSE]
    /\ unixtime = [t \in Threads |-> Oldest]
    /\ orphans = {} /\ due = FALSE /\ down = FALSE

-----------------------------------------------------------------------------
(* Locks *)

Next1(a) == Head(code[a])
Ready(a, i) == ~down /\ code[a] # <<>> /\ Next1(a) = i
Continue(a, s) == code' = [code EXCEPT ![a] = s \o Tail(@)]

(* pthread rwlocks with the default attributes let readers in while a      *)
(* writer waits.  The GIL and the mutex of the cache are taken exclusively.*)
Acquire(a, l) ==
    /\ \/ /\ Ready(a, Rd(l)) /\ writer[l] = {}
          /\ readers' = [readers EXCEPT ![l] = @ \cup {a}]
          /\ UNCHANGED writer
       \/ /\ Ready(a, Wr(l)) /\ writer[l] = {} /\ readers[l] = {}
          /\ writer' = [writer EXCEPT ![l] = {a}]
          /\ UNCHANGED readers
    /\ Continue(a, <<>>)
    /\ UNCHANGED <<client, chunks, conns, orphans, due, down>>

Release(a, l) ==
    /\ Ready(a, Un(l))
    /\ readers' = [readers EXCEPT ![l] = @ \ {a}]
    /\ writer' = [writer EXCEPT ![l] = @ \ {a}]
    /\ Continue(a, <<>>)
    /\ UNCHANGED <<client, chunks, conns, orphans, due, down>>

-----------------------------------------------------------------------------
(* The instructions of a thread *)

EarlyReturn(t) == {<<>>}

(* Where a command goes on that gives up: with its end, or with reading    *)
(* the number of remaining keys, if it is one that does.  A worker has     *)
(* nothing left to do.                                                     *)
Exits(t) ==
    LET s == code[t]
        End(n) == SubSeq(s, Len(s) - n, Len(s))
    IN  CASE t \notin Clients -> {<<>>}
          [] t \in Clients /\ s[Len(s) - 1] = Un("slot") -> {End(0), End(2)}
          [] OTHER -> {End(0)}

Jump(t, s) == code' = [code EXCEPT ![t] = s]

KeepsLock(t, cb) == {cb \o s : s \in Exits(t)}

(* The reply of Redis is looked at after the GIL is released, and may end  *)
(* the command.                                                            *)
BadReply(t, cb) == {cb \o <<Un("gil")>> \o s : s \in Exits(t)}

(* A call of Redis under the GIL.                                          *)
CallRedis(t, x) ==
    /\ Ready(t, Do(x))
    /\ \E cb \in Callbacks(x) :
          \/ Continue(t, cb)
          \/ /\ x \in {"DUMP", "PTTL", "UNLINK", "RESTORE"}
             /\ \E s \in BadReply(t, cb) : Jump(t, s)
    /\ UNCHANGED <<locks, client, chunks, conns, orphans, due, down>>

ReadTime(t) ==
    /\ Ready(t, Do("time"))
    /\ unixtime' = [unixtime EXCEPT ![t] = 0]
    /\ Continue(t, <<>>)
    /\ UNCHANGED <<conn, ptr>>

Find(t) ==
    /\ Ready(t, Do("find"))
    /\ ptr' = [ptr EXCEPT ![t] = conn[t].cached]
    /\ Continue(t, <<>>)
    /\ UNCHANGED <<conn, unixtime>>

(* last_time becomes the time that was read before the lookup.             *)
Refresh(t) ==
    /\ Ready(t, Do("refresh"))
    /\ \/ /\ ptr[t]
          /\ conn' = IF conn[t].live THEN [conn EXCEPT ![t].age = unixtime[t]]
                                     ELSE conn
          /\ unixtime' = [unixtime EXCEPT ![t] = Oldest]
          /\ Continue(t, <<>>)
       \/ /\ ~ptr[t]
          /\ Continue(t, NewConn)
          /\ UNCHANGED <<conn, unixtime>>
    /\ UNCHANGED ptr

Connect(t) ==
    /\ Ready(t, Do("connect"))
    /\ \/ /\ conn' = [conn EXCEPT ![t] = [live |-> TRUE, cached |-> FALSE,
                                          age |-> unixtime[t]]]
          /\ ptr' = [ptr EXCEPT ![t] = TRUE]
          /\ Continue(t, <<>>)
       \/ /\ \E s \in Exits(t) : Jump(t, s)
          /\ UNCHANGED <<conn, ptr>>
    /\ unixtime' = [unixtime EXCEPT ![t] = Oldest]

Insert(t) ==
    /\ Ready(t, Do("insert"))
    /\ conn' = [conn EXCEPT ![t].cached = TRUE]
    /\ Continue(t, <<>>)
    /\ UNCHANGED <<ptr, unixtime>>

(* MGRT closes the connection if SELECT fails, a worker leaves it in the   *)
(* cache.                                                                  *)
Select(t) ==
    /\ Ready(t, Do("SELECT"))
    /\ \/ Continue(t, <<>>) /\ UNCHANGED ptr
       \/ /\ t \in Clients
          /\ \E s \in Exits(t) : Jump(t, CloseConn \o s)
          /\ UNCHANGED ptr
       \/ /\ t \notin Clients
          /\ Jump(t, <<>>)
          /\ ptr' = [ptr EXCEPT ![t] = FALSE]
    /\ UNCHANGED <<conn, unixtime>>

(* The chunks of a batch.  last_time is set when all have been sent, by a  *)
(* worker also if its chunk has failed.                                    *)
SendChunks(t) ==
    /\ Ready(t, Do("SLOTSRESTORE"))
    /\ \/ /\ Continue(t, <<>>)
          /\ conn' = IF conn[t].live THEN [conn EXCEPT ![t].age = 0] ELSE conn
       \/ /\ t \in Clients
          /\ \E s \in Exits(t) : Jump(t, CloseConn \o s)
          /\ UNCHANGED conn
    /\ UNCHANGED <<ptr, unixtime>>

Fetch(t) ==
    /\ Ready(t, Do("fetch"))
    /\ ptr' = [ptr EXCEPT ![t] = conn[t].cached]
    /\ Continue(t, <<>>)
    /\ UNCHANGED <<conn, unixtime>>

Close(t) ==
    /\ Ready(t, Do("close"))
    /\ Continue(t, IF ptr[t] THEN FreeConn ELSE <<>>)
    /\ UNCHANGED conns

Remove(t) ==
    /\ Ready(t, Do("remove"))
    /\ conn' = [conn EXCEPT ![t].cached = FALSE]
    /\ Continue(t, <<>>)
    /\ UNCHANGED <<ptr, unixtime>>

Free(t) ==
    /\ Ready(t, Do("free"))
    /\ conn' = [conn EXCEPT ![t].live = FALSE, ![t].age = 0]
    /\ ptr' = [ptr EXCEPT ![t] = FALSE]
    /\ Continue(t, <<>>)
    /\ UNCHANGED unixtime

(* To read, write or free what the cron job has freed may be a crash.      *)
Touch(t) == down' \in {FALSE, ptr[t] /\ ~conn[t].live}

UseConn(t) ==
    /\ \/ /\ Refresh(t) \/ Select(t) \/ SendChunks(t) \/ Free(t)
          /\ Touch(t)
       \/ /\ \/ ReadTime(t) \/ Find(t) \/ Connect(t) \/ Insert(t)
             \/ Fetch(t) \/ Close(t) \/ Remove(t)
          /\ UNCHANGED down
    /\ UNCHANGED <<locks, client, chunks, orphans, due>>

(* BatchSendWithThreadPool_SlotsRestore: the workers share the chunks.     *)
(* Without a pool the thread does what one of them does.                   *)
MGRT(c) ==
    /\ Ready(c, Do("MGRT"))
    /\ \/ /\ slots_mgrt_threads > 0
          /\ \E n \in 1 .. MaxChunks : chunks' = [chunks EXCEPT ![c] = n]
          /\ Continue(c, <<Do("wait")>>)
       \/ /\ slots_mgrt_threads = 0
          /\ Continue(c, doSplitRestoreCmdTask)
          /\ UNCHANGED chunks
    /\ UNCHANGED <<locks, client, conns, orphans, due, down>>

Take(c, w) ==
    /\ ~down /\ w \in {c} \X (1 .. slots_mgrt_threads)
    /\ chunks[c] > 0 /\ code[w] = <<>>
    /\ chunks' = [chunks EXCEPT ![c] = @ - 1]
    /\ Jump(w, doSplitRestoreCmdTask)
    /\ UNCHANGED <<locks, client, conns, orphans, due, down>>

(* thpool_wait and thpool_destroy: the workers end.  What they left in the *)
(* cache is found by no thread any more: a new one has another id.         *)
Wait(c) ==
    /\ Ready(c, Do("wait"))
    /\ chunks[c] = 0 /\ \A w \in Workers(c) : code[w] = <<>>
    /\ orphans' = orphans \cup {conn[w].age : w \in {v \in Workers(c) : conn[v].cached}}
    /\ conn' = [t \in Threads |-> IF t \in Workers(c) THEN NoConn ELSE conn[t]]
    /\ Continue(c, <<>>) \/ \E s \in Exits(c) : Jump(c, s)
    /\ UNCHANGED <<locks, client, chunks, ptr, unixtime, due, down>>

(* RedisModule_UnblockClient                                               *)
UnblockClient(c) ==
    /\ Ready(c, Do("unblock"))
    /\ client' = [client EXCEPT ![c] = "ready"]
    /\ Continue(c, <<>>)
    /\ UNCHANGED <<locks, chunks, conns, orphans, due, down>>

LockStep(a) ==
    /\ code[a] # <<>> /\ Next1(a)[1] # "do"
    /\ Acquire(a, Next1(a)[2]) \/ Release(a, Next1(a)[2])

RedisCalls == {"DUMP", "PTTL", "UNLINK", "RESTORE", "notify", "sleep"}

DoStep(t) ==
    /\ code[t] # <<>> /\ Next1(t)[1] = "do"
    /\ (\E x \in RedisCalls : CallRedis(t, x)) \/ UseConn(t)

Thread(t) == LockStep(t) \/ DoStep(t)

(* A command with the workers of its thread pool                           *)
Command(c) ==
    /\ \/ \E t \in {c} \cup Workers(c) : Thread(t)
       \/ \E w \in Workers(c) : Take(c, w)
       \/ MGRT(c) \/ Wait(c) \/ UnblockClient(c)
    /\ UNCHANGED slots_mgrt_threads

-----------------------------------------------------------------------------
(* The main thread *)

(* It holds the GIL except while it waits for something to happen.         *)
MainIdle == ~down /\ code[Main] = <<>>

NotDue == <<>>

(* The part of the cron job that takes a lock, once a second               *)
CronLoopCallback == <<Wr("cache"), Do("timeout"), Un("cache")>>

(* One turn of the event loop of Redis: unblocked clients are answered     *)
(* (from the reply the thread wrote, or by SlotsRestoreAsyncBlock_Reply),  *)
(* the cron job runs if it is due, or else a command of a client may run,  *)
(* and the GIL is released while the main thread waits for an event.       *)
EventLoop ==
    /\ MainIdle
    /\ \E p \in IF due THEN {CronLoopCallback} ELSE MainPrograms \cup {<<>>} :
          Jump(Main, p \o <<Un("gil"), Wr("gil")>>)
    /\ due' = FALSE
    /\ client' = [c \in Clients |-> IF client[c] = "ready" THEN "idle"
                                    ELSE client[c]]
    /\ UNCHANGED <<locks, chunks, conns, orphans, down>>

TimedOut(age) == age > MGRT_BATCH_KEY_TIMEOUT

(* Connections are freed, whether a thread uses them or not.  Their keys   *)
(* are looked up by strlen: what bytes follow decides whether one is found *)
(* and deleted, or stays in the dict and is freed again the next time.     *)
SlotsMGRT_CloseTimedoutConns ==
    LET Closed == {t \in Threads : conn[t].cached /\ TimedOut(conn[t].age)}
        Gone   == {age \in orphans : TimedOut(age)}
    IN  /\ Ready(Main, Do("timeout"))
        /\ \E kept \in SUBSET Closed, stay \in SUBSET Gone :
              /\ KeysTerminated => kept = {} /\ stay = {}
              /\ conn' = [t \in Threads |->
                             IF t \in Closed
                             THEN [conn[t] EXCEPT !.live = FALSE,
                                                  !.cached = t \in kept]
                             ELSE conn[t]]
              /\ orphans' = (orphans \ Gone) \cup stay
        /\ down' \in {FALSE, ~KeysTerminated
                              /\ (Gone # {} \/ \E t \in Closed : ~conn[t].live)}
        /\ Continue(Main, <<>>)
        /\ UNCHANGED <<locks, client, chunks, ptr, unixtime, due>>

(* SlotsMGRTAsyncBlock_RedisCommand and SlotsRestoreAsyncBlock_RedisCommand*)
(* block the client and start a thread.  If there is none to be had, the   *)
(* client is answered with an error; the former reads arg->bc after arg    *)
(* was freed, which may be a crash.  A thread that finds its arguments     *)
(* wrong has nothing to do.                                                *)
AsyncBlock(c, x) ==
    /\ MainIdle /\ client[c] = "idle" /\ code[c] = <<>> /\ x \in Commands[c]
    /\ \/ /\ \E p \in dispatchCmd(x) \cup {<<>>} : Jump(c, p \o <<Do("unblock")>>)
          /\ client' = [client EXCEPT ![c] = "blocked"]
          /\ UNCHANGED down
       \/ UNCHANGED <<code, client, down>>
       \/ /\ x # "slotsrestore"
          /\ down' = TRUE
          /\ UNCHANGED <<code, client>>
    /\ UNCHANGED <<slots_mgrt_threads, locks, chunks, conns, orphans, due>>

MainStep ==
    /\ LockStep(Main) \/ SlotsMGRT_CloseTimedoutConns \/ EventLoop
    /\ UNCHANGED slots_mgrt_threads

(* A second passes, wherever the threads are: to connect, to wait for a    *)
(* reply or for a lock may take any time.                                  *)
Tick ==
    /\ ~down
    /\ conn' = [t \in Threads |-> IF conn[t].live
                                  THEN [conn[t] EXCEPT !.age = Older(@)]
                                  ELSE conn[t]]
    /\ unixtime' = [t \in Threads |-> Older(unixtime[t])]
    /\ orphans' = {Older(age) : age \in orphans}
    /\ due' = TRUE
    /\ UNCHANGED <<slots_mgrt_threads, code, locks, client, chunks, ptr, down>>

Next ==
    \/ \E c \in Clients : Command(c)
    \/ MainStep
    \/ \E c \in Clients, x \in AllCommands : AsyncBlock(c, x)
    \/ Tick

Spec == Init /\ [][Next]_vars

(* Threads are scheduled, and get a lock that is free again and again; the *)
(* main thread returns to its event loop; time passes.                     *)
FairSpec ==
    /\ Spec
    /\ \A c \in Clients : SF_vars(Command(c))
    /\ WF_vars(MainStep) /\ WF_vars(Tick)

-----------------------------------------------------------------------------
(* Properties *)

Holds(a, l) == a \in readers[l] \/ a \in writer[l]

(* The type of every variable; and a client is blocked exactly as long as  *)
(* its thread has something to do, so the thread unblocks it last, on each *)
(* path through a command, and does it once.                               *)
TypeOK ==
    /\ slots_mgrt_threads \in ThreadCounts
    /\ readers \in [Locks -> SUBSET Actors]
    /\ writer \in [Locks -> SUBSET Actors]
    /\ client \in [Clients -> {"idle", "blocked", "ready"}]
    /\ \A c \in Clients : client[c] = "blocked" <=> code[c] # <<>>
    /\ chunks \in [Clients -> 0 .. MaxChunks]
    /\ conn \in [Threads -> [live : BOOLEAN, cached : BOOLEAN, age : Ages]]
    /\ ptr \in [Threads -> BOOLEAN] /\ unixtime \in [Threads -> Ages]
    /\ orphans \subseteq Ages
    /\ due \in BOOLEAN /\ down \in BOOLEAN

(* The locks a program still releases without taking them first.           *)
Owes(s, l) ==
    \E n \in 1 .. Len(s) :
        s[n] = Un(l) /\ \A k \in 1 .. n - 1 : s[k] \notin {Rd(l), Wr(l)}

(* Every lock is returned: on each path through a command, those of errors *)
(* included, a thread holds a lock as long as the rest of its program      *)
(* releases it, and no longer; so a thread that ends holds none.  Redis    *)
(* itself takes the GIL for the main thread.                               *)
LocksReturned ==
    \A a \in Actors, l \in Locks :
        (a = Main /\ l = "gil") \/ (Holds(a, l) <=> Owes(code[a], l))

(* Locks are taken in one order, the GIL before the others and no two of   *)
(* the others together, also by the callbacks that run inside a call of    *)
(* Redis: so no cycle of waiting threads can form.                         *)
LockOrder ==
    \A a \in Actors : code[a] # <<>> /\ Next1(a)[1] \in {"rd", "wr"} =>
        \A l \in Locks : Holds(a, l) => l = "gil" /\ Next1(a)[2] # "gil"

(* Only the cron job may free a connection that a thread or the cache      *)
(* still refers to, and only when last_time lies more than the limit back: *)
(* no thread frees one twice or keeps a pointer beyond its task, and none  *)
(* that was opened is lost, on no path of errors.                          *)
ConnOwned ==
    \A t \in Threads :
        /\ conn[t].live => ptr[t] \/ conn[t].cached
        /\ (ptr[t] \/ conn[t].cached) /\ ~conn[t].live
              => conn[t].age > MGRT_BATCH_KEY_TIMEOUT
        /\ KeysTerminated /\ conn[t].cached => conn[t].live
        /\ ptr[t] => code[t] # <<>>

(* Every blocked client is released: no thread waits forever for a lock,   *)
(* for its workers, or for the main thread.                                *)
Released == \A c \in Clients : client[c] # "idle" ~> (client[c] = "idle" \/ down)

(* Connections that workers leave in the cache do not stay there.          *)
IdleClosed ==
    []<>(down \/ \A age \in orphans : age <= MGRT_BATCH_KEY_TIMEOUT)
=============================================================================
