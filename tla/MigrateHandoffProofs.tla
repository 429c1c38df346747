------------------------ MODULE MigrateHandoffProofs ------------------------
(***************************************************************************)
(* A key leaves the source only when the destination has it: for every     *)
(* number of chunks and workers, of failed attempts and of late requests.  *)
(*                                                                         *)
(* The argument follows a chunk.  A request that is waited for carries the *)
(* objects of one chunk, and no two requests carry the same one; the       *)
(* objects it has passed are on the destination unless it failed; so a     *)
(* chunk with status "ok" is there, and delKeys runs only when all are.    *)
(***************************************************************************)
EXTENDS MigrateSafetyProofs

(* RESTORE answers, and the source can see that it failed.                 *)
Delivers == "restore_null" \notin Faults /\ ("restore_err" \notin Faults \/ ~async_dst)

(* No key of a batch can be gone while another one is sent.                *)
Gapless == Cmds \subseteq {"one", "slot"} \/ (~async /\ TTLs \subseteq {0} /\ Answers)

Restored(o) == o # Hole => dst[o.key] # Absent

-----------------------------------------------------------------------------
(* The destination never loses a key.                                      *)
Grows == \A k \in Keys : dst[k] # Absent => dst'[k] # Absent

LEMMA DstGrows ==
    ASSUME TypeInv, [Next]_vars
    PROVE  Grows
<1>1. CASE dst' = dst
    BY <1>1 DEF Grows
<1>2. ASSUME NEW r \in reqs, restoreOneWithReplace(r) PROVE Grows
  <2> DEFINE o == r.objs[r.next]
  <2>1. o \in Dumps /\ \/ dst' = dst
                       \/ /\ o # Hole /\ o.key \in Keys
                          /\ dst'[o.key] = Entry(o.ver, RestoredExp(o.ttl))
                          /\ \A j \in Keys \ {o.key} : dst'[j] = dst[j]
      BY <1>2, RestoreForm
  <2> HIDE DEF o
  <2>2. o # Hole => Entry(o.ver, RestoredExp(o.ttl)) # Absent
    <3> SUFFICES ASSUME o # Hole PROVE Entry(o.ver, RestoredExp(o.ttl)) # Absent
        OBVIOUS
    <3>1. o.ver \in 0 .. MaxVersion /\ o.ttl \in Nat \cup {-3, -2, -1} /\ now \in Nat
        BY <2>1, DumpFacts, MigrateAssumption DEF TypeInv, DataTypes
    <3>2. RestoredExp(o.ttl) \in Nat
        BY <3>1 DEF RestoredExp, NoExp
    <3> QED BY <3>1, <3>2, EntryFacts
  <2> QED BY <2>1, <2>2 DEF Grows
<1>3. ASSUME NEW k \in Keys, NEW t \in TTLs, DstWrite(k, t) PROVE Grows
  <2> DEFINE e == Entry(version + 1, Expiry(t))
  <2>1. version + 1 \in 0 .. MaxVersion /\ Expiry(t) \in Nat
      BY <1>3, MigrateAssumption DEF DstWrite, Expiry, NoExp, TypeInv, DataTypes
  <2>2. e # Absent
      BY <2>1, EntryFacts
  <2> HIDE DEF e
  <2>3. dst' = [dst EXCEPT ![k] = e]
      BY <1>3 DEF DstWrite, e
  <2> QED BY <2>2, <2>3 DEF Grows, TypeInv, DataTypes
<1>4. ASSUME NEW m \in Movers,
             Start(m) \/ MoverStep(m) \/ \E r \in reqs : Timeout(m, r)
      PROVE  dst' = dst
    BY <1>4, BeginForm
       DEF data, MoverStep, TagSize, TagWalk, Dump, Pttl, MGRT, Connect,
           doSplitRestoreCommand, GetReply, SendDone, delKeys, delDone, Reply, Timeout
<1>5. ASSUME \/ \E k \in Keys, t \in TTLs : SrcWrite(k, t)
             \/ \E k \in Keys : SrcDelete(k) \/ SrcExpire(k)
             \/ Tick \/ \E r \in reqs : Forget(r)
             \/ UNCHANGED vars
      PROVE  dst' = dst
    BY <1>5 DEF SrcWrite, SrcDelete, SrcExpire, Tick, Forget, vars, data
<1> QED BY <1>1, <1>2, <1>3, <1>4, <1>5 DEF Next, Client, Destination

-----------------------------------------------------------------------------
(* Movers and their requests *)

(* The chunks are sent in order unless workers send them.                  *)
InTurn(m) ==
    mode[m] # "pool" => \A c \in DOMAIN status[m] :
        status[m][c] # "todo" => \A b \in 1 .. c - 1 : status[m][b] = "ok"

(* A chunk that was answered well is on the destination.                   *)
OkArrived(m) ==
    Delivers => \A c \in DOMAIN status[m] :
        status[m][c] = "ok" => \A o \in Range(chunks[m][c]) : Restored(o)

(* The chunks hold what Sent takes of the batch.                           *)
AllSent(m) == pc[m] \in Sending => Content(chunks[m]) = Range(Sent(objs[m]))

(* Element i of objs[] is the dump of element i of keys[].                 *)
KeyOf(m) == \A i \in DOMAIN objs[m] : objs[m][i] # Hole => objs[m][i].key = keys[m][i]

(* A batch of one key is sent only if it was dumped.                       *)
Single(m) ==
    Cmds \subseteq {"one", "slot"} =>
        /\ Len(keys[m]) <= 1 /\ pc[m] \notin {"size", "walk"}
        /\ pc[m] \in Sending => Hole \notin Range(objs[m])

(* No key is twice in a batch.                                             *)
Distinct(m) == \A i, j \in DOMAIN keys[m] : keys[m][i] = keys[m][j] => i = j

MoverOK(m) == /\ InTurn(m) /\ OkArrived(m) /\ AllSent(m) /\ KeyOf(m)
              /\ Single(m) /\ Distinct(m)

(* A request somebody waits for                                            *)
Waiting(r) ==
    r.waiting => /\ pc[r.mover] = "send" /\ r.chunk \in DOMAIN chunks[r.mover]
                 /\ r.objs = chunks[r.mover][r.chunk]
                 /\ status[r.mover][r.chunk] = "sent"

(* What a request has passed is on the destination.                        *)
Passed(r) ==
    /\ r.failed => "restore_err" \in Faults
    /\ Delivers /\ ~r.failed =>
         \A i \in DOMAIN r.objs : i < r.next => Restored(r.objs[i])

Alone ==
    \A r, q \in reqs : r.waiting /\ q.waiting /\ r.mover = q.mover /\ r.chunk = q.chunk
                       => r = q

DeliverInv ==
    /\ \A m \in Movers : MoverOK(m)
    /\ \A r \in reqs : Waiting(r) /\ Passed(r)
    /\ Alone

LEMMA PassedStays ==
    ASSUME TypeInv, Grows, NEW r \in Requests, Passed(r)
    PROVE  Passed(r)'
<1>1. \A i \in DOMAIN r.objs : r.objs[i] \in Dumps
  <2>1. r.objs \in Seq(Dumps)
      BY DEF Requests
  <2> QED BY <2>1, ElementOfSeq
<1>2. \A i \in DOMAIN r.objs : Restored(r.objs[i]) => Restored(r.objs[i])'
    BY <1>1, DumpFacts DEF Grows, Restored
<1> QED BY <1>2 DEF Passed

(* A mover whose command does not move.                                    *)
LEMMA MoverSame ==
    ASSUME TypeInv, Grows, NEW m \in Movers, MoverOK(m),
           pc'[m] = pc[m], mode'[m] = mode[m], keys'[m] = keys[m], objs'[m] = objs[m],
           chunks'[m] = chunks[m], status'[m] = status[m]
    PROVE  MoverOK(m)'
<1>1. \A c \in DOMAIN status[m] : \A o \in Range(chunks[m][c]) : o \in Dumps
  <2>1. chunks[m] \in Seq(Seq(Dumps)) /\ DOMAIN status[m] = DOMAIN chunks[m]
      BY DEF TypeInv, MoverTypes
  <2>2. \A c \in DOMAIN chunks[m] : chunks[m][c] \in Seq(Dumps)
      BY <2>1, ElementOfSeq
  <2> QED BY <2>1, <2>2, ElementOfSeq DEF Range
<1>2. \A c \in DOMAIN status[m] : \A o \in Range(chunks[m][c]) : Restored(o) => Restored(o)'
    BY <1>1, DumpFacts DEF Grows, Restored
<1>3. OkArrived(m)'
    BY <1>2 DEF MoverOK, OkArrived
<1>4. InTurn(m)' /\ AllSent(m)' /\ KeyOf(m)' /\ Single(m)' /\ Distinct(m)'
    BY DEF MoverOK, InTurn, AllSent, KeyOf, Single, Distinct
<1> QED BY <1>3, <1>4 DEF MoverOK


Others(m) ==
    \A i \in Movers \ {m} :
        /\ pc'[i] = pc[i] /\ mode'[i] = mode[i] /\ keys'[i] = keys[i]
        /\ objs'[i] = objs[i] /\ chunks'[i] = chunks[i] /\ status'[i] = status[i]

NoWait(m) == \A r \in reqs : r.waiting => r.mover # m

(* A step of a mover that waits for nothing and sends nothing.             *)
LEMMA QuietStep ==
    ASSUME TypeInv, DeliverInv, Grows, NEW m \in Movers, NoWait(m), reqs' = reqs,
           Others(m), MoverOK(m)'
    PROVE  DeliverInv'
<1>1. \A i \in Movers : MoverOK(i)'
    BY MoverSame DEF DeliverInv, Others
<1>2. \A r \in reqs : r \in Requests /\ r.mover \in Movers
    BY DEF TypeInv, Requests
<1>3. \A r \in reqs : Passed(r)'
    BY <1>2, PassedStays DEF DeliverInv
<1>4. ASSUME NEW r \in reqs PROVE Waiting(r)'
  <2> SUFFICES ASSUME r.waiting PROVE Waiting(r)'
      BY DEF Waiting
  <2>1. r.mover \in Movers \ {m}
      BY <1>2 DEF NoWait
  <2> QED BY <2>1 DEF DeliverInv, Waiting, Others
<1>5. Alone'
    BY DEF DeliverInv, Alone
<1> QED BY <1>1, <1>3, <1>4, <1>5 DEF DeliverInv

LEMMA NotSending ==
    ASSUME DeliverInv, NEW m \in Movers, pc[m] # "send"
    PROVE  NoWait(m)
BY DEF DeliverInv, Waiting, NoWait

(* A mover whose chunks are not touched and that is not (or still) sending *)
LEMMA MoverMoves ==
    ASSUME TypeInv, Grows, NEW m \in Movers, MoverOK(m), UNCHANGED <<chunks, status, mode>>,
           AllSent(m)', KeyOf(m)', Single(m)', Distinct(m)'
    PROVE  MoverOK(m)'
<1>1. \A c \in DOMAIN status[m] : \A o \in Range(chunks[m][c]) : o \in Dumps
  <2>1. chunks[m] \in Seq(Seq(Dumps)) /\ DOMAIN status[m] = DOMAIN chunks[m]
      BY DEF TypeInv, MoverTypes
  <2>2. \A c \in DOMAIN chunks[m] : chunks[m][c] \in Seq(Dumps)
      BY <2>1, ElementOfSeq
  <2> QED BY <2>1, <2>2, ElementOfSeq DEF Range
<1>2. \A c \in DOMAIN status[m] : \A o \in Range(chunks[m][c]) : Restored(o) => Restored(o)'
    BY <1>1, DumpFacts DEF Grows, Restored
<1> QED BY <1>2 DEF MoverOK, OkArrived, InTurn

(* A mover that collects its batch.                                        *)
LEMMA DeliverPick ==
    ASSUME TypeInv, TypeInv', DeliverInv, Grows, NEW m \in Movers,
           pc[m] \in Picking, pc'[m] \notin Sending,
           \A i \in Movers \ {m} : pc'[i] = pc[i] /\ keys'[i] = keys[i] /\ mode'[i] = mode[i],
           UNCHANGED <<objs, chunks, status, reqs>>, Distinct(m)',
           Cmds \subseteq {"one", "slot"} =>
               Len(keys'[m]) <= 1 /\ pc'[m] \notin {"size", "walk"}
    PROVE  DeliverInv'
<1>1. chunks[m] = <<>> /\ objs[m] = <<>> /\ status[m] \in [DOMAIN chunks[m] -> Statuses]
    BY DEF TypeInv, Progress, MoverTypes, Picking
<1>2. DOMAIN status[m] = {} /\ DOMAIN objs[m] = {}
    BY <1>1
<1>3. MoverOK(m)'
    BY <1>2 DEF MoverOK, InTurn, OkArrived, AllSent, KeyOf, Single
<1>4. Others(m) /\ pc[m] # "send"
    BY DEF Others, Picking
<1> QED BY <1>3, <1>4, NotSending, QuietStep

LEMMA DeliverStart ==
    ASSUME TypeInv, TypeInv', DeliverInv, Grows, NEW m \in Movers, Start(m)
    PROVE  DeliverInv'
<1>1. PICK batch \in Seq(Keys), l \in {"reply", "dump", "size"} :
        /\ pc[m] = "idle" /\ keys'[m] = batch /\ pc'[m] = l
        /\ \A i \in Movers \ {m} : pc'[i] = pc[i] /\ keys'[i] = keys[i] /\ mode'[i] = mode[i]
        /\ UNCHANGED <<objs, chunks, status, reqs>>
        /\ IF l = "reply" THEN batch = <<>> ELSE Len(batch) = 1
        /\ Cmds \subseteq {"one", "slot"} => l # "size"
    BY StartForm
<1>2. Len(batch) <= 1 /\ \A i, j \in DOMAIN batch : i = j
  <2>1. CASE batch = <<>>
      BY <2>1
  <2>2. CASE Len(batch) = 1
    <3>1. DOMAIN batch = 1 .. 1
        BY <2>2
    <3> QED BY <2>2, <3>1
  <2> QED BY <1>1, <2>1, <2>2
<1>3. Distinct(m)'
    BY <1>1, <1>2 DEF Distinct
<1>4. pc[m] \in Picking /\ pc'[m] \notin Sending /\ pc'[m] # "walk"
    BY <1>1 DEF Picking, Sending
<1> QED BY <1>1, <1>2, <1>3, <1>4, DeliverPick

LEMMA DeliverTag ==
    ASSUME TypeInv, TypeInv', DeliverInv, Grows, NEW m \in Movers, TagSize(m) \/ TagWalk(m)
    PROVE  DeliverInv'
<1>1. PICK l \in {"reply", "walk", "dump"} :
        /\ pc[m] \in {"size", "walk"} /\ pc'[m] = l
        /\ \A i \in Movers \ {m} : pc'[i] = pc[i] /\ keys'[i] = keys[i]
        /\ UNCHANGED <<mode, objs, chunks, status, reqs>>
    BY TagForm
<1>2. ~(Cmds \subseteq {"one", "slot"})
    BY <1>1 DEF DeliverInv, MoverOK, Single
<1>3. Distinct(m)'
  <2>1. CASE keys'[m] = keys[m]
      BY <2>1 DEF DeliverInv, MoverOK, Distinct
  <2>2. CASE TagWalk(m)
    <3>1. keys[m] \in Seq(Keys) /\ Len(keys[m]) = 1 /\ keys \in [Movers -> Seq(Keys)]
        BY <1>1 DEF TypeInv, MoverTypes, Progress
    <3>2. keys[m][1] \in Keys
      <4>1. keys[m] \in Seq(Keys) /\ 1 \in DOMAIN keys[m]
          BY <3>1
      <4> QED BY <4>1, ElementOfSeq
    <3> DEFINE batch == SameTag(keys[m][1])
    <3>3. \A i, j \in DOMAIN batch : batch[i] = batch[j] => i = j
        BY <3>2, BatchFacts
    <3>4. keys' = [keys EXCEPT ![m] = batch]
        BY <2>2 DEF TagWalk
    <3> HIDE DEF batch
    <3>5. keys'[m] = batch
        BY <3>1, <3>4
    <3> QED BY <3>3, <3>5 DEF Distinct
  <2> QED BY <2>1, <2>2 DEF TagSize
<1>4. pc[m] \in Picking /\ pc'[m] \notin Sending
    BY <1>1 DEF Picking, Sending
<1> QED BY <1>1, <1>2, <1>3, <1>4, DeliverPick

LEMMA DeliverDump ==
    ASSUME TypeInv, DeliverInv, Grows, NEW m \in Movers, Dump(m)
    PROVE  DeliverInv'
<1> DEFINE n == Len(objs[m])
<1>1. PICK k \in Keys, o \in Dumps :
        /\ n + 1 \in DOMAIN keys[m] /\ k = keys[m][n + 1]
        /\ pc[m] = "dump" /\ UNCHANGED <<keys, mode, chunks, status, reqs>>
        /\ \/ /\ objs'[m] = Append(objs[m], o)
              /\ \A i \in Movers \ {m} : objs'[i] = objs[i]
              /\ o = Dumped(k, src[k].ver) \/ o = Hole
              /\ pc' = pc
           \/ Finish(m, SLOTS_MGRT_ERR) /\ UNCHANGED objs
    BY DumpForm
<1>2. objs[m] \in Seq(Dumps) /\ n \in Nat /\ pc \in [Movers -> Locations]
    BY DEF TypeInv, MoverTypes
<1>3. /\ DOMAIN Append(objs[m], o) = 1 .. n + 1 /\ DOMAIN objs[m] = 1 .. n
      /\ \A i \in 1 .. n : Append(objs[m], o)[i] = objs[m][i]
      /\ Append(objs[m], o)[n + 1] = o
    BY <1>2, AppendFacts
<1> HIDE DEF n
<1>4. pc'[m] \in {"dump", "reply"} /\ Others(m)
    BY <1>1, <1>2 DEF Others, Finish, Goto
<1>5. KeyOf(m)'
  <2>1. CASE /\ objs'[m] = Append(objs[m], o)
             /\ o = Dumped(k, src[k].ver) \/ o = Hole
    <3>1. \A i \in DOMAIN objs'[m] : \/ i \in DOMAIN objs[m] /\ objs'[m][i] = objs[m][i]
                                     \/ i = n + 1 /\ objs'[m][i] = o
        BY <1>2, <1>3, <2>1
    <3>2. o # Hole => o.key = k
        BY <2>1 DEF Dumped
    <3> QED BY <1>1, <3>1, <3>2 DEF DeliverInv, MoverOK, KeyOf
  <2>2. CASE UNCHANGED objs
      BY <1>1, <2>2 DEF DeliverInv, MoverOK, KeyOf
  <2> QED BY <1>1, <2>1, <2>2
<1>6. AllSent(m)' /\ Single(m)' /\ Distinct(m)'
    BY <1>1, <1>4 DEF AllSent, Sending, DeliverInv, MoverOK, Single, Distinct
<1>7. MoverOK(m)'
    BY <1>1, <1>5, <1>6, MoverMoves DEF DeliverInv
<1> QED BY <1>1, <1>4, <1>7, NotSending, QuietStep

LEMMA DeliverPttl ==
    ASSUME TypeInv, DeliverInv, Grows, NEW m \in Movers, Pttl(m)
    PROVE  DeliverInv'
<1>1. PICK k \in Keys, n \in Nat, p \in Dumps :
        /\ pc[m] = "dump" /\ n \in DOMAIN objs[m] /\ objs[m][n] # Hole
        /\ k = objs[m][n].key /\ DOMAIN objs'[m] = DOMAIN objs[m]
        /\ (p # Hole => p.key = k) /\ objs'[m][n] = p
        /\ \A i \in DOMAIN objs[m] \ {n} : objs'[m][i] = objs[m][i]
        /\ \A i \in Movers \ {m} : objs'[i] = objs[i]
        /\ UNCHANGED <<pc, mode, keys, chunks, status, reqs>>
    BY PttlForm
<1>2. KeyOf(m)'
    BY <1>1 DEF DeliverInv, MoverOK, KeyOf
<1>3. AllSent(m)' /\ Single(m)' /\ Distinct(m)'
    BY <1>1 DEF AllSent, Sending, DeliverInv, MoverOK, Single, Distinct
<1>4. MoverOK(m)' /\ Others(m)
    BY <1>1, <1>2, <1>3, MoverMoves DEF DeliverInv, Others
<1> QED BY <1>1, <1>4, NotSending, QuietStep

LEMMA DeliverMGRT ==
    ASSUME TypeInv, DeliverInv, Grows, NEW m \in Movers, MGRT(m)
    PROVE  DeliverInv'
<1>1. /\ pc[m] = "dump" /\ Len(objs[m]) = Len(keys[m]) /\ objs[m] \in Seq(Dumps)
      /\ keys[m] \in Seq(Keys) /\ pc \in [Movers -> Locations]
      /\ chunks \in [Movers -> Seq(Seq(Dumps))] /\ status = [i \in Movers |-> status[i]]
      /\ UNCHANGED <<keys, mode, objs, reqs>>
    BY DEF TypeInv, MoverTypes, MGRT
<1>2. KeyOf(m)' /\ Distinct(m)' /\ MoverOK(m)
    BY <1>1 DEF DeliverInv, MoverOK, KeyOf, Distinct
<1>3. CASE Finish(m, 0) /\ UNCHANGED <<chunks, status>>
  <2>1. pc'[m] = "reply" /\ \A i \in Movers \ {m} : pc'[i] = pc[i]
      BY <1>1, <1>3 DEF Finish, Goto
  <2>2. AllSent(m)' /\ Single(m)' /\ Others(m)
      BY <1>1, <1>2, <1>3, <2>1 DEF AllSent, Single, Sending, MoverOK, Others
  <2> QED BY <1>1, <1>2, <1>3, <2>2, MoverMoves, NotSending, QuietStep
<1>4. CASE UNCHANGED <<pc, chunks, status>>
  <2>1. AllSent(m)' /\ Single(m)' /\ Others(m)
      BY <1>1, <1>2, <1>4 DEF AllSent, Single, Sending, MoverOK, Others
  <2> QED BY <1>1, <1>2, <1>4, <2>1, MoverMoves, NotSending, QuietStep
<1>5. CASE LET send == Sent(objs[m]) IN
             /\ send # <<>>
             /\ chunks' = [chunks EXCEPT ![m] = Split(send)]
             /\ status' = [status EXCEPT ![m] = [c \in 1 .. Len(Split(send)) |-> "todo"]]
             /\ Goto(m, IF mode[m] = "pool" THEN "send" ELSE "connect")
  <2> DEFINE send == Sent(objs[m])  w == [c \in 1 .. Len(Split(send)) |-> "todo"]
  <2>1. Content(Split(send)) = Range(send)
      BY <1>1, <1>5, SentFacts, SplitFacts
  <2>2. /\ \A c \in DOMAIN w : w[c] = "todo"
      OBVIOUS
  <2>3. status' = [status EXCEPT ![m] = w] /\ chunks' = [chunks EXCEPT ![m] = Split(send)]
      BY <1>5
  <2> HIDE DEF w
  <2>4. status'[m] = w /\ chunks'[m] = Split(send)
        /\ \A i \in Movers \ {m} : status'[i] = status[i] /\ chunks'[i] = chunks[i]
      BY <1>1, <2>3
  <2>5. pc'[m] \in {"send", "connect"} /\ \A i \in Movers \ {m} : pc'[i] = pc[i]
      BY <1>1, <1>5 DEF Goto
  <2>6. InTurn(m)' /\ OkArrived(m)'
      BY <2>2, <2>4 DEF InTurn, OkArrived
  <2>7. AllSent(m)'
      BY <1>1, <2>1, <2>4 DEF AllSent
  <2>8. Single(m)'
    <3> SUFFICES ASSUME Cmds \subseteq {"one", "slot"} PROVE Single(m)'
        BY DEF Single
    <3>1. Len(keys[m]) <= 1
        BY <1>2 DEF MoverOK, Single
    <3>2. ASSUME Hole \in Range(objs[m]) PROVE FALSE
      <4>1. DOMAIN objs[m] = 1 .. Len(objs[m]) /\ DOMAIN objs[m] # {} /\ Len(objs[m]) \in Nat
          BY <1>1, <3>2 DEF Range
      <4>2. Len(objs[m]) <= 1
          BY <1>1, <3>1
      <4>3. Len(objs[m]) # 0
          BY <4>1
      <4>4. Len(objs[m]) = 1
        <5> DEFINE l == Len(objs[m])
        <5>1. l \in Nat /\ l <= 1 /\ l # 0
            BY <4>1, <4>2, <4>3
        <5> HIDE DEF l
        <5>2. l = 1
            BY <5>1
        <5> QED BY <5>2 DEF l
      <4>5. Sent(objs[m]) = <<>>
        <5> DEFINE os == objs[m]
        <5>1. os \in Seq(Dumps) /\ Len(os) = 1 /\ Hole \in Range(os)
            BY <1>1, <3>2, <4>4
        <5> HIDE DEF os
        <5>2. Sent(os) = <<>>
            BY <5>1, SentFacts
        <5> QED BY <5>2 DEF os
      <4> QED BY <1>5, <4>5
    <3> QED BY <1>1, <2>5, <3>1, <3>2 DEF Single
  <2>9. MoverOK(m)' /\ Others(m)
      BY <1>1, <1>2, <2>4, <2>5, <2>6, <2>7, <2>8 DEF MoverOK, Others
  <2> QED BY <1>1, <2>9, NotSending, QuietStep
<1> QED BY <1>3, <1>4, <1>5 DEF MGRT


(* Steps that change only the location of a mover.                         *)
LEMMA DeliverGoto ==
    ASSUME TypeInv, DeliverInv, Grows, NEW m \in Movers, NoWait(m), NEW l,
           pc' = [pc EXCEPT ![m] = l], l \in Sending => pc[m] \in Sending,
           l \notin {"size", "walk"},
           UNCHANGED <<mode, keys, objs, chunks, status, reqs>>
    PROVE  DeliverInv'
<1>1. pc'[m] = l /\ \A i \in Movers \ {m} : pc'[i] = pc[i]
    BY DEF TypeInv, MoverTypes
<1>2. AllSent(m)' /\ Single(m)' /\ KeyOf(m)' /\ Distinct(m)' /\ Others(m)
    BY <1>1 DEF AllSent, Single, KeyOf, Distinct, DeliverInv, MoverOK, Others
<1>3. MoverOK(m)'
    BY <1>2, MoverMoves DEF DeliverInv
<1> QED BY <1>2, <1>3, QuietStep

(* When the sending ends no request of the mover is waited for: with the   *)
(* pool all have been, without it the chunks after a failed one were not   *)
(* sent.                                                                   *)
LEMMA SendDoneNoWait ==
    ASSUME TypeInv, DeliverInv, NEW m \in Movers, SendDone(m)
    PROVE  NoWait(m)
<1> SUFFICES ASSUME NEW r \in reqs, r.waiting, r.mover = m PROVE FALSE
    BY DEF NoWait
<1> DEFINE c == r.chunk
<1>1. c \in DOMAIN chunks[m] /\ status[m][c] = "sent"
    BY DEF DeliverInv, Waiting
<1>2. /\ chunks[m] \in Seq(Seq(Dumps)) /\ status[m] \in [DOMAIN chunks[m] -> Statuses]
      /\ DOMAIN chunks[m] = 1 .. Len(chunks[m]) /\ Len(chunks[m]) \in Nat
    BY DEF TypeInv, MoverTypes
<1>3. "sent" \in Range(status[m])
    BY <1>1, <1>2 DEF Range
<1>4. mode[m] # "pool" /\ "err" \in Range(status[m])
    BY <1>3 DEF SendDone
<1>5. PICK b \in 1 .. Len(chunks[m]) : status[m][b] = "err"
    BY <1>2, <1>4 DEF Range
<1>6. b # c
    BY <1>1, <1>5
<1>7. CASE b < c
  <2>1. b \in 1 .. c - 1
      BY <1>1, <1>2, <1>7
  <2>2. status[m][b] = "ok"
      BY <1>1, <1>2, <1>4, <2>1 DEF DeliverInv, MoverOK, InTurn
  <2> QED BY <1>5, <2>2
<1>8. CASE c < b
  <2>1. c \in 1 .. b - 1
      BY <1>1, <1>2, <1>8
  <2>2. status[m][c] = "ok"
      BY <1>2, <1>4, <1>5, <2>1 DEF DeliverInv, MoverOK, InTurn
  <2> QED BY <1>1, <2>2
<1> QED BY <1>1, <1>2, <1>6, <1>7, <1>8

LEMMA DeliverLocation ==
    ASSUME TypeInv, DeliverInv, Grows, NEW m \in Movers,
           Connect(m) \/ SendDone(m) \/ delKeys(m) \/ delDone(m)
    PROVE  DeliverInv'
<1>1. UNCHANGED <<mode, keys, objs, chunks, status, reqs>>
    BY DEF Connect, SendDone, delKeys, delDone
<1>2. NoWait(m)
    BY SendDoneNoWait, NotSending DEF Connect, delKeys, delDone
<1>3. ASSUME NEW l, pc' = [pc EXCEPT ![m] = l], l \notin {"size", "walk"},
             l \in Sending => pc[m] \in Sending
      PROVE  DeliverInv'
    BY <1>1, <1>2, <1>3, DeliverGoto
<1>4. CASE pc' = pc
  <2>1. pc' = [pc EXCEPT ![m] = pc[m]]
      BY <1>4 DEF TypeInv, MoverTypes
  <2>2. pc[m] \notin {"size", "walk"}
      BY DEF Connect, SendDone, delKeys, delDone
  <2> QED BY <1>3, <2>1, <2>2
<1>5. \/ pc' = pc
      \/ pc' = [pc EXCEPT ![m] = "reply"]
      \/ pc' = [pc EXCEPT ![m] = "send"] /\ pc[m] = "connect"
      \/ pc' = [pc EXCEPT ![m] = "del"] /\ pc[m] = "send"
    BY DEF Connect, SendDone, delKeys, delDone, Finish, Goto
<1>6. "reply" \notin Sending /\ "connect" \in Sending /\ "send" \in Sending
    BY DEF Sending
<1> QED BY <1>3, <1>4, <1>5, <1>6

LEMMA DeliverReply ==
    ASSUME TypeInv, DeliverInv, Grows, NEW m \in Movers, Reply(m)
    PROVE  DeliverInv'
<1>1. /\ pc[m] = "reply" /\ pc'[m] = "idle" /\ keys'[m] = <<>> /\ objs'[m] = <<>>
      /\ chunks'[m] = <<>> /\ status'[m] = <<>> /\ reqs' = reqs
    BY DEF Reply, Goto, TypeInv, MoverTypes
<1>2. Others(m)
    BY DEF Reply, Goto, Others, TypeInv, MoverTypes
<1>3. DOMAIN <<>> = {} /\ Len(<<>>) = 0
    OBVIOUS
<1>4. MoverOK(m)'
  <2>1. InTurn(m)' /\ OkArrived(m)' /\ KeyOf(m)'
      BY <1>1, <1>3 DEF InTurn, OkArrived, KeyOf
  <2>2. AllSent(m)' /\ Single(m)' /\ Distinct(m)'
      BY <1>1, <1>3 DEF AllSent, Single, Distinct, Sending
  <2> QED BY <2>1, <2>2 DEF MoverOK
<1> QED BY <1>1, <1>2, <1>4, NotSending, QuietStep

(* Steps that change the status of a chunk, and the requests.              *)
LEMMA StatusForm ==
    ASSUME TypeInv, NEW m \in Movers, NEW c \in DOMAIN status[m], NEW s, SetStatus(m, c, s)
    PROVE  /\ status'[m][c] = s /\ DOMAIN status'[m] = DOMAIN status[m]
           /\ \A b \in DOMAIN status[m] \ {c} : status'[m][b] = status[m][b]
           /\ \A i \in Movers \ {m} : status'[i] = status[i]
<1> DEFINE w == [status[m] EXCEPT ![c] = s]
<1>1. status = [i \in Movers |-> status[i]] /\ status[m] \in [DOMAIN chunks[m] -> Statuses]
    BY DEF TypeInv, MoverTypes
<1>2. w[c] = s /\ DOMAIN w = DOMAIN status[m]
      /\ \A b \in DOMAIN status[m] \ {c} : w[b] = status[m][b]
    BY <1>1
<1>3. status' = [status EXCEPT ![m] = w]
    BY DEF SetStatus
<1> HIDE DEF w
<1>4. status'[m] = w /\ \A i \in Movers \ {m} : status'[i] = status[i]
    BY <1>1, <1>3
<1> QED BY <1>2, <1>4

LEMMA DeliverSend ==
    ASSUME TypeInv, DeliverInv, Grows, NEW m \in Movers, NEW c \in DOMAIN status[m],
           doSplitRestoreCommand(m, c)
    PROVE  DeliverInv'
<1>1. /\ pc[m] = "send" /\ status[m][c] = "todo" /\ Turn(m, c)
      /\ UNCHANGED <<pc, mode, keys, objs, chunks, dst>>
    BY DEF doSplitRestoreCommand, data
<1>2. PICK s \in {"sent", "err"} :
        /\ SetStatus(m, c, s)
        /\ \/ s = "sent" /\ reqs' = reqs \cup {Request(m, c)}
           \/ s = "err" /\ mode[m] = "pool" /\ reqs' = reqs
    BY DEF doSplitRestoreCommand
<1>3. /\ status'[m][c] = s /\ DOMAIN status'[m] = DOMAIN status[m]
      /\ \A b \in DOMAIN status[m] \ {c} : status'[m][b] = status[m][b]
      /\ \A i \in Movers \ {m} : status'[i] = status[i]
    BY <1>2, StatusForm
<1>4. /\ chunks[m] \in Seq(Seq(Dumps)) /\ DOMAIN status[m] = DOMAIN chunks[m]
      /\ DOMAIN chunks[m] = 1 .. Len(chunks[m]) /\ Len(chunks[m]) \in Nat
    BY DEF TypeInv, MoverTypes
<1>5. InTurn(m)'
  <2> SUFFICES ASSUME mode[m] # "pool", NEW x \in DOMAIN status[m], status'[m][x] # "todo",
                      NEW b \in 1 .. x - 1
               PROVE  status'[m][b] = "ok"
      BY <1>1, <1>3 DEF InTurn
  <2>1. b \in DOMAIN status[m]
      BY <1>4
  <2>2. CASE x = c
    <3>1. status[m][b] = "ok"
        BY <1>1, <2>2 DEF Turn
    <3>2. b # c
        BY <1>4, <2>2
    <3> QED BY <1>3, <2>1, <3>1, <3>2
  <2>3. CASE x # c
    <3>1. status[m][b] = "ok"
        BY <1>3, <2>3 DEF DeliverInv, MoverOK, InTurn
    <3>2. b # c
        BY <1>1, <3>1
    <3> QED BY <1>3, <2>1, <3>1, <3>2
  <2> QED BY <2>2, <2>3
<1>6. OkArrived(m)'
    BY <1>1, <1>2, <1>3 DEF DeliverInv, MoverOK, OkArrived, Restored
<1>7. AllSent(m)' /\ KeyOf(m)' /\ Single(m)' /\ Distinct(m)'
    BY <1>1 DEF DeliverInv, MoverOK, AllSent, KeyOf, Single, Distinct
<1>8. \A i \in Movers : MoverOK(i)'
    BY <1>1, <1>3, <1>5, <1>6, <1>7, MoverSame DEF DeliverInv, MoverOK
<1>9. \A r \in reqs : r.waiting => ~(r.mover = m /\ r.chunk = c)
    BY <1>1 DEF DeliverInv, Waiting
<1>10. \A r \in reqs : r \in Requests /\ r.mover \in Movers
    BY DEF TypeInv, Requests
<1>11. \A r \in reqs : Passed(r)' /\ Waiting(r)'
  <2>1. \A r \in reqs : Passed(r)'
      BY <1>10, PassedStays DEF DeliverInv
  <2>2. ASSUME NEW r \in reqs, r.waiting PROVE Waiting(r)'
    <3>1. /\ r.chunk \in DOMAIN chunks[r.mover] /\ status[r.mover][r.chunk] = "sent"
        BY <2>2 DEF DeliverInv, Waiting
    <3>2. status'[r.mover][r.chunk] = "sent"
        BY <1>3, <1>4, <1>9, <1>10, <2>2, <3>1
    <3> QED BY <1>1, <2>2, <3>2 DEF DeliverInv, Waiting
  <2> QED BY <2>1, <2>2 DEF Waiting
<1>12. CASE s = "err" /\ reqs' = reqs
    BY <1>8, <1>11, <1>12 DEF DeliverInv, Alone
<1>13. CASE s = "sent" /\ reqs' = reqs \cup {Request(m, c)}
  <2>0. PICK q : q = Request(m, c)
      OBVIOUS
  <2>1. /\ q.mover = m /\ q.chunk = c /\ q.objs = chunks[m][c] /\ q.next = 1
        /\ q.failed = FALSE /\ q.waiting = TRUE
      BY <2>0 DEF Request
  <2>2. Waiting(q)'
      BY <1>1, <1>3, <1>4, <1>13, <2>1 DEF Waiting
  <2>3. Passed(q)'
    <3>1. chunks[m][c] \in Seq(Dumps)
        BY <1>4, ElementOfSeq
    <3>2. \A i \in DOMAIN chunks[m][c] : ~(i < 1)
        BY <3>1
    <3> QED BY <2>1, <3>2 DEF Passed
  <2>4. Alone'
      BY <1>9, <1>13, <2>0, <2>1 DEF DeliverInv, Alone
  <2> QED BY <1>8, <1>11, <1>13, <2>0, <2>2, <2>3, <2>4 DEF DeliverInv
<1> QED BY <1>2, <1>12, <1>13


(* A request is answered, or its mover gives it up.                        *)
LEMMA DeliverAnswer ==
    ASSUME TypeInv, DeliverInv, Grows, NEW m \in Movers, NEW r \in reqs,
           r.waiting, r.mover = m, NEW s \in {"ok", "err"}, SetStatus(m, r.chunk, s),
           UNCHANGED <<pc, mode, keys, objs, chunks, dst>>,
           \/ reqs' = reqs \ {r}
           \/ reqs' = (reqs \ {r}) \cup {[r EXCEPT !.waiting = FALSE]},
           s = "ok" /\ Delivers => \A o \in Range(r.objs) : Restored(o)
    PROVE  DeliverInv'
<1>1. PICK c \in DOMAIN status[m] : c = r.chunk /\ status[m][c] = "sent"
                                    /\ r.objs = chunks[m][c]
    BY DEF DeliverInv, Waiting, TypeInv, MoverTypes
<1>2. /\ status'[m][c] = s /\ DOMAIN status'[m] = DOMAIN status[m]
      /\ \A b \in DOMAIN status[m] \ {c} : status'[m][b] = status[m][b]
      /\ \A i \in Movers \ {m} : status'[i] = status[i]
    BY <1>1, StatusForm
<1>3. /\ chunks[m] \in Seq(Seq(Dumps)) /\ DOMAIN status[m] = DOMAIN chunks[m]
      /\ DOMAIN chunks[m] = 1 .. Len(chunks[m]) /\ Len(chunks[m]) \in Nat
    BY DEF TypeInv, MoverTypes
<1>4. InTurn(m)'
  <2> SUFFICES ASSUME mode[m] # "pool", NEW x \in DOMAIN status[m], status'[m][x] # "todo",
                      NEW b \in 1 .. x - 1
               PROVE  status'[m][b] = "ok"
      BY <1>2 DEF InTurn
  <2>1. b \in DOMAIN status[m]
      BY <1>3
  <2>2. status[m][x] # "todo"
      BY <1>1, <1>2
  <2>3. status[m][b] = "ok"
      BY <2>2 DEF DeliverInv, MoverOK, InTurn
  <2>4. b # c
      BY <1>1, <2>3
  <2> QED BY <1>2, <2>1, <2>3, <2>4
<1>5. OkArrived(m)'
    BY <1>1, <1>2 DEF DeliverInv, MoverOK, OkArrived, Restored
<1>6. AllSent(m)' /\ KeyOf(m)' /\ Single(m)' /\ Distinct(m)'
    BY DEF DeliverInv, MoverOK, AllSent, KeyOf, Single, Distinct
<1>7. \A i \in Movers : MoverOK(i)'
    BY <1>2, <1>4, <1>5, <1>6, MoverSame DEF DeliverInv, MoverOK
<1>8. \A q \in reqs : q \in Requests /\ q.mover \in Movers
    BY DEF TypeInv, Requests
<1>9. ASSUME NEW q \in reqs, q # r PROVE Passed(q)' /\ Waiting(q)'
  <2>1. Passed(q)'
      BY <1>8, PassedStays DEF DeliverInv
  <2>2. ASSUME q.waiting PROVE Waiting(q)'
    <3>1. ~(q.mover = m /\ q.chunk = c)
        BY <1>1, <1>9, <2>2 DEF DeliverInv, Alone
    <3>2. /\ q.chunk \in DOMAIN chunks[q.mover] /\ status[q.mover][q.chunk] = "sent"
        BY <2>2 DEF DeliverInv, Waiting
    <3>3. status'[q.mover][q.chunk] = "sent"
      <4>1. CASE q.mover = m
        <5>1. q.chunk \in DOMAIN status[m] \ {c} /\ status[m][q.chunk] = "sent"
            BY <1>3, <3>1, <3>2, <4>1
        <5>2. status'[m][q.chunk] = status[m][q.chunk]
            BY <1>2, <5>1
        <5> QED BY <4>1, <5>1, <5>2
      <4>2. CASE q.mover # m
          BY <1>2, <1>8, <3>2, <4>2
      <4> QED BY <4>1, <4>2
    <3> QED BY <2>2, <3>3 DEF DeliverInv, Waiting
  <2> QED BY <2>1, <2>2 DEF Waiting
<1>10. PICK p : p = [r EXCEPT !.waiting = FALSE]
    OBVIOUS
<1>11. p.waiting = FALSE /\ p.failed = r.failed /\ p.objs = r.objs /\ p.next = r.next
    BY <1>8, <1>10 DEF Requests
<1>12. Waiting(p)' /\ Passed(p)'
  <2>1. Passed(r)'
      BY <1>8, PassedStays DEF DeliverInv
  <2> QED BY <1>11, <2>1 DEF Waiting, Passed
<1>13. \A q \in reqs' : Waiting(q)' /\ Passed(q)'
    BY <1>9, <1>10, <1>12
<1>14. Alone'
    BY <1>10, <1>11 DEF DeliverInv, Alone
<1> QED BY <1>7, <1>13, <1>14 DEF DeliverInv

LEMMA DeliverGetReply ==
    ASSUME TypeInv, DeliverInv, Grows, NEW m \in Movers, NEW r \in reqs, GetReply(m, r)
    PROVE  DeliverInv'
<1>1. /\ r.waiting /\ r.mover = m
      /\ UNCHANGED <<pc, mode, keys, objs, chunks, dst>>
      /\ \/ reqs' = reqs \ {r}
         \/ reqs' = (reqs \ {r}) \cup {[r EXCEPT !.waiting = FALSE]}
    BY DEF GetReply, data
<1>2. CASE ReplyIsError(r)
  <2>1. SetStatus(m, r.chunk, "err")
      BY <1>2 DEF GetReply
  <2> QED BY <1>1, <2>1, DeliverAnswer
<1>3. CASE ~ReplyIsError(r)
  <2>1. SetStatus(m, r.chunk, "ok") /\ Complete(r)
      BY <1>3 DEF GetReply
  <2>2. ASSUME Delivers PROVE \A o \in Range(r.objs) : Restored(o)
    <3>1. ~r.failed
        BY <1>3, <2>2 DEF ReplyIsError, Delivers, DeliverInv, Passed
    <3>2. \A i \in DOMAIN r.objs : i < r.next => Restored(r.objs[i])
        BY <2>2, <3>1 DEF DeliverInv, Passed
    <3>3. r.objs \in Seq(Dumps) /\ r.next \in Nat
        BY DEF TypeInv, Requests
    <3>4. \A i \in DOMAIN r.objs : i < r.next
        BY <2>1, <3>3 DEF Complete
    <3> QED BY <3>2, <3>4 DEF Range
  <2> QED BY <1>1, <2>1, <2>2, DeliverAnswer
<1> QED BY <1>2, <1>3

LEMMA DeliverTimeout ==
    ASSUME TypeInv, DeliverInv, Grows, NEW m \in Movers, NEW r \in reqs, Timeout(m, r)
    PROVE  DeliverInv'
<1>1. /\ r.waiting /\ r.mover = m /\ SetStatus(m, r.chunk, "err")
      /\ UNCHANGED <<pc, mode, keys, objs, chunks, dst>>
      /\ \/ reqs' = reqs \ {r}
         \/ reqs' = (reqs \ {r}) \cup {[r EXCEPT !.waiting = FALSE]}
    BY DEF Timeout, NoReplyStatus, data
<1> QED BY <1>1, DeliverAnswer

(* A step that leaves the movers alone and takes request r to q, if at all.*)
LEMMA DeliverRest ==
    ASSUME TypeInv, DeliverInv, Grows, UNCHANGED <<pc, mode, keys, objs, chunks, status>>,
           \A q \in reqs' : \/ q \in reqs
                            \/ /\ Passed(q)'
                               /\ \E r \in reqs : /\ r \notin reqs' /\ r.mover = q.mover
                                                  /\ r.chunk = q.chunk /\ r.objs = q.objs
                                                  /\ r.waiting = q.waiting
                                                  /\ \A p \in reqs' : p \in reqs \/ p = q
    PROVE  DeliverInv'
<1>1. \A m \in Movers : MoverOK(m)'
    BY MoverSame DEF DeliverInv
<1>2. \A r \in reqs : r \in Requests
    BY DEF TypeInv
<1>3. \A r \in reqs : Passed(r)'
    BY <1>2, PassedStays DEF DeliverInv
<1>4. \A q \in reqs' : Passed(q)'
    BY <1>3
<1>5. \A q \in reqs' : Waiting(q)'
    BY DEF DeliverInv, Waiting
<1>6. Alone'
    BY DEF DeliverInv, Alone
<1> QED BY <1>1, <1>4, <1>5, <1>6 DEF DeliverInv

LEMMA DeliverRestore ==
    ASSUME TypeInv, DeliverInv, Grows, NEW r \in reqs, restoreOneWithReplace(r)
    PROVE  DeliverInv'
<1> DEFINE o == r.objs[r.next]
           stop == IF r.each THEN r.next + 1 ELSE Len(r.objs) + 1
<1>1. /\ UNCHANGED <<pc, mode, keys, objs, chunks, status>>
      /\ r.next \in DOMAIN r.objs /\ o \in Dumps
    BY RestoreForm DEF mover
<1>2. r \in Requests /\ r.next \in Nat /\ r.objs \in Seq(Dumps) /\ Passed(r)
    BY DEF TypeInv, Requests, DeliverInv
<1>3. PICK p, f : p = [r EXCEPT !.next = @ + 1] /\ f = [r EXCEPT !.next = stop, !.failed = TRUE]
    OBVIOUS
<1>4. /\ p.next = r.next + 1 /\ p.failed = r.failed /\ p.objs = r.objs /\ p.mover = r.mover
      /\ p.chunk = r.chunk /\ p.waiting = r.waiting
      /\ f.failed = TRUE /\ f.objs = r.objs /\ f.mover = r.mover
      /\ f.chunk = r.chunk /\ f.waiting = r.waiting
    BY <1>2, <1>3 DEF Requests
<1>5. \/ /\ reqs' = (reqs \ {r}) \cup {p}
         /\ dst' = IF o = Hole THEN dst
                   ELSE [dst EXCEPT ![o.key] = Entry(o.ver, RestoredExp(o.ttl))]
      \/ reqs' = (reqs \ {r}) \cup {f} /\ "restore_err" \in Faults
      \/ reqs' = (reqs \ {r}) \cup {p} /\ "restore_null" \in Faults
    BY <1>3 DEF restoreOneWithReplace, Fault
<1>6. ASSUME reqs' = (reqs \ {r}) \cup {p}, Passed(p)' PROVE DeliverInv'
  <2>1. r # p
      BY <1>2, <1>4
  <2> QED BY <1>1, <1>4, <1>6, <2>1, DeliverRest
<1>7. CASE /\ reqs' = (reqs \ {r}) \cup {p}
           /\ dst' = IF o = Hole THEN dst
                     ELSE [dst EXCEPT ![o.key] = Entry(o.ver, RestoredExp(o.ttl))]
  <2>1. Restored(o)'
    <3>1. CASE o = Hole
        BY <3>1 DEF Restored
    <3>2. CASE o # Hole
      <4>1. o.ver \in 0 .. MaxVersion /\ o.ttl \in Nat \cup {-3, -2, -1} /\ o.key \in Keys
          BY <1>1, <3>2, DumpFacts
      <4>2. RestoredExp(o.ttl) \in Nat
          BY <4>1, MigrateAssumption DEF RestoredExp, NoExp, TypeInv, DataTypes
      <4>3. Entry(o.ver, RestoredExp(o.ttl)) # Absent
          BY <4>1, <4>2, EntryFacts
      <4>4. dst'[o.key] = Entry(o.ver, RestoredExp(o.ttl))
        <5> HIDE DEF o
        <5> QED BY <1>7, <3>2, <4>1 DEF TypeInv, DataTypes
      <4> QED BY <4>3, <4>4 DEF Restored
    <3> QED BY <3>1, <3>2
  <2>2. Passed(r)'
      BY <1>2, PassedStays
  <2>3. \A i \in DOMAIN r.objs : i < r.next + 1 => i < r.next \/ i = r.next
      BY <1>2
  <2>4. Passed(p)'
      BY <1>4, <2>1, <2>2, <2>3 DEF Passed
  <2> QED BY <1>6, <1>7, <2>4
<1>8. CASE reqs' = (reqs \ {r}) \cup {f} /\ "restore_err" \in Faults
  <2>1. Passed(f)'
      BY <1>4, <1>8 DEF Passed
  <2>2. f # r \/ f = r
      OBVIOUS
  <2>3. CASE f # r
      BY <1>1, <1>4, <1>8, <2>1, <2>3, DeliverRest
  <2>4. CASE f = r
    <3>1. reqs' = reqs
        BY <1>8, <2>4
    <3> QED BY <1>1, <3>1, DeliverRest
  <2> QED BY <2>3, <2>4
<1>9. CASE reqs' = (reqs \ {r}) \cup {p} /\ "restore_null" \in Faults
  <2>1. Passed(p)'
      BY <1>2, <1>4, <1>9 DEF Passed, Delivers
  <2> QED BY <1>6, <1>9, <2>1
<1> QED BY <1>5, <1>7, <1>8, <1>9

(* A chunk with status "ok" has arrived, whatever was sent, lost, repeated *)
(* or given up before.                                                     *)
THEOREM DeliverInvariant == Spec => []DeliverInv
<1>1. Init => DeliverInv
  <2> SUFFICES ASSUME Init PROVE DeliverInv
      OBVIOUS
  <2>1. \A m \in Movers : MoverOK(m)
      BY DEF Init, MoverOK, InTurn, OkArrived, AllSent, KeyOf, Single, Distinct, Sending
  <2> QED BY <2>1 DEF Init, DeliverInv, Alone
<1>2. ASSUME TypeInv, TypeInv', DeliverInv, [Next]_vars PROVE DeliverInv'
  <2>1. Grows
      BY <1>2, DstGrows
  <2>2. ASSUME NEW m \in Movers,
               Start(m) \/ MoverStep(m) \/ \E r \in reqs : Timeout(m, r)
        PROVE  DeliverInv'
      BY <1>2, <2>1, <2>2, DeliverStart, DeliverTag, DeliverDump, DeliverPttl, DeliverMGRT,
         DeliverLocation, DeliverReply, DeliverSend, DeliverGetReply, DeliverTimeout
         DEF MoverStep
  <2>3. ASSUME NEW r \in reqs, Forget(r) PROVE DeliverInv'
    <3>1. UNCHANGED <<pc, mode, keys, objs, chunks, status>> /\ reqs' \subseteq reqs
        BY <2>3 DEF Forget, mover
    <3> QED BY <1>2, <2>1, <3>1, DeliverRest
  <2>4. CASE Client \/ UNCHANGED vars
    <3>1. UNCHANGED <<pc, mode, keys, objs, chunks, status, reqs>>
        BY <1>2, <2>4, ClientTypes DEF mover, vars
    <3> QED BY <1>2, <2>1, <3>1, DeliverRest
  <2> QED BY <1>2, <2>1, <2>2, <2>3, <2>4, DeliverRestore DEF Next, Destination
<1> QED BY <1>1, <1>2, TypeInvariant, PTL DEF Spec


-----------------------------------------------------------------------------
(* Unlinking *)

(* The keys of a batch that is being unlinked are on the destination.      *)
Unlinkable(m) ==
    Delivers /\ Gapless /\ pc[m] = "del" => \A k \in Range(keys[m]) : dst[k] # Absent

(* While delKeys runs it has counted the keys of the batch that have gone. *)
HasLeft(m) == {k \in Range(keys[m]) : src[k] = Absent}
Counted(m) ==
    ~async /\ Gapless /\ pc[m] = "del" =>
        /\ Hole \notin Range(objs[m])
        /\ reply[m].ret = Cardinality(HasLeft(m))
        /\ \A i \in DOMAIN keys[m] : i > unlinked[m] => src[keys[m][i]] # Absent

(* What a command that succeeds has answered.                              *)
IsMoved(m) == {k \in Taken(m) : src[k] = Absent}
Answered(m) ==
    ~async /\ Delivers /\ Gapless /\ pc[m] = "reply" /\ reply[m].ret # SLOTS_MGRT_ERR =>
        /\ reply[m].ret = Cardinality(IsMoved(m))
        /\ \A k \in IsMoved(m) : dst[k] # Absent

Done(m) == Unlinkable(m) /\ Counted(m) /\ Answered(m)

Somewhere ==
    Delivers /\ Gapless =>
        \A k \in Keys : Live(truth[k]) => src[k] # Absent \/ dst[k] # Absent

LossInv == (\A m \in Movers : Done(m)) /\ Somewhere

(* What is known besides of every state                                    *)
Known == TypeInv /\ TtlInv /\ DeliverInv /\ (~async => SyncInv)

LEMMA BatchKeys ==
    ASSUME TypeInv, NEW m \in Movers
    PROVE  /\ keys[m] \in Seq(Keys) /\ Range(keys[m]) \subseteq Keys
           /\ DOMAIN keys[m] = 1 .. Len(keys[m]) /\ Len(keys[m]) \in Nat
           /\ IsFiniteSet(Range(keys[m])) /\ Taken(m) \subseteq Range(keys[m])
<1>1. keys[m] \in Seq(Keys) /\ objs[m] \in Seq(Dumps) /\ Len(objs[m]) <= Len(keys[m])
    BY DEF TypeInv, MoverTypes, Progress
<1>2. Range(keys[m]) \subseteq Keys
    BY <1>1, ElementOfSeq DEF Range
<1>3. IsFiniteSet(Range(keys[m]))
    BY <1>2, MigrateAssumption, FS_Subset
<1>4. \A i \in DOMAIN objs[m] : i \in DOMAIN keys[m]
    BY <1>1
<1> QED BY <1>1, <1>2, <1>3, <1>4 DEF Taken, Range

LEMMA DoneSame ==
    ASSUME TypeInv, Grows, NEW m \in Movers, Done(m), async \/ src' = src,
           pc'[m] = pc[m], keys'[m] = keys[m], objs'[m] = objs[m],
           unlinked'[m] = unlinked[m], reply'[m] = reply[m]
    PROVE  Done(m)'
<1>1. Range(keys[m]) \subseteq Keys /\ Taken(m) \subseteq Keys /\ Taken(m)' = Taken(m)
    BY BatchKeys DEF Taken
<1>2. Unlinkable(m)'
    BY <1>1 DEF Done, Unlinkable, Grows
<1>3. ~async => HasLeft(m)' = HasLeft(m) /\ IsMoved(m)' = IsMoved(m)
                /\ IsMoved(m) \subseteq Keys
    BY <1>1 DEF HasLeft, IsMoved
<1>4. Counted(m)'
    BY <1>3 DEF Done, Counted
<1>5. Answered(m)'
    BY <1>3 DEF Done, Answered, Grows
<1> QED BY <1>2, <1>4, <1>5 DEF Done

LEMMA DoneEarly ==
    ASSUME NEW m \in Movers, pc'[m] # "del",
           pc'[m] = "reply" => reply'[m].ret = SLOTS_MGRT_ERR
    PROVE  Done(m)'
BY DEF Done, Unlinkable, Counted, Answered

(* A command that takes no key answers 0.                                  *)
LEMMA DoneNothing ==
    ASSUME NEW m \in Movers, pc'[m] # "del", reply'[m].ret = 0,
           \A i \in DOMAIN objs'[m] : objs'[m][i] = Hole
    PROVE  Done(m)'
<1>1. IsMoved(m)' = {}
    BY DEF IsMoved, Taken
<1>2. Cardinality(IsMoved(m)') = 0
    BY <1>1, FS_EmptySet
<1> QED BY <1>1, <1>2 DEF Done, Unlinkable, Counted, Answered

(* The other movers, when mover m takes a step.                            *)
LEMMA DoneOthers ==
    ASSUME Known, TypeInv', Grows, LossInv, NEW m \in Movers, pc[m] # "idle",
           \A i \in Movers \ {m} : /\ pc'[i] = pc[i] /\ keys'[i] = keys[i]
                                   /\ objs'[i] = objs[i]
                                   /\ unlinked'[i] = unlinked[i] /\ reply'[i] = reply[i],
           Done(m)'
    PROVE  \A i \in Movers : Done(i)'
<1> SUFFICES ASSUME NEW i \in Movers \ {m} PROVE Done(i)'
    OBVIOUS
<1>1. CASE async
    BY <1>1, DoneSame DEF Known, LossInv
<1>2. CASE ~async
  <2>1. pc'[i] = "idle"
      BY <1>2 DEF Known, SyncInv, Solo
  <2> QED BY <2>1, DoneEarly
<1> QED BY <1>1, <1>2, MigrateAssumption

(* All keys of a batch that is sent were dumped.                           *)
LEMMA SentWhole ==
    ASSUME Known, NEW m \in Movers, pc[m] = "send", Gapless
    PROVE  Hole \notin Range(objs[m])
<1>1. CASE Cmds \subseteq {"one", "slot"}
    BY <1>1 DEF Known, DeliverInv, MoverOK, Single, Sending
<1>2. CASE ~async /\ TTLs \subseteq {0} /\ Answers
    BY <1>2 DEF Known, SyncInv, SyncOK, NoGap, Sending
<1> QED BY <1>1, <1>2 DEF Gapless

LEMMA SendDoneArrived ==
    ASSUME Known, NEW m \in Movers, SendDone(m), ~SendFailed(m), Delivers, Gapless
    PROVE  \A k \in Range(keys[m]) : dst[k] # Absent
<1>1. /\ pc[m] = "send" /\ objs[m] \in Seq(Dumps) /\ keys[m] \in Seq(Keys)
      /\ Len(objs[m]) = Len(keys[m]) /\ status[m] \in [DOMAIN chunks[m] -> Statuses]
    BY DEF SendDone, Known, TypeInv, MoverTypes, Progress
<1>2. \A c \in DOMAIN status[m] : status[m][c] = "ok"
  <2>1. Range(status[m]) \subseteq {"ok"}
      BY DEF SendDone, SendFailed
  <2> QED BY <2>1 DEF Range
<1>3. \A o \in Content(chunks[m]) : Restored(o)
    BY <1>1, <1>2 DEF Known, DeliverInv, MoverOK, OkArrived, Content
<1>4. Hole \notin Range(objs[m])
    BY <1>1, SentWhole
<1>5. Content(chunks[m]) = Range(objs[m])
    BY <1>1, <1>4, SentFacts DEF Known, DeliverInv, MoverOK, AllSent, Sending
<1> SUFFICES ASSUME NEW i \in DOMAIN keys[m] PROVE dst[keys[m][i]] # Absent
    BY DEF Range
<1>6. i \in DOMAIN objs[m]
    BY <1>1
<1>7. objs[m][i] # Hole /\ Restored(objs[m][i])
    BY <1>3, <1>4, <1>5, <1>6 DEF Range
<1>8. objs[m][i].key = keys[m][i]
    BY <1>6, <1>7 DEF Known, DeliverInv, MoverOK, KeyOf
<1> QED BY <1>7, <1>8 DEF Restored

LEMMA FinishReply ==
    ASSUME TypeInv, NEW m \in Movers, NEW ret, Finish(m, ret)
    PROVE  /\ pc'[m] = "reply" /\ reply'[m].ret = ret
           /\ \A i \in Movers \ {m} : pc'[i] = pc[i] /\ reply'[i] = reply[i]
<1>1. /\ pc' = [pc EXCEPT ![m] = "reply"]
      /\ reply' = [reply EXCEPT ![m] = [ret |-> ret, left |-> Left(m)]]
    BY DEF Finish, Goto
<1>2. pc \in [Movers -> Locations] /\ DOMAIN reply = Movers
    BY DEF TypeInv, MoverTypes
<1> QED BY <1>1, <1>2

(* A step of a mover before it unlinks.                                    *)
LEMMA DoneGathering ==
    ASSUME Known, TypeInv', Grows, LossInv, NEW m \in Movers,
           Dump(m) \/ Pttl(m) \/ MGRT(m) \/ Connect(m)
    PROVE  \A i \in Movers : Done(i)'
<1>1. /\ pc[m] \in {"dump", "connect"} /\ UNCHANGED <<keys, unlinked>>
      /\ \A i \in Movers \ {m} : objs'[i] = objs[i]
  <2>1. pc[m] \in {"dump", "connect"} /\ UNCHANGED <<keys, unlinked>>
      BY DEF Dump, Pttl, MGRT, Connect
  <2>2. CASE Dump(m)
      BY <2>1, <2>2, DumpForm DEF Known
  <2>3. CASE Pttl(m)
      BY <2>1, <2>3, PttlForm DEF Known
  <2>4. CASE MGRT(m) \/ Connect(m)
    <3>1. objs' = objs
        BY <2>4 DEF MGRT, Connect
    <3> QED BY <2>1, <3>1
  <2> QED BY <2>2, <2>3, <2>4
<1>2. CASE Finish(m, SLOTS_MGRT_ERR)
  <2>1. /\ pc'[m] = "reply" /\ reply'[m].ret = SLOTS_MGRT_ERR
        /\ \A i \in Movers \ {m} : pc'[i] = pc[i] /\ reply'[i] = reply[i]
      BY <1>2, FinishReply DEF Known
  <2>2. Done(m)'
      BY <2>1, DoneEarly
  <2> QED BY <1>1, <2>1, <2>2, DoneOthers
<1>3. ASSUME NEW l \in {"dump", "connect", "send"}, pc' = [pc EXCEPT ![m] = l], reply' = reply
      PROVE  \A i \in Movers : Done(i)'
  <2>1. pc'[m] = l /\ \A i \in Movers \ {m} : pc'[i] = pc[i] /\ reply'[i] = reply[i]
      BY <1>3 DEF Known, TypeInv, MoverTypes
  <2>2. Done(m)'
      BY <2>1, DoneEarly
  <2> QED BY <1>1, <2>1, <2>2, DoneOthers
<1>4. CASE pc' = pc /\ reply' = reply
  <2>1. Done(m)'
      BY <1>1, <1>4, DoneEarly
  <2> QED BY <1>1, <1>4, <2>1, DoneOthers
<1>5. CASE Dump(m) \/ Pttl(m)
    BY <1>2, <1>4, <1>5 DEF Dump, Pttl
<1>6. CASE MGRT(m) /\ Sent(objs[m]) = <<>> /\ Finish(m, 0)
  <2>1. /\ pc'[m] = "reply" /\ reply'[m].ret = 0 /\ objs' = objs
        /\ \A i \in Movers \ {m} : pc'[i] = pc[i] /\ reply'[i] = reply[i]
      BY <1>6, FinishReply DEF Known, MGRT
  <2>2. \A i \in DOMAIN objs[m] : objs[m][i] = Hole
    <3>1. objs[m] \in Seq(Dumps)
        BY DEF Known, TypeInv, MoverTypes
    <3> QED BY <1>6, <3>1, SentFacts
  <2>3. Done(m)'
      BY <2>1, <2>2, DoneNothing
  <2> QED BY <1>1, <2>1, <2>3, DoneOthers
<1>7. CASE MGRT(m)
    BY <1>3, <1>4, <1>6, <1>7 DEF MGRT, Goto
<1>8. CASE Connect(m)
    BY <1>2, <1>3, <1>8 DEF Connect, Goto
<1> QED BY <1>5, <1>7, <1>8

(* The sending of a synchronous batch ends well: all of it is still there. *)
LEMMA SendDoneCounted ==
    ASSUME Known, NEW m \in Movers, SendDone(m), ~SendFailed(m),
           UNCHANGED <<src, keys, objs, unlinked, reply>>
    PROVE  Counted(m)'
<1> SUFFICES ASSUME ~async, Gapless PROVE Counted(m)'
    BY DEF Counted
<1>1. /\ pc[m] = "send" /\ objs[m] \in Seq(Dumps) /\ keys[m] \in Seq(Keys)
      /\ Len(objs[m]) = Len(keys[m]) /\ reply[m].ret = 0
    BY DEF SendDone, Known, TypeInv, MoverTypes, Progress
<1>2. Hole \notin Range(objs[m])
    BY <1>1, SentWhole
<1>3. ASSUME NEW i \in DOMAIN keys[m] PROVE src[keys[m][i]] # Absent
  <2>1. i \in DOMAIN objs[m]
      BY <1>1
  <2>2. objs[m][i] # Hole
      BY <1>2, <2>1 DEF Range
  <2>3. objs[m][i].key = keys[m][i] /\ Live(src[objs[m][i].key])
      BY <1>1, <2>1, <2>2 DEF Known, SyncInv, SyncOK, Aligned, Gathering
  <2> QED BY <2>3 DEF Live
<1>4. HasLeft(m)' = {}
    BY <1>3 DEF HasLeft, Range
<1>5. Cardinality(HasLeft(m)') = 0
    BY <1>4, FS_EmptySet
<1> QED BY <1>1, <1>2, <1>3, <1>5 DEF Counted

(* UNLINK of the next key of the batch.                                    *)
LEMMA UnlinkCounts ==
    ASSUME Known, TypeInv', NEW m \in Movers, Counted(m), delKeys(m), pc' = pc
    PROVE  Counted(m)'
<1> SUFFICES ASSUME ~async, Gapless PROVE Counted(m)'
    BY DEF Counted
<1> DEFINE u == unlinked[m] + 1  k == keys[m][u]
<1>1. /\ pc[m] = "del" /\ u \in DOMAIN keys[m] /\ u \in Nat /\ unlinked[m] \in Nat
      /\ k \in Keys /\ UNCHANGED <<keys, objs>>
      /\ DOMAIN keys[m] = 1 .. Len(keys[m]) /\ Len(keys[m]) \in Nat
  <2>1. /\ pc[m] = "del" /\ u <= Len(keys[m]) /\ unlinked[m] \in Nat /\ keys[m] \in Seq(Keys)
        /\ UNCHANGED <<keys, objs>>
      BY DEF delKeys, ToUnlink, Known, TypeInv, MoverTypes
  <2>2. u \in DOMAIN keys[m]
      BY <2>1
  <2> QED BY <2>1, <2>2, ElementOfSeq
<1>2. /\ unlinked'[m] = u
      /\ \/ /\ src' = [src EXCEPT ![k] = Absent]
            /\ reply' = [reply EXCEPT ![m].ret = @ + 1]
         \/ UNCHANGED <<src, reply>>
  <2>1. ~(pc' = [pc EXCEPT ![m] = "reply"])
      BY <1>1 DEF Known, TypeInv, MoverTypes
  <2>2. /\ unlinked' = [unlinked EXCEPT ![m] = u]
        /\ \/ /\ src' = [src EXCEPT ![k] = Absent]
              /\ reply' = [reply EXCEPT ![m].ret = @ + 1]
           \/ UNCHANGED <<src, reply>>
      BY <2>1 DEF delKeys, Finish, Goto
  <2> QED BY <2>2 DEF Known, TypeInv, MoverTypes
<1>3. /\ Hole \notin Range(objs[m]) /\ reply[m].ret = Cardinality(HasLeft(m))
      /\ \A i \in DOMAIN keys[m] : i > unlinked[m] => src[keys[m][i]] # Absent
    BY <1>1 DEF Counted
<1>4. \A i \in DOMAIN keys[m] : i > u => i > unlinked[m] /\ keys[m][i] # k
  <2>1. \A i \in DOMAIN keys[m] : i > u => i > unlinked[m] /\ i # u
      BY <1>1
  <2> QED BY <1>1, <2>1 DEF Known, DeliverInv, MoverOK, Distinct
<1>5. \A i \in DOMAIN keys[m] : keys[m][i] \in Keys
    BY BatchKeys, ElementOfSeq DEF Known
<1>6. src[k] # Absent
  <2>1. u > unlinked[m]
      BY <1>1
  <2> QED BY <1>1, <1>3, <2>1
<1>7. src \in [Keys -> Entries] /\ k \in Range(keys[m]) /\ Range(keys[m]) \subseteq Keys
    BY <1>1, BatchKeys DEF Range, Known, TypeInv, DataTypes
<1> HIDE DEF k, u
<1>8. CASE UNCHANGED <<src, reply>>
  <2>1. HasLeft(m)' = HasLeft(m)
      BY <1>1, <1>8 DEF HasLeft
  <2> QED BY <1>1, <1>2, <1>3, <1>4, <1>8, <2>1 DEF Counted
<1>9. CASE src' = [src EXCEPT ![k] = Absent] /\ reply' = [reply EXCEPT ![m].ret = @ + 1]
  <2>1. src'[k] = Absent /\ \A j \in Keys \ {k} : src'[j] = src[j]
      BY <1>1, <1>7, <1>9
  <2>2. HasLeft(m)' = HasLeft(m) \cup {k} /\ k \notin HasLeft(m)
      BY <1>1, <1>6, <1>7, <2>1 DEF HasLeft
  <2>3. IsFiniteSet(HasLeft(m))
    <3>1. HasLeft(m) \subseteq Range(keys[m]) /\ IsFiniteSet(Range(keys[m]))
        BY BatchKeys DEF HasLeft, Known
    <3> QED BY <3>1, FS_Subset
  <2>4. Cardinality(HasLeft(m)') = Cardinality(HasLeft(m)) + 1
      BY <2>2, <2>3, FS_AddElement
  <2>5. reply'[m].ret = reply[m].ret + 1
      BY <1>9 DEF Known, TypeInv, MoverTypes
  <2>6. \A i \in DOMAIN keys[m] : i > u => src'[keys[m][i]] # Absent
      BY <1>3, <1>4, <1>5, <2>1
  <2> QED BY <1>1, <1>2, <1>3, <2>4, <2>5, <2>6 DEF Counted
<1> QED BY <1>2, <1>8, <1>9

(* The answer of delKeys: every key that has gone is one that was sent.    *)
LEMMA CountAnswers ==
    ASSUME Known, NEW m \in Movers, Done(m), delDone(m)
    PROVE  Done(m)'
<1>1. /\ pc[m] = "del" /\ UNCHANGED <<src, dst, keys, objs>>
      /\ objs[m] \in Seq(Dumps) /\ keys[m] \in Seq(Keys) /\ Len(objs[m]) = Len(keys[m])
    BY DEF delDone, data, Known, TypeInv, MoverTypes, Progress
<1>2. pc'[m] = "reply" /\ reply'[m].ret = reply[m].ret
    BY FinishReply DEF delDone, Deleted, Known
<1>3. Answered(m)'
  <2> SUFFICES ASSUME ~async, Delivers, Gapless PROVE Answered(m)'
      BY DEF Answered
  <2>1. Hole \notin Range(objs[m]) /\ reply[m].ret = Cardinality(HasLeft(m))
      BY <1>1 DEF Done, Counted
  <2>2. Taken(m) = Range(keys[m])
    <3>1. DOMAIN objs[m] = DOMAIN keys[m] /\ \A i \in DOMAIN objs[m] : objs[m][i] # Hole
        BY <1>1, <2>1 DEF Range
    <3> QED BY <3>1 DEF Taken, Range
  <2>3. IsMoved(m)' = HasLeft(m)
      BY <1>1, <2>2 DEF IsMoved, HasLeft, Taken
  <2>4. \A k \in HasLeft(m) : dst[k] # Absent
      BY <1>1 DEF HasLeft, Done, Unlinkable
  <2> QED BY <1>1, <1>2, <2>1, <2>3, <2>4 DEF Answered
<1> QED BY <1>2, <1>3 DEF Done, Unlinkable, Counted

LEMMA DoneUnlinking ==
    ASSUME Known, TypeInv', Grows, LossInv, NEW m \in Movers,
           SendDone(m) \/ delKeys(m) \/ delDone(m)
    PROVE  \A i \in Movers : Done(i)'
<1>1. /\ pc[m] \in {"send", "del"} /\ UNCHANGED <<keys, objs>>
      /\ unlinked \in [Movers -> Nat] /\ pc \in [Movers -> Locations]
      /\ Range(keys[m]) \subseteq Keys
    BY BatchKeys DEF SendDone, delKeys, delDone, Known, TypeInv, MoverTypes
<1>2. CASE Finish(m, SLOTS_MGRT_ERR) /\ unlinked' = unlinked
  <2>1. /\ pc'[m] = "reply" /\ reply'[m].ret = SLOTS_MGRT_ERR
        /\ \A i \in Movers \ {m} : pc'[i] = pc[i] /\ reply'[i] = reply[i]
      BY <1>2, FinishReply DEF Known
  <2>2. Done(m)'
      BY <2>1, DoneEarly
  <2> QED BY <1>1, <1>2, <2>1, <2>2, DoneOthers
<1>3. CASE SendDone(m) /\ ~SendFailed(m)
  <2>1. pc'[m] = "del" /\ \A i \in Movers \ {m} : pc'[i] = pc[i]
      BY <1>1, <1>3 DEF SendDone, Goto
  <2>2. UNCHANGED <<unlinked, reply, src, dst>>
      BY <1>3 DEF SendDone, data
  <2>3. Unlinkable(m)'
      BY <1>1, <1>3, <2>2, SendDoneArrived DEF Unlinkable
  <2>4. Counted(m)' /\ Answered(m)'
      BY <1>1, <1>3, <2>1, <2>2, SendDoneCounted DEF Answered
  <2> QED BY <1>1, <2>1, <2>2, <2>3, <2>4, DoneOthers DEF Done
<1>4. CASE delKeys(m) /\ pc' = pc
  <2>1. pc[m] = "del" /\ dst' = dst /\ Done(m)
      BY <1>4 DEF delKeys, LossInv
  <2>2. \A i \in Movers \ {m} : unlinked'[i] = unlinked[i] /\ reply'[i] = reply[i]
    <3>1. ~(pc' = [pc EXCEPT ![m] = "reply"])
        BY <1>1, <1>4, <2>1
    <3>2. /\ unlinked' = [unlinked EXCEPT ![m] = unlinked[m] + 1]
          /\ reply' = reply \/ reply' = [reply EXCEPT ![m].ret = @ + 1]
        BY <1>4, <3>1 DEF delKeys, Finish, Goto
    <3> QED BY <3>2 DEF Known, TypeInv, MoverTypes
  <2>3. Counted(m)'
      BY <1>4, <2>1, UnlinkCounts DEF Done
  <2>4. Unlinkable(m)' /\ Answered(m)'
      BY <1>1, <1>4, <2>1 DEF Done, Unlinkable, Answered
  <2> QED BY <1>1, <1>4, <2>1, <2>2, <2>3, <2>4, DoneOthers DEF Done
<1>5. CASE delDone(m)
  <2>1. \A i \in Movers \ {m} : pc'[i] = pc[i] /\ reply'[i] = reply[i]
      BY <1>5, FinishReply DEF delDone, Known
  <2>2. unlinked' = unlinked
      BY <1>5 DEF delDone
  <2>3. Done(m)'
      BY <1>5, CountAnswers DEF LossInv
  <2> QED BY <1>1, <2>1, <2>2, <2>3, DoneOthers
<1>6. CASE SendDone(m)
    BY <1>2, <1>3, <1>6 DEF SendDone
<1>7. CASE delKeys(m)
    BY <1>2, <1>4, <1>7 DEF delKeys
<1> QED BY <1>5, <1>6, <1>7

LEMMA DoneRest ==
    ASSUME Known, TypeInv', Grows, LossInv, [Next]_vars
    PROVE  \A i \in Movers : Done(i)'
<1>1. CASE UNCHANGED <<src, pc, keys, objs, unlinked, reply>>
    BY <1>1, DoneSame DEF Known, LossInv
<1>2. ASSUME NEW m \in Movers, objs[m] = <<>>, reply[m].ret = 0, pc'[m] # "del",
             \A i \in Movers \ {m} : pc'[i] = pc[i] /\ keys'[i] = keys[i],
             UNCHANGED <<src, objs, unlinked, reply>>
      PROVE  \A i \in Movers : Done(i)'
  <2>1. DOMAIN objs[m] = {}
      BY <1>2
  <2>2. Done(m)'
      BY <1>2, <2>1, DoneNothing
  <2>3. \A i \in Movers \ {m} : Done(i)'
      BY <1>2, DoneSame DEF Known, LossInv
  <2> QED BY <2>2, <2>3
<1>3. ASSUME NEW m \in Movers, Start(m) PROVE \A i \in Movers : Done(i)'
  <2>1. PICK l \in {"reply", "dump", "size"} :
          /\ pc[m] = "idle" /\ objs[m] = <<>> /\ pc'[m] = l
          /\ \A i \in Movers \ {m} : pc'[i] = pc[i] /\ keys'[i] = keys[i]
          /\ UNCHANGED <<data, objs, unlinked, reply>>
      BY <1>3, StartForm DEF Known
  <2>2. reply[m].ret = 0
      BY <2>1 DEF Known, TypeInv, Progress, Picking
  <2> QED BY <1>2, <2>1, <2>2 DEF data
<1>4. ASSUME NEW m \in Movers, TagSize(m) \/ TagWalk(m) PROVE \A i \in Movers : Done(i)'
  <2>1. PICK l \in {"reply", "walk", "dump"} :
          /\ objs[m] = <<>> /\ reply[m].ret = 0 /\ pc'[m] = l
          /\ \A i \in Movers \ {m} : pc'[i] = pc[i] /\ keys'[i] = keys[i]
          /\ UNCHANGED <<data, objs, unlinked, reply>>
      BY <1>4, TagForm DEF Known
  <2> QED BY <1>2, <2>1 DEF data
<1>5. ASSUME NEW m \in Movers, Reply(m) PROVE \A i \in Movers : Done(i)'
  <2>1. /\ pc[m] = "reply" /\ pc'[m] = "idle"
        /\ \A i \in Movers \ {m} : /\ pc'[i] = pc[i] /\ keys'[i] = keys[i]
                                   /\ objs'[i] = objs[i]
                                   /\ unlinked'[i] = unlinked[i] /\ reply'[i] = reply[i]
      BY <1>5 DEF Reply, Goto, Known, TypeInv, MoverTypes
  <2>2. Done(m)'
      BY <2>1, DoneEarly
  <2> QED BY <2>1, <2>2, DoneOthers
<1>6. ASSUME NEW m \in Movers,
             \/ \E c \in DOMAIN status[m] : doSplitRestoreCommand(m, c)
             \/ \E r \in reqs : GetReply(m, r) \/ Timeout(m, r)
      PROVE  UNCHANGED <<src, pc, keys, objs, unlinked, reply>>
    BY <1>6 DEF doSplitRestoreCommand, GetReply, Timeout, data
<1>7. ASSUME NEW m \in Movers,
             Start(m) \/ MoverStep(m) \/ \E r \in reqs : Timeout(m, r)
      PROVE  \A i \in Movers : Done(i)'
    BY <1>1, <1>3, <1>4, <1>5, <1>6, <1>7, DoneGathering, DoneUnlinking DEF MoverStep
<1>8. ASSUME Destination \/ UNCHANGED vars
      PROVE  UNCHANGED <<src, pc, keys, objs, unlinked, reply>>
    BY <1>8, DestinationTypes DEF Known, mover, vars, data
<1>9. CASE Client
  <2>1. UNCHANGED <<pc, keys, objs, unlinked, reply>>
      BY <1>9, ClientTypes DEF mover, Known
  <2>2. CASE async
      BY <2>1, <2>2, DoneSame DEF Known, LossInv
  <2>3. CASE ~Busy /\ ~async
    <3>1. \A i \in Movers : pc'[i] = "idle"
        BY <2>1, <2>3 DEF Busy
    <3> QED BY <3>1, DoneEarly
  <2>4. CASE \E k \in Keys, t \in TTLs : DstWrite(k, t)
      BY <1>1, <2>1, <2>4 DEF DstWrite
  <2> QED BY <1>9, <2>2, <2>3, <2>4, MigrateAssumption
          DEF Client, SrcWrite, SrcDelete, SrcExpire, Tick
<1> QED BY <1>1, <1>7, <1>8, <1>9 DEF Next

(* The source loses a key only by deletion, when it has expired, or when   *)
(* the destination has it.                                                 *)
LEMMA SomewhereStays ==
    ASSUME Known, TypeInv', Grows, LossInv, [Next]_vars
    PROVE  Somewhere'
<1> SUFFICES ASSUME Delivers, Gapless PROVE Somewhere'
    BY DEF Somewhere
<1>1. /\ src \in [Keys -> Entries] /\ truth \in [Keys -> Entries] /\ now \in Nat
      /\ version \in Nat /\ dst \in [Keys -> Entries]
    BY MigrateAssumption DEF Known, TypeInv, DataTypes
<1>2. ASSUME truth' = truth, now' = now,
             \A k \in Keys : \/ src'[k] = src[k]
                             \/ src[k] # Absent /\ ~Live(src[k])
                             \/ dst[k] # Absent
      PROVE  Somewhere'
  <2>1. \A k \in Keys : src[k] # Absent /\ ~Live(src[k]) => ~Live(truth[k])
      BY DEF Known, TtlInv, SrcIsTruth
  <2>2. \A e : Live(e)' <=> Live(e)
      BY <1>2 DEF Live
  <2>3. \A k \in Keys : Live(truth[k])' => src'[k] # Absent \/ dst'[k] # Absent
      BY <1>2, <2>1, <2>2 DEF LossInv, Somewhere, Grows
  <2> QED BY <2>3 DEF Somewhere
<1>3. ASSUME NEW m \in Movers,
             Start(m) \/ MoverStep(m) \/ \E r \in reqs : Timeout(m, r)
      PROVE  Somewhere'
  <2>1. UNCHANGED <<truth, now>>
      BY <1>3, MoverFresh DEF Known
  <2>2. CASE src' = src
      BY <1>2, <2>1, <2>2
  <2>3. CASE Dump(m)
    <3>1. PICK k \in Keys : \/ src' = src
                            \/ /\ ~Live(src[k]) /\ src'[k] = Absent
                               /\ \A j \in Keys \ {k} : src'[j] = src[j]
        BY <2>3, DumpForm DEF Known
    <3> QED BY <1>2, <2>1, <3>1
  <2>4. CASE Pttl(m)
    <3>1. PICK k \in Keys : /\ (~Live(src[k]) /\ src'[k] = Absent) \/ src'[k] = src[k]
                            /\ \A j \in Keys \ {k} : src'[j] = src[j]
        BY <2>4, PttlForm DEF Known
    <3> QED BY <1>2, <2>1, <3>1
  <2>5. CASE delKeys(m) /\ src' = [src EXCEPT ![keys[m][unlinked[m] + 1]] = Absent]
    <3> DEFINE k == keys[m][unlinked[m] + 1]
    <3>1. pc[m] = "del" /\ unlinked[m] < Len(keys[m]) /\ unlinked[m] \in Nat /\ keys[m] \in Seq(Keys)
        BY <2>5 DEF delKeys, ToUnlink, Known, TypeInv, MoverTypes
    <3>2. unlinked[m] + 1 \in DOMAIN keys[m]
        BY <3>1
    <3>3. k \in Range(keys[m]) /\ k \in Keys
        BY <3>1, <3>2, ElementOfSeq DEF Range
    <3>4. dst[k] # Absent
        BY <3>1, <3>3 DEF LossInv, Done, Unlinkable
    <3>5. \A j \in Keys \ {k} : src'[j] = src[j]
        BY <1>1, <2>5, <3>3
    <3> HIDE DEF k
    <3> QED BY <1>2, <2>1, <3>3, <3>4, <3>5
  <2>6. CASE Start(m)
    <3>1. src' = src
        BY <2>6, BeginForm DEF data
    <3> QED BY <2>2, <3>1
  <2>7. ASSUME \/ MGRT(m) \/ Connect(m) \/ SendDone(m) \/ delDone(m) \/ Reply(m)
               \/ \E c \in DOMAIN status[m] : doSplitRestoreCommand(m, c)
               \/ \E r \in reqs : GetReply(m, r) \/ Timeout(m, r)
               \/ TagSize(m) \/ TagWalk(m)
        PROVE  src' = src
      BY <2>7 DEF TagSize, TagWalk, MGRT, Connect, SendDone, delDone, Reply, doSplitRestoreCommand, GetReply,
                  Timeout, data
  <2>8. CASE delKeys(m)
      BY <2>2, <2>5, <2>8 DEF delKeys
  <2> QED BY <1>3, <2>2, <2>3, <2>4, <2>6, <2>7, <2>8 DEF MoverStep
<1>4. CASE Destination \/ UNCHANGED vars
  <2>1. UNCHANGED <<src, truth, now>>
      BY <1>4, DestinationTypes DEF Known, vars, data
  <2> QED BY <1>2, <2>1
<1>5. ASSUME NEW k \in Keys, NEW t \in TTLs, SrcWrite(k, t) \/ DstWrite(k, t)
      PROVE  Somewhere'
  <2> DEFINE e == Entry(version + 1, Expiry(t))
  <2>1. version + 1 \in 0 .. MaxVersion /\ Expiry(t) \in Nat
      BY <1>1, <1>5, MigrateAssumption DEF SrcWrite, DstWrite, Expiry, NoExp
  <2>2. e # Absent
      BY <2>1, EntryFacts
  <2> HIDE DEF e
  <2>3. /\ src'[k] = e \/ dst'[k] = e
        /\ \A j \in Keys \ {k} : src'[j] = src[j] /\ dst'[j] = dst[j] /\ truth'[j] = truth[j]
        /\ now' = now
    <3>1. CASE SrcWrite(k, t)
        BY <1>1, <3>1 DEF SrcWrite, e
    <3>2. CASE DstWrite(k, t)
        BY <1>1, <3>2 DEF DstWrite, e
    <3> QED BY <1>5, <3>1, <3>2
  <2>4. \A x : Live(x)' <=> Live(x)
      BY <2>3 DEF Live
  <2>5. \A j \in Keys : Live(truth[j])' => src'[j] # Absent \/ dst'[j] # Absent
      BY <2>2, <2>3, <2>4 DEF LossInv, Somewhere
  <2> QED BY <2>5 DEF Somewhere
<1>6. ASSUME NEW k \in Keys, SrcDelete(k) PROVE Somewhere'
  <2>1. /\ truth'[k] = Absent /\ now' = now /\ dst' = dst
        /\ \A j \in Keys \ {k} : src'[j] = src[j] /\ truth'[j] = truth[j]
      BY <1>1, <1>6 DEF SrcDelete
  <2>2. \A x : Live(x)' <=> Live(x)
      BY <2>1 DEF Live
  <2>3. \A j \in Keys : Live(truth[j])' => src'[j] # Absent \/ dst'[j] # Absent
      BY <2>1, <2>2 DEF LossInv, Somewhere, Live
  <2> QED BY <2>3 DEF Somewhere
<1>7. ASSUME NEW k \in Keys, SrcExpire(k) PROVE Somewhere'
  <2>1. /\ UNCHANGED <<truth, now>> /\ src[k] # Absent /\ ~Live(src[k])
        /\ \A j \in Keys \ {k} : src'[j] = src[j]
      BY <1>1, <1>7 DEF SrcExpire
  <2> QED BY <1>2, <2>1
<1>8. CASE Tick
  <2>1. UNCHANGED <<src, dst, truth>> /\ now' = now + 1
      BY <1>8 DEF Tick, data
  <2>2. \A k \in Keys : Live(truth[k])' => Live(truth[k])
    <3>1. \A k \in Keys : truth[k] # Absent => truth[k].exp \in Nat
        BY <1>1, EntryFacts
    <3> QED BY <1>1, <2>1, <3>1 DEF Live
  <2> QED BY <2>1, <2>2 DEF LossInv, Somewhere
<1> QED BY <1>3, <1>4, <1>5, <1>6, <1>7, <1>8 DEF Next, Client

LEMMA KnownInvariant == Spec => []Known
<1>1. Spec => [](~async => SyncInv)
  <2>1. CASE ~async
    <3>1. Spec => []SyncInv
        BY <2>1, SyncInvariant
    <3> QED BY <3>1, PTL
  <2>2. CASE async
    <3>1. ~async => SyncInv
        BY <2>2
    <3> QED BY <3>1, PTL
  <2> QED BY <2>1, <2>2, MigrateAssumption
<1>2. TypeInv /\ TtlInv /\ DeliverInv /\ (~async => SyncInv) => Known
    BY DEF Known
<1> QED BY <1>1, <1>2, TypeInvariant, TtlInvariant, DeliverInvariant, PTL

(* When delKeys runs, every key of the batch is on the destination.        *)
THEOREM LossInvariant == Spec => []LossInv
<1>1. Init => LossInv
  <2> SUFFICES ASSUME Init PROVE LossInv
      OBVIOUS
  <2>1. \A m \in Movers : Done(m)
      BY DEF Init, Done, Unlinkable, Counted, Answered
  <2>2. Somewhere
      BY DEF Init, Somewhere, Live
  <2> QED BY <2>1, <2>2 DEF LossInv
<1>2. ASSUME Known, Known', LossInv, [Next]_vars PROVE LossInv'
  <2>1. TypeInv' /\ Grows
      BY <1>2, DstGrows DEF Known
  <2> QED BY <1>2, <2>1, DoneRest, SomewhereStays DEF LossInv
<1> QED BY <1>1, <1>2, KnownInvariant, PTL DEF Spec

(* No key vanishes: a key that clients have not deleted and that has not   *)
(* expired is on the source or on the destination in every state, between  *)
(* any two steps of any number of movers, with lost, late and repeated     *)
(* requests, if RESTORE always answers, the source can tell that it failed *)
(* (a synchronous destination), and no batch has a gap: the batches are    *)
(* single keys, or the migration is synchronous and keys have no ttl.  The *)
(* runs mgrt_holes and mgrt_async_dst show what happens otherwise.         *)
THEOREM NoKeyVanishes ==
    ASSUME Delivers, Gapless
    PROVE  Spec => []KeyNeverVanishes
<1>1. LossInv => KeyNeverVanishes
    BY DEF LossInv, Somewhere, KeyNeverVanishes
<1> QED BY <1>1, LossInvariant, PTL

(* The answer of a synchronous command is exact, however many chunks the   *)
(* batch has, whichever of them fails and whichever UNLINKs have no reply: *)
(* an error says that no key has left the source, and n that n keys have,  *)
(* each of which is on the destination.                                    *)
THEOREM AnswersAreExact ==
    ASSUME Delivers, Gapless, "unlink_err" \notin Faults
    PROVE  Spec => []AnswerIsExact
<1>1. Known /\ LossInv => AnswerIsExact
  <2> SUFFICES ASSUME Known, LossInv PROVE AnswerIsExact
      OBVIOUS
  <2>1. ErrorKeepsKeys
      BY ErrorKeeps DEF Known
  <2>2. ASSUME NEW m \in Movers, pc[m] = "reply", ~async, reply[m].ret # SLOTS_MGRT_ERR
        PROVE  /\ reply[m].ret = Cardinality(IsMoved(m))
               /\ \A k \in IsMoved(m) : dst[k] # Absent
               /\ \A k \in Taken(m) \ IsMoved(m) :
                     Live(truth[k]) => Holds(src[k], truth[k])
    <3>1. /\ reply[m].ret = Cardinality(IsMoved(m))
          /\ \A k \in IsMoved(m) : dst[k] # Absent
        BY <2>2 DEF LossInv, Done, Answered
    <3>2. ASSUME NEW k \in Taken(m) \ IsMoved(m), Live(truth[k])
          PROVE  Holds(src[k], truth[k])
      <4>1. k \in Keys /\ src[k] # Absent
          BY <3>2, BatchKeys DEF IsMoved, Known
      <4>2. src[k] = truth[k] /\ src[k] \in Entries
          BY <4>1 DEF Known, TtlInv, SrcIsTruth, TypeInv, DataTypes
      <4>3. src[k].exp \in Nat
          BY <4>1, <4>2, EntryFacts
      <4> QED BY <4>1, <4>2, <4>3 DEF Holds
    <3> QED BY <3>1, <3>2
  <2> QED BY <2>1, <2>2 DEF AnswerIsExact, IsMoved
<1> QED BY <1>1, KnownInvariant, LossInvariant, PTL

-----------------------------------------------------------------------------
(* Migrate implements KeyHandoff.  The destination has not only some value *)
(* of a key that left the source, but the latest one.                      *)

(* The conditions under which a migration is a handoff: keys without ttl,  *)
(* synchronous servers, DUMP, PTTL and RESTORE answer, and no request runs *)
(* late: neither after a timeout nor as the rest of a pipeline that had an *)
(* error.                                                                  *)
HandsOver ==
    /\ ~async /\ ~async_dst /\ TTLs \subseteq {0} /\ Answers
    /\ "late" \notin Faults /\ "restore_null" \notin Faults
    /\ "withpipeline" \notin mgrtTypes \/ "restore_err" \notin Faults

(* The destination has the latest value.                                   *)
Copied(k) == truth[k] # Absent /\ dst[k] # Absent /\ dst[k].ver = truth[k].ver
CopiedObj(o) == o # Hole => Copied(o.key)

OkCopied(m) ==
    \A c \in DOMAIN status[m] :
        status[m][c] = "ok" => \A o \in Range(chunks[m][c]) : CopiedObj(o)

(* delKeys runs on keys the destination has.                               *)
DelCopied(m) == pc[m] = "del" => \A k \in Range(keys[m]) : Copied(k)

PassedCopied(r) ==
    /\ r.waiting
    /\ ~r.failed => \A i \in DOMAIN r.objs : i < r.next => CopiedObj(r.objs[i])

NotLost == \A k \in Keys : truth[k] # Absent => src[k] # Absent \/ Copied(k)

HandInv ==
    /\ \A m \in Movers : OkCopied(m) /\ DelCopied(m)
    /\ \A r \in reqs : PassedCopied(r)
    /\ NotLost

(* Nobody pipelines without being asked to.                                *)
Plain ==
    "withpipeline" \notin mgrtTypes =>
        (\A m \in Movers : mode[m] # "pipeline") /\ \A r \in reqs : ~r.each

LEMMA PlainInvariant == Spec => []Plain
<1>1. Init => Plain
    BY DEF Init, Plain
<1>2. ASSUME TypeInv, Plain, [Next]_vars PROVE Plain'
  <2> SUFFICES ASSUME "withpipeline" \notin mgrtTypes PROVE Plain'
      BY DEF Plain
  <2>1. mode \in [Movers -> {"batch", "pool", "pipeline"}] /\ reqs \subseteq Requests
      BY <1>2 DEF TypeInv, MoverTypes
  <2>2. (\A m \in Movers : mode[m] # "pipeline") /\ \A r \in reqs : ~r.each
      BY <1>2 DEF Plain
  <2>3. ASSUME mode' = mode, \A q \in reqs' : q \in reqs \/ ~q.each PROVE Plain'
      BY <2>2, <2>3 DEF Plain
  <2>4. ASSUME NEW m \in Movers, NEW l \in {"batch", "pool"}, mode' = [mode EXCEPT ![m] = l],
               reqs' = reqs
        PROVE  Plain'
      BY <2>1, <2>2, <2>4 DEF Plain
  <2>5. ASSUME NEW m \in Movers, Start(m) PROVE Plain'
    <3>1. PICK t \in mgrtTypes : mode' = [mode EXCEPT ![m] = SendMode(t)]
        BY <1>2, <2>5, StartBegins DEF Begins, Begin
    <3>2. SendMode(t) \in {"batch", "pool"}
        BY MigrateAssumption DEF SendMode
    <3>3. reqs' = reqs
        BY <2>5, BeginForm
    <3> QED BY <2>4, <3>1, <3>2, <3>3
  <2>6. ASSUME NEW m \in Movers, Reply(m) PROVE Plain'
      BY <2>4, <2>6 DEF Reply
  <2>7. ASSUME NEW m \in Movers,
               \/ TagSize(m) \/ TagWalk(m) \/ Dump(m) \/ Pttl(m) \/ MGRT(m) \/ Connect(m)
               \/ SendDone(m) \/ delKeys(m) \/ delDone(m)
        PROVE  Plain'
    <3>1. mode' = mode /\ reqs' = reqs
        BY <2>7 DEF TagSize, TagWalk, Dump, Pttl, MGRT, Connect, SendDone, delKeys, delDone
    <3> QED BY <2>3, <3>1
  <2>8. ASSUME NEW m \in Movers, NEW c \in DOMAIN status[m], doSplitRestoreCommand(m, c)
        PROVE  Plain'
    <3>1. mode' = mode /\ reqs' \subseteq reqs \cup {Request(m, c)}
        BY <2>8 DEF doSplitRestoreCommand
    <3>2. ~Request(m, c).each
        BY <2>2 DEF Request
    <3> QED BY <2>3, <3>1, <3>2
  <2>9. ASSUME NEW m \in Movers, NEW r \in reqs, GetReply(m, r) \/ Timeout(m, r)
        PROVE  Plain'
    <3>1. mode' = mode /\ \A q \in reqs' : q \in reqs \/ q = [r EXCEPT !.waiting = FALSE]
        BY <2>9 DEF GetReply, Timeout
    <3>2. [r EXCEPT !.waiting = FALSE].each = r.each
        BY <2>1 DEF Requests
    <3> QED BY <2>2, <2>3, <3>1, <3>2
  <2>10. ASSUME NEW r \in reqs, restoreOneWithReplace(r) PROVE Plain'
    <3>1. PICK stop : /\ mode' = mode
                      /\ \A q \in reqs' : \/ q \in reqs \/ q = [r EXCEPT !.next = @ + 1]
                                          \/ q = [r EXCEPT !.next = stop, !.failed = TRUE]
      <4> DEFINE last == IF r.each THEN r.next + 1 ELSE Len(r.objs) + 1
      <4>1. /\ mode' = mode
            /\ \A q \in reqs' : \/ q \in reqs \/ q = [r EXCEPT !.next = @ + 1]
                                \/ q = [r EXCEPT !.next = last, !.failed = TRUE]
          BY <2>10 DEF restoreOneWithReplace, mover
      <4> QED BY <4>1
    <3>2. /\ [r EXCEPT !.next = @ + 1].each = r.each
          /\ [r EXCEPT !.next = stop, !.failed = TRUE].each = r.each
        BY <2>1 DEF Requests
    <3> QED BY <2>2, <2>3, <3>1, <3>2
  <2>11. ASSUME NEW r \in reqs, Forget(r) PROVE Plain'
      BY <2>3, <2>11 DEF Forget, mover
  <2>12. CASE Client \/ UNCHANGED vars
    <3>1. mode' = mode /\ reqs' = reqs
        BY <1>2, <2>12, ClientTypes DEF mover, vars
    <3> QED BY <2>3, <3>1
  <2> QED BY <1>2, <2>5, <2>6, <2>7, <2>8, <2>9, <2>10, <2>11, <2>12
          DEF Next, MoverStep, Destination
<1> QED BY <1>1, <1>2, TypeInvariant, PTL DEF Spec

HandKnown == Known /\ Forever /\ Plain /\ HandInv


(* What a request carries is on the source, and is the latest value.       *)
LEMMA Current ==
    ASSUME HandsOver, HandKnown, NEW r \in reqs
    PROVE  /\ r \in Requests /\ r.objs \in Seq(Dumps) /\ Waiting(r)
           /\ \A o \in Range(r.objs) :
                 /\ o \in Dumps /\ o # Hole /\ o.key \in Keys
                 /\ src[o.key] # Absent /\ truth[o.key] # Absent
                 /\ o.ver = truth[o.key].ver
<1> DEFINE m == r.mover
<1>1. r \in Requests /\ r.objs \in Seq(Dumps) /\ m \in Movers /\ r.waiting /\ Waiting(r)
    BY DEF HandKnown, HandInv, PassedCopied, Known, DeliverInv, TypeInv, Requests
<1>2. pc[m] = "send" /\ r.chunk \in DOMAIN chunks[m] /\ r.objs = chunks[m][r.chunk]
    BY <1>1 DEF Waiting
<1>3. MoverOK(m) /\ SyncOK(m) /\ objs[m] \in Seq(Dumps)
    BY <1>1 DEF HandKnown, HandsOver, Known, DeliverInv, SyncInv, TypeInv, MoverTypes
<1>4. Range(r.objs) \subseteq Content(chunks[m])
    BY <1>2 DEF Content
<1>5. Content(chunks[m]) \subseteq Range(objs[m])
  <2>1. Content(chunks[m]) = Range(Sent(objs[m]))
      BY <1>2, <1>3 DEF MoverOK, AllSent, Sending
  <2> QED BY <1>3, <2>1, SentFacts
<1>6. ASSUME NEW o \in Range(objs[m])
      PROVE  /\ o \in Dumps /\ o # Hole /\ o.key \in Keys
             /\ src[o.key] # Absent /\ truth[o.key] # Absent
             /\ o.ver = truth[o.key].ver
  <2>1. PICK i \in DOMAIN objs[m] : o = objs[m][i]
      BY <1>6 DEF Range
  <2>2. o \in Dumps
      BY <1>3, <2>1, ElementOfSeq
  <2>3. o # Hole
      BY <1>2, <1>3, <1>6 DEF SyncOK, NoGap, HandsOver, Sending
  <2>4. o.key \in Keys
      BY <2>2, <2>3, DumpFacts
  <2>5. Live(src[o.key]) /\ o.ver = src[o.key].ver
      BY <1>2, <1>3, <2>1, <2>3 DEF SyncOK, Aligned, Gathering
  <2>6. src[o.key] # Absent /\ src[o.key] = truth[o.key]
      BY <2>4, <2>5 DEF Live, HandKnown, Known, TtlInv, SrcIsTruth
  <2> QED BY <2>2, <2>3, <2>4, <2>5, <2>6
<1> QED BY <1>1, <1>4, <1>5, <1>6

(* No entry of the source ever expires.                                    *)
LEMMA SourceLives ==
    ASSUME HandsOver, HandKnown, NEW k \in Keys, src[k] # Absent
    PROVE  Live(src[k])
BY DEF HandsOver, HandKnown, Known, TtlInv, SrcIsTruth, Forever, Live

(* Writing and deleting a key on the source are the only steps after which *)
(* the destination has no longer the latest value.                         *)
CopiesStay == \A k \in Keys : Copied(k) => Copied(k)'

SourceWrites ==
    \/ \E k \in Keys, t \in TTLs : SrcWrite(k, t)
    \/ \E k \in Keys : SrcDelete(k)

LEMMA RestoreCopies ==
    ASSUME HandsOver, HandKnown, NEW r \in reqs, restoreOneWithReplace(r)
    PROVE  /\ CopiesStay
           /\ LET o == r.objs[r.next] IN
              \/ dst' = dst
              \/ /\ Copied(o.key)' /\ o.key \in Keys /\ src[o.key] # Absent
                 /\ \A j \in Keys \ {o.key} : dst'[j] = dst[j]
<1> DEFINE o == r.objs[r.next]
<1>1. /\ UNCHANGED <<src, truth, now>> /\ r.next \in DOMAIN r.objs
      /\ \/ dst' = dst
         \/ /\ o # Hole /\ o.key \in Keys
            /\ dst'[o.key] = Entry(o.ver, RestoredExp(o.ttl))
            /\ \A j \in Keys \ {o.key} : dst'[j] = dst[j]
    BY RestoreForm DEF HandKnown, Known
<1>2. o \in Range(r.objs)
    BY <1>1 DEF Range
<1>3. /\ o \in Dumps /\ o # Hole /\ o.key \in Keys /\ src[o.key] # Absent
      /\ truth[o.key] # Absent /\ o.ver = truth[o.key].ver
    BY <1>2, Current
<1>4. now \in Nat
    BY MigrateAssumption DEF HandKnown, Known, TypeInv, DataTypes
<1> HIDE DEF o
<1>5. CASE dst' = dst
    BY <1>1, <1>5 DEF CopiesStay, Copied, o
<1>6. CASE /\ dst'[o.key] = Entry(o.ver, RestoredExp(o.ttl))
           /\ \A j \in Keys \ {o.key} : dst'[j] = dst[j]
  <2>1. RestoredExp(o.ttl) \in Nat /\ o.ver \in 0 .. MaxVersion
      BY <1>3, <1>4, DumpFacts DEF RestoredExp, NoExp
  <2>2. dst'[o.key] # Absent /\ dst'[o.key].ver = o.ver
      BY <1>6, <2>1, EntryFacts
  <2>3. Copied(o.key)'
      BY <1>1, <1>3, <2>2 DEF Copied
  <2>4. CopiesStay
      BY <1>1, <1>6, <2>3 DEF CopiesStay, Copied
  <2> QED BY <1>3, <1>6, <2>3, <2>4 DEF o
<1> QED BY <1>1, <1>5, <1>6 DEF o

LEMMA CopiesStayStep ==
    ASSUME HandsOver, HandKnown, [Next]_vars, ~SourceWrites
    PROVE  CopiesStay
<1>1. CASE UNCHANGED <<dst, truth>>
    BY <1>1 DEF CopiesStay, Copied
<1>2. ASSUME NEW m \in Movers,
             Start(m) \/ MoverStep(m) \/ \E r \in reqs : Timeout(m, r)
      PROVE  UNCHANGED <<dst, truth>>
    BY <1>2, MoverFresh DEF HandKnown, Known
<1>3. ASSUME NEW r \in reqs, Forget(r) PROVE UNCHANGED <<dst, truth>>
    BY <1>3 DEF Forget, data
<1>4. ASSUME NEW k \in Keys, NEW t \in TTLs, DstWrite(k, t) PROVE CopiesStay
  <2> DEFINE e == Entry(version + 1, Expiry(t))
  <2>1. version + 1 \in 0 .. MaxVersion /\ Expiry(t) \in Nat
      BY <1>4, MigrateAssumption DEF DstWrite, Expiry, NoExp, HandKnown, Known, TypeInv, DataTypes
  <2>2. e # Absent
      BY <2>1, EntryFacts
  <2> HIDE DEF e
  <2>3. dst' = [dst EXCEPT ![k] = e] /\ truth' = [truth EXCEPT ![k] = dst'[k]]
      BY <1>4 DEF DstWrite, e
  <2> QED BY <2>2, <2>3 DEF CopiesStay, Copied, HandKnown, Known, TypeInv, DataTypes
<1>5. ASSUME NEW k \in Keys, SrcExpire(k) PROVE UNCHANGED <<dst, truth>>
    BY <1>5 DEF SrcExpire
<1>6. ASSUME Tick \/ UNCHANGED vars PROVE UNCHANGED <<dst, truth>>
    BY <1>6 DEF Tick, vars, data
<1> QED BY <1>1, <1>2, <1>3, <1>4, <1>5, <1>6, RestoreCopies
        DEF Next, Client, Destination, SourceWrites

(* While clients may write on the source, nothing is on its way.           *)
LEMMA Quiet ==
    ASSUME HandsOver, HandKnown, ~Busy
    PROVE  reqs = {} /\ \A m \in Movers : pc[m] = "idle" /\ DOMAIN status[m] = {}
<1>1. \A m \in Movers : pc[m] = "idle"
    BY DEF Busy, HandsOver
<1>2. \A m \in Movers : DOMAIN status[m] = {}
  <2>1. \A m \in Movers : chunks[m] = <<>> /\ status[m] \in [DOMAIN chunks[m] -> Statuses]
      BY <1>1 DEF HandKnown, Known, TypeInv, Progress, Picking, MoverTypes
  <2> QED BY <2>1
<1>3. ASSUME NEW r \in reqs PROVE FALSE
  <2>1. Waiting(r) /\ r.waiting /\ r.mover \in Movers
      BY Current DEF HandKnown, HandInv, PassedCopied, Requests
  <2> QED BY <1>1, <2>1 DEF Waiting
<1> QED BY <1>1, <1>2, <1>3

(* A step that keeps the copies, and the movers or the requests.           *)
LEMMA OkSame ==
    ASSUME HandKnown, CopiesStay, NEW m \in Movers, chunks'[m] = chunks[m],
           status'[m] = status[m]
    PROVE  OkCopied(m)'
<1>1. \A c \in DOMAIN status[m] : \A o \in Range(chunks[m][c]) : o \in Dumps
  <2>1. chunks[m] \in Seq(Seq(Dumps)) /\ DOMAIN status[m] = DOMAIN chunks[m]
      BY DEF HandKnown, Known, TypeInv, MoverTypes
  <2>2. \A c \in DOMAIN chunks[m] : chunks[m][c] \in Seq(Dumps)
      BY <2>1, ElementOfSeq
  <2> QED BY <2>1, <2>2, ElementOfSeq DEF Range
<1>2. \A c \in DOMAIN status[m] : \A o \in Range(chunks[m][c]) : CopiedObj(o) => CopiedObj(o)'
    BY <1>1, DumpFacts DEF CopiesStay, CopiedObj
<1> QED BY <1>2 DEF HandKnown, HandInv, OkCopied

LEMMA DelSame ==
    ASSUME HandKnown, CopiesStay, NEW m \in Movers, pc'[m] = pc[m] \/ pc'[m] # "del",
           keys'[m] = keys[m] \/ pc'[m] # "del"
    PROVE  DelCopied(m)'
<1>1. Range(keys[m]) \subseteq Keys
  <2>1. keys[m] \in Seq(Keys)
      BY DEF HandKnown, Known, TypeInv, MoverTypes
  <2> QED BY <2>1, ElementOfSeq DEF Range
<1> QED BY <1>1 DEF HandKnown, HandInv, DelCopied, CopiesStay

LEMMA PassedSame ==
    ASSUME HandKnown, CopiesStay, NEW r \in reqs
    PROVE  PassedCopied(r)'
<1>1. \A i \in DOMAIN r.objs : r.objs[i] \in Dumps
  <2>1. r.objs \in Seq(Dumps)
      BY DEF HandKnown, Known, TypeInv, Requests
  <2> QED BY <2>1, ElementOfSeq
<1>2. \A i \in DOMAIN r.objs : CopiedObj(r.objs[i]) => CopiedObj(r.objs[i])'
    BY <1>1, DumpFacts DEF CopiesStay, CopiedObj
<1> QED BY <1>2 DEF HandKnown, HandInv, PassedCopied

LEMMA LostSame ==
    ASSUME HandKnown, CopiesStay, truth' = truth,
           \A k \in Keys : src'[k] = src[k] \/ Copied(k)
    PROVE  NotLost'
BY DEF HandKnown, HandInv, NotLost, CopiesStay

(* Of the steps of a mover, only UNLINK of a key that was copied changes   *)
(* one of the keyspaces.                                                   *)
LEMMA MoverKeyspace ==
    ASSUME HandsOver, HandKnown, NEW m \in Movers,
           Start(m) \/ MoverStep(m) \/ \E r \in reqs : Timeout(m, r)
    PROVE  /\ UNCHANGED <<dst, truth>>
           /\ \/ \A k \in Keys : src'[k] = src[k]
              \/ \E k \in Keys : /\ Copied(k) /\ src'[k] = Absent
                                 /\ \A j \in Keys \ {k} : src'[j] = src[j]
<1> DEFINE Goal == \/ \A k \in Keys : src'[k] = src[k]
                   \/ \E k \in Keys : /\ Copied(k) /\ src'[k] = Absent
                                      /\ \A j \in Keys \ {k} : src'[j] = src[j]
<1>1. UNCHANGED <<dst, truth>>
    BY MoverFresh DEF HandKnown, Known
<1>2. CASE Dump(m)
  <2>1. PICK k \in Keys : \/ src' = src
                          \/ /\ ~Live(src[k]) /\ src'[k] = Absent
                             /\ \A j \in Keys \ {k} : src'[j] = src[j]
      BY <1>2, DumpForm DEF HandKnown, Known
  <2>2. Goal
      BY <2>1, SourceLives
  <2> QED BY <1>1, <2>2
<1>3. CASE Pttl(m)
  <2>1. PICK k \in Keys : /\ (~Live(src[k]) /\ src'[k] = Absent) \/ src'[k] = src[k]
                          /\ \A j \in Keys \ {k} : src'[j] = src[j]
      BY <1>3, PttlForm DEF HandKnown, Known
  <2>2. Goal
      BY <2>1, SourceLives
  <2> QED BY <1>1, <2>2
<1>4. CASE delKeys(m)
  <2> DEFINE k == keys[m][unlinked[m] + 1]
  <2>1. /\ pc[m] = "del" /\ unlinked[m] < Len(keys[m]) /\ unlinked[m] \in Nat
        /\ keys[m] \in Seq(Keys) /\ src \in [Keys -> Entries]
      BY <1>4 DEF delKeys, ToUnlink, HandKnown, Known, TypeInv, MoverTypes, DataTypes
  <2>2. unlinked[m] + 1 \in DOMAIN keys[m]
      BY <2>1
  <2>3. k \in Range(keys[m]) /\ k \in Keys
      BY <2>1, <2>2, ElementOfSeq DEF Range
  <2>4. Copied(k)
      BY <2>1, <2>3 DEF HandKnown, HandInv, DelCopied
  <2>5. src' = src \/ src' = [src EXCEPT ![k] = Absent]
      BY <1>4 DEF delKeys
  <2> HIDE DEF k
  <2>6. Goal
      BY <2>1, <2>3, <2>4, <2>5
  <2> QED BY <1>1, <2>6
<1>5. CASE Start(m)
  <2>1. src' = src
      BY <1>5, BeginForm DEF data
  <2> QED BY <1>1, <2>1
<1>6. CASE \/ TagSize(m) \/ TagWalk(m) \/ MGRT(m) \/ Connect(m) \/ SendDone(m) \/ delDone(m) \/ Reply(m)
           \/ \E c \in DOMAIN status[m] : doSplitRestoreCommand(m, c)
           \/ \E r \in reqs : GetReply(m, r) \/ Timeout(m, r)
  <2>1. src' = src
      BY <1>6 DEF TagSize, TagWalk, MGRT, Connect, SendDone, delDone, Reply, doSplitRestoreCommand, GetReply,
                  Timeout, data
  <2> QED BY <1>1, <2>1
<1> QED BY <1>2, <1>3, <1>4, <1>5, <1>6 DEF MoverStep

(* A step of a mover that ends no request.                                 *)
LEMMA HandMover ==
    ASSUME HandKnown, CopiesStay, NEW m \in Movers, NotLost',
           \A i \in Movers \ {m} : /\ pc'[i] = pc[i] /\ keys'[i] = keys[i]
                                   /\ chunks'[i] = chunks[i] /\ status'[i] = status[i],
           OkCopied(m)', DelCopied(m)',
           \A r \in reqs' : r \in reqs \/ PassedCopied(r)'
    PROVE  HandInv'
<1>1. \A i \in Movers \ {m} : OkCopied(i)' /\ DelCopied(i)'
    BY OkSame, DelSame
<1>2. \A r \in reqs : PassedCopied(r)'
    BY PassedSame
<1> QED BY <1>1, <1>2 DEF HandInv

LEMMA SendDoneCopied ==
    ASSUME HandsOver, HandKnown, NEW m \in Movers, SendDone(m), ~SendFailed(m)
    PROVE  \A k \in Range(keys[m]) : Copied(k)
<1>1. /\ pc[m] = "send" /\ objs[m] \in Seq(Dumps) /\ keys[m] \in Seq(Keys)
      /\ Len(objs[m]) = Len(keys[m]) /\ status[m] \in [DOMAIN chunks[m] -> Statuses]
    BY DEF SendDone, HandKnown, Known, TypeInv, MoverTypes, Progress
<1>2. \A c \in DOMAIN status[m] : status[m][c] = "ok"
  <2>1. Range(status[m]) \subseteq {"ok"}
      BY DEF SendDone, SendFailed
  <2> QED BY <2>1 DEF Range
<1>3. \A o \in Content(chunks[m]) : CopiedObj(o)
    BY <1>1, <1>2 DEF HandKnown, HandInv, OkCopied, Content
<1>4. Hole \notin Range(objs[m])
    BY <1>1 DEF HandsOver, HandKnown, Known, SyncInv, SyncOK, NoGap, Sending
<1>5. Content(chunks[m]) = Range(objs[m])
    BY <1>1, <1>4, SentFacts DEF HandKnown, Known, DeliverInv, MoverOK, AllSent, Sending
<1> SUFFICES ASSUME NEW i \in DOMAIN keys[m] PROVE Copied(keys[m][i])
    BY DEF Range
<1>6. i \in DOMAIN objs[m]
    BY <1>1
<1>7. objs[m][i] # Hole /\ CopiedObj(objs[m][i])
    BY <1>3, <1>4, <1>5, <1>6 DEF Range
<1>8. objs[m][i].key = keys[m][i]
    BY <1>6, <1>7 DEF HandKnown, Known, DeliverInv, MoverOK, KeyOf
<1> QED BY <1>7, <1>8 DEF CopiedObj

(* Steps that send nothing and wait for nothing.                           *)
LEMMA HandLocation ==
    ASSUME HandsOver, HandKnown, CopiesStay, NotLost', NEW m \in Movers,
           \/ Start(m) \/ TagSize(m) \/ TagWalk(m) \/ Dump(m) \/ Pttl(m)
           \/ Connect(m) \/ SendDone(m) \/ delKeys(m) \/ delDone(m)
    PROVE  HandInv'
<1>1. /\ pc \in [Movers -> Locations] /\ UNCHANGED <<chunks, status, reqs>>
      /\ Start(m) \/ TagSize(m) \/ TagWalk(m) \/ keys' = keys
    BY BeginForm DEF HandKnown, Known, TypeInv, MoverTypes, TagSize, TagWalk, Dump, Pttl,
                     Connect, SendDone, delKeys, delDone
<1>2. OkCopied(m)'
    BY <1>1, OkSame
<1>3. ASSUME DelCopied(m)',
             \A i \in Movers \ {m} : pc'[i] = pc[i] /\ keys'[i] = keys[i]
      PROVE  HandInv'
    BY <1>1, <1>2, <1>3, HandMover
<1>4. CASE Start(m) \/ TagSize(m) \/ TagWalk(m)
  <2>1. /\ pc'[m] \in {"reply", "dump", "size", "walk"}
        /\ \A i \in Movers \ {m} : pc'[i] = pc[i] /\ keys'[i] = keys[i]
    <3>1. CASE Start(m)
        BY <3>1, StartForm DEF HandKnown, Known
    <3>2. CASE TagSize(m) \/ TagWalk(m)
        BY <3>2, TagForm DEF HandKnown, Known
    <3> QED BY <1>4, <3>1, <3>2
  <2>2. DelCopied(m)'
      BY <2>1 DEF DelCopied
  <2> QED BY <1>3, <2>1, <2>2
<1>5. ASSUME keys' = keys, NEW l \in {"reply", "send"}, pc' = [pc EXCEPT ![m] = l]
      PROVE  HandInv'
  <2>1. pc'[m] = l /\ \A i \in Movers \ {m} : pc'[i] = pc[i]
      BY <1>1, <1>5
  <2>2. DelCopied(m)'
      BY <2>1 DEF DelCopied
  <2> QED BY <1>3, <1>5, <2>1, <2>2
<1>6. CASE keys' = keys /\ pc' = pc
    BY <1>3, <1>6, DelSame
<1>7. CASE SendDone(m) /\ ~SendFailed(m)
  <2>1. \A i \in Movers \ {m} : pc'[i] = pc[i] /\ keys'[i] = keys[i]
      BY <1>1, <1>7 DEF SendDone, Goto
  <2>2. keys' = keys /\ UNCHANGED <<dst, truth>>
      BY <1>7 DEF SendDone, data
  <2>3. DelCopied(m)'
      BY <1>7, <2>2, SendDoneCopied DEF DelCopied, Copied
  <2> QED BY <1>3, <2>1, <2>3
<1>8. CASE SendDone(m) /\ SendFailed(m)
    BY <1>5, <1>8 DEF SendDone, Finish, Goto
<1>9. CASE Dump(m) \/ Pttl(m) \/ Connect(m)
    BY <1>5, <1>6, <1>9 DEF Dump, Pttl, Connect, Finish, Goto
<1>10. CASE delKeys(m) \/ delDone(m)
    BY <1>5, <1>6, <1>10 DEF delKeys, delDone, Finish, Goto
<1> QED BY <1>4, <1>7, <1>8, <1>9, <1>10

LEMMA HandMGRT ==
    ASSUME HandKnown, CopiesStay, NotLost', NEW m \in Movers, MGRT(m)
    PROVE  HandInv'
<1>1. /\ pc \in [Movers -> Locations] /\ UNCHANGED <<keys, reqs>> /\ pc[m] = "dump"
      /\ chunks = [i \in Movers |-> chunks[i]] /\ status = [i \in Movers |-> status[i]]
    BY DEF HandKnown, Known, TypeInv, MoverTypes, MGRT
<1>2. PICK l \in {"reply", "send", "connect", "dump"} : pc' = [pc EXCEPT ![m] = l]
  <2>1. CASE pc' = pc
    <3>1. pc' = [pc EXCEPT ![m] = "dump"]
        BY <1>1, <2>1
    <3> QED BY <3>1
  <2> QED BY <2>1 DEF MGRT, Finish, Goto
<1>3. pc'[m] = l /\ \A i \in Movers \ {m} : pc'[i] = pc[i]
    BY <1>1, <1>2
<1>4. DelCopied(m)'
    BY <1>3 DEF DelCopied
<1>5. CASE UNCHANGED <<chunks, status>>
    BY <1>1, <1>3, <1>4, <1>5, OkSame, HandMover
<1>6. CASE LET send == Sent(objs[m]) IN
             /\ chunks' = [chunks EXCEPT ![m] = Split(send)]
             /\ status' = [status EXCEPT ![m] = [c \in 1 .. Len(Split(send)) |-> "todo"]]
  <2> DEFINE s == Split(Sent(objs[m]))  w == [c \in 1 .. Len(s) |-> "todo"]
  <2>1. \A c \in DOMAIN w : w[c] = "todo"
      OBVIOUS
  <2>2. status' = [status EXCEPT ![m] = w] /\ chunks' = [chunks EXCEPT ![m] = s]
      BY <1>6
  <2> HIDE DEF w, s
  <2>3. status'[m] = w
        /\ \A i \in Movers \ {m} : status'[i] = status[i] /\ chunks'[i] = chunks[i]
      BY <1>1, <2>2
  <2>4. OkCopied(m)'
      BY <2>1, <2>3 DEF OkCopied
  <2> QED BY <1>1, <1>3, <1>4, <2>3, <2>4, HandMover
<1> QED BY <1>5, <1>6 DEF MGRT

LEMMA HandReply ==
    ASSUME HandKnown, CopiesStay, NotLost', NEW m \in Movers, Reply(m)
    PROVE  HandInv'
<1>1. /\ pc'[m] = "idle" /\ status'[m] = <<>> /\ reqs' = reqs
      /\ \A i \in Movers \ {m} : /\ pc'[i] = pc[i] /\ keys'[i] = keys[i]
                                 /\ chunks'[i] = chunks[i] /\ status'[i] = status[i]
    BY DEF Reply, Goto, HandKnown, Known, TypeInv, MoverTypes
<1>2. OkCopied(m)' /\ DelCopied(m)'
    BY <1>1 DEF OkCopied, DelCopied
<1> QED BY <1>1, <1>2, HandMover

(* Steps that change the status of a chunk, and the requests.              *)
LEMMA HandStatus ==
    ASSUME HandKnown, CopiesStay, NotLost', NEW m \in Movers, NEW c \in DOMAIN status[m],
           NEW s, SetStatus(m, c, s), UNCHANGED <<pc, keys, chunks>>,
           s = "ok" => \A o \in Range(chunks[m][c]) : CopiedObj(o)',
           \A r \in reqs' : r \in reqs \/ PassedCopied(r)'
    PROVE  HandInv'
<1>1. /\ status'[m][c] = s /\ DOMAIN status'[m] = DOMAIN status[m]
      /\ \A b \in DOMAIN status[m] \ {c} : status'[m][b] = status[m][b]
      /\ \A i \in Movers \ {m} : status'[i] = status[i]
    BY StatusForm DEF HandKnown, Known
<1>2. \A b \in DOMAIN status[m] : \A o \in Range(chunks[m][b]) : CopiedObj(o) => CopiedObj(o)'
  <2>1. chunks[m] \in Seq(Seq(Dumps)) /\ DOMAIN status[m] = DOMAIN chunks[m]
      BY DEF HandKnown, Known, TypeInv, MoverTypes
  <2>2. \A b \in DOMAIN chunks[m] : chunks[m][b] \in Seq(Dumps)
      BY <2>1, ElementOfSeq
  <2>3. \A b \in DOMAIN status[m] : \A o \in Range(chunks[m][b]) : o \in Dumps
      BY <2>1, <2>2, ElementOfSeq DEF Range
  <2> QED BY <2>3, DumpFacts DEF CopiesStay, CopiedObj
<1>3. OkCopied(m)'
  <2> SUFFICES ASSUME NEW b \in DOMAIN status[m], status'[m][b] = "ok",
                      NEW o \in Range(chunks[m][b])
               PROVE  CopiedObj(o)'
      BY <1>1 DEF OkCopied
  <2>1. CASE b = c
      BY <1>1, <2>1
  <2>2. CASE b # c
    <3>1. status[m][b] = "ok"
        BY <1>1, <2>2
    <3> QED BY <1>2, <3>1 DEF HandKnown, HandInv, OkCopied
  <2> QED BY <2>1, <2>2
<1> QED BY <1>1, <1>3, DelSame, HandMover

LEMMA HandSend ==
    ASSUME HandKnown, CopiesStay, NotLost', NEW m \in Movers, NEW c \in DOMAIN status[m],
           doSplitRestoreCommand(m, c)
    PROVE  HandInv'
<1>1. UNCHANGED <<pc, keys, chunks>>
    BY DEF doSplitRestoreCommand
<1>2. PICK s \in {"sent", "err"} :
        /\ SetStatus(m, c, s)
        /\ \/ s = "sent" /\ reqs' = reqs \cup {Request(m, c)}
           \/ s = "err" /\ reqs' = reqs
    BY DEF doSplitRestoreCommand
<1>3. PICK q : q = Request(m, c)
    OBVIOUS
<1>4. /\ q.objs = chunks[m][c] /\ q.next = 1 /\ q.waiting = TRUE
    BY <1>3 DEF Request
<1>5. PassedCopied(q)'
  <2>1. chunks[m] \in Seq(Seq(Dumps)) /\ c \in DOMAIN chunks[m]
      BY DEF HandKnown, Known, TypeInv, MoverTypes
  <2>2. chunks[m][c] \in Seq(Dumps)
      BY <2>1, ElementOfSeq
  <2>3. \A i \in DOMAIN chunks[m][c] : ~(i < 1)
      BY <2>2
  <2> QED BY <1>4, <2>3 DEF PassedCopied
<1>6. \A r \in reqs' : r \in reqs \/ PassedCopied(r)'
    BY <1>2, <1>3, <1>5
<1> QED BY <1>1, <1>2, <1>6, HandStatus

LEMMA HandAnswer ==
    ASSUME HandsOver, HandKnown, CopiesStay, NotLost', NEW m \in Movers, NEW r \in reqs,
           GetReply(m, r) \/ Timeout(m, r)
    PROVE  HandInv'
<1>1. UNCHANGED <<pc, keys, chunks, dst, truth>> /\ r.mover = m /\ reqs' \subseteq reqs
  <2>1. UNCHANGED <<pc, keys, chunks, dst, truth>> /\ r.mover = m
      BY DEF GetReply, Timeout, data
  <2>2. r.failed => ~r.each
      BY DEF HandKnown, Plain, HandsOver, Known, DeliverInv, Passed
  <2>3. CASE GetReply(m, r)
    <3>1. Complete(r)
        BY <2>2, <2>3 DEF GetReply, ReplyIsError
    <3> QED BY <2>1, <2>3, <3>1 DEF GetReply
  <2>4. CASE Timeout(m, r)
      BY <2>1, <2>4 DEF Timeout, Fault, HandsOver
  <2> QED BY <2>3, <2>4
<1>2. PICK c \in DOMAIN status[m] : c = r.chunk /\ r.objs = chunks[m][c]
  <2>1. Waiting(r) /\ r.waiting
      BY Current DEF HandKnown, HandInv, PassedCopied
  <2> QED BY <1>1, <2>1 DEF Waiting, HandKnown, Known, TypeInv, MoverTypes
<1>3. CASE SetStatus(m, r.chunk, "err")
    BY <1>1, <1>2, <1>3, HandStatus
<1>4. CASE GetReply(m, r) /\ ~ReplyIsError(r) /\ SetStatus(m, r.chunk, "ok")
  <2>1. Complete(r) /\ ~r.failed
      BY <1>4 DEF GetReply, ReplyIsError, HandsOver
  <2>2. r.objs \in Seq(Dumps) /\ r.next \in Nat
      BY DEF HandKnown, Known, TypeInv, Requests
  <2>3. \A i \in DOMAIN r.objs : i < r.next
      BY <2>1, <2>2 DEF Complete
  <2>4. \A o \in Range(r.objs) : CopiedObj(o)
      BY <2>1, <2>3 DEF HandKnown, HandInv, PassedCopied, Range
  <2>5. \A o \in Range(chunks[m][c]) : CopiedObj(o)'
      BY <1>1, <1>2, <2>4 DEF CopiedObj, Copied
  <2> QED BY <1>1, <1>2, <1>4, <2>5, HandStatus
<1> QED BY <1>3, <1>4 DEF GetReply, Timeout, NoReplyStatus

LEMMA HandRestore ==
    ASSUME HandsOver, HandKnown, CopiesStay, NotLost', NEW r \in reqs,
           restoreOneWithReplace(r)
    PROVE  HandInv'
<1> DEFINE o == r.objs[r.next]
           stop == IF r.each THEN r.next + 1 ELSE Len(r.objs) + 1
<1>1. /\ UNCHANGED <<pc, keys, chunks, status, src, truth>>
      /\ r.next \in DOMAIN r.objs /\ o \in Dumps
    BY RestoreForm DEF mover, HandKnown, Known
<1>2. /\ r \in Requests /\ r.next \in Nat /\ r.objs \in Seq(Dumps) /\ r.waiting
      /\ PassedCopied(r)'
    BY PassedSame DEF HandKnown, HandInv, Known, TypeInv, Requests, PassedCopied
<1>3. PICK p, f : p = [r EXCEPT !.next = @ + 1] /\ f = [r EXCEPT !.next = stop, !.failed = TRUE]
    OBVIOUS
<1>4. /\ p.next = r.next + 1 /\ p.failed = r.failed /\ p.objs = r.objs /\ p.waiting
      /\ f.failed = TRUE /\ f.waiting
    BY <1>2, <1>3 DEF Requests
<1>5. \/ /\ reqs' = (reqs \ {r}) \cup {p}
         /\ dst' = IF o = Hole THEN dst
                   ELSE [dst EXCEPT ![o.key] = Entry(o.ver, RestoredExp(o.ttl))]
      \/ reqs' = (reqs \ {r}) \cup {f}
    BY <1>3 DEF restoreOneWithReplace, Fault, HandsOver
<1>6. \A m \in Movers : OkCopied(m)' /\ DelCopied(m)'
    BY <1>1, OkSame, DelSame
<1>7. \A q \in reqs : PassedCopied(q)'
    BY PassedSame
<1>8. PassedCopied(f)'
    BY <1>4 DEF PassedCopied
<1>9. CASE /\ reqs' = (reqs \ {r}) \cup {p}
           /\ dst' = IF o = Hole THEN dst
                     ELSE [dst EXCEPT ![o.key] = Entry(o.ver, RestoredExp(o.ttl))]
  <2>1. o \in Range(r.objs)
      BY <1>1 DEF Range
  <2>2. o # Hole /\ o.key \in Keys /\ truth[o.key] # Absent /\ o.ver = truth[o.key].ver
      BY <2>1, Current
  <2>3. dst \in [Keys -> Entries] /\ now \in Nat
      BY MigrateAssumption DEF HandKnown, Known, TypeInv, DataTypes
  <2>4. RestoredExp(o.ttl) \in Nat /\ o.ver \in 0 .. MaxVersion
      BY <1>1, <2>2, <2>3, DumpFacts DEF RestoredExp, NoExp
  <2> DEFINE e == Entry(o.ver, RestoredExp(o.ttl))
  <2>5. e # Absent /\ e.ver = o.ver
      BY <2>4, EntryFacts
  <2> HIDE DEF e, o
  <2>6. dst'[o.key] = e
      BY <1>9, <2>2, <2>3 DEF e
  <2>7. CopiedObj(o)'
      BY <1>1, <2>2, <2>5, <2>6 DEF CopiedObj, Copied
  <2>8. \A i \in DOMAIN r.objs : i < r.next + 1 => i < r.next \/ i = r.next
      BY <1>2
  <2>9. PassedCopied(p)'
    <3> SUFFICES ASSUME ~r.failed, NEW i \in DOMAIN r.objs, i < r.next + 1
                 PROVE  CopiedObj(r.objs[i])'
        BY <1>4 DEF PassedCopied
    <3>1. CASE i = r.next
      <4>1. r.objs[i] = o
          BY <3>1 DEF o
      <4> QED BY <2>7, <3>1 DEF o
    <3>2. CASE i < r.next
        BY <1>2, <3>2 DEF PassedCopied
    <3> QED BY <2>8, <3>1, <3>2
  <2> QED BY <1>6, <1>7, <1>9, <2>9 DEF HandInv
<1>10. CASE reqs' = (reqs \ {r}) \cup {f}
    BY <1>6, <1>7, <1>8, <1>10 DEF HandInv
<1> QED BY <1>5, <1>9, <1>10

(* Clients.                                                                *)
LEMMA SrcWriteForm ==
    ASSUME HandKnown, NEW k \in Keys, NEW t \in TTLs, SrcWrite(k, t)
    PROVE  /\ ~Busy /\ UNCHANGED <<mover, reqs, dst>>
           /\ src[k] # Absent \/ dst[k] = Absent
           /\ src'[k] # Absent /\ truth'[k] # Absent /\ ~Copied(k)'
           /\ \A j \in Keys \ {k} : src'[j] = src[j] /\ truth'[j] = truth[j]
<1> DEFINE e == Entry(version + 1, Expiry(t))
<1>1. /\ version + 1 \in 0 .. MaxVersion /\ Expiry(t) \in Nat /\ version \in Nat
      /\ src \in [Keys -> Entries] /\ truth \in [Keys -> Entries]
    BY MigrateAssumption DEF SrcWrite, Expiry, NoExp, HandKnown, Known, TypeInv, DataTypes
<1>2. e # Absent /\ e.ver = version + 1
    BY <1>1, EntryFacts
<1> HIDE DEF e
<1>3. /\ src' = [src EXCEPT ![k] = e] /\ truth' = [truth EXCEPT ![k] = src'[k]]
      /\ ~Busy /\ UNCHANGED <<mover, reqs, dst>> /\ (src[k] # Absent \/ dst[k] = Absent)
    BY DEF SrcWrite, e
<1>4. /\ src'[k] = e /\ truth'[k] = e
      /\ \A j \in Keys \ {k} : src'[j] = src[j] /\ truth'[j] = truth[j]
    BY <1>1, <1>3
<1>5. ~Copied(k)'
  <2>1. dst[k] # Absent => dst[k].ver <= version /\ dst[k].ver \in Nat
    <3>1. dst[k] \in Entries
        BY DEF HandKnown, Known, TypeInv, DataTypes
    <3> QED BY <3>1, EntryFacts, MigrateAssumption DEF HandKnown, Known, TtlInv, Numbered
  <2> QED BY <1>1, <1>2, <1>3, <1>4, <2>1 DEF Copied
<1> QED BY <1>2, <1>3, <1>4, <1>5

LEMMA SrcDeleteForm ==
    ASSUME HandKnown, NEW k \in Keys, SrcDelete(k)
    PROVE  /\ ~Busy /\ UNCHANGED <<mover, reqs, dst>>
           /\ src[k] # Absent /\ truth[k] # Absent /\ truth'[k] = Absent
           /\ \A j \in Keys \ {k} : src'[j] = src[j] /\ truth'[j] = truth[j]
<1>1. src \in [Keys -> Entries] /\ truth \in [Keys -> Entries]
    BY DEF HandKnown, Known, TypeInv, DataTypes
<1>2. src[k] # Absent /\ src[k] = truth[k]
    BY DEF SrcDelete, HandKnown, Known, TtlInv, SrcIsTruth
<1> QED BY <1>1, <1>2 DEF SrcDelete

LEMMA DstWriteForm ==
    ASSUME HandKnown, NEW k \in Keys, NEW t \in TTLs, DstWrite(k, t)
    PROVE  /\ UNCHANGED <<mover, reqs, src>> /\ src[k] = Absent /\ Copied(k)'
           /\ \A j \in Keys \ {k} : dst'[j] = dst[j] /\ truth'[j] = truth[j]
<1> DEFINE e == Entry(version + 1, Expiry(t))
<1>1. /\ version + 1 \in 0 .. MaxVersion /\ Expiry(t) \in Nat
      /\ dst \in [Keys -> Entries] /\ truth \in [Keys -> Entries]
    BY MigrateAssumption DEF DstWrite, Expiry, NoExp, HandKnown, Known, TypeInv, DataTypes
<1>2. e # Absent
    BY <1>1, EntryFacts
<1> HIDE DEF e
<1>3. /\ dst' = [dst EXCEPT ![k] = e] /\ truth' = [truth EXCEPT ![k] = dst'[k]]
      /\ UNCHANGED <<mover, reqs, src>> /\ src[k] = Absent
    BY DEF DstWrite, e
<1>4. /\ dst'[k] = e /\ truth'[k] = e
      /\ \A j \in Keys \ {k} : dst'[j] = dst[j] /\ truth'[j] = truth[j]
    BY <1>1, <1>3
<1> QED BY <1>2, <1>3, <1>4 DEF Copied

(* A client can change a key on the source only when nothing is under way. *)
LEMMA HandSourceWrites ==
    ASSUME HandsOver, HandKnown, SourceWrites
    PROVE  HandInv'
<1>1. PICK k \in Keys :
        /\ ~Busy /\ UNCHANGED <<mover, reqs, dst>>
        /\ src'[k] # Absent \/ truth'[k] = Absent
        /\ \A j \in Keys \ {k} : src'[j] = src[j] /\ truth'[j] = truth[j]
    BY SrcWriteForm, SrcDeleteForm DEF SourceWrites
<1>2. reqs = {} /\ \A m \in Movers : pc[m] = "idle" /\ DOMAIN status[m] = {}
    BY <1>1, Quiet
<1>3. \A m \in Movers : OkCopied(m)' /\ DelCopied(m)'
    BY <1>1, <1>2 DEF mover, OkCopied, DelCopied
<1>4. NotLost'
    BY <1>1 DEF HandKnown, HandInv, NotLost, Copied
<1> QED BY <1>1, <1>2, <1>3, <1>4 DEF HandInv

LEMMA HandRest ==
    ASSUME HandKnown, CopiesStay, NotLost', UNCHANGED mover, reqs' \subseteq reqs
    PROVE  HandInv'
<1>1. \A m \in Movers : OkCopied(m)' /\ DelCopied(m)'
    BY OkSame, DelSame DEF mover
<1>2. \A r \in reqs : PassedCopied(r)'
    BY PassedSame
<1> QED BY <1>1, <1>2 DEF HandInv

LEMMA HandNext ==
    ASSUME HandsOver, HandKnown, [Next]_vars
    PROVE  HandInv'
<1>1. CASE SourceWrites
    BY <1>1, HandSourceWrites
<1>2. CASE ~SourceWrites
  <2>1. CopiesStay
      BY <1>2, CopiesStayStep
  <2>2. ASSUME NEW m \in Movers,
               Start(m) \/ MoverStep(m) \/ \E r \in reqs : Timeout(m, r)
        PROVE  HandInv'
    <3>1. /\ truth' = truth
          /\ \/ \A k \in Keys : src'[k] = src[k]
             \/ \E k \in Keys : /\ Copied(k) /\ src'[k] = Absent
                                /\ \A j \in Keys \ {k} : src'[j] = src[j]
        BY <2>2, MoverKeyspace
    <3>2. NotLost'
        BY <2>1, <3>1, LostSame
    <3> QED BY <2>1, <2>2, <3>2, HandLocation, HandMGRT, HandReply, HandSend, HandAnswer
            DEF MoverStep
  <2>3. ASSUME NEW r \in reqs, restoreOneWithReplace(r) PROVE HandInv'
    <3>1. UNCHANGED <<src, truth>>
        BY <2>3, RestoreForm DEF HandKnown, Known
    <3> QED BY <2>1, <2>3, <3>1, LostSame, HandRestore
  <2>4. ASSUME NEW r \in reqs, Forget(r) PROVE HandInv'
    <3>1. UNCHANGED <<src, truth, mover>> /\ reqs' \subseteq reqs
        BY <2>4 DEF Forget, data
    <3> QED BY <2>1, <3>1, LostSame, HandRest
  <2>5. ASSUME NEW k \in Keys, NEW t \in TTLs, DstWrite(k, t) PROVE HandInv'
    <3>1. /\ UNCHANGED <<mover, reqs, src>> /\ Copied(k)'
          /\ \A j \in Keys \ {k} : dst'[j] = dst[j] /\ truth'[j] = truth[j]
        BY <2>5, DstWriteForm
    <3>2. NotLost'
        BY <3>1 DEF HandKnown, HandInv, NotLost, Copied
    <3> QED BY <2>1, <3>1, <3>2, HandRest
  <2>6. ASSUME NEW k \in Keys, SrcExpire(k) PROVE FALSE
      BY <2>6, SourceLives DEF SrcExpire
  <2>7. CASE Tick \/ UNCHANGED vars
    <3>1. UNCHANGED <<src, truth, mover, reqs>>
        BY <2>7 DEF Tick, vars, data
    <3> QED BY <2>1, <3>1, LostSame, HandRest
  <2> QED BY <1>2, <2>2, <2>3, <2>4, <2>5, <2>6, <2>7
          DEF Next, Client, Destination, SourceWrites
<1> QED BY <1>1, <1>2

(* A key that the source has not got, and clients have not deleted, has    *)
(* its latest value on the destination.                                    *)
THEOREM HandInvariant ==
    ASSUME HandsOver
    PROVE  Spec => []HandKnown
<1>1. Init => HandInv
  <2> SUFFICES ASSUME Init PROVE HandInv
      OBVIOUS
  <2>1. \A m \in Movers : OkCopied(m) /\ DelCopied(m)
      BY DEF Init, OkCopied, DelCopied
  <2>2. truth = src /\ reqs = {}
      BY DEF Init
  <2> QED BY <2>1, <2>2 DEF HandInv, NotLost
<1>2. Known /\ Forever /\ Plain /\ HandInv /\ [Next]_vars => HandInv'
    BY HandNext DEF HandKnown
<1> QED BY <1>1, <1>2, KnownInvariant, ForeverInvariant, PlainInvariant, PTL
        DEF Spec, HandKnown

-----------------------------------------------------------------------------
(* The refinement *)

(* Place in terms of the copies.                                           *)
PlaceIs(k) ==
    /\ truth[k] = Absent => Place(k) = "none"
    /\ truth[k] # Absent /\ src[k] # Absent =>
          Place(k) = IF Copied(k) THEN "both" ELSE "source"
    /\ truth[k] # Absent /\ src[k] = Absent => Place(k) = "destination"

AllPlaces == \A k \in Keys : PlaceIs(k)

LEMMA PlaceFacts ==
    ASSUME HandsOver, HandKnown
    PROVE  AllPlaces
<1> SUFFICES ASSUME NEW k \in Keys PROVE PlaceIs(k)
    BY DEF AllPlaces
<1>1. truth[k] # Absent => (Holds(src[k], truth[k]) <=> src[k] # Absent)
    BY DEF Holds, HandsOver, HandKnown, Known, TtlInv, SrcIsTruth, Forever
<1>2. truth[k] # Absent => (Holds(dst[k], truth[k]) <=> Copied(k))
    BY DEF Holds, Copied, HandKnown, Known, TtlInv, OnTime
<1>3. truth[k] # Absent => src[k] # Absent \/ Copied(k)
    BY DEF HandKnown, HandInv, NotLost
<1>4. CASE truth[k] = Absent
    BY <1>4 DEF PlaceIs, Place
<1>5. CASE truth[k] # Absent /\ src[k] # Absent /\ Copied(k)
    BY <1>1, <1>2, <1>5 DEF PlaceIs, Place
<1>6. CASE truth[k] # Absent /\ src[k] # Absent /\ ~Copied(k)
    BY <1>1, <1>2, <1>6 DEF PlaceIs, Place
<1>7. CASE truth[k] # Absent /\ src[k] = Absent
    BY <1>1, <1>2, <1>3, <1>7 DEF PlaceIs, Place
<1> QED BY <1>4, <1>5, <1>6, <1>7

LEMMA PlaceSame ==
    ASSUME NEW k \in Keys, src'[k] = src[k], dst'[k] = dst[k], truth'[k] = truth[k]
    PROVE  Place(k)' = Place(k)
BY DEF Place, Holds

LEMMA PlaceBecomes ==
    ASSUME NEW k \in Keys, NEW p, Place(k)' = p,
           \A j \in Keys \ {k} : Place(j)' = Place(j)
    PROVE  Handoff!Becomes(k, p)
BY DEF Handoff!Becomes

(* Every step of a migration is a step of the handoff, or is not visible.  *)
LEMMA StepHandsOver ==
    ASSUME HandsOver, HandKnown, AllPlaces, AllPlaces', [Next]_vars
    PROVE  [Handoff!Next]_([k \in Keys |-> Place(k)])
<1> DEFINE Same == \A k \in Keys : Place(k)' = Place(k)
<1>1. CASE Same
  <2>1. [k \in Keys |-> Place(k)]' = [k \in Keys |-> Place(k)]
      BY <1>1
  <2> QED BY <2>1
<1>2. CASE \A k \in Keys : src'[k] = src[k] /\ dst'[k] = dst[k] /\ truth'[k] = truth[k]
    BY <1>1, <1>2, PlaceSame
<1>3. ASSUME NEW k \in Keys, NEW t \in TTLs, SrcWrite(k, t) PROVE Handoff!Next
  <2>1. /\ dst' = dst /\ (src[k] # Absent \/ dst[k] = Absent)
        /\ src'[k] # Absent /\ truth'[k] # Absent /\ ~Copied(k)'
        /\ \A j \in Keys \ {k} : src'[j] = src[j] /\ truth'[j] = truth[j]
      BY <1>3, SrcWriteForm
  <2>2. Place(k)' = "source" /\ \A j \in Keys \ {k} : Place(j)' = Place(j)
      BY <2>1, PlaceSame DEF AllPlaces, PlaceIs
  <2>3. Place(k) \in {"none", "source", "both"}
      BY <2>1 DEF AllPlaces, PlaceIs, HandKnown, HandInv, NotLost, Copied
  <2>4. Handoff!Write(k)
      BY <2>2, <2>3, PlaceBecomes DEF Handoff!Write
  <2> QED BY <2>4 DEF Handoff!Next
<1>4. ASSUME NEW k \in Keys, SrcDelete(k) PROVE Handoff!Next
  <2>1. /\ dst' = dst /\ src[k] # Absent /\ truth[k] # Absent /\ truth'[k] = Absent
        /\ \A j \in Keys \ {k} : src'[j] = src[j] /\ truth'[j] = truth[j]
      BY <1>4, SrcDeleteForm
  <2>2. Place(k)' = "none" /\ \A j \in Keys \ {k} : Place(j)' = Place(j)
      BY <2>1, PlaceSame DEF AllPlaces, PlaceIs
  <2>3. Place(k) \in {"source", "both"}
      BY <2>1 DEF AllPlaces, PlaceIs
  <2>4. Handoff!Delete(k)
      BY <2>2, <2>3, PlaceBecomes DEF Handoff!Delete
  <2> QED BY <2>4 DEF Handoff!Next
<1>5. ASSUME NEW k \in Keys, NEW t \in TTLs, DstWrite(k, t) PROVE Same \/ Handoff!Next
  <2>1. /\ src' = src /\ src[k] = Absent /\ Copied(k)'
        /\ \A j \in Keys \ {k} : dst'[j] = dst[j] /\ truth'[j] = truth[j]
      BY <1>5, DstWriteForm
  <2>2. Place(k)' = "destination" /\ \A j \in Keys \ {k} : Place(j)' = Place(j)
      BY <2>1, PlaceSame DEF AllPlaces, PlaceIs, Copied
  <2>3. CASE truth[k] # Absent
      BY <2>1, <2>2, <2>3 DEF AllPlaces, PlaceIs
  <2>4. CASE truth[k] = Absent
    <3>1. Place(k) = "none"
        BY <2>4 DEF AllPlaces, PlaceIs
    <3>2. Handoff!WriteThere(k)
        BY <2>2, <3>1, PlaceBecomes DEF Handoff!WriteThere
    <3> QED BY <3>2 DEF Handoff!Next
  <2> QED BY <2>3, <2>4
<1>6. ASSUME NEW r \in reqs, restoreOneWithReplace(r) PROVE Same \/ Handoff!Next
  <2>1. UNCHANGED <<src, truth>>
      BY <1>6, RestoreForm DEF HandKnown, Known
  <2>2. CASE dst' = dst
      BY <2>1, <2>2, PlaceSame
  <2>3. ASSUME NEW k \in Keys, Copied(k)', src[k] # Absent,
               \A j \in Keys \ {k} : dst'[j] = dst[j]
        PROVE  Same \/ Handoff!Next
    <3>1. Place(k)' = "both" /\ \A j \in Keys \ {k} : Place(j)' = Place(j)
        BY <2>1, <2>3, PlaceSame DEF AllPlaces, PlaceIs, Copied
    <3>2. truth[k] # Absent
        BY <2>1, <2>3 DEF Copied
    <3>3. CASE Copied(k)
        BY <2>3, <3>1, <3>2, <3>3 DEF AllPlaces, PlaceIs
    <3>4. CASE ~Copied(k)
      <4>1. Place(k) = "source"
          BY <2>3, <3>2, <3>4 DEF AllPlaces, PlaceIs
      <4>2. Handoff!Copy(k)
          BY <3>1, <4>1, PlaceBecomes DEF Handoff!Copy
      <4> QED BY <4>2 DEF Handoff!Next
    <3> QED BY <3>3, <3>4
  <2> QED BY <1>6, <2>2, <2>3, RestoreCopies
<1>7. ASSUME NEW m \in Movers,
             Start(m) \/ MoverStep(m) \/ \E r \in reqs : Timeout(m, r)
      PROVE  Same \/ Handoff!Next
  <2>1. /\ UNCHANGED <<dst, truth>>
        /\ \/ \A k \in Keys : src'[k] = src[k]
           \/ \E k \in Keys : /\ Copied(k) /\ src'[k] = Absent
                              /\ \A j \in Keys \ {k} : src'[j] = src[j]
      BY <1>7, MoverKeyspace
  <2>2. CASE \A k \in Keys : src'[k] = src[k]
      BY <2>1, <2>2, PlaceSame
  <2>3. ASSUME NEW k \in Keys, Copied(k), src'[k] = Absent,
               \A j \in Keys \ {k} : src'[j] = src[j]
        PROVE  Same \/ Handoff!Next
    <3>1. truth[k] # Absent
        BY <2>3 DEF Copied
    <3>2. Place(k)' = "destination" /\ \A j \in Keys \ {k} : Place(j)' = Place(j)
        BY <2>1, <2>3, <3>1, PlaceSame DEF AllPlaces, PlaceIs
    <3>3. CASE src[k] = Absent
        BY <3>1, <3>2, <3>3 DEF AllPlaces, PlaceIs
    <3>4. CASE src[k] # Absent
      <4>1. Place(k) = "both"
          BY <2>3, <3>1, <3>4 DEF AllPlaces, PlaceIs
      <4>2. Handoff!Drop(k)
          BY <3>2, <4>1, PlaceBecomes DEF Handoff!Drop
      <4> QED BY <4>2 DEF Handoff!Next
    <3> QED BY <3>3, <3>4
  <2> QED BY <2>1, <2>2, <2>3
<1>8. ASSUME NEW k \in Keys, SrcExpire(k) PROVE FALSE
    BY <1>8, SourceLives DEF SrcExpire
<1>9. ASSUME Tick \/ UNCHANGED vars \/ \E r \in reqs : Forget(r)
      PROVE  UNCHANGED <<src, dst, truth>>
    BY <1>9 DEF Tick, Forget, vars, data
<1> QED BY <1>1, <1>2, <1>3, <1>4, <1>5, <1>6, <1>7, <1>8, <1>9
        DEF Next, Client, Destination

(* A synchronous migration of keys without ttl is a handoff, for any       *)
(* number of keys, movers, chunks, workers, retries and faults (lost       *)
(* requests and replies, refused DUMP, RESTORE and UNLINK): every step is  *)
(* one that KeyHandoff allows, or leaves the place of every key alone.     *)
THEOREM MigrationIsHandoff ==
    ASSUME HandsOver
    PROVE  Spec => IsHandoff
<1>1. Init => Handoff!Init
  <2> SUFFICES ASSUME Init, NEW k \in Keys PROVE Place(k) = "source"
      BY DEF Handoff!Init
  <2>1. PICK t \in TTLs : src[k] = Entry(0, IF t = 0 THEN NoExp ELSE t)
      BY DEF Init
  <2>2. truth[k] = src[k] /\ dst[k] = Absent
      BY DEF Init
  <2>3. src[k] = Entry(0, NoExp) /\ NoExp \in Nat /\ 0 \in 0 .. MaxVersion
      BY <2>1, MigrateAssumption DEF HandsOver, NoExp
  <2>4. src[k] # Absent /\ src[k].exp = NoExp
      BY <2>3, EntryFacts
  <2> QED BY <2>2, <2>4 DEF Place, Holds
<1>2. HandKnown => AllPlaces
    BY PlaceFacts
<1>3. HandKnown /\ AllPlaces /\ AllPlaces' /\ [Next]_vars
        => [Handoff!Next]_([k \in Keys |-> Place(k)])
    BY StepHandsOver
<1> QED BY <1>1, <1>2, <1>3, HandInvariant, PTL DEF Spec, IsHandoff, Handoff!Spec
=============================================================================
