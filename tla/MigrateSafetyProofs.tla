------------------------- MODULE MigrateSafetyProofs -------------------------
(***************************************************************************)
(* Safety of key migration, for every set of keys, movers, commands and    *)
(* faults: what a ttl becomes on its way, what a command that ends may     *)
(* have removed, and that no key vanishes.  TypeInv (see MigrateProofs) is *)
(* the base of all the invariants here.                                    *)
(***************************************************************************)
EXTENDS MigrateProofs

-----------------------------------------------------------------------------
(* The steps of a mover, value by value. *)

LEMMA DumpForm ==
    ASSUME TypeInv, NEW m \in Movers, Dump(m)
    PROVE  \E k \in Keys, o \in Dumps :
             /\ Len(objs[m]) + 1 \in DOMAIN keys[m] /\ k = keys[m][Len(objs[m]) + 1]
             /\ pc[m] = "dump"
             /\ UNCHANGED <<dst, truth, version, now, down, cmd, mode, keys, chunks,
                            status, unlinked, reqs>>
             /\ \/ /\ objs'[m] = Append(objs[m], o)
                   /\ \A i \in Movers \ {m} : objs'[i] = objs[i]
                   /\ \/ Live(src[k]) /\ o = Dumped(k, src[k].ver) /\ src' = src
                      \/ /\ ~Live(src[k]) /\ o = Hole /\ src'[k] = Absent
                         /\ \A j \in Keys \ {k} : src'[j] = src[j]
                      \/ /\ Live(src[k]) /\ "dump_null" \in Faults
                         /\ o = Hole /\ src' = src
                   /\ UNCHANGED <<pc, reply>>
                \/ /\ Live(src[k]) /\ Finish(m, SLOTS_MGRT_ERR)
                   /\ UNCHANGED <<objs, src>>
<1> DEFINE n == Len(objs[m])  k == keys[m][n + 1]
           o == IF Live(src[k]) THEN Dumped(k, src[k].ver) ELSE Hole
<1>1. /\ keys[m] \in Seq(Keys) /\ objs[m] \in Seq(Dumps) /\ n \in Nat
      /\ n < Len(keys[m]) /\ pc[m] = "dump"
    BY DEF TypeInv, MoverTypes, Dump
<1>2. n + 1 \in 1 .. Len(keys[m]) /\ DOMAIN keys[m] = 1 .. Len(keys[m])
    BY <1>1
<1>3. k \in Keys /\ src[k] \in Entries /\ src \in [Keys -> Entries]
    BY <1>1, <1>2, ElementOfSeq DEF TypeInv, DataTypes
<1>4. o \in Dumps
    BY <1>3, EntryFacts, DumpFacts DEF Live, Dumped, Unset
<1>5. UNCHANGED <<dst, truth, version, now, down, cmd, mode, keys, chunks,
                  status, unlinked, reqs>>
    BY DEF Dump
<1>6. CASE /\ objs' = [objs EXCEPT ![m] = Append(@, o)]
           /\ src' = [src EXCEPT ![k] = IF Live(src[k]) THEN @ ELSE Absent]
           /\ UNCHANGED <<faults, pc, reply>>
  <2>1. /\ objs'[m] = Append(objs[m], o)
        /\ \A i \in Movers \ {m} : objs'[i] = objs[i]
    <3> HIDE DEF o
    <3> QED BY <1>6 DEF TypeInv, MoverTypes
  <2>2. CASE Live(src[k])
    <3>1. o = Dumped(k, src[k].ver) /\ src' = [src EXCEPT ![k] = @]
        BY <1>6, <2>2
    <3>2. src' = src
      <4> HIDE DEF k
      <4> QED BY <1>3, <3>1
    <3> QED BY <1>1, <1>2, <1>3, <1>4, <1>5, <1>6, <2>1, <2>2, <3>1, <3>2
  <2>3. CASE ~Live(src[k])
    <3>1. o = Hole /\ src' = [src EXCEPT ![k] = Absent]
        BY <1>6, <2>3
    <3>2. src'[k] = Absent /\ \A j \in Keys \ {k} : src'[j] = src[j]
      <4> HIDE DEF k
      <4> QED BY <1>3, <3>1
    <3> QED BY <1>1, <1>2, <1>3, <1>4, <1>5, <1>6, <2>1, <2>3, <3>1, <3>2
  <2> QED BY <2>2, <2>3
<1>7. CASE Live(src[k]) /\ Finish(m, SLOTS_MGRT_ERR) /\ UNCHANGED <<objs, src>>
    BY <1>1, <1>2, <1>3, <1>4, <1>5, <1>7
<1>8. CASE /\ Live(src[k]) /\ Fault("dump_null")
           /\ objs' = [objs EXCEPT ![m] = Append(@, Hole)]
           /\ UNCHANGED <<src, pc, reply>>
  <2>1. /\ objs'[m] = Append(objs[m], Hole)
        /\ \A i \in Movers \ {m} : objs'[i] = objs[i]
      BY <1>8 DEF TypeInv, MoverTypes
  <2>2. Hole \in Dumps /\ "dump_null" \in Faults
      BY <1>8, DumpFacts DEF Fault
  <2> QED BY <1>1, <1>2, <1>3, <1>5, <1>8, <2>1, <2>2
<1> QED BY <1>6, <1>7, <1>8 DEF Dump

LEMMA PttlForm ==
    ASSUME TypeInv, NEW m \in Movers, Pttl(m)
    PROVE  \E k \in Keys, n \in Nat, p \in Dumps :
             /\ pc[m] = "dump" /\ n \in DOMAIN objs[m] /\ objs[m][n] # Hole
             /\ k = objs[m][n].key /\ DOMAIN objs'[m] = DOMAIN objs[m]
             /\ objs'[m][n] = p
             /\ \A i \in DOMAIN objs[m] \ {n} : objs'[m][i] = objs[m][i]
             /\ \A i \in Movers \ {m} : objs'[i] = objs[i]
             /\ \/ "pttl_null" \in Faults /\ p = Hole /\ src'[k] = src[k]
                \/ /\ p # Hole /\ p.key = k /\ p.ver = objs[m][n].ver
                   /\ \/ ~Live(src[k]) /\ p.ttl = -2 /\ src'[k] = Absent
                      \/ /\ Live(src[k]) /\ src[k].exp = NoExp
                         /\ p.ttl = -1 /\ src'[k] = src[k]
                      \/ /\ Live(src[k]) /\ src[k].exp # NoExp
                         /\ p.ttl = src[k].exp - now /\ src'[k] = src[k]
             /\ \A j \in Keys \ {k} : src'[j] = src[j]
             /\ UNCHANGED <<dst, truth, version, now, down, pc, cmd, mode, keys,
                            chunks, status, unlinked, reply, reqs>>
<1> DEFINE n == Len(objs[m])  o == objs[m][n]  k == o.key
           tv == CASE ~Live(src[k]) -> -2 [] Live(src[k]) /\ src[k].exp = NoExp -> -1
                   [] OTHER -> src[k].exp - now
           q == [o EXCEPT !.ttl = tv]
<1>1. /\ objs[m] \in Seq(Dumps) /\ n \in Nat /\ n \in DOMAIN objs[m] /\ n \in 1 .. Len(objs[m])
      /\ o # Hole /\ pc[m] = "dump"
    BY DEF TypeInv, MoverTypes, Pttl
<1>2. o \in Dumps
    BY <1>1, ElementOfSeq
<1>3. k \in Keys /\ src[k] \in Entries /\ now \in Nat /\ src \in [Keys -> Entries]
    BY <1>1, <1>2, DumpFacts, MigrateAssumption DEF TypeInv, DataTypes
<1>4. UNCHANGED <<dst, truth, version, now, down, pc, cmd, mode, keys,
                  chunks, status, unlinked, reply, reqs>>
    BY DEF Pttl
<1>5. ASSUME NEW x \in Dumps, objs' = [objs EXCEPT ![m] = [objs[m] EXCEPT ![n] = x]]
      PROVE  /\ DOMAIN objs'[m] = DOMAIN objs[m] /\ objs'[m][n] = x
             /\ \A i \in DOMAIN objs[m] \ {n} : objs'[m][i] = objs[m][i]
             /\ \A i \in Movers \ {m} : objs'[i] = objs[i]
  <2> DEFINE w == [objs[m] EXCEPT ![n] = x]
  <2>1. /\ DOMAIN w = DOMAIN objs[m] /\ w[n] = x
        /\ \A i \in DOMAIN objs[m] \ {n} : w[i] = objs[m][i]
    <3> HIDE DEF n
    <3> QED BY <1>1
  <2>2. objs' = [objs EXCEPT ![m] = w]
      BY <1>5
  <2> HIDE DEF w
  <2>3. objs'[m] = w /\ \A i \in Movers \ {m} : objs'[i] = objs[i]
      BY <2>2 DEF TypeInv, MoverTypes
  <2> QED BY <2>1, <2>3
<1>6. CASE /\ Fault("pttl_null") /\ objs' = [objs EXCEPT ![m] = [objs[m] EXCEPT ![n] = Hole]]
           /\ src' = src
  <2>1. Hole \in Dumps /\ "pttl_null" \in Faults
      BY <1>6, DumpFacts DEF Fault
  <2>2. /\ DOMAIN objs'[m] = DOMAIN objs[m] /\ objs'[m][n] = Hole
        /\ \A i \in DOMAIN objs[m] \ {n} : objs'[m][i] = objs[m][i]
        /\ \A i \in Movers \ {m} : objs'[i] = objs[i]
      BY <1>5, <1>6, <2>1
  <2> HIDE DEF k, n
  <2> QED BY <1>1, <1>3, <1>4, <1>6, <2>1, <2>2 DEF k
<1>7. CASE /\ objs' = [objs EXCEPT ![m] = [objs[m] EXCEPT ![n] = q]]
           /\ src' = [src EXCEPT ![k] = IF Live(src[k]) THEN @ ELSE Absent]
  <2>1. \/ ~Live(src[k]) /\ tv = -2
        \/ Live(src[k]) /\ src[k].exp = NoExp /\ tv = -1
        \/ Live(src[k]) /\ src[k].exp # NoExp /\ tv = src[k].exp - now /\ tv \in Nat
    <3>1. CASE ~Live(src[k])
        BY <3>1
    <3>2. CASE Live(src[k]) /\ src[k].exp = NoExp
        BY <3>2
    <3>3. CASE Live(src[k]) /\ src[k].exp # NoExp
      <4>1. tv = src[k].exp - now
          BY <3>3
      <4>2. src[k].exp \in Nat /\ now <= src[k].exp
          BY <1>3, <3>3, EntryFacts DEF Live
      <4> QED BY <1>3, <3>3, <4>1, <4>2
    <3> QED BY <3>1, <3>2, <3>3
  <2> HIDE DEF tv
  <2>2. q \in Dumps /\ q # Hole /\ q.key = k /\ q.ver = o.ver /\ q.ttl = tv
    <3>1. o \in [key : Keys, ver : 0 .. MaxVersion, ttl : Nat \cup {-3, -2, -1}]
        BY <1>1, <1>2 DEF Dumps
    <3>2. tv \in Nat \cup {-3, -2, -1}
        BY <2>1
    <3>3. /\ q = [key |-> o.key, ver |-> o.ver, ttl |-> tv]
          /\ o.key \in Keys /\ o.ver \in 0 .. MaxVersion
        BY <3>1
    <3>4. [key |-> o.key, ver |-> o.ver, ttl |-> tv] \in Dumps
          /\ [key |-> o.key, ver |-> o.ver, ttl |-> tv] # Hole
        BY <3>2, <3>3, DumpFacts
    <3> QED BY <3>3, <3>4
  <2> HIDE DEF q
  <2>3. /\ DOMAIN objs'[m] = DOMAIN objs[m] /\ objs'[m][n] = q
        /\ \A i \in DOMAIN objs[m] \ {n} : objs'[m][i] = objs[m][i]
        /\ \A i \in Movers \ {m} : objs'[i] = objs[i]
      BY <1>5, <1>7, <2>2
  <2>4. /\ src'[k] = IF Live(src[k]) THEN src[k] ELSE Absent
        /\ \A j \in Keys \ {k} : src'[j] = src[j]
    <3> HIDE DEF k
    <3> QED BY <1>3, <1>7
  <2>5. \/ ~Live(src[k]) /\ q.ttl = -2 /\ src'[k] = Absent
        \/ Live(src[k]) /\ src[k].exp = NoExp /\ q.ttl = -1 /\ src'[k] = src[k]
        \/ /\ Live(src[k]) /\ src[k].exp # NoExp
           /\ q.ttl = src[k].exp - now /\ src'[k] = src[k]
      BY <2>1, <2>2, <2>4
  <2>6. o = objs[m][n] /\ k = objs[m][n].key
      OBVIOUS
  <2> HIDE DEF k, n, o
  <2>7. pc[m] = "dump" /\ n \in DOMAIN objs[m] /\ objs[m][n] # Hole
      BY <1>1, <2>6
  <2> QED BY <1>1, <1>3, <1>4, <2>2, <2>3, <2>4, <2>5, <2>6, <2>7
<1>8. \/ /\ objs' = [objs EXCEPT ![m] = [objs[m] EXCEPT ![n] = q]]
         /\ src' = [src EXCEPT ![k] = IF Live(src[k]) THEN @ ELSE Absent]
      \/ /\ Fault("pttl_null") /\ objs' = [objs EXCEPT ![m] = [objs[m] EXCEPT ![n] = Hole]]
         /\ src' = src
    BY DEF Pttl
<1> QED BY <1>6, <1>7, <1>8


(* A step that only takes requests away or marks them keeps their objects. *)
LEMMA RequestForm ==
    ASSUME TypeInv, NEW r \in reqs,
           \/ restoreOneWithReplace(r) \/ Forget(r)
           \/ \E m \in Movers : GetReply(m, r) \/ Timeout(m, r)
    PROVE  \A q \in reqs' : \E p \in reqs : q.objs = p.objs
<1>1. r \in Requests /\ reqs \subseteq Requests
    BY DEF TypeInv
<1>2. /\ \A x : [r EXCEPT !.next = x].objs = r.objs
      /\ \A x, y : [r EXCEPT !.next = x, !.failed = y].objs = r.objs
      /\ [r EXCEPT !.waiting = FALSE].objs = r.objs
    BY <1>1 DEF Requests
<1>3. \A q \in reqs' : q \in reqs \/ q.objs = r.objs
  <2>1. CASE restoreOneWithReplace(r)
    <3> DEFINE stop == IF r.each THEN r.next + 1 ELSE Len(r.objs) + 1
               p == [r EXCEPT !.next = @ + 1]
               f == [r EXCEPT !.next = stop, !.failed = TRUE]
    <3>1. reqs' = (reqs \ {r}) \cup {p} \/ reqs' = (reqs \ {r}) \cup {f}
        BY <2>1 DEF restoreOneWithReplace
    <3>2. p.objs = r.objs /\ f.objs = r.objs
        BY <1>2
    <3> HIDE DEF p, f
    <3> QED BY <3>1, <3>2
  <2>2. CASE Forget(r)
      BY <2>2 DEF Forget
  <2>3. ASSUME NEW m \in Movers, GetReply(m, r) \/ Timeout(m, r)
        PROVE  \A q \in reqs' : q \in reqs \/ q.objs = r.objs
      BY <1>2, <2>3 DEF GetReply, Timeout
  <2> QED BY <2>1, <2>2, <2>3
<1> QED BY <1>3

-----------------------------------------------------------------------------
(* Time to live *)

(* What the source has is what clients wrote last.                         *)
SrcIsTruth == \A k \in Keys : src[k] # Absent => src[k] = truth[k]

(* Writes are numbered in the order they happen.                           *)
Numbered ==
    \A k \in Keys : /\ truth[k] # Absent => truth[k].ver <= version
                    /\ dst[k] # Absent => dst[k].ver <= version

(* A dump of the latest value of a key that expires, restored at any time  *)
(* from now on, does not expire before the key does.                       *)
Fresh(o) ==
    o # Hole =>
        /\ o.ver <= version
        /\ truth[o.key] # Absent /\ o.ver = truth[o.key].ver /\ o.ttl > 0
           => truth[o.key].exp # NoExp /\ now + o.ttl >= truth[o.key].exp

(* The dumps of chunks and requests, and all that a mover or a request     *)
(* holds.                                                                  *)
Packed(o) == \/ \E m \in Movers : o \in Content(chunks[m])
             \/ \E r \in reqs : o \in Range(r.objs)
InFlight(o) == (\E m \in Movers : o \in Range(objs[m])) \/ Packed(o)

AllFresh == \A o \in Dumps : InFlight(o) => Fresh(o)

OnTime ==
    \A k \in Keys :
        truth[k] # Absent /\ dst[k] # Absent /\ dst[k].ver = truth[k].ver
        => dst[k].exp = NoExp
             \/ (truth[k].exp # NoExp /\ dst[k].exp >= truth[k].exp)

TtlInv == SrcIsTruth /\ Numbered /\ AllFresh /\ OnTime

(* Time and the number of writes grow, and a new value has a new number.   *)
Ages ==
    /\ version <= version' /\ now <= now'
    /\ \A k \in Keys :
          truth'[k] = truth[k] \/ truth'[k] = Absent \/ truth'[k].ver > version

LEMMA FreshStays ==
    ASSUME TypeInv, TypeInv', Ages, NEW o \in Dumps, Fresh(o)
    PROVE  Fresh(o)'
<1> SUFFICES ASSUME o # Hole PROVE Fresh(o)'
    BY DEF Fresh
<1>1. o.key \in Keys /\ o.ver \in Int /\ o.ttl \in Int
    BY DumpFacts, MigrateAssumption
<1>2. /\ version \in Int /\ version' \in Int /\ now \in Int /\ now' \in Int
      /\ version <= version' /\ now <= now'
    BY MigrateAssumption DEF TypeInv, DataTypes, Ages
<1>3. o.ver <= version'
    BY <1>1, <1>2 DEF Fresh
<1>4. ASSUME truth'[o.key] # Absent, o.ver = truth'[o.key].ver, o.ttl > 0
      PROVE  truth'[o.key].exp # NoExp /\ now' + o.ttl >= truth'[o.key].exp
  <2>1. truth'[o.key] = truth[o.key]
      BY <1>1, <1>2, <1>4 DEF Ages, Fresh
  <2>2. truth[o.key].exp # NoExp /\ now + o.ttl >= truth[o.key].exp
      BY <1>4, <2>1 DEF Fresh
  <2>3. truth[o.key].exp \in Nat
      BY <1>1, <1>4, <2>1, EntryFacts DEF TypeInv, DataTypes
  <2> QED BY <1>1, <1>2, <2>1, <2>2, <2>3
<1> QED BY <1>3, <1>4 DEF Fresh


LEMMA BeginForm ==
    ASSUME NEW m \in Movers, Start(m)
    PROVE  UNCHANGED <<data, now, faults, down, objs, chunks, status, unlinked, reply, reqs>>
BY DEF Start, SlotsMGRT_OneKey, SlotsMGRT_SlotOneKey, SlotsMGRT_TagKeys,
       SlotsMGRT_TagSlotKeys, Begin

(* The steps of a mover but DUMP and PTTL hold no new dumps, and only MGRT *)
(* packs some.                                                             *)
Carries(m) ==
    \/ Start(m) \/ TagSize(m) \/ TagWalk(m) \/ MGRT(m) \/ Connect(m) \/ SendDone(m)
    \/ delKeys(m) \/ delDone(m) \/ Reply(m)
    \/ \E c \in DOMAIN status[m] : doSplitRestoreCommand(m, c)
    \/ \E r \in reqs : GetReply(m, r) \/ Timeout(m, r)

LEMMA MoverSteps ==
    ASSUME NEW m \in Movers,
           Start(m) \/ MoverStep(m) \/ \E r \in reqs : Timeout(m, r)
    PROVE  Dump(m) \/ Pttl(m) \/ Carries(m)
BY DEF MoverStep, Carries

LEMMA MoverCarries ==
    ASSUME TypeInv, NEW m \in Movers, Carries(m)
    PROVE  /\ UNCHANGED <<dst, truth, version, now>>
           /\ \A k \in Keys : src'[k] = src[k] \/ src'[k] = Absent
           /\ \A i \in Movers : objs'[i] = objs[i] \/ objs'[i] = <<>>
           /\ \A o \in Dumps : Packed(o)' => Packed(o) \/ (MGRT(m) /\ o \in Range(objs[m]))
<1>1. CASE Start(m)
    BY <1>1, BeginForm DEF data, Packed
<1>0. CASE TagSize(m) \/ TagWalk(m)
    BY <1>0 DEF TagSize, TagWalk, data, Packed
<1>4. CASE MGRT(m)
  <2>1. UNCHANGED <<src, dst, truth, version, now, objs, reqs>>
      BY <1>4 DEF MGRT, data
  <2>2. Content(chunks'[m]) \subseteq Content(chunks[m]) \cup Range(objs[m])
    <3>1. CASE chunks' = chunks
        BY <3>1
    <3>2. CASE Sent(objs[m]) # <<>> /\ chunks' = [chunks EXCEPT ![m] = Split(Sent(objs[m]))]
      <4>1. objs[m] \in Seq(Dumps) /\ chunks \in [Movers -> Seq(Seq(Dumps))]
          BY DEF TypeInv, MoverTypes
      <4>2. Sent(objs[m]) \in Seq(Dumps) /\ Range(Sent(objs[m])) \subseteq Range(objs[m])
          BY <4>1, SentFacts
      <4>3. Content(Split(Sent(objs[m]))) = Range(Sent(objs[m]))
          BY <3>2, <4>2, SplitFacts
      <4>4. chunks'[m] = Split(Sent(objs[m])) /\ \A i \in Movers \ {m} : chunks'[i] = chunks[i]
          BY <3>2, <4>1
      <4> QED BY <4>2, <4>3, <4>4
    <3> QED BY <1>4, <3>1, <3>2 DEF MGRT
  <2>3. \A i \in Movers \ {m} : chunks'[i] = chunks[i]
      BY <1>4 DEF MGRT, TypeInv, MoverTypes
  <2> QED BY <1>4, <2>1, <2>2, <2>3 DEF Packed
<1>5. CASE Connect(m) \/ SendDone(m) \/ delDone(m)
    BY <1>5 DEF Connect, SendDone, delDone, data, Packed
<1>6. ASSUME NEW c \in DOMAIN status[m], doSplitRestoreCommand(m, c)
      PROVE  /\ UNCHANGED <<src, dst, truth, version, now>>
             /\ objs' = objs
             /\ \A o \in Dumps : Packed(o)' => Packed(o)
  <2>1. UNCHANGED <<src, dst, truth, version, now, objs, chunks>>
      BY <1>6 DEF doSplitRestoreCommand, data
  <2>2. \A q \in reqs' : q \in reqs \/ q.objs = chunks[m][c]
      BY <1>6 DEF doSplitRestoreCommand, Request
  <2>3. c \in DOMAIN chunks[m]
      BY DEF TypeInv, MoverTypes
  <2>4. \A o \in Range(chunks[m][c]) : o \in Content(chunks[m])
      BY <2>3 DEF Content
  <2> QED BY <2>1, <2>2, <2>4 DEF Packed
<1>7. ASSUME NEW r \in reqs, GetReply(m, r) \/ Timeout(m, r)
      PROVE  /\ UNCHANGED <<src, dst, truth, version, now>>
             /\ objs' = objs
             /\ \A o \in Dumps : Packed(o)' => Packed(o)
  <2>1. UNCHANGED <<src, dst, truth, version, now, objs, chunks>>
      BY <1>7 DEF GetReply, Timeout, data
  <2>2. \A q \in reqs' : \E p \in reqs : q.objs = p.objs
      BY <1>7, RequestForm
  <2> QED BY <2>1, <2>2 DEF Packed
<1>8. CASE delKeys(m)
  <2>1. UNCHANGED <<dst, truth, version, now, objs, chunks, reqs>>
      BY <1>8 DEF delKeys
  <2>2. \A k \in Keys : src'[k] = src[k] \/ src'[k] = Absent
      BY <1>8 DEF delKeys, TypeInv, DataTypes
  <2> QED BY <2>1, <2>2 DEF Packed
<1>9. CASE Reply(m)
  <2>1. UNCHANGED <<src, dst, truth, version, now, reqs>>
      BY <1>9 DEF Reply, data
  <2>2. /\ objs'[m] = <<>> /\ chunks'[m] = <<>>
        /\ \A i \in Movers \ {m} : objs'[i] = objs[i] /\ chunks'[i] = chunks[i]
      BY <1>9 DEF Reply, TypeInv, MoverTypes
  <2>3. Range(<<>>) = {} /\ Content(<<>>) = {}
      BY DEF Range, Content
  <2> QED BY <2>1, <2>2, <2>3 DEF Packed
<1> QED BY <1>0, <1>1, <1>4, <1>5, <1>6, <1>7, <1>8, <1>9 DEF Carries


(* No step of a mover changes what clients wrote, and a dump that is new   *)
(* is fresh: the ttl is that of the key as it is.                          *)
LEMMA MoverFresh ==
    ASSUME TypeInv, TtlInv, NEW m \in Movers,
           Start(m) \/ MoverStep(m) \/ \E r \in reqs : Timeout(m, r)
    PROVE  /\ UNCHANGED <<dst, truth, version, now>>
           /\ \A k \in Keys : src'[k] = src[k] \/ src'[k] = Absent
           /\ \A o \in Dumps : InFlight(o)' => InFlight(o) \/ Fresh(o)'
<1>1. CASE Carries(m)
  <2>1. \A o \in Dumps : InFlight(o)' => InFlight(o)
    <3>1. Range(<<>>) = {}
        BY DEF Range
    <3> QED BY <1>1, <3>1, MoverCarries DEF InFlight
  <2> QED BY <1>1, <2>1, MoverCarries
<1>2. CASE Dump(m)
  <2>1. PICK k \in Keys, o \in Dumps :
             /\ UNCHANGED <<dst, truth, version, now, chunks, reqs>>
             /\ \/ /\ objs'[m] = Append(objs[m], o)
                   /\ \A i \in Movers \ {m} : objs'[i] = objs[i]
                   /\ \/ Live(src[k]) /\ o = Dumped(k, src[k].ver) /\ src' = src
                      \/ /\ ~Live(src[k]) /\ o = Hole /\ src'[k] = Absent
                         /\ \A j \in Keys \ {k} : src'[j] = src[j]
                      \/ o = Hole /\ src' = src
                \/ UNCHANGED <<objs, src>>
      BY <1>2, DumpForm
  <2>2. Fresh(o)' \/ UNCHANGED <<objs, src>>
    <3>1. CASE Live(src[k]) /\ o = Dumped(k, src[k].ver)
      <4>1. o.key = k /\ o.ver = src[k].ver /\ o.ttl = -3
          BY <3>1 DEF Dumped, Unset
      <4>2. src[k] = truth[k] /\ src[k] # Absent
          BY <3>1 DEF TtlInv, SrcIsTruth, Live
      <4>3. o.ver <= version'
          BY <2>1, <4>1, <4>2 DEF TtlInv, Numbered
      <4>4. ~(o.ttl > 0)
          BY <4>1
      <4> QED BY <4>3, <4>4 DEF Fresh
    <3>2. CASE o = Hole
        BY <3>2 DEF Fresh
    <3> QED BY <2>1, <3>1, <3>2
  <2>3. objs[m] \in Seq(Dumps)
      BY DEF TypeInv, MoverTypes
  <2>4. \A x : InFlight(x)' => InFlight(x) \/ (x = o /\ ~UNCHANGED <<objs, src>>)
    <3>1. Range(Append(objs[m], o)) = Range(objs[m]) \cup {o}
        BY <2>3, AppendFacts
    <3>2. \A i \in Movers : \A x \in Range(objs'[i]) :
              x \in Range(objs[i]) \/ (x = o /\ ~UNCHANGED <<objs, src>>)
        BY <2>1, <3>1
    <3> QED BY <2>1, <3>2 DEF InFlight, Packed
  <2> QED BY <2>1, <2>2, <2>4
<1>3. CASE Pttl(m)
  <2>1. PICK k \in Keys, n \in Nat, p \in Dumps :
             /\ n \in DOMAIN objs[m] /\ DOMAIN objs'[m] = DOMAIN objs[m]
             /\ objs[m][n] # Hole
             /\ objs'[m][n] = p
             /\ \A i \in DOMAIN objs[m] \ {n} : objs'[m][i] = objs[m][i]
             /\ \A i \in Movers \ {m} : objs'[i] = objs[i]
             /\ \/ p = Hole /\ src'[k] = src[k]
                \/ /\ p # Hole /\ p.key = k /\ p.ver = objs[m][n].ver
                   /\ \/ p.ttl = -2 /\ src'[k] = Absent
                      \/ p.ttl = -1 /\ src'[k] = src[k]
                      \/ /\ Live(src[k]) /\ src[k].exp # NoExp
                         /\ p.ttl = src[k].exp - now /\ src'[k] = src[k]
             /\ \A j \in Keys \ {k} : src'[j] = src[j]
             /\ UNCHANGED <<dst, truth, version, now, chunks, reqs>>
      BY <1>3, PttlForm
  <2>2. objs[m] \in Seq(Dumps) /\ objs[m][n] \in Dumps /\ objs[m][n] \in Range(objs[m])
    <3>1. objs[m] \in Seq(Dumps)
        BY DEF TypeInv, MoverTypes
    <3> QED BY <2>1, <3>1, ElementOfSeq DEF Range
  <2>3. Fresh(p)'
    <3> SUFFICES ASSUME p # Hole PROVE Fresh(p)'
        BY DEF Fresh
    <3>1. Fresh(objs[m][n])
        BY <2>2 DEF TtlInv, AllFresh, InFlight
    <3>2. p.ver <= version'
        BY <2>1, <3>1 DEF Fresh
    <3>3. CASE ~(p.ttl > 0)
        BY <3>2, <3>3 DEF Fresh
    <3>4. CASE Live(src[k]) /\ src[k].exp # NoExp /\ p.ttl = src[k].exp - now
      <4>1. src[k] = truth[k] /\ src[k] \in Entries /\ src[k] # Absent
          BY <3>4 DEF TtlInv, SrcIsTruth, Live, TypeInv, DataTypes
      <4>2. src[k].exp \in Int /\ now \in Int
          BY <4>1, EntryFacts, MigrateAssumption DEF TypeInv, DataTypes
      <4>3. now' + p.ttl >= truth'[k].exp /\ truth'[k].exp # NoExp
          BY <2>1, <3>4, <4>1, <4>2
      <4> QED BY <2>1, <3>2, <4>3 DEF Fresh
    <3> QED BY <2>1, <3>3, <3>4
  <2>4. \A i \in Movers : \A x \in Range(objs'[i]) : x \in Range(objs[i]) \/ x = p
      BY <2>1 DEF Range
  <2> QED BY <2>1, <2>3, <2>4 DEF InFlight, Packed
<1> QED BY <1>1, <1>2, <1>3, MoverSteps


(* RESTORE of the next object of a request, value by value.                *)
LEMMA RestoreForm ==
    ASSUME TypeInv, NEW r \in reqs, restoreOneWithReplace(r)
    PROVE  /\ UNCHANGED <<src, truth, version, now, down, mover>>
           /\ r.next \in DOMAIN r.objs /\ r.objs[r.next] \in Dumps
           /\ LET o == r.objs[r.next] IN
              \/ dst' = dst
              \/ /\ o # Hole /\ o.key \in Keys
                 /\ dst'[o.key] = Entry(o.ver, RestoredExp(o.ttl))
                 /\ \A j \in Keys \ {o.key} : dst'[j] = dst[j]
<1> DEFINE o == r.objs[r.next]
<1>1. r \in Requests /\ dst \in [Keys -> Entries]
    BY DEF TypeInv, DataTypes
<1>2. /\ r.objs \in Seq(Dumps) /\ r.next \in 1 .. Len(r.objs)
      /\ DOMAIN r.objs = 1 .. Len(r.objs)
    BY <1>1 DEF restoreOneWithReplace, Complete, Requests
<1>3. o \in Dumps
    BY <1>2, ElementOfSeq
<1>4. UNCHANGED <<src, truth, version, now, down, mover>>
    BY DEF restoreOneWithReplace
<1>5. \/ dst' = dst
      \/ o # Hole /\ dst' = [dst EXCEPT ![o.key] = Entry(o.ver, RestoredExp(o.ttl))]
    BY DEF restoreOneWithReplace
<1>6. ASSUME o # Hole, dst' = [dst EXCEPT ![o.key] = Entry(o.ver, RestoredExp(o.ttl))]
      PROVE  /\ o.key \in Keys /\ dst'[o.key] = Entry(o.ver, RestoredExp(o.ttl))
             /\ \A j \in Keys \ {o.key} : dst'[j] = dst[j]
  <2>1. o.key \in Keys
      BY <1>3, <1>6, DumpFacts
  <2> HIDE DEF o
  <2> QED BY <1>1, <1>6, <2>1
<1> QED BY <1>2, <1>3, <1>4, <1>5, <1>6

LEMMA DestinationTtl ==
    ASSUME TypeInv, TypeInv', TtlInv, Destination
    PROVE  TtlInv'
<1>1. PICK r \in reqs : restoreOneWithReplace(r) \/ Forget(r)
    BY DEF Destination
<1>2. UNCHANGED <<src, truth, version, now, objs, chunks>>
    BY <1>1, RestoreForm DEF Forget, data, mover
<1>3. SrcIsTruth'
    BY <1>2 DEF TtlInv, SrcIsTruth
<1>4. AllFresh'
  <2>1. \A q \in reqs' : \E p \in reqs : q.objs = p.objs
      BY <1>1, RequestForm
  <2>2. \A o \in Dumps : InFlight(o)' => InFlight(o)
      BY <1>2, <2>1 DEF InFlight, Packed
  <2>3. \A o : Fresh(o)' <=> Fresh(o)
      BY <1>2 DEF Fresh
  <2> QED BY <2>2, <2>3 DEF TtlInv, AllFresh
<1>5. CASE dst' = dst
    BY <1>2, <1>3, <1>4, <1>5 DEF TtlInv, Numbered, OnTime
<1>6. CASE dst' # dst
  <2>1. restoreOneWithReplace(r)
      BY <1>1, <1>6 DEF Forget, data
  <2> DEFINE o == r.objs[r.next]
  <2>2. /\ r.next \in DOMAIN r.objs /\ o \in Dumps /\ o # Hole /\ o.key \in Keys
        /\ dst'[o.key] = Entry(o.ver, RestoredExp(o.ttl))
        /\ \A j \in Keys \ {o.key} : dst'[j] = dst[j]
      BY <1>6, <2>1, RestoreForm
  <2>3. Fresh(o)
      BY <2>2 DEF TtlInv, AllFresh, InFlight, Packed, Range
  <2>4. dst'[o.key].ver = o.ver /\ dst'[o.key].exp = RestoredExp(o.ttl)
      BY <2>2, EntryFacts
  <2>5. o.ver <= version
      BY <2>2, <2>3 DEF Fresh
  <2> HIDE DEF o
  <2>6. Numbered'
      BY <1>2, <2>2, <2>4, <2>5 DEF TtlInv, Numbered
  <2>7. ASSUME truth[o.key] # Absent, o.ver = truth[o.key].ver
        PROVE  RestoredExp(o.ttl) = NoExp
                \/ (truth[o.key].exp # NoExp /\ RestoredExp(o.ttl) >= truth[o.key].exp)
    <3>1. CASE o.ttl > 0
        BY <2>2, <2>3, <2>7, <3>1 DEF Fresh, RestoredExp
    <3>2. CASE ~(o.ttl > 0)
        BY <3>2 DEF RestoredExp
    <3> QED BY <3>1, <3>2
  <2>8. OnTime'
      BY <1>2, <2>2, <2>4, <2>7 DEF TtlInv, OnTime
  <2> QED BY <1>3, <1>4, <2>6, <2>8 DEF TtlInv
<1> QED BY <1>5, <1>6

(* What clients and time do to keys: a new value has a new number.          *)
LEMMA ClientForm ==
    ASSUME TypeInv, TtlInv, Client
    PROVE  /\ UNCHANGED <<objs, chunks, reqs>> /\ Ages
           /\ \A k \in Keys :
                 /\ src'[k] = src[k] \/ src'[k] = Absent \/ src'[k] = truth'[k]
                 /\ truth'[k] = truth[k] \/ src'[k] = Absent \/ src'[k] = truth'[k]
                 /\ \/ dst'[k] = dst[k]
                    \/ /\ dst'[k] = truth'[k] /\ truth'[k] # Absent
                       /\ truth'[k].ver <= version' /\ truth'[k].exp \in Nat
                 /\ truth'[k] # Absent /\ truth'[k] # truth[k] => truth'[k].ver <= version'
<1>1. UNCHANGED <<objs, chunks, reqs>>
    BY ClientTypes DEF mover
<1>2. /\ src \in [Keys -> Entries] /\ dst \in [Keys -> Entries] /\ truth \in [Keys -> Entries]
      /\ version \in Int /\ now \in Int
    BY MigrateAssumption DEF TypeInv, DataTypes
<1>4. ASSUME NEW k \in Keys, NEW t \in TTLs, SrcWrite(k, t) \/ DstWrite(k, t)
      PROVE  \E e :
               /\ e.ver = version + 1 /\ e.exp \in Nat /\ e # Absent
               /\ truth'[k] = e /\ version' = version + 1 /\ now' = now
               /\ \/ src'[k] = e /\ dst' = dst
                  \/ dst'[k] = e /\ src' = src /\ src[k] = Absent
               /\ \A j \in Keys \ {k} : /\ src'[j] = src[j] /\ dst'[j] = dst[j]
                                         /\ truth'[j] = truth[j]
  <2> DEFINE e == Entry(version + 1, Expiry(t))
  <2>1. e.ver = version + 1 /\ e.exp \in Nat /\ e # Absent
    <3>1. Expiry(t) \in Nat
        BY MigrateAssumption DEF Expiry, NoExp, TypeInv, DataTypes
    <3>2. version < MaxVersion
        BY <1>4 DEF SrcWrite, DstWrite
    <3>3. version + 1 \in 0 .. MaxVersion
        BY <3>2, MigrateAssumption DEF TypeInv, DataTypes
    <3> QED BY <3>1, <3>3, EntryFacts
  <2> HIDE DEF e
  <2>2. CASE SrcWrite(k, t)
    <3>1. /\ src' = [src EXCEPT ![k] = e] /\ truth' = [truth EXCEPT ![k] = src'[k]]
          /\ UNCHANGED <<dst, now>> /\ version' = version + 1
        BY <2>2 DEF SrcWrite, e
    <3>2. /\ src'[k] = e /\ truth'[k] = e
          /\ \A j \in Keys \ {k} : src'[j] = src[j] /\ truth'[j] = truth[j]
        BY <1>2, <3>1
    <3> QED BY <2>1, <3>1, <3>2
  <2>3. CASE DstWrite(k, t)
    <3>1. /\ dst' = [dst EXCEPT ![k] = e] /\ truth' = [truth EXCEPT ![k] = dst'[k]]
          /\ UNCHANGED <<src, now>> /\ version' = version + 1 /\ src[k] = Absent
        BY <2>3 DEF DstWrite, e
    <3>2. /\ dst'[k] = e /\ truth'[k] = e
          /\ \A j \in Keys \ {k} : dst'[j] = dst[j] /\ truth'[j] = truth[j]
        BY <1>2, <3>1
    <3> QED BY <2>1, <3>1, <3>2
  <2> QED BY <1>4, <2>2, <2>3
<1>5. ASSUME NEW k \in Keys, SrcDelete(k) \/ SrcExpire(k)
      PROVE  /\ src'[k] = Absent /\ (truth'[k] = Absent \/ truth'[k] = truth[k])
             /\ UNCHANGED <<dst, now, version>>
             /\ \A j \in Keys \ {k} : src'[j] = src[j] /\ truth'[j] = truth[j]
    BY <1>2, <1>5 DEF SrcDelete, SrcExpire
<1>6. CASE Tick
    BY <1>1, <1>2, <1>6 DEF Tick, data, Ages
<1>7. CASE \E k \in Keys, t \in TTLs : SrcWrite(k, t) \/ DstWrite(k, t)
    BY <1>1, <1>2, <1>4, <1>7 DEF Ages
<1>8. CASE \E k \in Keys : SrcDelete(k) \/ SrcExpire(k)
    BY <1>1, <1>2, <1>5, <1>8 DEF Ages
<1> QED BY <1>6, <1>7, <1>8 DEF Client

LEMMA ClientTtl ==
    ASSUME TypeInv, TypeInv', TtlInv, Client
    PROVE  TtlInv'
<1>1. /\ version \in Int /\ version' \in Int
      /\ \A k \in Keys : /\ truth[k] # Absent => truth[k].ver \in Int
                         /\ dst[k] # Absent => dst[k].ver \in Int
                         /\ truth'[k] # Absent => truth'[k].ver \in Int
    BY EntryFacts, MigrateAssumption DEF TypeInv, DataTypes
<1>2. SrcIsTruth'
    BY ClientForm DEF TtlInv, SrcIsTruth
<1>3. Numbered'
    BY <1>1, ClientForm DEF TtlInv, Numbered, Ages
<1>4. OnTime'
    BY <1>1, ClientForm DEF TtlInv, Numbered, OnTime, Ages
<1>5. AllFresh'
    BY ClientForm, FreshStays DEF TtlInv, AllFresh, InFlight, Packed
<1> QED BY <1>2, <1>3, <1>4, <1>5 DEF TtlInv

(* The invariant behind NoEarlyExpiry: values are numbered, the source has *)
(* the latest one, and every dump in flight and every copy on the          *)
(* destination leaves a key at least the time it has on the source.        *)
THEOREM TtlInvariant == Spec => []TtlInv
<1>1. Init => TtlInv
  <2> SUFFICES ASSUME Init PROVE TtlInv
      OBVIOUS
  <2>1. truth = src /\ \A k \in Keys : dst[k] = Absent
      BY DEF Init
  <2>2. \A k \in Keys : truth[k].ver = 0
    <3>1. \A k \in Keys : \E t \in TTLs : src[k] = Entry(0, IF t = 0 THEN NoExp ELSE t)
        BY DEF Init
    <3> QED BY <2>1, <3>1, EntryFacts
  <2>3. version = 0
      BY DEF Init
  <2>4. \A o : ~InFlight(o)
      BY DEF Init, InFlight, Packed, Range, Content
  <2> QED BY <2>1, <2>2, <2>3, <2>4 DEF TtlInv, SrcIsTruth, Numbered, AllFresh, OnTime
<1>2. ASSUME TypeInv, TypeInv', TtlInv, [Next]_vars PROVE TtlInv'
  <2>1. ASSUME NEW m \in Movers,
               Start(m) \/ MoverStep(m) \/ \E r \in reqs : Timeout(m, r)
        PROVE  TtlInv'
    <3>1. /\ UNCHANGED <<dst, truth, version, now>>
          /\ \A k \in Keys : src'[k] = src[k] \/ src'[k] = Absent
          /\ \A o \in Dumps : InFlight(o)' => InFlight(o) \/ Fresh(o)'
        BY <1>2, <2>1, MoverFresh
    <3>2. \A o : Fresh(o)' <=> Fresh(o)
        BY <3>1 DEF Fresh
    <3>3. AllFresh'
        BY <1>2, <3>1, <3>2 DEF TtlInv, AllFresh
    <3> QED BY <1>2, <3>1, <3>3 DEF TtlInv, SrcIsTruth, Numbered, OnTime
  <2>2. CASE UNCHANGED vars
      BY <1>2, <2>2 DEF TtlInv, SrcIsTruth, Numbered, AllFresh, OnTime, Fresh, InFlight, Packed,
                        vars, data, mover
  <2> QED BY <1>2, <2>1, <2>2, DestinationTtl, ClientTtl DEF Next
<1> QED BY <1>1, <1>2, TypeInvariant, PTL DEF Spec

(* A copy on the destination with the latest value of a key never expires  *)
(* before the key would have expired on the source: for any number of      *)
(* movers, sync or async, with any faults, late requests and retries       *)
(* (getRdbDumpObjs reads the ttl after the value, and RESTORE turns it     *)
(* into a time again when it runs).                                        *)
THEOREM TtlsNeverShorten == Spec => []NoEarlyExpiry
<1>1. TtlInv => NoEarlyExpiry
    BY DEF TtlInv, OnTime, NoEarlyExpiry, Live
<1> QED BY <1>1, TtlInvariant, PTL


-----------------------------------------------------------------------------
(* Synchronous migration *)

LEMMA StartForm ==
    ASSUME TypeInv, NEW m \in Movers, Start(m)
    PROVE  \E batch \in Seq(Keys), l \in {"reply", "dump", "size"} :
             /\ pc[m] = "idle" /\ ~Busy /\ objs[m] = <<>>
             /\ keys'[m] = batch /\ pc'[m] = l
             /\ \A i \in Movers \ {m} : /\ pc'[i] = pc[i] /\ keys'[i] = keys[i]
                                        /\ mode'[i] = mode[i] /\ cmd'[i] = cmd[i]
             /\ UNCHANGED <<data, now, faults, down, objs, chunks, status, unlinked, reply,
                            reqs>>
             /\ IF l = "reply" THEN batch = <<>> ELSE Len(batch) = 1
             /\ Cmds \subseteq {"one", "slot"} => l # "size"
<1>1. PICK c \in AllCmds, batch \in Seq(Keys), l \in {"reply", "dump", "size"} :
        /\ Begin(m, c, batch, l) /\ CanStart(m, c)
        /\ l # "reply" => Len(batch) = 1
        /\ l = "reply" => batch = <<>>
        /\ l = "size" => c \in {"tagone", "tagslot"}
    BY StartBegins DEF Begins
<1>2. /\ pc' = [pc EXCEPT ![m] = l]
      /\ keys' = [keys EXCEPT ![m] = batch] /\ cmd' = [cmd EXCEPT ![m] = c]
      /\ \E t \in mgrtTypes : mode' = [mode EXCEPT ![m] = SendMode(t)]
      /\ UNCHANGED <<data, now, faults, down, objs, chunks, status, unlinked, reply, reqs>>
      /\ pc[m] = "idle" /\ ~Busy /\ c \in Cmds
    BY <1>1 DEF Begin, CanStart
<1>3. /\ keys'[m] = batch /\ pc'[m] = l
      /\ \A i \in Movers \ {m} : /\ pc'[i] = pc[i] /\ keys'[i] = keys[i]
                                 /\ mode'[i] = mode[i] /\ cmd'[i] = cmd[i]
    BY <1>2 DEF TypeInv, MoverTypes
<1>4. objs[m] = <<>>
    BY <1>2 DEF TypeInv, Progress, Picking
<1>5. /\ Cmds \subseteq {"one", "slot"} => l # "size"
      /\ IF l = "reply" THEN batch = <<>> ELSE Len(batch) = 1
    BY <1>1, <1>2
<1> QED BY <1>2, <1>3, <1>4, <1>5

LEMMA TagForm ==
    ASSUME TypeInv, NEW m \in Movers, TagSize(m) \/ TagWalk(m)
    PROVE  \E batch \in Seq(Keys), l \in {"reply", "walk", "dump"} :
             /\ pc[m] \in {"size", "walk"} /\ objs[m] = <<>> /\ reply[m].ret = 0
             /\ keys'[m] = batch /\ pc'[m] = l
             /\ \A i \in Movers \ {m} : pc'[i] = pc[i] /\ keys'[i] = keys[i]
             /\ UNCHANGED <<data, now, faults, down, cmd, mode, objs, chunks, status,
                            unlinked, reply, reqs>>
             /\ l = "dump" => \A k \in Range(batch) : src[k] # Absent
<1>1. /\ pc[m] \in {"size", "walk"} /\ objs[m] = <<>> /\ reply[m].ret = 0
      /\ UNCHANGED <<data, now, faults, down, cmd, mode, objs, chunks, status,
                     unlinked, reply, reqs>>
      /\ keys[m] \in Seq(Keys) /\ Len(keys[m]) = 1
    BY DEF TagSize, TagWalk, TypeInv, MoverTypes, Progress, Picking
<1>2. CASE TagSize(m)
  <2>1. \E l \in {"reply", "walk"} : pc' = [pc EXCEPT ![m] = l]
      BY <1>2 DEF TagSize
  <2>2. keys' = keys
      BY <1>2 DEF TagSize
  <2>3. \E l \in {"reply", "walk"} : pc'[m] = l /\ \A i \in Movers \ {m} : pc'[i] = pc[i]
      BY <2>1 DEF TypeInv, MoverTypes
  <2> QED BY <1>1, <2>2, <2>3
<1>3. CASE TagWalk(m)
  <2> DEFINE batch == SameTag(keys[m][1])
  <2>1. batch \in Seq(Keys) /\ Range(batch) \subseteq Indexed
      BY <1>1, BatchFacts
  <2>2. \E l \in {"reply", "dump"} : pc' = [pc EXCEPT ![m] = l]
      BY <1>3 DEF TagWalk
  <2>3. keys' = [keys EXCEPT ![m] = batch]
      BY <1>3 DEF TagWalk
  <2> HIDE DEF batch
  <2>4. /\ keys'[m] = batch /\ \A i \in Movers \ {m} : keys'[i] = keys[i]
        /\ \E l \in {"reply", "dump"} : pc'[m] = l /\ \A i \in Movers \ {m} : pc'[i] = pc[i]
      BY <2>2, <2>3 DEF TypeInv, MoverTypes
  <2>5. \A k \in Range(batch) : src[k] # Absent
      BY <2>1 DEF Indexed
  <2> QED BY <1>1, <2>1, <2>4, <2>5
<1> QED BY <1>2, <1>3

(* Before the keys of a batch are unlinked *)
Gathering == {"dump", "connect", "send"}
Sending == {"connect", "send", "del"}

(* What a dump is of, and that it is still there and the latest value.     *)
Aligned(m) ==
    \A i \in DOMAIN objs[m] : objs[m][i] # Hole =>
        /\ objs[m][i].key = keys[m][i]
        /\ pc[m] \in Gathering => /\ Live(src[objs[m][i].key])
                                  /\ objs[m][i].ver = src[objs[m][i].key].ver

(* The keys of a batch stay until all of it has been restored.             *)
Kept(m) ==
    "unlink_err" \notin Faults
      /\ (pc[m] \in Gathering \/ (pc[m] = "reply" /\ reply[m].ret = SLOTS_MGRT_ERR))
    => \A k \in Range(keys[m]) :
          \/ src[k] # Absent
          \/ GoneBefore(m, k)
          \/ pc[m] = "dump" /\ objs[m] = <<>> /\ Len(keys[m]) = 1

(* DUMP and PTTL have replies.                                             *)
Answers == "dump_null" \notin Faults /\ "pttl_null" \notin Faults

(* Without ttls only a single key may be gone when the command looks.      *)
NoGap(m) ==
    TTLs \subseteq {0} /\ Answers =>
        /\ pc[m] = "dump" /\ Len(keys[m]) # 1 =>
             /\ Hole \notin Range(objs[m])
             /\ \A k \in Range(keys[m]) : src[k] # Absent
        /\ pc[m] \in Sending => Hole \notin Range(objs[m])

SyncOK(m) == Aligned(m) /\ Kept(m) /\ NoGap(m)

Solo == \A m, n \in Movers : pc[m] # "idle" /\ pc[n] # "idle" => m = n

SyncInv == Solo /\ \A m \in Movers : SyncOK(m)

LEMMA IdleOK ==
    ASSUME TypeInv, NEW m \in Movers, pc[m] = "idle"
    PROVE  SyncOK(m)
<1>1. objs[m] = <<>>
    BY DEF TypeInv, Progress, Picking
<1>2. DOMAIN objs[m] = {}
    BY <1>1
<1> QED BY <1>2 DEF SyncOK, Aligned, Kept, NoGap, Gathering, Sending

(* A step of mover m, all others being idle.                               *)
LEMMA SoloStep ==
    ASSUME TypeInv, TypeInv', Solo, NEW m \in Movers, pc[m] # "idle",
           \A i \in Movers \ {m} : pc'[i] = pc[i], SyncOK(m)'
    PROVE  SyncInv'
<1>1. \A i \in Movers \ {m} : pc[i] = "idle"
    BY DEF Solo
<1>2. Solo'
    BY <1>1 DEF Solo
<1>3. ASSUME NEW i \in Movers \ {m} PROVE SyncOK(i)'
  <2>1. pc'[i] = "idle"
      BY <1>1
  <2>2. objs'[i] = <<>> /\ DOMAIN objs'[i] = {}
      BY <2>1 DEF TypeInv, Progress, Picking
  <2> QED BY <2>1, <2>2 DEF SyncOK, Aligned, Kept, NoGap, Gathering, Sending
<1> QED BY <1>2, <1>3 DEF SyncInv


(* Without ttls nothing expires.                                           *)
Forever == TTLs \subseteq {0} => \A k \in Keys : truth[k] # Absent => truth[k].exp = NoExp

LEMMA ForeverInvariant == Spec => []Forever
<1>1. Init => Forever
  <2> SUFFICES ASSUME Init, TTLs \subseteq {0}, NEW k \in Keys PROVE truth[k].exp = NoExp
      BY DEF Forever
  <2>1. \E t \in TTLs : truth[k] = Entry(0, IF t = 0 THEN NoExp ELSE t)
      BY DEF Init
  <2>2. \A t \in TTLs : Entry(0, IF t = 0 THEN NoExp ELSE t) = Entry(0, NoExp)
      OBVIOUS
  <2> QED BY <2>1, <2>2, EntryFacts
<1>2. ASSUME TypeInv, Forever, [Next]_vars PROVE Forever'
  <2> SUFFICES ASSUME TTLs \subseteq {0} PROVE Forever'
      BY DEF Forever
  <2>1. \A t \in TTLs : Expiry(t) = NoExp
      BY DEF Expiry
  <2>2. CASE truth' = truth
      BY <1>2, <2>2 DEF Forever
  <2>3. ASSUME NEW k \in Keys, NEW t \in TTLs, SrcWrite(k, t) \/ DstWrite(k, t)
        PROVE  Forever'
    <3> DEFINE e == Entry(version + 1, Expiry(t))
    <3>1. e.exp = NoExp
        BY <2>1, EntryFacts
    <3> HIDE DEF e
    <3>2. truth'[k] = e /\ \A j \in Keys \ {k} : truth'[j] = truth[j]
        BY <1>2, <2>3 DEF SrcWrite, DstWrite, e, TypeInv, DataTypes
    <3> QED BY <1>2, <3>1, <3>2 DEF Forever
  <2>4. ASSUME NEW k \in Keys, SrcDelete(k) \/ SrcExpire(k)
        PROVE  Forever'
      BY <1>2, <2>4 DEF SrcDelete, SrcExpire, Forever, TypeInv, DataTypes
  <2>5. CASE Tick
      BY <1>2, <2>5 DEF Tick, data, Forever
  <2>6. CASE Client
      BY <2>3, <2>4, <2>5, <2>6 DEF Client
  <2>7. ASSUME NEW m \in Movers,
               Start(m) \/ MoverStep(m) \/ \E r \in reqs : Timeout(m, r)
        PROVE  truth' = truth
      BY <2>7, BeginForm
         DEF data, MoverStep, TagSize, TagWalk, Dump, Pttl, MGRT, Connect,
             doSplitRestoreCommand, GetReply, SendDone, delKeys, delDone, Reply, Timeout
  <2>8. ASSUME Destination \/ UNCHANGED vars PROVE truth' = truth
      BY <2>8 DEF Destination, restoreOneWithReplace, Forget, vars, data
  <2> QED BY <1>2, <2>2, <2>6, <2>7, <2>8 DEF Next
<1> QED BY <1>1, <1>2, TypeInvariant, PTL DEF Spec

(* The answer of a command that ends.                                      *)
LEMMA FinishForm ==
    ASSUME TypeInv, NEW m \in Movers, NEW ret \in -1 .. Cardinality(Keys), Finish(m, ret)
    PROVE  /\ pc'[m] = "reply" /\ reply'[m].ret = ret
           /\ \A i \in Movers \ {m} : pc'[i] = pc[i]
<1>1. pc' = [pc EXCEPT ![m] = "reply"] /\ reply'[m].ret = ret
    BY FinishTypes
<1> QED BY <1>1 DEF TypeInv, MoverTypes

LEMMA ErrRange == SLOTS_MGRT_ERR \in -1 .. Cardinality(Keys)
BY IndexedFinite DEF SLOTS_MGRT_ERR

LEMMA SyncDump ==
    ASSUME TypeInv, TtlInv, Forever, NEW m \in Movers, SyncOK(m), Dump(m)
    PROVE  SyncOK(m)' /\ \A i \in Movers \ {m} : pc'[i] = pc[i]
<1> DEFINE n == Len(objs[m])
<1>1. PICK k \in Keys, o \in Dumps :
        /\ n + 1 \in DOMAIN keys[m] /\ k = keys[m][n + 1]
        /\ pc[m] = "dump" /\ UNCHANGED <<now, keys, cmd>>
        /\ \/ /\ objs'[m] = Append(objs[m], o)
              /\ \/ Live(src[k]) /\ o = Dumped(k, src[k].ver) /\ src' = src
                 \/ /\ ~Live(src[k]) /\ o = Hole /\ src'[k] = Absent
                    /\ \A j \in Keys \ {k} : src'[j] = src[j]
                 \/ /\ Live(src[k]) /\ "dump_null" \in Faults
                    /\ o = Hole /\ src' = src
              /\ UNCHANGED <<pc, reply>>
           \/ /\ Live(src[k]) /\ Finish(m, SLOTS_MGRT_ERR)
              /\ UNCHANGED <<objs, src>>
    BY DumpForm
<1>2. keys[m] \in Seq(Keys) /\ objs[m] \in Seq(Dumps) /\ n \in Nat
      /\ DOMAIN keys[m] = 1 .. Len(keys[m])
    BY DEF TypeInv, MoverTypes
<1>3. /\ DOMAIN Append(objs[m], o) = 1 .. n + 1 /\ DOMAIN objs[m] = 1 .. n
      /\ \A i \in 1 .. n : Append(objs[m], o)[i] = objs[m][i]
      /\ Append(objs[m], o)[n + 1] = o
      /\ Range(Append(objs[m], o)) = Range(objs[m]) \cup {o}
    BY <1>2, AppendFacts
<1>4. \A e : Live(e)' <=> Live(e)
    BY <1>1 DEF Live
<1>5. \A i \in 1 .. n : objs[m][i] \in Dumps /\ (objs[m][i] # Hole => objs[m][i].key \in Keys)
    BY <1>2, DumpFacts, ElementOfSeq
<1>6. objs[m] = <<>> => n = 0
    OBVIOUS
<1>7. \A j \in Range(keys[m]) : objs[m] = <<>> /\ Len(keys[m]) = 1 => j = k
    BY <1>1, <1>2, <1>6 DEF Range
<1>8. k \in Range(keys[m])
    BY <1>1 DEF Range
<1> HIDE DEF n
<1>9. ASSUME objs'[m] = Append(objs[m], o), UNCHANGED <<pc, reply>>
      PROVE  /\ \A j : GoneBefore(m, j) => GoneBefore(m, j)'
             /\ o = Hole => GoneBefore(m, k)'
  <2>1. /\ keys'[m] = keys[m] /\ n + 1 \in DOMAIN objs'[m] /\ objs'[m][n + 1] = o
        /\ \A i \in DOMAIN objs[m] : i \in DOMAIN objs'[m] /\ objs'[m][i] = objs[m][i]
      BY <1>1, <1>2, <1>3, <1>9
  <2> QED BY <1>1, <2>1 DEF GoneBefore
<1>10. CASE /\ objs'[m] = Append(objs[m], o) /\ UNCHANGED <<pc, reply>>
            /\ Live(src[k]) /\ o = Dumped(k, src[k].ver) /\ src' = src
  <2>1. o # Hole /\ o.key = k /\ o.ver = src[k].ver
    <3>1. src[k] # Absent /\ src[k] \in Entries
        BY <1>10 DEF Live, TypeInv, DataTypes
    <3>2. src[k].ver \in 0 .. MaxVersion
        BY <3>1, EntryFacts
    <3> QED BY <1>10, <3>2, DumpFacts DEF Dumped, Unset
  <2>2. Aligned(m)'
    <3>1. \A i \in DOMAIN objs'[m] : \/ i \in DOMAIN objs[m] /\ objs'[m][i] = objs[m][i]
                                     \/ i = n + 1 /\ objs'[m][i] = o
        BY <1>2, <1>3, <1>10
    <3>2. keys'[m] = keys[m] /\ pc'[m] = pc[m] /\ src' = src
        BY <1>1, <1>10
    <3> QED BY <1>1, <1>4, <1>10, <2>1, <3>1, <3>2 DEF SyncOK, Aligned
  <2>3. Kept(m)'
      BY <1>1, <1>7, <1>9, <1>10 DEF SyncOK, Kept, Gathering, Live
  <2>4. NoGap(m)'
      BY <1>1, <1>3, <1>10, <2>1 DEF SyncOK, NoGap, Sending
  <2> QED BY <1>10, <2>2, <2>3, <2>4 DEF SyncOK
<1>11. CASE /\ objs'[m] = Append(objs[m], o) /\ UNCHANGED <<pc, reply>>
            /\ ~Live(src[k]) /\ o = Hole /\ src'[k] = Absent
            /\ \A j \in Keys \ {k} : src'[j] = src[j]
  <2>1. Aligned(m)'
    <3>1. \A i \in 1 .. n : objs[m][i] # Hole => /\ objs[m][i].key \in Keys \ {k}
                                                 /\ objs[m][i].key = keys[m][i]
                                                 /\ Live(src[objs[m][i].key])
                                                 /\ objs[m][i].ver = src[objs[m][i].key].ver
        BY <1>1, <1>3, <1>5, <1>11 DEF SyncOK, Aligned, Gathering
    <3>2. \A i \in 1 .. n : objs[m][i] # Hole => src'[objs[m][i].key] = src[objs[m][i].key]
        BY <1>11, <3>1
    <3>3. \A i \in DOMAIN objs'[m] : \/ i \in 1 .. n /\ objs'[m][i] = objs[m][i]
                                     \/ objs'[m][i] = Hole
        BY <1>2, <1>3, <1>11
    <3>4. keys'[m] = keys[m]
        BY <1>1
    <3> QED BY <1>4, <3>1, <3>2, <3>3, <3>4 DEF Aligned
  <2>2. Kept(m)'
    <3>1. Range(keys[m]) \subseteq Keys
        BY <1>2, ElementOfSeq DEF Range
    <3>2. \A j \in Range(keys[m]) : j # k => src'[j] = src[j]
        BY <1>11, <3>1
    <3>3. GoneBefore(m, k)' /\ \A j : GoneBefore(m, j) => GoneBefore(m, j)'
        BY <1>9, <1>11
    <3>4. keys'[m] = keys[m] /\ pc'[m] = "dump" /\ pc[m] = "dump"
        BY <1>1, <1>11
    <3> QED BY <1>7, <3>2, <3>3, <3>4 DEF SyncOK, Kept, Gathering
  <2>3. NoGap(m)'
    <3> SUFFICES ASSUME TTLs \subseteq {0}, Answers PROVE NoGap(m)'
        BY DEF NoGap
    <3>1. src[k] = Absent
        BY <1>11 DEF Live, Forever, TtlInv, SrcIsTruth
    <3>2. Len(keys[m]) = 1
        BY <1>1, <1>8, <3>1 DEF SyncOK, NoGap
    <3> QED BY <1>1, <1>11, <3>2 DEF NoGap, Sending
  <2> QED BY <1>11, <2>1, <2>2, <2>3 DEF SyncOK
<1>12. CASE Live(src[k]) /\ Finish(m, SLOTS_MGRT_ERR) /\ UNCHANGED <<objs, src>>
  <2>1. pc'[m] = "reply" /\ \A i \in Movers \ {m} : pc'[i] = pc[i]
      BY <1>12, ErrRange, FinishForm
  <2>2. Aligned(m)' /\ NoGap(m)'
      BY <1>1, <1>12, <2>1 DEF SyncOK, Aligned, NoGap, Gathering, Sending
  <2>3. \A j : GoneBefore(m, j)' <=> GoneBefore(m, j)
      BY <1>1, <1>12 DEF GoneBefore
  <2>4. Kept(m)'
      BY <1>1, <1>7, <1>12, <2>3 DEF SyncOK, Kept, Gathering, Live
  <2> QED BY <2>1, <2>2, <2>4 DEF SyncOK
<1>13. CASE /\ objs'[m] = Append(objs[m], o) /\ UNCHANGED <<pc, reply>>
            /\ Live(src[k]) /\ "dump_null" \in Faults /\ o = Hole /\ src' = src
  <2>1. Aligned(m)'
    <3>1. \A i \in DOMAIN objs'[m] : \/ i \in DOMAIN objs[m] /\ objs'[m][i] = objs[m][i]
                                     \/ objs'[m][i] = Hole
        BY <1>2, <1>3, <1>13
    <3>2. keys'[m] = keys[m] /\ pc'[m] = pc[m] /\ src' = src
        BY <1>1, <1>13
    <3> QED BY <1>4, <3>1, <3>2 DEF SyncOK, Aligned
  <2>2. Kept(m)'
      BY <1>1, <1>7, <1>9, <1>13 DEF SyncOK, Kept, Gathering, Live
  <2>3. NoGap(m)'
      BY <1>13 DEF NoGap, Answers
  <2> QED BY <1>13, <2>1, <2>2, <2>3 DEF SyncOK
<1> QED BY <1>1, <1>10, <1>11, <1>12, <1>13


LEMMA SyncPttl ==
    ASSUME TypeInv, NEW m \in Movers, SyncOK(m), Pttl(m)
    PROVE  SyncOK(m)' /\ \A i \in Movers \ {m} : pc'[i] = pc[i]
<1>1. PICK k \in Keys, n \in Nat, p \in Dumps :
        /\ pc[m] = "dump" /\ n \in DOMAIN objs[m] /\ objs[m][n] # Hole
        /\ k = objs[m][n].key /\ DOMAIN objs'[m] = DOMAIN objs[m]
        /\ objs'[m][n] = p
        /\ \/ "pttl_null" \in Faults /\ p = Hole
           \/ p # Hole /\ p.key = k /\ p.ver = objs[m][n].ver
        /\ \A i \in DOMAIN objs[m] \ {n} : objs'[m][i] = objs[m][i]
        /\ ~Live(src[k]) \/ src'[k] = src[k]
        /\ \A j \in Keys \ {k} : src'[j] = src[j]
        /\ UNCHANGED <<now, pc, keys, reply>>
    BY PttlForm
<1>2. keys[m] \in Seq(Keys) /\ objs[m] \in Seq(Dumps)
    BY DEF TypeInv, MoverTypes
<1>3. \A j \in Keys : src'[j] = src[j]
  <2>1. Live(src[k])
      BY <1>1 DEF SyncOK, Aligned, Gathering
  <2> QED BY <1>1, <2>1
<1>4. \A e : Live(e)' <=> Live(e)
    BY <1>1 DEF Live
<1>5. /\ \A i \in DOMAIN objs[m] : objs[m][i] = Hole => objs'[m][i] = Hole
      /\ \A i \in DOMAIN objs[m] : objs'[m][i] # Hole => /\ objs'[m][i].key = objs[m][i].key
                                                         /\ objs'[m][i].ver = objs[m][i].ver
                                                         /\ objs[m][i].key \in Keys
      /\ Answers => \A i \in DOMAIN objs[m] : objs'[m][i] = Hole => objs[m][i] = Hole
  <2>1. \A i \in DOMAIN objs[m] : objs[m][i] \in Dumps
      BY <1>2, ElementOfSeq
  <2> QED BY <1>1, <2>1, DumpFacts DEF Answers
<1>6. Aligned(m)'
    BY <1>1, <1>3, <1>4, <1>5 DEF SyncOK, Aligned
<1>7. Range(keys[m]) \subseteq Keys /\ DOMAIN objs[m] # {}
    BY <1>1, <1>2, ElementOfSeq DEF Range
<1>8. \A j : GoneBefore(m, j) => GoneBefore(m, j)'
    BY <1>1, <1>5 DEF GoneBefore
<1>9. Kept(m)'
  <2>1. objs[m] # <<>>
      BY <1>1
  <2> QED BY <1>1, <1>3, <1>7, <1>8, <2>1 DEF SyncOK, Kept, Gathering
<1>10. NoGap(m)'
  <2>1. Answers /\ Hole \in Range(objs[m])' => Hole \in Range(objs[m])
      BY <1>1, <1>5 DEF Range
  <2> QED BY <1>1, <1>3, <1>7, <2>1 DEF SyncOK, NoGap, Sending
<1> QED BY <1>1, <1>6, <1>9, <1>10 DEF SyncOK

LEMMA SyncMGRT ==
    ASSUME TypeInv, NEW m \in Movers, SyncOK(m), MGRT(m)
    PROVE  SyncOK(m)' /\ \A i \in Movers \ {m} : pc'[i] = pc[i]
<1>1. /\ objs[m] \in Seq(Dumps) /\ pc[m] = "dump" /\ Len(objs[m]) = Len(keys[m])
      /\ UNCHANGED <<src, now, cmd, keys, objs>> /\ pc \in [Movers -> Locations]
    BY DEF TypeInv, MoverTypes, MGRT, data
<1>2. /\ \A j : GoneBefore(m, j)' <=> GoneBefore(m, j)
      /\ \A e : Live(e)' <=> Live(e)
    BY <1>1 DEF GoneBefore, Live
<1>3. CASE Finish(m, 0)
  <2>1. /\ pc'[m] = "reply" /\ reply'[m].ret = 0 /\ \A i \in Movers \ {m} : pc'[i] = pc[i]
      BY <1>3, IndexedFinite, FinishForm
  <2> QED BY <1>1, <2>1 DEF SyncOK, Aligned, Kept, NoGap, Gathering, Sending, SLOTS_MGRT_ERR
<1>4. CASE Sent(objs[m]) # <<>> /\ Goto(m, IF mode[m] = "pool" THEN "send" ELSE "connect")
  <2>1. pc'[m] \in {"send", "connect"} /\ \A i \in Movers \ {m} : pc'[i] = pc[i]
      BY <1>1, <1>4 DEF Goto
  <2>2. Aligned(m)'
      BY <1>1, <1>2, <2>1 DEF SyncOK, Aligned, Gathering
  <2>3. Kept(m)'
    <3>1. objs[m] = <<>> => Len(objs[m]) = 0
        OBVIOUS
    <3>2. ~(objs[m] = <<>> /\ Len(keys[m]) = 1)
      <4>1. Len(objs[m]) = Len(keys[m]) /\ 0 # 1
          BY <1>1
      <4> QED BY <3>1, <4>1
    <3> QED BY <1>1, <1>2, <2>1, <3>2 DEF SyncOK, Kept, Gathering
  <2>4. NoGap(m)'
    <3>1. Hole \in Range(objs[m]) => Len(objs[m]) # 1
        BY <1>1, <1>4, SentFacts
    <3> QED BY <1>1, <2>1, <3>1 DEF SyncOK, NoGap
  <2> QED BY <2>1, <2>2, <2>3, <2>4 DEF SyncOK
<1>5. CASE UNCHANGED <<pc, reply>>
    BY <1>1, <1>2, <1>5 DEF SyncOK, Aligned, Kept, NoGap
<1> QED BY <1>3, <1>4, <1>5 DEF MGRT

LEMMA SyncSend ==
    ASSUME TypeInv, NEW m \in Movers, SyncOK(m), Connect(m) \/ SendDone(m)
    PROVE  SyncOK(m)' /\ \A i \in Movers \ {m} : pc'[i] = pc[i]
<1>1. /\ pc[m] \in {"connect", "send"} /\ UNCHANGED <<src, now, cmd, keys, objs>>
      /\ pc \in [Movers -> Locations]
    BY DEF TypeInv, MoverTypes, Connect, SendDone, data
<1>2. /\ \A j : GoneBefore(m, j)' <=> GoneBefore(m, j)
      /\ \A e : Live(e)' <=> Live(e)
    BY <1>1 DEF GoneBefore, Live
<1>3. CASE Finish(m, SLOTS_MGRT_ERR)
  <2>1. pc'[m] = "reply" /\ \A i \in Movers \ {m} : pc'[i] = pc[i]
      BY <1>3, ErrRange, FinishForm
  <2>3. Aligned(m)' /\ NoGap(m)'
      BY <1>1, <2>1 DEF SyncOK, Aligned, NoGap, Gathering, Sending
  <2>4. Kept(m)'
      BY <1>1, <1>2, <2>1 DEF SyncOK, Kept, Gathering
  <2> QED BY <2>1, <2>3, <2>4 DEF SyncOK
<1>4. CASE /\ UNCHANGED reply
           /\ \/ Goto(m, "send") /\ pc[m] = "connect"
              \/ Goto(m, "del") /\ pc[m] = "send"
  <2>1. /\ pc'[m] \in {"send", "del"} /\ pc[m] \in {"connect", "send"}
        /\ \A i \in Movers \ {m} : pc'[i] = pc[i]
      BY <1>1, <1>4 DEF Goto
  <2>2. Aligned(m)'
      BY <1>1, <1>2, <2>1 DEF SyncOK, Aligned, Gathering
  <2>3. Kept(m)' /\ NoGap(m)'
      BY <1>1, <1>2, <2>1 DEF SyncOK, Kept, NoGap, Gathering, Sending
  <2> QED BY <2>1, <2>2, <2>3 DEF SyncOK
<1>5. CASE Connect(m)
    BY <1>3, <1>4, <1>5 DEF Connect
<1>6. CASE SendDone(m)
    BY <1>3, <1>4, <1>6 DEF SendDone
<1> QED BY <1>5, <1>6

LEMMA SyncDel ==
    ASSUME TypeInv, NEW m \in Movers, SyncOK(m), delKeys(m) \/ delDone(m)
    PROVE  SyncOK(m)' /\ \A i \in Movers \ {m} : pc'[i] = pc[i]
<1>1. /\ pc[m] = "del" /\ UNCHANGED <<now, cmd, keys, objs>>
      /\ pc \in [Movers -> Locations]
    BY DEF TypeInv, MoverTypes, delKeys, delDone, data
<1>2. CASE UNCHANGED pc
    BY <1>1, <1>2 DEF SyncOK, Aligned, Kept, NoGap, Gathering, Sending
<1>3. ASSUME NEW ret \in -1 .. Cardinality(Keys), Finish(m, ret), src' = src,
             ret # SLOTS_MGRT_ERR \/ "unlink_err" \in Faults
      PROVE  SyncOK(m)' /\ \A i \in Movers \ {m} : pc'[i] = pc[i]
  <2>1. pc'[m] = "reply" /\ reply'[m].ret = ret /\ \A i \in Movers \ {m} : pc'[i] = pc[i]
      BY <1>3, FinishForm
  <2> QED BY <1>1, <1>3, <2>1 DEF SyncOK, Aligned, Kept, NoGap, Gathering, Sending
<1>4. CASE Fault("unlink_err") /\ Finish(m, SLOTS_MGRT_ERR) /\ src' = src
    BY <1>3, <1>4, ErrRange DEF Fault
<1>5. CASE delDone(m)
  <2>1. reply[m].ret \in Nat /\ reply[m].ret \in -1 .. Cardinality(Keys)
      BY <1>1 DEF TypeInv, MoverTypes, Progress
  <2>2. reply[m].ret # SLOTS_MGRT_ERR
      BY <2>1 DEF SLOTS_MGRT_ERR
  <2> QED BY <1>3, <1>5, <2>1, <2>2 DEF delDone, Deleted, data
<1> QED BY <1>2, <1>4, <1>5 DEF delKeys

(* Collecting the batch.                                                   *)
LEMMA SyncTag ==
    ASSUME TypeInv, NEW m \in Movers, SyncOK(m), TagSize(m) \/ TagWalk(m)
    PROVE  SyncOK(m)' /\ \A i \in Movers \ {m} : pc'[i] = pc[i]
<1>1. PICK batch \in Seq(Keys), l \in {"reply", "walk", "dump"} :
        /\ objs[m] = <<>> /\ reply[m].ret = 0
        /\ keys'[m] = batch /\ pc'[m] = l
        /\ \A i \in Movers \ {m} : pc'[i] = pc[i]
        /\ UNCHANGED <<data, objs, reply>>
        /\ l = "dump" => \A k \in Range(batch) : src[k] # Absent
    BY TagForm
<1>2. objs'[m] = <<>> /\ DOMAIN objs'[m] = {} /\ src' = src /\ Range(<<>>) = {}
    BY <1>1 DEF data, Range
<1>3. Aligned(m)'
    BY <1>2 DEF Aligned
<1>4. Kept(m)'
    BY <1>1, <1>2 DEF Kept, Gathering, SLOTS_MGRT_ERR
<1>5. NoGap(m)'
    BY <1>1, <1>2 DEF NoGap, Sending
<1> QED BY <1>1, <1>3, <1>4, <1>5 DEF SyncOK

LEMMA SyncSame ==
    ASSUME SyncInv, UNCHANGED <<src, now, pc, cmd, keys, objs, reply>>
    PROVE  SyncInv'
<1>1. Solo'
    BY DEF SyncInv, Solo
<1>2. ASSUME NEW m \in Movers PROVE SyncOK(m)'
  <2>1. Aligned(m)'
      BY DEF SyncInv, SyncOK, Aligned, Live
  <2>3. Kept(m)'
      BY DEF SyncInv, SyncOK, Kept, GoneBefore
  <2>4. NoGap(m)'
      BY DEF SyncInv, SyncOK, NoGap
  <2> QED BY <2>1, <2>3, <2>4 DEF SyncOK
<1> QED BY <1>1, <1>2 DEF SyncInv

LEMMA SyncStart ==
    ASSUME TypeInv, TypeInv', ~async, NEW m \in Movers, Start(m)
    PROVE  SyncInv'
<1>1. PICK batch \in Seq(Keys), l \in {"reply", "dump", "size"} :
        /\ ~Busy /\ objs[m] = <<>> /\ keys'[m] = batch /\ pc'[m] = l
        /\ \A i \in Movers \ {m} : pc'[i] = pc[i]
        /\ UNCHANGED <<data, objs>>
        /\ IF l = "reply" THEN batch = <<>> ELSE Len(batch) = 1
    BY StartForm
<1>2. \A i \in Movers : pc[i] = "idle"
    BY <1>1 DEF Busy
<1>3. Solo'
    BY <1>1, <1>2 DEF Solo
<1>4. ASSUME NEW i \in Movers \ {m} PROVE SyncOK(i)'
  <2>1. pc'[i] = "idle"
      BY <1>1, <1>2
  <2>2. objs'[i] = <<>> /\ DOMAIN objs'[i] = {}
      BY <2>1 DEF TypeInv, Progress, Picking
  <2> QED BY <2>1, <2>2 DEF SyncOK, Aligned, Kept, NoGap, Gathering, Sending
<1>5. SyncOK(m)'
  <2>1. objs'[m] = <<>> /\ DOMAIN objs'[m] = {} /\ src' = src /\ Range(<<>>) = {}
      BY <1>1 DEF data, Range
  <2>2. Aligned(m)'
      BY <2>1 DEF Aligned
  <2>4. Kept(m)'
      BY <1>1, <2>1 DEF Kept, Gathering
  <2>5. NoGap(m)'
      BY <1>1, <2>1 DEF NoGap, Sending
  <2> QED BY <2>2, <2>4, <2>5 DEF SyncOK
<1> QED BY <1>3, <1>4, <1>5 DEF SyncInv


(* Under synchronous migration one command runs at a time, what it has     *)
(* dumped stays the latest value until it is unlinked, and its batch has   *)
(* not lost a key before.                                                  *)
THEOREM SyncInvariant ==
    ASSUME ~async
    PROVE  Spec => []SyncInv
<1>1. Init => SyncInv
  <2> SUFFICES ASSUME Init PROVE SyncInv
      OBVIOUS
  <2>1. TypeInv /\ \A m \in Movers : pc[m] = "idle"
      BY InitTypes DEF Init
  <2> QED BY <2>1, IdleOK DEF SyncInv, Solo
<1>2. ASSUME TypeInv, TypeInv', TtlInv, Forever, SyncInv, [Next]_vars PROVE SyncInv'
  <2>1. ASSUME NEW m \in Movers, Start(m) PROVE SyncInv'
      BY <1>2, <2>1, SyncStart
  <2>2. ASSUME NEW m \in Movers,
               \/ Dump(m) \/ Pttl(m) \/ MGRT(m) \/ Connect(m) \/ SendDone(m)
               \/ delKeys(m) \/ delDone(m) \/ TagSize(m) \/ TagWalk(m)
        PROVE  SyncInv'
    <3>1. pc[m] # "idle"
        BY <2>2 DEF TagSize, TagWalk, Dump, Pttl, MGRT, Connect, SendDone, delKeys, delDone
    <3>2. SyncOK(m)' /\ \A i \in Movers \ {m} : pc'[i] = pc[i]
        BY <1>2, <2>2, SyncDump, SyncPttl, SyncMGRT, SyncSend, SyncDel, SyncTag
           DEF SyncInv
    <3> QED BY <1>2, <3>1, <3>2, SoloStep DEF SyncInv
  <2>3. ASSUME NEW m \in Movers, Reply(m) PROVE SyncInv'
    <3>1. pc[m] = "reply" /\ pc'[m] = "idle" /\ \A i \in Movers \ {m} : pc'[i] = pc[i]
        BY <1>2, <2>3 DEF Reply, Goto, TypeInv, MoverTypes
    <3>2. SyncOK(m)'
      <4>1. objs'[m] = <<>> /\ DOMAIN objs'[m] = {}
          BY <1>2, <3>1 DEF TypeInv, Progress, Picking
      <4> QED BY <3>1, <4>1 DEF SyncOK, Aligned, Kept, NoGap, Gathering, Sending
    <3> QED BY <1>2, <3>1, <3>2, SoloStep DEF SyncInv
  <2>4. ASSUME NEW m \in Movers,
               \/ \E c \in DOMAIN status[m] : doSplitRestoreCommand(m, c)
               \/ \E r \in reqs : GetReply(m, r) \/ Timeout(m, r)
        PROVE  SyncInv'
    <3>1. UNCHANGED <<src, now, pc, cmd, keys, objs, reply>>
        BY <2>4 DEF doSplitRestoreCommand, GetReply, Timeout, data
    <3> QED BY <1>2, <3>1, SyncSame
  <2>5. ASSUME NEW m \in Movers, MoverStep(m) PROVE SyncInv'
      BY <2>2, <2>3, <2>4, <2>5 DEF MoverStep
  <2>6. CASE Destination \/ UNCHANGED vars
    <3>1. UNCHANGED <<src, now, pc, cmd, keys, objs, reply>>
        BY <1>2, <2>6, DestinationTypes DEF mover, vars, data
    <3> QED BY <1>2, <3>1, SyncSame
  <2>7. CASE Client
    <3>1. UNCHANGED <<pc, cmd, keys, objs, reply>>
        BY <1>2, <2>7, ClientTypes DEF mover
    <3>2. CASE ~Busy
      <4>1. \A m \in Movers : pc'[m] = "idle"
          BY <3>1, <3>2 DEF Busy
      <4>2. \A m \in Movers : objs'[m] = <<>> /\ DOMAIN objs'[m] = {}
          BY <1>2, <4>1 DEF TypeInv, Progress, Picking
      <4> QED BY <4>1, <4>2 DEF SyncInv, Solo, SyncOK, Aligned, Kept, NoGap,
                                Gathering, Sending
    <3>3. CASE \E k \in Keys, t \in TTLs : DstWrite(k, t)
      <4>1. UNCHANGED <<src, now>>
          BY <3>3 DEF DstWrite
      <4> QED BY <1>2, <3>1, <4>1, SyncSame
    <3> QED BY <2>7, <3>2, <3>3 DEF Client, SrcWrite, SrcDelete, SrcExpire, Tick
  <2> QED BY <1>2, <2>1, <2>4, <2>5, <2>6, <2>7 DEF Next
<1> QED BY <1>1, <1>2, TypeInvariant, TtlInvariant, ForeverInvariant, PTL DEF Spec

LEMMA ErrorKeeps ==
    ASSUME TypeInv, TtlInv, ~async => SyncInv, "unlink_err" \notin Faults
    PROVE  ErrorKeepsKeys
<1> SUFFICES ASSUME NEW m \in Movers,
                    pc[m] = "reply", ~async, reply[m].ret = SLOTS_MGRT_ERR,
                    NEW k \in Range(keys[m]), ~GoneBefore(m, k), Live(truth[k])
             PROVE  Holds(src[k], truth[k])
    BY DEF ErrorKeepsKeys
<1>1. k \in Keys
  <2>1. keys[m] \in Seq(Keys)
      BY DEF TypeInv, MoverTypes
  <2> QED BY <2>1, ElementOfSeq DEF Range
<1>2. src[k] # Absent
    BY DEF SyncInv, SyncOK, Kept
<1>3. src[k] = truth[k] /\ src[k] \in Entries
    BY <1>1, <1>2 DEF TtlInv, SrcIsTruth, TypeInv, DataTypes
<1>4. src[k].exp \in Nat
    BY <1>2, <1>3, EntryFacts
<1> QED BY <1>2, <1>3, <1>4 DEF Holds

(* A synchronous command that answers with an error has removed none of    *)
(* its keys: migrateKeys returns before delKeys, and while the main thread *)
(* runs it nobody else does.  UNLINK itself must not be refused.           *)
THEOREM ErrorsAreHarmless ==
    ASSUME "unlink_err" \notin Faults
    PROVE  Spec => []ErrorKeepsKeys
<1>1. TypeInv /\ TtlInv /\ (~async => SyncInv) => ErrorKeepsKeys
    BY ErrorKeeps
<1>2. Spec => [](~async => SyncInv)
  <2>1. CASE ~async
    <3>1. Spec => []SyncInv
        BY <2>1, SyncInvariant
    <3> QED BY <3>1, PTL
  <2>2. CASE async
    <3>1. ~async => SyncInv
        BY <2>2
    <3> QED BY <3>1, PTL
  <2> QED BY <2>1, <2>2, MigrateAssumption
<1> QED BY <1>1, <1>2, TypeInvariant, TtlInvariant, PTL

-----------------------------------------------------------------------------
(* Volatile keys stay volatile *)

(* PTTL has been answered for a dump that is sent, and for all but the     *)
(* last of the dumps of a mover.                                           *)
Asked(o) == o # Hole => o.ttl # Unset
AllAsked == /\ \A m \in Movers : \A i \in 1 .. Len(objs[m]) - 1 : Asked(objs[m][i])
            /\ \A o \in Dumps : Packed(o) => Asked(o)

(* The latest value of a key does not expire, or does so now.              *)
Ending(k) == truth[k].exp = NoExp \/ truth[k].exp <= now

(* A dump of the latest value that will be restored without an expiry is   *)
(* of such a key.                                                          *)
Lasting(o) ==
    o # Hole /\ o.ttl # Unset /\ ~(o.ttl > 0)
      /\ truth[o.key] # Absent /\ o.ver = truth[o.key].ver
    => Ending(o.key)

AllLasting == \A o \in Dumps : InFlight(o) => Lasting(o)

LastOnDst ==
    \A k \in Keys :
        truth[k] # Absent /\ dst[k] # Absent /\ dst[k].ver = truth[k].ver
          /\ dst[k].exp = NoExp
        => Ending(k)

LastInv == AllAsked /\ AllLasting /\ LastOnDst

LEMMA LastingStays ==
    ASSUME TypeInv, TypeInv', Ages, NEW o \in Dumps, Fresh(o), Lasting(o)
    PROVE  Lasting(o)'
<1> SUFFICES ASSUME o # Hole, o.ttl # Unset, ~(o.ttl > 0),
                    truth'[o.key] # Absent, o.ver = truth'[o.key].ver
             PROVE  Ending(o.key)'
    BY DEF Lasting
<1>1. o.key \in Keys /\ o.ver \in Int /\ o.ver <= version
    BY DumpFacts, MigrateAssumption DEF Fresh
<1>2. /\ version \in Int /\ now \in Int /\ now' \in Int /\ now <= now'
    BY MigrateAssumption DEF TypeInv, DataTypes, Ages
<1>3. truth'[o.key] = truth[o.key]
    BY <1>1, <1>2 DEF Ages
<1>4. Ending(o.key) /\ truth[o.key].exp \in Nat
    BY <1>1, <1>3, EntryFacts DEF Lasting, TypeInv, DataTypes
<1> QED BY <1>2, <1>3, <1>4 DEF Ending

LEMMA CarriesLast ==
    ASSUME TypeInv, LastInv, NEW m \in Movers, Carries(m)
    PROVE  LastInv'
<1>1. /\ UNCHANGED <<dst, truth, version, now>>
      /\ \A i \in Movers : objs'[i] = objs[i] \/ objs'[i] = <<>>
      /\ \A o \in Dumps : Packed(o)' => Packed(o) \/ (MGRT(m) /\ o \in Range(objs[m]))
    BY MoverCarries
<1>2. \A o \in Dumps : InFlight(o)' => InFlight(o)
  <2>1. Range(<<>>) = {}
      BY DEF Range
  <2> QED BY <1>1, <2>1 DEF InFlight
<1>3. ASSUME MGRT(m), NEW o \in Range(objs[m]) PROVE Asked(o)
  <2>1. PICK i \in DOMAIN objs[m] : o = objs[m][i]
      BY DEF Range
  <2>2. objs[m] \in Seq(Dumps) /\ Asked(Last(objs[m]))
      BY <1>3 DEF MGRT, Asked, TypeInv, MoverTypes
  <2>3. i \in 1 .. Len(objs[m]) - 1 \/ i = Len(objs[m])
      BY <2>1, <2>2
  <2> QED BY <2>1, <2>2, <2>3 DEF LastInv, AllAsked, Last
<1>4. AllAsked'
  <2>1. \A i \in 1 .. Len(<<>>) - 1 : FALSE
      OBVIOUS
  <2>2. ASSUME NEW j \in Movers, NEW i \in 1 .. Len(objs'[j]) - 1 PROVE Asked(objs'[j][i])
      BY <1>1, <2>1, <2>2 DEF LastInv, AllAsked
  <2>3. \A o \in Dumps : Packed(o)' => Asked(o)
      BY <1>1, <1>3 DEF LastInv, AllAsked
  <2>4. \A o : Asked(o)' <=> Asked(o)
      BY DEF Asked
  <2> QED BY <2>2, <2>3, <2>4 DEF AllAsked, Asked
<1>5. AllLasting' /\ LastOnDst'
    BY <1>1, <1>2 DEF LastInv, AllLasting, Lasting, Ending, LastOnDst
<1> QED BY <1>4, <1>5 DEF LastInv

LEMMA DumpLast ==
    ASSUME TypeInv, LastInv, NEW m \in Movers, Dump(m)
    PROVE  LastInv'
<1> DEFINE n == Len(objs[m])
<1>1. PICK o \in Dumps :
        /\ UNCHANGED <<dst, truth, now, chunks, reqs>>
        /\ \A i \in Movers \ {m} : objs'[i] = objs[i]
        /\ \/ /\ objs'[m] = Append(objs[m], o)
              /\ o = Hole \/ o.ttl = Unset
           \/ objs'[m] = objs[m]
  <2>1. PICK k \in Keys, o \in Dumps :
          /\ UNCHANGED <<dst, truth, now, chunks, reqs>>
          /\ \/ /\ objs'[m] = Append(objs[m], o)
                /\ \A i \in Movers \ {m} : objs'[i] = objs[i]
                /\ o = Dumped(k, src[k].ver) \/ o = Hole
             \/ objs' = objs
      BY DumpForm
  <2> QED BY <2>1 DEF Dumped
<1>2. /\ objs[m] \in Seq(Dumps) /\ n \in Nat
      /\ n > 0 => Asked(objs[m][n])
    BY DEF Dump, Asked, TypeInv, MoverTypes
<1>3. /\ Len(Append(objs[m], o)) = n + 1 /\ Append(objs[m], o)[n + 1] = o
      /\ \A i \in 1 .. n : Append(objs[m], o)[i] = objs[m][i]
      /\ Range(Append(objs[m], o)) = Range(objs[m]) \cup {o}
    BY <1>2, AppendFacts
<1>4. \A x : Packed(x)' <=> Packed(x)
    BY <1>1 DEF Packed
<1>5. AllAsked'
  <2>1. ASSUME NEW i \in 1 .. Len(objs'[m]) - 1 PROVE Asked(objs'[m][i])
    <3>1. \A j \in 1 .. n : Asked(objs[m][j])
      <4>1. \A j \in 1 .. n : j \in 1 .. n - 1 \/ j = n
          BY <1>2
      <4> QED BY <1>2, <4>1 DEF LastInv, AllAsked
    <3>2. i \in 1 .. n /\ objs'[m][i] = objs[m][i]
        BY <1>1, <1>2, <1>3, <2>1
    <3> QED BY <3>1, <3>2
  <2>2. ASSUME NEW j \in Movers, NEW i \in 1 .. Len(objs'[j]) - 1 PROVE Asked(objs'[j][i])
      BY <1>1, <2>1, <2>2 DEF LastInv, AllAsked
  <2>3. \A x : Asked(x)' <=> Asked(x)
      BY DEF Asked
  <2> QED BY <1>4, <2>2 DEF LastInv, AllAsked, Asked
<1>6. \A x \in Dumps : InFlight(x)' => InFlight(x) \/ x = Hole \/ x.ttl = Unset
  <2>1. ASSUME NEW i \in Movers, NEW x \in Range(objs'[i])
        PROVE  x \in Range(objs[i]) \/ x = Hole \/ x.ttl = Unset
    <3>1. CASE objs'[i] = objs[i]
        BY <2>1, <3>1
    <3>2. CASE i = m /\ objs'[m] = Append(objs[m], o) /\ (o = Hole \/ o.ttl = Unset)
      <4>1. x \in Range(objs[m]) \cup {o}
          BY <1>3, <2>1, <3>2
      <4> QED BY <3>2, <4>1
    <3> QED BY <1>1, <3>1, <3>2
  <2> QED BY <1>4, <2>1 DEF InFlight
<1>7. AllLasting' /\ LastOnDst'
    BY <1>1, <1>6 DEF LastInv, AllLasting, Lasting, Ending, LastOnDst
<1> QED BY <1>5, <1>7 DEF LastInv

(* While the main thread runs the command a key that was dumped stays, and *)
(* PTTL answers its ttl.                                                   *)
LEMMA PttlLast ==
    ASSUME TypeInv, TypeInv', TtlInv, SyncInv, LastInv, NEW m \in Movers, Pttl(m)
    PROVE  LastInv'
<1>1. PICK k \in Keys, n \in Nat, p \in Dumps :
        /\ pc[m] = "dump" /\ n \in DOMAIN objs[m] /\ objs[m][n] # Hole
        /\ k = objs[m][n].key /\ DOMAIN objs'[m] = DOMAIN objs[m]
        /\ objs'[m][n] = p
        /\ \A i \in DOMAIN objs[m] \ {n} : objs'[m][i] = objs[m][i]
        /\ \A i \in Movers \ {m} : objs'[i] = objs[i]
        /\ \/ p = Hole
           \/ /\ p # Hole /\ p.key = k
              /\ \/ ~Live(src[k])
                 \/ Live(src[k]) /\ src[k].exp = NoExp /\ p.ttl = -1
                 \/ /\ Live(src[k]) /\ src[k].exp # NoExp
                    /\ p.ttl = src[k].exp - now
        /\ UNCHANGED <<dst, truth, version, now, chunks, reqs>>
    BY PttlForm
<1>2. Live(src[k])
    BY <1>1 DEF SyncInv, SyncOK, Aligned, Gathering
<1>3. src[k] = truth[k] /\ src[k].exp \in Int /\ now \in Int
    BY <1>2, EntryFacts, MigrateAssumption DEF Live, TtlInv, SrcIsTruth, TypeInv, DataTypes
<1>4. Asked(p) /\ Lasting(p)'
  <2> SUFFICES ASSUME p # Hole PROVE p.ttl # Unset /\ (~(p.ttl > 0) => Ending(k))
      BY <1>1 DEF Asked, Lasting, Ending
  <2>1. CASE src[k].exp = NoExp /\ p.ttl = -1
      BY <1>3, <2>1 DEF Unset, Ending
  <2>2. CASE src[k].exp # NoExp /\ p.ttl = src[k].exp - now
      BY <1>2, <1>3, <2>2 DEF Unset, Ending, Live
  <2> QED BY <1>1, <1>2, <2>1, <2>2
<1>5. \A x : Packed(x)' <=> Packed(x)
    BY <1>1 DEF Packed
<1>6. AllAsked'
  <2>1. Len(objs'[m]) = Len(objs[m]) /\ DOMAIN objs[m] = 1 .. Len(objs[m])
    <3>1. objs[m] \in Seq(Dumps) /\ objs'[m] \in Seq(Dumps)
        BY DEF TypeInv, MoverTypes
    <3>2. /\ DOMAIN objs[m] = 1 .. Len(objs[m]) /\ DOMAIN objs'[m] = 1 .. Len(objs'[m])
          /\ Len(objs[m]) \in Nat /\ Len(objs'[m]) \in Nat
        BY <3>1
    <3>3. \A x, y \in Nat : 1 .. x = 1 .. y => x = y
      <4>1. ASSUME NEW x \in Nat, NEW y \in Nat, 1 .. x = 1 .. y PROVE x <= y
        <5>1. x \in 1 .. x \/ x = 0
            OBVIOUS
        <5> QED BY <4>1, <5>1
      <4> QED BY <4>1
    <3> QED BY <1>1, <3>2, <3>3
  <2>2. ASSUME NEW i \in 1 .. Len(objs'[m]) - 1 PROVE Asked(objs'[m][i])
      BY <1>1, <1>4, <2>1, <2>2 DEF LastInv, AllAsked
  <2>3. ASSUME NEW j \in Movers, NEW i \in 1 .. Len(objs'[j]) - 1 PROVE Asked(objs'[j][i])
      BY <1>1, <2>2, <2>3 DEF LastInv, AllAsked
  <2> QED BY <1>5, <2>3 DEF LastInv, AllAsked, Asked
<1>7. \A x : InFlight(x)' => InFlight(x) \/ x = p
    BY <1>1, <1>5 DEF InFlight, Range
<1>8. AllLasting'
  <2>1. \A x : Lasting(x)' <=> Lasting(x)
      BY <1>1 DEF Lasting, Ending
  <2> QED BY <1>4, <1>7, <2>1 DEF LastInv, AllLasting
<1>9. LastOnDst'
    BY <1>1 DEF LastInv, LastOnDst, Ending
<1> QED BY <1>6, <1>8, <1>9 DEF LastInv

LEMMA DestinationLast ==
    ASSUME TypeInv, LastInv, Destination
    PROVE  LastInv'
<1>1. PICK r \in reqs : restoreOneWithReplace(r) \/ Forget(r)
    BY DEF Destination
<1>2. UNCHANGED <<truth, now, objs, chunks>>
    BY <1>1, RestoreForm DEF Forget, data, mover
<1>3. \A q \in reqs' : \E p \in reqs : q.objs = p.objs
    BY <1>1, RequestForm
<1>4. \A o : (Packed(o)' => Packed(o)) /\ (InFlight(o)' => InFlight(o))
    BY <1>2, <1>3 DEF InFlight, Packed
<1>5. AllAsked' /\ AllLasting'
    BY <1>2, <1>4 DEF LastInv, AllAsked, AllLasting, Asked, Lasting, Ending
<1>6. CASE dst' = dst
    BY <1>2, <1>5, <1>6 DEF LastInv, LastOnDst, Ending
<1>7. CASE dst' # dst
  <2>1. restoreOneWithReplace(r)
      BY <1>1, <1>7 DEF Forget, data
  <2> DEFINE o == r.objs[r.next]
  <2>2. /\ r.next \in DOMAIN r.objs /\ o \in Dumps /\ o # Hole /\ o.key \in Keys
        /\ dst'[o.key] = Entry(o.ver, RestoredExp(o.ttl))
        /\ \A j \in Keys \ {o.key} : dst'[j] = dst[j]
      BY <1>7, <2>1, RestoreForm
  <2>3. Packed(o)
      BY <2>2 DEF Packed, Range
  <2>4. o.ttl # Unset /\ Lasting(o)
      BY <2>2, <2>3 DEF LastInv, AllAsked, Asked, AllLasting, InFlight
  <2>5. dst'[o.key].ver = o.ver /\ dst'[o.key].exp = RestoredExp(o.ttl)
      BY <2>2, EntryFacts
  <2>6. o.ttl \in Int /\ now \in Nat
      BY <2>2, DumpFacts, MigrateAssumption DEF TypeInv, DataTypes
  <2> HIDE DEF o
  <2>7. RestoredExp(o.ttl) = NoExp => ~(o.ttl > 0)
      BY <2>6 DEF RestoredExp, NoExp
  <2>8. LastOnDst'
      BY <1>2, <2>2, <2>4, <2>5, <2>7 DEF LastInv, LastOnDst, Lasting, Ending
  <2> QED BY <1>5, <2>8 DEF LastInv
<1> QED BY <1>6, <1>7

LEMMA ClientLast ==
    ASSUME TypeInv, TypeInv', TtlInv, LastInv, Client
    PROVE  LastInv'
<1>1. UNCHANGED <<objs, chunks, reqs>> /\ Ages
    BY ClientForm
<1>2. AllAsked'
    BY <1>1 DEF LastInv, AllAsked, Asked, Packed
<1>3. AllLasting'
    BY <1>1, LastingStays DEF LastInv, AllLasting, TtlInv, AllFresh, InFlight, Packed
<1>4. LastOnDst'
  <2> SUFFICES ASSUME NEW k \in Keys, truth'[k] # Absent, dst'[k] # Absent,
                      dst'[k].ver = truth'[k].ver, dst'[k].exp = NoExp
               PROVE  Ending(k)'
      BY DEF LastOnDst
  <2>1. CASE dst'[k] = truth'[k]
      BY <2>1 DEF Ending
  <2>2. CASE dst'[k] = dst[k]
    <3>1. dst[k].ver <= version /\ dst[k].ver \in Int /\ version \in Int
        BY <2>2, EntryFacts, MigrateAssumption DEF TtlInv, Numbered, TypeInv, DataTypes
    <3>2. truth'[k] = truth[k]
        BY <1>1, <2>2, <3>1 DEF Ages
    <3>3. Ending(k) /\ truth[k].exp \in Nat /\ now \in Int /\ now' \in Int /\ now <= now'
        BY <1>1, <2>2, <3>2, EntryFacts, MigrateAssumption
           DEF LastInv, LastOnDst, Ages, TypeInv, DataTypes
    <3> QED BY <3>2, <3>3 DEF Ending
  <2> QED BY <2>1, <2>2, ClientForm
<1> QED BY <1>2, <1>3, <1>4 DEF LastInv

(* The main thread reads value and ttl of a key without interruption: what *)
(* is sent without a ttl has none, or ends with this tick of the clock.    *)
THEOREM LastInvariant ==
    ASSUME ~async
    PROVE  Spec => []LastInv
<1>1. Init => LastInv
  <2> SUFFICES ASSUME Init PROVE LastInv
      OBVIOUS
  <2>1. \A o : ~Packed(o) /\ ~InFlight(o)
      BY DEF Init, InFlight, Packed, Range, Content
  <2>2. \A m \in Movers : \A i \in 1 .. Len(objs[m]) - 1 : FALSE
      BY DEF Init
  <2>3. \A k \in Keys : dst[k] = Absent
      BY DEF Init
  <2> QED BY <2>1, <2>2, <2>3 DEF LastInv, AllAsked, AllLasting, LastOnDst
<1>2. ASSUME TypeInv, TypeInv', TtlInv, SyncInv, LastInv, [Next]_vars PROVE LastInv'
  <2>1. ASSUME NEW m \in Movers,
               Start(m) \/ MoverStep(m) \/ \E r \in reqs : Timeout(m, r)
        PROVE  LastInv'
      BY <1>2, <2>1, MoverSteps, CarriesLast, DumpLast, PttlLast
  <2>2. CASE UNCHANGED vars
      BY <1>2, <2>2 DEF LastInv, AllAsked, AllLasting, LastOnDst, Asked, Lasting, Ending,
                        InFlight, Packed, vars, data, mover
  <2> QED BY <1>2, <2>1, <2>2, DestinationLast, ClientLast DEF Next
<1> QED BY <1>1, <1>2, TypeInvariant, TtlInvariant, SyncInvariant, PTL DEF Spec

(* A synchronous migration, with any faults, late requests and retries,    *)
(* makes no key with a ttl permanent but one that ends with the current    *)
(* tick of the clock (MGRT sends a ttl of 0 as no expiry).                 *)
THEOREM TtlsAreKept ==
    ASSUME ~async
    PROVE  Spec => []TtlKept
<1>1. TypeInv /\ LastInv => TtlKept
  <2> SUFFICES ASSUME TypeInv, LastInv, NEW k \in Keys, Live(truth[k]), dst[k] # Absent,
                      dst[k].ver = truth[k].ver, dst[k].exp = NoExp
               PROVE  truth[k].exp \in {NoExp, now}
      BY DEF TtlKept
  <2>1. truth[k].exp \in Nat /\ now \in Nat
      BY EntryFacts, MigrateAssumption DEF Live, TypeInv, DataTypes
  <2> QED BY <2>1 DEF LastInv, LastOnDst, Ending, Live
<1> QED BY <1>1, LastInvariant, TypeInvariant, PTL
=============================================================================
