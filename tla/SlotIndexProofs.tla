--------------------------- MODULE SlotIndexProofs ---------------------------
(***************************************************************************)
(* Proofs about SlotIndex for any number of databases, slots and keys: the *)
(* type invariant, that the skiplist agrees with the dicts, that the pair  *)
(* state of NotifyGenericCallback is never left half-filled, and that the  *)
(* index follows the keyspace: no key that stays in the keyspace is ever   *)
(* taken out of the index (NoFlicker), and between commands the dicts hold *)
(* exactly the keyspace (IndexExact).                                      *)
(*                                                                         *)
(* The last two are about the moments at which no command runs; the second *)
(* invariant, ExactInv, says what the notifications and calls that are     *)
(* still to come will do to each key.                                      *)
(***************************************************************************)
EXTENDS SlotIndex, SequenceTheorems, TLAPS

(* The order in which a command raises pair events: the second of a pair   *)
(* directly follows the first and is the last event of its command.        *)
Shape(evs) ==
    \A i \in 1 .. Len(evs) :
        /\ evs[i].name = "rename_from" =>
              i < Len(evs) /\ evs[i + 1].name = "rename_to"
        /\ evs[i].name \in {"rename_to", "move_to"} => i = Len(evs)
        /\ (evs[i].name = "rename_to" /\ i > 1) => evs[i - 1].name = "rename_from"

(* The events a command may raise: it never starts in the middle of a pair.*)
WellFormed(evs) ==
    /\ evs \in Seq(Event)
    /\ Shape(evs)
    /\ evs # <<>> => Head(evs).name # "rename_to"

(* A rename_to event is delivered only while from_key holds the key of its *)
(* rename_from, and from_key is set only in that window or inside the      *)
(* callback that completes the rename.                                     *)
PairInv ==
    /\ Shape(events)
    /\ in_pair <=> cmd_flag # CMD_NONE
    /\ in_pair => events = <<>>
    /\ (events # <<>> /\ Head(events).name = "rename_to") => from_key # NoKey
    /\ from_key # NoKey =>
          \/ in_pair /\ cmd_flag = CMD_RENAME
          \/ ~in_pair /\ events # <<>> /\ Head(events).name = "rename_to"
    /\ to_key # NoKey => in_pair /\ cmd_flag = CMD_RENAME

(* The pending skiplist update belongs to a tagged key whose dict has      *)
(* already been changed.                                                   *)
ZslInv ==
    zsl # NoCall =>
        /\ hastag(zsl.key)
        /\ zsl.op = "add" <=> zsl.key \in slotkey_tables[zsl.db][slots_num[zsl.key]]

IInv == TypeOK /\ PairInv /\ ZslInv /\ ListAgrees

-----------------------------------------------------------------------------
(* Slots_Init leaves an empty and therefore consistent index.              *)
LEMMA InitIInv == Init => IInv
<1> SUFFICES ASSUME Init PROVE IInv
    OBVIOUS
<1> USE IndexAssumption DEF Init, Slots_Init
<1>1. 0 \in Dbs
    BY DEF Dbs
<1>2. TypeOK
  <2>1. /\ keyspace \in [Dbs -> SUBSET Keys] /\ rdb \in [Dbs -> SUBSET Keys]
        /\ slotkey_tables \in [Dbs -> [Slots -> SUBSET Keys]]
        /\ tagged_key_list \in [Dbs -> [Keys -> Nat]]
      BY DEF EmptyTables, EmptyList, EmptyDbs
  <2>2. /\ unloaded \subseteq Dbs \X Keys
        /\ in_pair \in BOOLEAN
      BY Zenon
  <2>3. events \in Seq(Event) /\ calls \in Seq(Call)
      OBVIOUS
  <2> QED BY <1>1, <2>1, <2>2, <2>3 DEF TypeOK
<1>3. PairInv
    BY DEF PairInv, Shape
<1>4. ZslInv
    BY DEF ZslInv
<1>5. ListAgrees
    BY DEF ListAgrees, ListedIn, Pending, EmptyTables, EmptyList
<1> QED BY <1>2, <1>3, <1>4, <1>5 DEF IInv

(* A client command of Redis touches neither the index nor the pair state; *)
(* what matters is that the events it raises are well formed.              *)
LEMMA RaiseIInv ==
    ASSUME IInv,
           NEW c, NEW ks \in [Dbs -> SUBSET Keys], NEW evs, WellFormed(evs),
           Raise(c, ks, evs),
           restored' \subseteq RestoreThreads \X Dbs \X Keys
    PROVE  IInv'
<1> USE DEF WellFormed, IInv, Raise, CanRun, Idle, CallbackDone, index,
            progress, pair_stat
<1>1. TypeOK'
    BY DEF TypeOK
<1>2. PairInv'
    BY DEF PairInv
<1>3. ZslInv'
    BY DEF ZslInv, TypeOK
<1>4. ListAgrees'
    BY DEF ListAgrees, ListedIn, Pending
<1> QED BY <1>1, <1>2, <1>3, <1>4

LEMMA CommandIInv ==
    ASSUME IInv,
           NEW c, NEW ks \in [Dbs -> SUBSET Keys], NEW evs, WellFormed(evs),
           Command(c, ks, evs)
    PROVE  IInv'
<1>1. restored' \subseteq RestoreThreads \X Dbs \X Keys
    BY Zenon DEF Command, IInv, TypeOK
<1> QED BY <1>1, RaiseIInv, Zenon DEF Command

(* The event sequences that commands raise.                                *)
LEMMA EventSequences ==
    ASSUME NEW d \in Dbs, NEW e \in Dbs, NEW j \in Keys, NEW k \in Keys,
           NEW n \in {"typed", "del", "expired", "other"}
    PROVE  /\ WellFormed(<<>>)
           /\ WellFormed(<<Ev(n, d, k)>>)
           /\ WellFormed(<<Ev("other", d, k), Ev("typed", d, k)>>)
           /\ WellFormed(<<Ev("typed", d, k), Ev("del", d, k)>>)
           /\ WellFormed(<<Ev("typed", d, j), Ev("typed", d, k), Ev("del", d, k)>>)
           /\ WellFormed(<<Ev("rename_from", d, k), Ev("rename_to", d, j)>>)
           /\ WellFormed(<<Ev("move_from", d, k), Ev("move_to", e, k)>>)
<1>1. \A m \in TypeChangeEvents \cup GenericEvents, f \in Dbs, i \in Keys :
          Ev(m, f, i) \in Event /\ Ev(m, f, i).name = m
    BY DEF Ev, Event
<1> DEFINE T == Ev("typed", d, k)   X == Ev("del", d, k)
           J == Ev("typed", d, j)   O == Ev("other", d, k)
           RF == Ev("rename_from", d, k)   RT == Ev("rename_to", d, j)
           MF == Ev("move_from", d, k)   MT == Ev("move_to", e, k)
           N == Ev(n, d, k)
<1>2. /\ {T, X, J, O, RF, RT, MF, MT, N} \subseteq Event
      /\ T.name = "typed" /\ X.name = "del" /\ J.name = "typed"
      /\ O.name = "other" /\ RF.name = "rename_from" /\ RT.name = "rename_to"
      /\ MF.name = "move_from" /\ MT.name = "move_to" /\ N.name = n
    BY <1>1 DEF TypeChangeEvents, GenericEvents
<1> HIDE DEF T, X, J, O, RF, RT, MF, MT, N
<1>3. WellFormed(<<>>) /\ WellFormed(<<N>>)
    BY <1>2 DEF Shape, WellFormed
<1>4. WellFormed(<<O, T>>) /\ WellFormed(<<T, X>>)
    BY <1>2 DEF Shape, WellFormed
<1>5. WellFormed(<<J, T, X>>)
    BY <1>2 DEF Shape, WellFormed
<1>6. WellFormed(<<RF, RT>>)
    BY <1>2 DEF Shape, WellFormed
<1>7. WellFormed(<<MF, MT>>)
    BY <1>2 DEF Shape, WellFormed
<1> QED BY <1>3, <1>4, <1>5, <1>6, <1>7 DEF T, X, J, O, RF, RT, MF, MT, N

(* Commands of clients.                                                    *)
LEMMA ClientIInv == IInv /\ Client => IInv'
<1> SUFFICES ASSUME IInv, Client PROVE IInv'
    OBVIOUS
<1> USE IndexAssumption
<1>ks. keyspace \in [Dbs -> SUBSET Keys]
    BY DEF IInv, TypeOK
<1>1. ASSUME NEW d \in Dbs, NEW k \in Keys,
             \/ Write(d, k) \/ Pop(d, k) \/ Del(d, k) \/ Expired(d, k)
             \/ Touch(d, k) \/ SlotsRestore(d, k) \/ Restore(d, k) \/ Evict(d, k)
      PROVE  IInv'
  <2>1. /\ [keyspace EXCEPT ![d] = @ \cup {k}] \in [Dbs -> SUBSET Keys]
        /\ [keyspace EXCEPT ![d] = @ \ {k}] \in [Dbs -> SUBSET Keys]
      BY <1>ks
  <2>2. CASE Write(d, k)
      BY <2>1, <2>2, EventSequences, CommandIInv, Zenon DEF Write
  <2>3. CASE Pop(d, k)
      BY <2>1, <2>3, EventSequences, CommandIInv, Zenon DEF Pop
  <2>4. CASE Del(d, k)
      BY <2>1, <2>4, EventSequences, CommandIInv, Zenon DEF Del
  <2>5. CASE Expired(d, k)
      BY <2>1, <2>5, EventSequences, CommandIInv, Zenon DEF Expired
  <2>6. CASE Touch(d, k)
      BY <1>ks, <2>6, EventSequences, CommandIInv, Zenon DEF Touch
  <2>7. CASE SlotsRestore(d, k)
      BY <2>1, <2>7, EventSequences, CommandIInv, Zenon DEF SlotsRestore
  <2>8. CASE Restore(d, k)
      BY <2>1, <2>8, EventSequences, CommandIInv, Zenon DEF Restore
  <2>9. CASE Evict(d, k)
      BY <2>1, <2>9, EventSequences, CommandIInv, Zenon DEF Evict
  <2> QED BY <1>1, <2>2, <2>3, <2>4, <2>5, <2>6, <2>7, <2>8, <2>9
<1>12. ASSUME NEW w \in RestoreThreads, NEW d \in Dbs, NEW k \in Keys,
              RestoreOneWithReplace(w, d, k) \/ NotifyOne(w, d, k)
       PROVE  IInv'
  <2>1. [keyspace EXCEPT ![d] = @ \cup {k}] \in [Dbs -> SUBSET Keys]
      BY <1>ks
  <2>2. restored' \subseteq RestoreThreads \X Dbs \X Keys
    <3>1. restored \subseteq RestoreThreads \X Dbs \X Keys
        BY DEF IInv, TypeOK
    <3>2. CASE restored' = restored \cup {<<w, d, k>>}
        BY <3>1, <3>2
    <3>3. CASE restored' = restored \ {<<w, d, k>>}
        BY <3>1, <3>3, Zenon
    <3> QED BY <1>12, <3>2, <3>3, Zenon DEF RestoreOneWithReplace, NotifyOne
  <2>3. WellFormed(TypeEvents(d, k)) /\ WellFormed(<<Ev("other", d, k)>>)
      BY EventSequences, Zenon DEF TypeEvents
  <2>4. CASE RestoreOneWithReplace(w, d, k)
      BY <2>1, <2>2, <2>3, <2>4, RaiseIInv, Zenon DEF RestoreOneWithReplace
  <2>5. CASE NotifyOne(w, d, k)
      BY <1>ks, <2>2, <2>3, <2>5, RaiseIInv, Zenon DEF NotifyOne
  <2> QED BY <1>12, <2>4, <2>5
<1>2. ASSUME NEW d \in Dbs, NEW k \in Keys, NEW j \in Keys,
             LMove(d, k, j) \/ Rename(d, k, j) \/ Copy(d, k, j)
      PROVE  IInv'
  <2>1. /\ [keyspace EXCEPT ![d] = (@ \ {k}) \cup {j}] \in [Dbs -> SUBSET Keys]
        /\ [keyspace EXCEPT ![d] = @ \cup {j}] \in [Dbs -> SUBSET Keys]
      BY <1>ks
  <2>2. CASE LMove(d, k, j)
      BY <2>1, <2>2, EventSequences, CommandIInv, Zenon DEF LMove
  <2>3. CASE Rename(d, k, j)
      BY <2>1, <2>3, EventSequences, CommandIInv, Zenon DEF Rename
  <2>4. CASE Copy(d, k, j)
      BY <2>1, <2>4, EventSequences, CommandIInv, Zenon DEF Copy
  <2> QED BY <1>2, <2>2, <2>3, <2>4
<1>3. ASSUME NEW d \in Dbs, NEW e \in Dbs, SwapDb(d, e)
      PROVE  IInv'
  <2>1. [keyspace EXCEPT ![d] = keyspace[e], ![e] = keyspace[d]]
          \in [Dbs -> SUBSET Keys]
      BY <1>ks
  <2>2. WellFormed(<<>>)
      BY DEF Shape, WellFormed
  <2> QED BY <1>3, <2>1, <2>2, CommandIInv, Zenon DEF SwapDb
<1>4. ASSUME NEW d \in Dbs, NEW e \in Dbs, NEW k \in Keys, Move(d, e, k)
      PROVE  IInv'
  <2>1. [keyspace EXCEPT ![d] = @ \ {k}, ![e] = @ \cup {k}]
          \in [Dbs -> SUBSET Keys]
      BY <1>ks
  <2> QED BY <1>4, <2>1, EventSequences, CommandIInv, Zenon DEF Move
<1>5. ASSUME NEW c, NEW F \in SUBSET Dbs, Flush(c, F)
      PROVE  IInv'
  <2> USE <1>5 DEF Flush, FlushdbCallback, CanRun, Idle, CallbackDone, progress,
                   pair_stat, IInv
  <2>1. TypeOK'
      BY DEF TypeOK, EmptyTables, EmptyList
  <2>2. PairInv'
      BY DEF PairInv
  <2>3. ZslInv'
      BY DEF ZslInv
  <2>4. ListAgrees'
      BY DEF ListAgrees, ListedIn, Pending, TypeOK, EmptyTables, EmptyList
  <2> QED BY <2>1, <2>2, <2>3, <2>4
<1>6. ASSUME Save
      PROVE  IInv'
  <2> USE <1>6 DEF Save, index, progress, pair_stat, IInv
  <2>1. TypeOK'
      BY DEF TypeOK
  <2>2. PairInv' /\ ZslInv'
      BY DEF PairInv, ZslInv
  <2>3. ListAgrees'
      BY DEF ListAgrees, ListedIn, Pending
  <2> QED BY <2>1, <2>2, <2>3
<1>7. ASSUME OnLoad, events' = <<>>,
             keyspace' \in [Dbs -> SUBSET Keys], rdb' \in [Dbs -> SUBSET Keys],
             unloaded' \subseteq Dbs \X Keys, restarts' \in Nat,
             foreign' \in Nat
      PROVE  IInv'
  <2> USE <1>7 DEF OnLoad
  <2>1. 0 \in Dbs
      BY DEF Dbs
  <2>2. TypeOK'
    <3>1. /\ slotkey_tables' \in [Dbs -> [Slots -> SUBSET Keys]]
          /\ tagged_key_list' \in [Dbs -> [Keys -> Nat]]
        BY DEF EmptyTables, EmptyList
    <3>2. in_pair' \in BOOLEAN
        BY Zenon
    <3>3. events' \in Seq(Event) /\ calls' \in Seq(Call)
        OBVIOUS
    <3> QED BY <2>1, <3>1, <3>2, <3>3 DEF TypeOK
  <2>3. PairInv'
      BY DEF PairInv, Shape
  <2>4. ZslInv'
      BY DEF ZslInv
  <2>5. ListAgrees'
      BY DEF ListAgrees, ListedIn, Pending, EmptyTables, EmptyList
  <2> QED BY <2>2, <2>3, <2>4, <2>5 DEF IInv
<1>8. CASE Restart
  <2>1. {p \in Dbs \X Keys : p[2] \in rdb[p[1]]} \subseteq Dbs \X Keys
      BY Zenon
  <2>2. EmptyDbs \in [Dbs -> SUBSET Keys] /\ restarts + 1 \in Nat /\ 0 \in Nat
        /\ rdb \in [Dbs -> SUBSET Keys]
      BY DEF EmptyDbs, IInv, TypeOK
  <2> QED BY <1>7, <1>8, <2>1, <2>2, Zenon DEF Restart
<1>9. CASE ModuleLoad
  <2>1. OnLoad /\ events' = <<>>
      BY <1>9 DEF ModuleLoad, CanRun, Idle
  <2>2. /\ keyspace' \in [Dbs -> SUBSET Keys] /\ rdb' \in [Dbs -> SUBSET Keys]
        /\ unloaded' \subseteq Dbs \X Keys
        /\ restarts' \in Nat /\ foreign' \in Nat
      BY <1>9 DEF ModuleLoad, IInv, TypeOK
  <2> QED BY <1>7, <2>1, <2>2
<1> QED
    BY <1>1, <1>2, <1>3, <1>4, <1>5, <1>6, <1>8, <1>9, <1>12 DEF Client

(* Loading one key of the RDB.                                             *)
LEMMA LoadIInv == IInv /\ Load => IInv'
<1> SUFFICES ASSUME IInv, NEW d \in Dbs, NEW k \in Keys, LoadKey(d, k)
             PROVE  IInv'
    BY DEF Load
<1> USE DEF IInv, LoadKey, Idle, CallbackDone, index, progress, pair_stat
<1>1. /\ Ev("loaded", d, k) \in Event
      /\ Ev("loaded", d, k).name = "loaded"
    BY DEF Ev, Event, TypeChangeEvents
<1>2. WellFormed(events')
    BY <1>1 DEF WellFormed, Shape
<1>3. TypeOK'
    BY <1>2 DEF TypeOK, WellFormed
<1>4. PairInv'
    BY <1>2 DEF PairInv, WellFormed
<1>5. ZslInv'
    BY DEF ZslInv, TypeOK
<1>6. ListAgrees'
    BY DEF ListAgrees, ListedIn, Pending
<1> QED BY <1>3, <1>4, <1>5, <1>6

(* Taking the first event off keeps the order of the rest.                 *)
LEMMA TailShape ==
    ASSUME NEW evs \in Seq(Event), evs # <<>>, Shape(evs)
    PROVE  /\ Head(evs) \in Event
           /\ Tail(evs) \in Seq(Event)
           /\ Shape(Tail(evs))
           /\ Head(evs).name \in {"rename_to", "move_to"} => Tail(evs) = <<>>
           /\ Tail(evs) # <<>> => (Head(Tail(evs)).name = "rename_to"
                                      => Head(evs).name = "rename_from")
           /\ Head(evs).name = "rename_from" =>
                 Tail(evs) # <<>> /\ Head(Tail(evs)).name = "rename_to"
<1>1. /\ Head(evs) = evs[1] /\ Len(evs) \in Nat \ {0}
      /\ Len(Tail(evs)) = Len(evs) - 1
      /\ \A i \in 1 .. Len(Tail(evs)) : Tail(evs)[i] = evs[i + 1]
    OBVIOUS
<1>2. Head(evs) \in Event /\ Tail(evs) \in Seq(Event)
    OBVIOUS
<1>3. Shape(Tail(evs))
  <2> SUFFICES ASSUME NEW i \in 1 .. Len(Tail(evs))
      PROVE /\ Tail(evs)[i].name = "rename_from" =>
                  i < Len(Tail(evs)) /\ Tail(evs)[i + 1].name = "rename_to"
            /\ Tail(evs)[i].name \in {"rename_to", "move_to"} => i = Len(Tail(evs))
            /\ (Tail(evs)[i].name = "rename_to" /\ i > 1) =>
                  Tail(evs)[i - 1].name = "rename_from"
      BY DEF Shape
  <2>1. i + 1 \in 1 .. Len(evs) /\ Tail(evs)[i] = evs[i + 1]
      BY <1>1
  <2>2. i > 1 => i - 1 \in 1 .. Len(Tail(evs)) /\ Tail(evs)[i - 1] = evs[i]
      BY <1>1
  <2>3. i < Len(Tail(evs)) => Tail(evs)[i + 1] = evs[i + 2]
      BY <1>1
  <2>4. /\ evs[i + 1].name = "rename_from" =>
              i + 1 < Len(evs) /\ evs[(i + 1) + 1].name = "rename_to"
        /\ evs[i + 1].name \in {"rename_to", "move_to"} => i + 1 = Len(evs)
        /\ (evs[i + 1].name = "rename_to" /\ i + 1 > 1) =>
              evs[(i + 1) - 1].name = "rename_from"
      BY <2>1 DEF Shape
  <2>5. i \in Nat /\ (i + 1) + 1 = i + 2 /\ (i + 1) - 1 = i /\ i + 1 > 1
      BY <1>1
  <2>6. Tail(evs)[i].name = "rename_from" =>
              i < Len(Tail(evs)) /\ Tail(evs)[i + 1].name = "rename_to"
    <3> SUFFICES ASSUME evs[i + 1].name = "rename_from"
                 PROVE  i < Len(Tail(evs)) /\ Tail(evs)[i + 1].name = "rename_to"
        BY <2>1
    <3>1. i < Len(Tail(evs))
        BY <1>1, <2>4, <2>5
    <3>2. evs[i + 2].name = "rename_to"
        BY <2>4, <2>5
    <3> QED BY <2>3, <3>1, <3>2
  <2>7. Tail(evs)[i].name \in {"rename_to", "move_to"} => i = Len(Tail(evs))
    <3>1. i + 1 = Len(evs) => i = Len(Tail(evs))
      <4> HAVE i + 1 = Len(evs)
      <4>1. Len(Tail(evs)) = (i + 1) - 1
          BY <1>1, Zenon
      <4> QED BY <2>5, <4>1, Zenon
    <3> QED BY <2>1, <2>4, <3>1
  <2>8. (Tail(evs)[i].name = "rename_to" /\ i > 1) =>
              Tail(evs)[i - 1].name = "rename_from"
    <3> SUFFICES ASSUME evs[i + 1].name = "rename_to", i > 1
                 PROVE  Tail(evs)[i - 1].name = "rename_from"
        BY <2>1
    <3>1. evs[i].name = "rename_from"
        BY <2>4, <2>5
    <3> QED BY <2>2, <3>1
  <2> QED BY <2>6, <2>7, <2>8
<1>4. Tail(evs) # <<>> => 2 \in 1 .. Len(evs) /\ Head(Tail(evs)) = evs[2]
  <2>1. \A s \in Seq(Event) : s # <<>> => Len(s) \in Nat \ {0} /\ Head(s) = s[1]
      OBVIOUS
  <2>2. ASSUME Tail(evs) # <<>>
        PROVE  Len(Tail(evs)) \in Nat \ {0} /\ Head(Tail(evs)) = Tail(evs)[1]
      BY <1>2, <2>1, <2>2, Zenon
  <2>3. ASSUME Tail(evs) # <<>> PROVE Tail(evs)[1] = evs[1 + 1]
      BY <1>1, <2>2, <2>3
  <2> QED BY <1>1, <2>2, <2>3
<1>5. 1 \in 1 .. Len(evs)
    BY <1>1
<1>6. Len(evs) = 1 => Tail(evs) = <<>>
    BY <1>1, <1>2
<1>7. Len(evs) > 1 => Tail(evs) # <<>>
    BY <1>1, <1>2
<1>8. /\ evs[1].name = "rename_from" => 1 < Len(evs) /\ evs[1 + 1].name = "rename_to"
      /\ evs[1].name \in {"rename_to", "move_to"} => 1 = Len(evs)
    BY <1>5 DEF Shape
<1>9. Tail(evs) # <<>> => (evs[2].name = "rename_to" => evs[2 - 1].name = "rename_from")
    BY <1>4 DEF Shape
<1>10. 1 + 1 = 2 /\ 2 - 1 = 1
    OBVIOUS
<1>11. Head(evs).name \in {"rename_to", "move_to"} => Tail(evs) = <<>>
    BY <1>1, <1>6, <1>8
<1>12. Tail(evs) # <<>> => (Head(Tail(evs)).name = "rename_to"
                               => Head(evs).name = "rename_from")
    BY <1>1, <1>4, <1>9, <1>10
<1>13. Head(evs).name = "rename_from" =>
           Tail(evs) # <<>> /\ Head(Tail(evs)).name = "rename_to"
    BY <1>1, <1>4, <1>7, <1>8, <1>10
<1> QED BY <1>2, <1>3, <1>11, <1>12, <1>13

(* The steps of a callback.                                                *)
LEMMA CallbackIInv == IInv /\ Callback => IInv'
<1> SUFFICES ASSUME IInv, Callback PROVE IInv'
    OBVIOUS
<1> USE IndexAssumption DEF IInv, server, index, pair_stat, progress
<1>1. ASSUME NEW names, Deliver(names)
      PROVE  /\ Head(events) \in Event /\ events' \in Seq(Event)
             /\ Shape(events') /\ ~in_pair /\ cmd_flag = CMD_NONE
             /\ calls = <<>> /\ zsl = NoCall
             /\ Head(events).name \in {"rename_to", "move_to"} => events' = <<>>
             /\ events' # <<>> => (Head(events').name = "rename_to"
                                      => Head(events).name = "rename_from")
             /\ Head(events).name = "rename_from" =>
                   events' # <<>> /\ Head(events').name = "rename_to"
    BY <1>1, TailShape DEF Deliver, CallbackDone, PairInv, TypeOK
<1>2. \A o \in {"add", "del"}, d \in Dbs, k \in Keys : Do(o, d, k) \in Call
    BY DEF Do, Call
<1>3. ASSUME NEW names, Deliver(names), NEW o \in {"add", "del"},
             "rename_to" \notin names, "rename_from" \notin names,
             Head(events).name \in names,
             calls' = <<Do(o, Head(events).db, Head(events).key)>>,
             UNCHANGED <<server, index, zsl, in_pair, pair_stat>>
      PROVE  IInv'
  <2>1. Head(events).db \in Dbs /\ Head(events).key \in Keys
      BY <1>1, <1>3 DEF Event
  <2>2. calls' \in Seq(Call)
      BY <1>2, <1>3, <2>1
  <2>3. TypeOK'
      BY <1>1, <1>3, <2>2 DEF TypeOK
  <2>4. PairInv'
      BY <1>1, <1>3 DEF PairInv
  <2>5. ZslInv' /\ ListAgrees'
      BY <1>3 DEF ZslInv, ListAgrees, ListedIn, Pending
  <2> QED BY <2>3, <2>4, <2>5
<1>4. CASE NotifyTypeChangeCallback
    BY <1>3, <1>4 DEF NotifyTypeChangeCallback, TypeChangeEvents, TypeChangeCalls,
                      Deliver
<1>5. CASE NotifyDel
    BY <1>3, <1>5 DEF NotifyDel, DelEvents, Deliver
<1>6. CASE NotifyPair
  <2> DEFINE e == Head(events)
  <2> USE <1>6 DEF NotifyPair, NewFrom, NewFlag, RenameCalls, MoveCalls
  <2>1. Deliver(GenericEvents \ DelEvents)
      OBVIOUS
  <2>2. /\ e \in Event /\ e.db \in Dbs /\ e.key \in Keys
        /\ events # <<>>
        /\ e.name \in GenericEvents \ DelEvents
      BY <1>1, <2>1 DEF Deliver, Event
  <2>3. e.name = "rename_to" => from_key' \in Keys /\ from_key' = from_key
      BY <2>2 DEF PairInv, TypeOK
  <2>4. CASE e.name = "rename_to"
    <3>1. /\ cmd_flag' = CMD_RENAME /\ in_pair' = TRUE /\ to_key' = e.key
          /\ from_dbid' = from_dbid /\ to_dbid' = to_dbid
          /\ calls' = <<Do("del", e.db, from_key'), Do("add", e.db, to_key')>>
        BY <2>4 DEF CMD_NONE, CMD_RENAME, CMD_MOVE
    <3>a. to_key' \in Keys /\ from_key' \in Keys
        BY <2>2, <2>3, <2>4, <3>1
    <3>b. Do("del", e.db, from_key') \in Call /\ Do("add", e.db, to_key') \in Call
        BY <1>2, <2>2, <3>a, Zenon
    <3>2. calls' \in Seq(Call)
        BY <3>1, <3>b
    <3>3. TypeOK'
        BY <1>1, <2>1, <2>2, <2>3, <3>1, <3>2 DEF TypeOK
    <3>4. PairInv'
        BY <1>1, <2>1, <2>4, <3>1 DEF PairInv, CMD_NONE, CMD_RENAME
    <3> QED BY <3>3, <3>4 DEF ZslInv, ListAgrees, ListedIn, Pending
  <2>5. CASE e.name = "move_to"
    <3>1. /\ cmd_flag' = CMD_MOVE /\ in_pair' = TRUE /\ to_key' = to_key
          /\ from_key' = from_key /\ from_dbid' = from_dbid /\ to_dbid' = e.db
          /\ calls' = <<Do("del", from_dbid', e.key), Do("add", to_dbid', e.key)>>
        BY <2>5 DEF CMD_NONE, CMD_RENAME, CMD_MOVE
    <3>2. calls' \in Seq(Call)
        BY <1>2, <2>2, <3>1 DEF TypeOK
    <3>3. TypeOK'
        BY <1>1, <2>1, <2>2, <3>1, <3>2 DEF TypeOK
    <3>4. PairInv'
        BY <1>1, <2>1, <2>2, <2>5, <3>1 DEF PairInv, CMD_NONE, CMD_MOVE
    <3> QED BY <3>3, <3>4 DEF ZslInv, ListAgrees, ListedIn, Pending
  <2>6. CASE e.name \notin {"rename_to", "move_to"}
    <3>1. /\ cmd_flag' = CMD_NONE /\ in_pair' = FALSE /\ calls' = <<>>
          /\ to_key' = to_key /\ to_dbid' = to_dbid
          /\ from_key' = IF e.name = "rename_from" THEN e.key ELSE from_key
          /\ from_dbid' = IF e.name = "move_from" THEN e.db ELSE from_dbid
        BY <1>1, <2>1, <2>6 DEF CMD_NONE, CMD_RENAME, CMD_MOVE
    <3>2. calls' \in Seq(Call)
        BY <3>1
    <3>3. TypeOK'
        BY <1>1, <2>1, <2>2, <3>1, <3>2 DEF TypeOK
    <3>4. PairInv'
        BY <1>1, <2>1, <2>2, <2>6, <3>1 DEF PairInv
    <3> QED BY <3>3, <3>4 DEF ZslInv, ListAgrees, ListedIn, Pending
  <2> QED BY <2>4, <2>5, <2>6
<1>7. CASE ReleasePair
  <2> USE <1>7 DEF ReleasePair, Released
  <2>1. TypeOK'
      BY DEF TypeOK
  <2>2. PairInv'
      BY DEF PairInv, CMD_NONE, CMD_RENAME
  <2> QED BY <2>1, <2>2 DEF ZslInv, ListAgrees, ListedIn, Pending
<1>8. ASSUME NEW op, NextCall(op)
      PROVE  /\ Head(calls) \in Call /\ Head(calls).db \in Dbs
             /\ Head(calls).key \in Keys /\ Head(calls).op = op
             /\ slots_num[Head(calls).key] \in Slots
             /\ calls' \in Seq(Call) /\ zsl = NoCall
             /\ Head(calls) # NoCall
  <2>1. calls \in Seq(Call) /\ calls # <<>> /\ Head(calls).op = op
        /\ calls' = Tail(calls) /\ zsl = NoCall
      BY <1>8 DEF NextCall, TypeOK
  <2>2. Head(calls) \in Call /\ calls' \in Seq(Call)
      BY <2>1
  <2>3. \A c \in Call : c.db \in Dbs /\ c.key \in Keys /\ c.op # "none"
      BY DEF Call
  <2>4. Head(calls) # NoCall
      BY <2>2, <2>3 DEF NoCall
  <2>5. slots_num[Head(calls).key] \in Slots
      BY <2>2, <2>3
  <2> QED BY <2>1, <2>2, <2>3, <2>4, <2>5
<1>9. CASE Slots_Add
  <2> DEFINE d == Head(calls).db   k == Head(calls).key   s == slots_num[k]
  <2>1. NextCall("add")
      BY <1>9 DEF Slots_Add
  <2>2. /\ slotkey_tables' = [slotkey_tables EXCEPT ![d][s] = @ \cup {k}]
        /\ zsl' = IF k \notin slotkey_tables[d][s] /\ hastag(k)
                  THEN Head(calls) ELSE NoCall
        /\ UNCHANGED <<server, tagged_key_list, events, in_pair, pair_stat>>
      BY <1>9 DEF Slots_Add, Added
  <2>0. /\ Head(calls) \in Call /\ d \in Dbs /\ k \in Keys /\ s \in Slots
        /\ Head(calls).op = "add" /\ calls' \in Seq(Call) /\ zsl = NoCall
        /\ Head(calls) # NoCall
      BY <1>8, <2>1
  <2>a. slotkey_tables \in [Dbs -> [Slots -> SUBSET Keys]]
      BY DEF TypeOK
  <2> HIDE DEF d, k, s
  <2>b. ASSUME NEW d0 \in Dbs, NEW k0 \in Keys
        PROVE  slotkey_tables'[d0][slots_num[k0]] =
                  IF d0 = d /\ slots_num[k0] = s
                  THEN slotkey_tables[d0][slots_num[k0]] \cup {k}
                  ELSE slotkey_tables[d0][slots_num[k0]]
      BY <2>0, <2>2, <2>a
  <2>3. TypeOK'
    <3>1. slotkey_tables' \in [Dbs -> [Slots -> SUBSET Keys]]
        BY <2>0, <2>2, <2>a
    <3>2. zsl' \in Call \cup {NoCall}
        BY <2>0, <2>2
    <3> QED BY <2>0, <2>2, <3>1, <3>2 DEF TypeOK
  <2>4. PairInv'
      BY <2>2 DEF PairInv
  <2>5. ZslInv'
    <3> SUFFICES ASSUME zsl' # NoCall
                 PROVE  /\ hastag(zsl'.key)
                        /\ zsl'.op = "add" <=> zsl'.key \in
                              slotkey_tables'[zsl'.db][slots_num[zsl'.key]]
        BY DEF ZslInv, hastag
    <3>1. zsl' = Head(calls) /\ hastag(k) /\ k \notin slotkey_tables[d][s]
        BY <2>2
    <3>2. zsl'.key = k /\ zsl'.db = d /\ zsl'.op = "add"
        BY <2>0, <3>1 DEF d, k
    <3>3. slotkey_tables'[d][slots_num[k]] = slotkey_tables[d][s] \cup {k}
        BY <2>0, <2>b DEF s
    <3> QED BY <3>1, <3>2, <3>3
  <2>6. ListAgrees'
    <3> SUFFICES ASSUME NEW d0 \in Dbs, NEW k0 \in Keys
                 PROVE  tagged_key_list[d0][k0] =
                          IF ListedIn(d0, k0)' THEN 1 ELSE 0
        BY <2>2 DEF ListAgrees
    <3>1. tagged_key_list[d0][k0] = IF ListedIn(d0, k0) THEN 1 ELSE 0
        BY DEF ListAgrees
    <3>2. ListedIn(d0, k0) <=> hastag(k0) /\ k0 \in slotkey_tables[d0][slots_num[k0]]
        BY <2>0 DEF ListedIn, Pending
    <3>3. CASE d0 = d /\ k0 = k
      <4>1. slots_num[k0] = s
          BY <3>3 DEF s
      <4>2. slotkey_tables'[d0][slots_num[k0]] = slotkey_tables[d][s] \cup {k}
          BY <2>b, <3>3, <4>1
      <4>3. CASE k \notin slotkey_tables[d][s] /\ hastag(k)
        <5>1. zsl' = Head(calls)
            BY <2>2, <4>3
        <5>2. zsl' # NoCall /\ zsl'.op = "add" /\ zsl'.db = d0 /\ zsl'.key = k0
            BY <2>0, <3>3, <5>1 DEF d, k
        <5> QED BY <3>1, <3>2, <3>3, <4>1, <4>2, <4>3, <5>2
                DEF ListedIn, Pending, hastag
      <4>4. CASE ~(k \notin slotkey_tables[d][s] /\ hastag(k))
        <5>1. zsl' = NoCall
            BY <2>2, <4>4
        <5> QED BY <3>1, <3>2, <3>3, <4>1, <4>2, <4>4, <5>1
                DEF ListedIn, Pending, hastag
      <4> QED BY <4>3, <4>4
    <3>4. CASE ~(d0 = d /\ k0 = k)
      <4>1. k0 \in slotkey_tables'[d0][slots_num[k0]]
               <=> k0 \in slotkey_tables[d0][slots_num[k0]]
        <5>1. CASE d0 = d /\ slots_num[k0] = s
          <6>1. slotkey_tables'[d0][slots_num[k0]] =
                  slotkey_tables[d0][slots_num[k0]] \cup {k}
              BY <2>b, <5>1
          <6>2. k0 # k
              BY <3>4, <5>1
          <6> QED BY <6>1, <6>2
        <5>2. CASE ~(d0 = d /\ slots_num[k0] = s)
            BY <2>b, <5>2
        <5> QED BY <5>1, <5>2
      <4>2. zsl' # NoCall => ~(zsl'.db = d0 /\ zsl'.key = k0)
          BY <2>2, <3>4 DEF d, k
      <4> QED BY <3>1, <3>2, <4>1, <4>2 DEF ListedIn, Pending, hastag
    <3> QED BY <3>3, <3>4
  <2> QED BY <2>3, <2>4, <2>5, <2>6
<1>10. CASE Slots_Del
  <2> DEFINE d == Head(calls).db   k == Head(calls).key   s == slots_num[k]
  <2>1. NextCall("del")
      BY <1>10 DEF Slots_Del
  <2>2. /\ slotkey_tables' = [slotkey_tables EXCEPT ![d][s] = @ \ {k}]
        /\ zsl' = IF k \in slotkey_tables[d][s] /\ hastag(k)
                  THEN Head(calls) ELSE NoCall
        /\ UNCHANGED <<server, tagged_key_list, events, in_pair, pair_stat>>
      BY <1>10 DEF Slots_Del
  <2>0. /\ Head(calls) \in Call /\ d \in Dbs /\ k \in Keys /\ s \in Slots
        /\ Head(calls).op = "del" /\ calls' \in Seq(Call) /\ zsl = NoCall
        /\ Head(calls) # NoCall
      BY <1>8, <2>1
  <2>a. slotkey_tables \in [Dbs -> [Slots -> SUBSET Keys]]
      BY DEF TypeOK
  <2> HIDE DEF d, k, s
  <2>b. ASSUME NEW d0 \in Dbs, NEW k0 \in Keys
        PROVE  slotkey_tables'[d0][slots_num[k0]] =
                  IF d0 = d /\ slots_num[k0] = s
                  THEN slotkey_tables[d0][slots_num[k0]] \ {k}
                  ELSE slotkey_tables[d0][slots_num[k0]]
      BY <2>0, <2>2, <2>a
  <2>3. TypeOK'
    <3>1. slotkey_tables' \in [Dbs -> [Slots -> SUBSET Keys]]
        BY <2>0, <2>2, <2>a
    <3>2. zsl' \in Call \cup {NoCall}
        BY <2>0, <2>2
    <3> QED BY <2>0, <2>2, <3>1, <3>2 DEF TypeOK
  <2>4. PairInv'
      BY <2>2 DEF PairInv
  <2>5. ZslInv'
    <3> SUFFICES ASSUME zsl' # NoCall
                 PROVE  /\ hastag(zsl'.key)
                        /\ zsl'.op = "add" <=> zsl'.key \in
                              slotkey_tables'[zsl'.db][slots_num[zsl'.key]]
        BY DEF ZslInv, hastag
    <3>1. zsl' = Head(calls) /\ hastag(k) /\ k \in slotkey_tables[d][s]
        BY <2>2
    <3>2. zsl'.key = k /\ zsl'.db = d /\ zsl'.op = "del"
        BY <2>0, <3>1 DEF d, k
    <3>3. slotkey_tables'[d][slots_num[k]] = slotkey_tables[d][s] \ {k}
        BY <2>0, <2>b DEF s
    <3> QED BY <3>1, <3>2, <3>3
  <2>6. ListAgrees'
    <3> SUFFICES ASSUME NEW d0 \in Dbs, NEW k0 \in Keys
                 PROVE  tagged_key_list[d0][k0] =
                          IF ListedIn(d0, k0)' THEN 1 ELSE 0
        BY <2>2 DEF ListAgrees
    <3>1. tagged_key_list[d0][k0] = IF ListedIn(d0, k0) THEN 1 ELSE 0
        BY DEF ListAgrees
    <3>2. ListedIn(d0, k0) <=> hastag(k0) /\ k0 \in slotkey_tables[d0][slots_num[k0]]
        BY <2>0 DEF ListedIn, Pending
    <3>3. CASE d0 = d /\ k0 = k
      <4>1. slots_num[k0] = s
          BY <3>3 DEF s
      <4>2. slotkey_tables'[d0][slots_num[k0]] = slotkey_tables[d][s] \ {k}
          BY <2>b, <3>3, <4>1
      <4>3. CASE k \in slotkey_tables[d][s] /\ hastag(k)
        <5>1. zsl' = Head(calls)
            BY <2>2, <4>3
        <5>2. zsl' # NoCall /\ zsl'.op = "del" /\ zsl'.db = d0 /\ zsl'.key = k0
            BY <2>0, <3>3, <5>1 DEF d, k
        <5> QED BY <3>1, <3>2, <3>3, <4>1, <4>2, <4>3, <5>2
                DEF ListedIn, Pending, hastag
      <4>4. CASE ~(k \in slotkey_tables[d][s] /\ hastag(k))
        <5>1. zsl' = NoCall
            BY <2>2, <4>4
        <5> QED BY <3>1, <3>2, <3>3, <4>1, <4>2, <4>4, <5>1
                DEF ListedIn, Pending, hastag
      <4> QED BY <4>3, <4>4
    <3>4. CASE ~(d0 = d /\ k0 = k)
      <4>1. k0 \in slotkey_tables'[d0][slots_num[k0]]
               <=> k0 \in slotkey_tables[d0][slots_num[k0]]
        <5>1. CASE d0 = d /\ slots_num[k0] = s
          <6>1. slotkey_tables'[d0][slots_num[k0]] =
                  slotkey_tables[d0][slots_num[k0]] \ {k}
              BY <2>b, <5>1
          <6>2. k0 # k
              BY <3>4, <5>1
          <6> QED BY <6>1, <6>2
        <5>2. CASE ~(d0 = d /\ slots_num[k0] = s)
            BY <2>b, <5>2
        <5> QED BY <5>1, <5>2
      <4>2. zsl' # NoCall => ~(zsl'.db = d0 /\ zsl'.key = k0)
          BY <2>2, <3>4 DEF d, k
      <4> QED BY <3>1, <3>2, <4>1, <4>2 DEF ListedIn, Pending, hastag
    <3> QED BY <3>3, <3>4
  <2> QED BY <2>3, <2>4, <2>5, <2>6
<1>11. CASE TaggedListUpdate
  <2> USE <1>11 DEF TaggedListUpdate
  <2>1. zsl \in Call /\ zsl.db \in Dbs /\ zsl.key \in Keys
        /\ zsl.op \in {"add", "del"}
      BY DEF TypeOK, Call
  <2>2. tagged_key_list[zsl.db][zsl.key] = IF zsl.op = "add" THEN 0 ELSE 1
      BY <2>1 DEF ListAgrees, ListedIn, Pending, ZslInv
  <2>3. ASSUME NEW d0 \in Dbs, NEW k0 \in Keys
        PROVE  tagged_key_list'[d0][k0] =
                 IF d0 = zsl.db /\ k0 = zsl.key
                 THEN IF zsl.op = "add" THEN 1 ELSE 0
                 ELSE tagged_key_list[d0][k0]
    <3>1. tagged_key_list \in [Dbs -> [Keys -> Nat]]
        BY DEF TypeOK
    <3>2. CASE zsl.op = "add"
        BY <2>1, <2>2, <3>1, <3>2
    <3>3. CASE zsl.op = "del"
        BY <2>1, <2>2, <3>1, <3>3
    <3> QED BY <2>1, <3>2, <3>3
  <2>4. TypeOK'
    <3>1. tagged_key_list \in [Dbs -> [Keys -> Nat]]
        BY DEF TypeOK
    <3> DEFINE n == IF zsl.op = "add"
                    THEN tagged_key_list[zsl.db][zsl.key] + 1
                    ELSE IF tagged_key_list[zsl.db][zsl.key] > 0
                         THEN tagged_key_list[zsl.db][zsl.key] - 1
                         ELSE tagged_key_list[zsl.db][zsl.key]
    <3>2. n \in Nat
        BY <2>1, <2>2
    <3>3. tagged_key_list' = [tagged_key_list EXCEPT ![zsl.db][zsl.key] = n]
        BY Zenon
    <3> HIDE DEF n
    <3>4. tagged_key_list' \in [Dbs -> [Keys -> Nat]]
        BY <2>1, <3>1, <3>2, <3>3
    <3> QED BY <3>4 DEF TypeOK
  <2>5. PairInv' /\ ZslInv'
      BY DEF PairInv, ZslInv
  <2>6. ListAgrees'
    <3> SUFFICES ASSUME NEW d0 \in Dbs, NEW k0 \in Keys
                 PROVE  tagged_key_list'[d0][k0] =
                          IF ListedIn(d0, k0)' THEN 1 ELSE 0
        BY DEF ListAgrees
    <3>1. ListedIn(d0, k0)' <=> hastag(k0) /\ k0 \in slotkey_tables[d0][slots_num[k0]]
        BY DEF ListedIn, Pending, hastag
    <3>2. CASE d0 = zsl.db /\ k0 = zsl.key
        BY <2>1, <2>3, <3>1, <3>2 DEF ZslInv
    <3>3. CASE ~(d0 = zsl.db /\ k0 = zsl.key)
      <4>1. tagged_key_list[d0][k0] = IF ListedIn(d0, k0) THEN 1 ELSE 0
          BY DEF ListAgrees
      <4>2. ListedIn(d0, k0) <=> hastag(k0) /\ k0 \in slotkey_tables[d0][slots_num[k0]]
          BY <3>3 DEF ListedIn, Pending
      <4> QED BY <2>3, <3>1, <3>3, <4>1, <4>2
    <3> QED BY <3>2, <3>3
  <2> QED BY <2>4, <2>5, <2>6
<1> QED
    BY <1>4, <1>5, <1>6, <1>7, <1>9, <1>10, <1>11 DEF Callback

(* The inductive invariant holds in every reachable state.                 *)
THEOREM IndexInvariant == Spec => []IInv
<1>1. IInv /\ UNCHANGED vars => IInv'
    BY DEF IInv, vars, server, index, progress, pair_stat, TypeOK, PairInv,
           ZslInv, ListAgrees, ListedIn, Pending
<1>2. IInv /\ [Next]_vars => IInv'
    BY <1>1, ClientIInv, LoadIInv, CallbackIInv DEF Next
<1> QED BY <1>2, InitIInv, PTL DEF Spec

(* Every variable keeps its type; in particular Slots_Add and Slots_Del    *)
(* are only ever called with a database, a key and so a slot that exist,   *)
(* although their arguments come from the callback's static variables.     *)
THEOREM TypeCorrect == Spec => []TypeOK
<1>1. IInv => TypeOK
    BY DEF IInv
<1> QED BY <1>1, IndexInvariant, PTL

(* For any number of databases, slots and keys and for every command of    *)
(* Redis, also those the module does not handle: the skiplist holds        *)
(* exactly one node for each tagged key of the dicts and none for any      *)
(* other key, up to the one update that is in progress.                    *)
THEOREM SkiplistAgrees == Spec => []ListAgrees
<1>1. IInv => ListAgrees
    BY DEF IInv
<1> QED BY <1>1, IndexInvariant, PTL

(* The static variables of NotifyGenericCallback hold no half of a pair    *)
(* between commands, and Slots_Del never gets a NULL key.                  *)
THEOREM PairStateReset == Spec => []PairReset
<1>1. IInv => PairReset
  <2> SUFFICES ASSUME IInv PROVE PairReset
      OBVIOUS
  <2>1. Idle => cmd_flag = CMD_NONE /\ from_key = NoKey /\ to_key = NoKey
      BY DEF IInv, PairInv, Idle, CallbackDone
  <2>2. ASSUME NEW i \in 1 .. Len(calls) PROVE calls[i].key # NoKey
    <3>1. calls[i] \in Call
        BY DEF IInv, TypeOK
    <3> QED BY <3>1, IndexAssumption DEF Call
  <2> QED BY <2>1, <2>2 DEF PairReset
<1> QED BY <1>1, IndexInvariant, PTL

-----------------------------------------------------------------------------
(* The index follows the keyspace *)

AddNames == {"typed", "loaded", "rename_to", "move_to"}
DelNames == {"del", "expired", "rename_from", "move_from"}

(* The event (call) puts key k of database d into, or takes it out of, the *)
(* index; the deletion of a pair is done by the callback of its second     *)
(* event.                                                                  *)
EvAdds(e, d, k) == e.name \in AddNames /\ e.db = d /\ e.key = k
EvDels(e, d, k) == e.name \in DelNames /\ e.db = d /\ e.key = k

(* The events a command may raise, given the keyspace it leaves: deletions *)
(* are announced only of keys that are gone, a key that is announced as    *)
(* written and is gone is deleted by the last event, and the two events of *)
(* a pair belong together.                                                 *)
Truthful(evs, ks) ==
    \A i \in 1 .. Len(evs) :
        /\ evs[i].name \in DelNames => evs[i].key \notin ks[evs[i].db]
        /\ evs[i].name \in AddNames /\ evs[i].key \notin ks[evs[i].db] =>
              /\ evs[Len(evs)].name \in DelEvents
              /\ evs[Len(evs)].db = evs[i].db /\ evs[Len(evs)].key = evs[i].key
        /\ evs[i].name = "rename_from" =>
              i < Len(evs) /\ evs[i + 1].db = evs[i].db
        /\ evs[i].name = "move_from" =>
              i < Len(evs) /\ evs[i + 1].name = "move_to"
                           /\ evs[i + 1].key = evs[i].key
        /\ evs[i].name = "move_to" /\ i > 1 => evs[i - 1].name = "move_from"

(* What the static variables remember of the first event of a pair.        *)
HalfDels(d, k) ==
    /\ events # <<>>
    /\ \/ Head(events).name = "rename_to" /\ Head(events).db = d /\ from_key = k
       \/ Head(events).name = "move_to" /\ from_dbid = d /\ Head(events).key = k

(* A key is taken out of the index only if it has left the keyspace, and a *)
(* key that has left it is put into the index only if it is taken out      *)
(* again by the last event.                                                *)
DelsAreGone ==
    /\ Truthful(events, keyspace)
    /\ \A d \in Dbs, k \in Keys : HalfDels(d, k) => k \notin keyspace[d]
    /\ \A i \in 1 .. Len(calls) :
          /\ calls[i].op = "del" => calls[i].key \notin keyspace[calls[i].db]
          /\ calls[i].op = "add" /\ calls[i].key \notin keyspace[calls[i].db] =>
                /\ events # <<>>
                /\ EvDels(events[Len(events)], calls[i].db, calls[i].key)
                /\ events[Len(events)].name \in DelEvents

PendAdd(d, k) ==
    \/ \E i \in 1 .. Len(calls) : calls[i].op = "add" /\ calls[i].db = d /\ calls[i].key = k
    \/ \E i \in 1 .. Len(events) : EvAdds(events[i], d, k)
    \/ \E w \in RestoreThreads : <<w, d, k>> \in restored

PendDel(d, k) ==
    \/ \E i \in 1 .. Len(calls) : calls[i].op = "del" /\ calls[i].db = d /\ calls[i].key = k
    \/ \E i \in 1 .. Len(events) : EvDels(events[i], d, k)
    \/ HalfDels(d, k)

(* Each key is in the dict of its own slot only.                           *)
InOwnSlot ==
    \A d \in Dbs, s \in Slots : \A k \in slotkey_tables[d][s] : slots_num[k] = s

InTable(d, k) == k \in slotkey_tables[d][slots_num[k]]

(* Where the index and the keyspace differ, an event, a call or a          *)
(* notifyOne that sets it right is on its way.                             *)
Repaired ==
    foreign = 0 => \A d \in Dbs, k \in Keys :
        /\ k \in keyspace[d] /\ ~InTable(d, k) => PendAdd(d, k)
        /\ k \notin keyspace[d] /\ InTable(d, k) => PendDel(d, k)

ExactInv == DelsAreGone /\ InOwnSlot /\ Repaired

-----------------------------------------------------------------------------
(* Sequences without their first element.                                  *)
LEMMA TailFacts ==
    ASSUME NEW S, NEW s \in Seq(S), s # <<>>
    PROVE  /\ Head(s) = s[1] /\ Len(s) \in Nat \ {0} /\ Tail(s) \in Seq(S)
           /\ Len(Tail(s)) = Len(s) - 1
           /\ \A i \in 1 .. Len(Tail(s)) : Tail(s)[i] = s[i + 1]
           /\ \A i \in 2 .. Len(s) : i - 1 \in 1 .. Len(Tail(s)) /\ Tail(s)[i - 1] = s[i]
           /\ Len(s) = 1 <=> Tail(s) = <<>>
           /\ Tail(s) # <<>> => /\ Tail(s)[Len(Tail(s))] = s[Len(s)]
                                /\ Head(Tail(s)) = s[2] /\ Len(s) > 1
<1>1. /\ Head(s) = s[1] /\ Len(s) \in Nat \ {0} /\ Tail(s) \in Seq(S)
      /\ Len(Tail(s)) = Len(s) - 1
      /\ \A i \in 1 .. Len(Tail(s)) : Tail(s)[i] = s[i + 1]
    OBVIOUS
<1>2. \A i \in 2 .. Len(s) : i - 1 \in 1 .. Len(Tail(s)) /\ Tail(s)[i - 1] = s[i]
    BY <1>1
<1>3. Len(s) = 1 <=> Tail(s) = <<>>
  <2>1. Len(s) = 1 <=> Len(Tail(s)) = 0
      BY <1>1
  <2>2. Tail(s) = <<>> <=> Len(Tail(s)) = 0
      BY <1>1, EmptySeq
  <2> QED BY <2>1, <2>2
<1>4. ASSUME Tail(s) # <<>>
      PROVE  /\ Tail(s)[Len(Tail(s))] = s[Len(s)]
             /\ Head(Tail(s)) = s[2] /\ Len(s) > 1
    BY <1>1, <1>3, <1>4
<1> QED BY <1>1, <1>2, <1>3, <1>4

(* Taking the first event off leaves a truthful sequence, and says what    *)
(* the first event was followed by.                                        *)
LEMMA TailTruthful ==
    ASSUME NEW ks, NEW evs \in Seq(Event), evs # <<>>, Truthful(evs, ks)
    PROVE  /\ Truthful(Tail(evs), ks)
           /\ Head(evs).name \in DelNames => Head(evs).key \notin ks[Head(evs).db]
           /\ Head(evs).name \in AddNames /\ Head(evs).key \notin ks[Head(evs).db] =>
                 /\ Tail(evs) # <<>>
                 /\ Tail(evs)[Len(Tail(evs))].name \in DelEvents
                 /\ Tail(evs)[Len(Tail(evs))].db = Head(evs).db
                 /\ Tail(evs)[Len(Tail(evs))].key = Head(evs).key
           /\ Head(evs).name = "rename_from" => Head(Tail(evs)).db = Head(evs).db
           /\ Head(evs).name = "move_from" =>
                 /\ Tail(evs) # <<>> /\ Head(Tail(evs)).name = "move_to"
                 /\ Head(Tail(evs)).key = Head(evs).key
           /\ Tail(evs) # <<>> /\ Head(Tail(evs)).name = "move_to" =>
                 Head(evs).name = "move_from"
<1> DEFINE n == Len(evs)  t == Tail(evs)  Ok(i) ==
        /\ evs[i].name \in DelNames => evs[i].key \notin ks[evs[i].db]
        /\ evs[i].name \in AddNames /\ evs[i].key \notin ks[evs[i].db] =>
              /\ evs[n].name \in DelEvents
              /\ evs[n].db = evs[i].db /\ evs[n].key = evs[i].key
        /\ evs[i].name = "rename_from" => i < n /\ evs[i + 1].db = evs[i].db
        /\ evs[i].name = "move_from" =>
              i < n /\ evs[i + 1].name = "move_to" /\ evs[i + 1].key = evs[i].key
        /\ evs[i].name = "move_to" /\ i > 1 => evs[i - 1].name = "move_from"
<1>1. \A i \in 1 .. n : Ok(i)
    BY DEF Truthful
<1>2. /\ Head(evs) = evs[1] /\ n \in Nat \ {0} /\ t \in Seq(Event)
      /\ Len(t) = n - 1
      /\ \A i \in 1 .. Len(t) : t[i] = evs[i + 1]
      /\ n = 1 <=> t = <<>>
      /\ t # <<>> => t[Len(t)] = evs[n] /\ Head(t) = evs[2] /\ n > 1
    BY TailFacts
<1>3. Truthful(t, ks)
  <2> SUFFICES ASSUME NEW i \in 1 .. Len(t)
      PROVE /\ t[i].name \in DelNames => t[i].key \notin ks[t[i].db]
            /\ t[i].name \in AddNames /\ t[i].key \notin ks[t[i].db] =>
                  /\ t[Len(t)].name \in DelEvents
                  /\ t[Len(t)].db = t[i].db /\ t[Len(t)].key = t[i].key
            /\ t[i].name = "rename_from" => i < Len(t) /\ t[i + 1].db = t[i].db
            /\ t[i].name = "move_from" =>
                  i < Len(t) /\ t[i + 1].name = "move_to" /\ t[i + 1].key = t[i].key
            /\ t[i].name = "move_to" /\ i > 1 => t[i - 1].name = "move_from"
      BY DEF Truthful
  <2>1. /\ i + 1 \in 1 .. n /\ i \in Nat /\ t[i] = evs[i + 1]
        /\ i + 1 < n <=> i < Len(t)
        /\ t[Len(t)] = evs[n]
      BY <1>2
  <2>2. i > 1 => t[i - 1] = evs[i]
      BY <1>2
  <2>3. i < Len(t) => t[i + 1] = evs[(i + 1) + 1]
      BY <1>2
  <2>4. (i + 1) - 1 = i /\ i + 1 > 1
      BY <2>1
  <2>5. Ok(i + 1)
      BY <1>1, <2>1
  <2> HIDE DEF t, n
  <2>6. evs[i + 1].name = "move_to" => evs[i].name = "move_from"
      BY <2>4, <2>5
  <2> QED BY <2>1, <2>2, <2>3, <2>5, <2>6
<1>4. 1 \in 1 .. n /\ Ok(1) /\ 1 + 1 = 2 /\ 2 - 1 = 1
    BY <1>1, <1>2
<1>5. t # <<>> => Ok(2)
    BY <1>1, <1>2
<1>6. DelEvents \cap AddNames = {}
    BY DEF DelEvents, AddNames
<1> HIDE DEF t, n
<1>7. Head(evs).name \in AddNames /\ Head(evs).key \notin ks[Head(evs).db] =>
                 /\ t # <<>>
                 /\ t[Len(t)].name \in DelEvents
                 /\ t[Len(t)].db = Head(evs).db
                 /\ t[Len(t)].key = Head(evs).key
  <2> SUFFICES ASSUME evs[1].name \in AddNames, evs[1].key \notin ks[evs[1].db]
               PROVE /\ t # <<>>
                     /\ t[Len(t)].name \in DelEvents
                     /\ t[Len(t)].db = evs[1].db
                     /\ t[Len(t)].key = evs[1].key
      BY <1>2
  <2>1. evs[n].name \in DelEvents /\ evs[n].db = evs[1].db /\ evs[n].key = evs[1].key
      BY <1>4
  <2>2. n # 1
      BY <1>6, <2>1
  <2> QED BY <1>2, <2>1, <2>2
<1>8. /\ Head(evs).name = "rename_from" => Head(t).db = Head(evs).db
      /\ Head(evs).name = "move_from" =>
            t # <<>> /\ Head(t).name = "move_to" /\ Head(t).key = Head(evs).key
  <2>1. 1 < n => t # <<>> /\ Head(t) = evs[2]
      BY <1>2
  <2> QED BY <1>2, <1>4, <2>1
<1>9. t # <<>> /\ Head(t).name = "move_to" => Head(evs).name = "move_from"
  <2>1. 2 > 1
      OBVIOUS
  <2> QED BY <1>2, <1>4, <1>5, <2>1
<1> QED BY <1>2, <1>3, <1>4, <1>7, <1>8, <1>9 DEF t

-----------------------------------------------------------------------------
(* The empty index of Slots_Init.                                          *)
LEMMA InitExact == Init => ExactInv
<1> SUFFICES ASSUME Init PROVE ExactInv
    OBVIOUS
<1> USE IndexAssumption DEF Init, Slots_Init, EmptyTables, EmptyDbs
<1>1. DelsAreGone
    BY DEF DelsAreGone, Truthful, HalfDels
<1>2. InOwnSlot
    BY DEF InOwnSlot
<1>3. Repaired
    BY DEF Repaired, InTable
<1> QED BY <1>1, <1>2, <1>3 DEF ExactInv

(* The events announce every key that the command adds or removes.         *)
Announced(evs, ks) ==
    \A d \in Dbs, k \in Keys :
        /\ k \in ks[d] /\ k \notin keyspace[d] =>
              \E i \in 1 .. Len(evs) : EvAdds(evs[i], d, k)
        /\ k \in keyspace[d] /\ k \notin ks[d] =>
              \E i \in 1 .. Len(evs) : EvDels(evs[i], d, k)

(* Between commands the index of a server without foreign commands is      *)
(* exact but for keys restored and not notified yet.                       *)
LEMMA IdleExact ==
    ASSUME Repaired, Idle, foreign = 0, NEW d \in Dbs, NEW k \in Keys
    PROVE  /\ InTable(d, k) => k \in keyspace[d]
           /\ k \in keyspace[d] /\ ~InTable(d, k) => Outstanding(d, k)
<1> USE DEF Idle, CallbackDone
<1>1. PendAdd(d, k) => Outstanding(d, k)
    BY DEF PendAdd, Outstanding
<1>2. ~PendDel(d, k)
    BY DEF PendDel, HalfDels
<1> QED BY <1>1, <1>2 DEF Repaired

(* The same of keys that were or are waiting for their notifyOne.          *)
AnnouncedOrWaiting(evs, ks) ==
    \A d \in Dbs, k \in Keys :
        /\ k \in ks[d] /\ (k \notin keyspace[d] \/ Outstanding(d, k)) =>
              \/ Outstanding(d, k)'
              \/ \E i \in 1 .. Len(evs) : EvAdds(evs[i], d, k)
        /\ k \in keyspace[d] /\ k \notin ks[d] =>
              \E i \in 1 .. Len(evs) : EvDels(evs[i], d, k)

(* A command whose events tell the truth about the keyspace it leaves.     *)
LEMMA RaiseExact ==
    ASSUME IInv, ExactInv,
           NEW c, NEW ks \in [Dbs -> SUBSET Keys], NEW evs,
           WellFormed(evs), Truthful(evs, ks),
           evs # <<>> => Head(evs).name # "move_to",
           c \in ForeignCommands \/ AnnouncedOrWaiting(evs, ks),
           Raise(c, ks, evs)
    PROVE  ExactInv'
<1> USE DEF Raise, CanRun, index, progress, pair_stat
<1>1. ~(evs # <<>> /\ Head(evs).name \in {"rename_to", "move_to"})
    BY DEF WellFormed
<1>2. DelsAreGone'
  <2>1. Truthful(events', keyspace')
      OBVIOUS
  <2>2. \A d \in Dbs, k \in Keys : ~HalfDels(d, k)'
      BY <1>1 DEF HalfDels
  <2>3. calls' = <<>>
      BY DEF Idle, CallbackDone
  <2> QED BY <2>1, <2>2, <2>3 DEF DelsAreGone
<1>3. InOwnSlot'
    BY DEF InOwnSlot, ExactInv
<1>4. Repaired'
  <2> SUFFICES ASSUME foreign' = 0, NEW d \in Dbs, NEW k \in Keys
      PROVE  /\ k \in ks[d] /\ ~InTable(d, k) => PendAdd(d, k)'
             /\ k \notin ks[d] /\ InTable(d, k) => PendDel(d, k)'
      BY DEF Repaired, InTable
  <2>1. foreign = 0 /\ c \notin ForeignCommands
      BY DEF IInv, TypeOK
  <2>2. /\ InTable(d, k) => k \in keyspace[d]
        /\ k \in keyspace[d] /\ ~InTable(d, k) => Outstanding(d, k)
      BY <2>1, IdleExact DEF ExactInv
  <2>3. ASSUME k \in ks[d], ~InTable(d, k) PROVE PendAdd(d, k)'
    <3>1. \/ Outstanding(d, k)'
          \/ \E i \in 1 .. Len(evs) : EvAdds(evs[i], d, k)
        BY <2>1, <2>2, <2>3 DEF AnnouncedOrWaiting
    <3> QED BY <3>1 DEF PendAdd, Outstanding
  <2>4. ASSUME k \notin ks[d], InTable(d, k) PROVE PendDel(d, k)'
      BY <2>1, <2>2, <2>4 DEF AnnouncedOrWaiting, PendDel, EvDels
  <2> QED BY <2>3, <2>4
<1> QED BY <1>2, <1>3, <1>4 DEF ExactInv

LEMMA CommandExact ==
    ASSUME IInv, ExactInv,
           NEW c, NEW ks \in [Dbs -> SUBSET Keys], NEW evs,
           WellFormed(evs), Truthful(evs, ks),
           evs # <<>> => Head(evs).name # "move_to",
           c \in ForeignCommands \/ Announced(evs, ks),
           Command(c, ks, evs)
    PROVE  ExactInv'
<1>1. \A d, k : Outstanding(d, k)' <=> Outstanding(d, k)
    BY DEF Command, Outstanding
<1>2. c \in ForeignCommands \/ AnnouncedOrWaiting(evs, ks)
    BY <1>1 DEF Announced, AnnouncedOrWaiting
<1> QED BY <1>2, RaiseExact, Zenon DEF Command

(* The event sequences of the commands are truthful about the keyspace.    *)
LEMMA TruthfulSequences ==
    ASSUME NEW ks, NEW d, NEW e, NEW j, NEW k
    PROVE  /\ Truthful(<<>>, ks)
           /\ Truthful(<<Ev("other", d, k)>>, ks)
           /\ k \in ks[d] => /\ Truthful(<<Ev("typed", d, k)>>, ks)
                             /\ Truthful(<<Ev("loaded", d, k)>>, ks)
                             /\ Truthful(<<Ev("other", d, k), Ev("typed", d, k)>>, ks)
           /\ k \notin ks[d] =>
                 /\ Truthful(<<Ev("del", d, k)>>, ks)
                 /\ Truthful(<<Ev("expired", d, k)>>, ks)
                 /\ Truthful(<<Ev("typed", d, k), Ev("del", d, k)>>, ks)
                 /\ j \in ks[d] =>
                       /\ Truthful(<<Ev("typed", d, j), Ev("typed", d, k),
                                     Ev("del", d, k)>>, ks)
                       /\ Truthful(<<Ev("rename_from", d, k),
                                     Ev("rename_to", d, j)>>, ks)
                 /\ k \in ks[e] =>
                       Truthful(<<Ev("move_from", d, k), Ev("move_to", e, k)>>, ks)
<1> USE DEF Truthful, Ev, AddNames, DelNames, DelEvents
<1>1. /\ Truthful(<<>>, ks) /\ Truthful(<<Ev("other", d, k)>>, ks)
      /\ k \in ks[d] => /\ Truthful(<<Ev("typed", d, k)>>, ks)
                        /\ Truthful(<<Ev("loaded", d, k)>>, ks)
      /\ k \notin ks[d] => /\ Truthful(<<Ev("del", d, k)>>, ks)
                           /\ Truthful(<<Ev("expired", d, k)>>, ks)
    OBVIOUS
<1>2. k \in ks[d] => Truthful(<<Ev("other", d, k), Ev("typed", d, k)>>, ks)
    OBVIOUS
<1>3. k \notin ks[d] => Truthful(<<Ev("typed", d, k), Ev("del", d, k)>>, ks)
    OBVIOUS
<1>4. k \notin ks[d] /\ j \in ks[d] =>
        Truthful(<<Ev("typed", d, j), Ev("typed", d, k), Ev("del", d, k)>>, ks)
    OBVIOUS
<1>5. k \notin ks[d] /\ j \in ks[d] =>
        Truthful(<<Ev("rename_from", d, k), Ev("rename_to", d, j)>>, ks)
    OBVIOUS
<1>6. k \notin ks[d] /\ k \in ks[e] =>
        Truthful(<<Ev("move_from", d, k), Ev("move_to", e, k)>>, ks)
    OBVIOUS
<1> HIDE DEF Truthful, Ev
<1> QED BY <1>1, <1>2, <1>3, <1>4, <1>5, <1>6

(* An announced change: the named event is in the sequence.                *)
LEMMA AnnouncedBy ==
    ASSUME NEW evs, NEW ks, NEW m \in 1 .. Len(evs), NEW n \in 1 .. Len(evs),
           \A d \in Dbs, k \in Keys :
               /\ k \in ks[d] /\ k \notin keyspace[d] => EvAdds(evs[m], d, k)
               /\ k \in keyspace[d] /\ k \notin ks[d] => EvDels(evs[n], d, k)
    PROVE  Announced(evs, ks)
BY DEF Announced

(* Commands that change one database and announce it.                      *)
LEMMA ClientExact == IInv /\ ExactInv /\ Client => ExactInv'
<1> SUFFICES ASSUME IInv, ExactInv, Client PROVE ExactInv'
    OBVIOUS
<1> USE IndexAssumption
<1>ks. keyspace \in [Dbs -> SUBSET Keys]
    BY DEF IInv, TypeOK
<1>ev. ASSUME NEW d \in Dbs, NEW k \in Keys, NEW n
       PROVE  /\ Ev(n, d, k).name = n /\ Ev(n, d, k).db = d /\ Ev(n, d, k).key = k
              /\ n \in AddNames => EvAdds(Ev(n, d, k), d, k)
              /\ n \in DelNames => EvDels(Ev(n, d, k), d, k)
    BY DEF Ev, EvAdds, EvDels
<1>1. ASSUME NEW d \in Dbs, NEW k \in Keys, Write(d, k) \/ SlotsRestore(d, k)
      PROVE  ExactInv'
  <2> DEFINE ks == [keyspace EXCEPT ![d] = @ \cup {k}]
             one == <<Ev("typed", d, k)>>
             two == <<Ev("other", d, k), Ev("typed", d, k)>>
  <2>1. ks \in [Dbs -> SUBSET Keys] /\ k \in ks[d]
      BY <1>ks
  <2>2. \A f \in Dbs, x \in Keys :
          /\ x \in ks[f] /\ x \notin keyspace[f] => f = d /\ x = k
          /\ x \in keyspace[f] => x \in ks[f]
      BY <1>ks
  <2>3. Announced(one, ks)
    <3>1. Len(one) = 1 /\ one[1] = Ev("typed", d, k) /\ EvAdds(one[1], d, k)
        BY <1>ev DEF AddNames
    <3> HIDE DEF one, ks
    <3> QED BY <2>2, <3>1, AnnouncedBy
  <2>4. Announced(two, ks)
    <3>1. Len(two) = 2 /\ two[2] = Ev("typed", d, k) /\ EvAdds(two[2], d, k)
        BY <1>ev DEF AddNames
    <3> HIDE DEF two, ks
    <3>2. 2 \in 1 .. Len(two)
        BY <3>1
    <3>3. \A f \in Dbs, x \in Keys :
            /\ x \in ks[f] /\ x \notin keyspace[f] => EvAdds(two[2], f, x)
            /\ x \in keyspace[f] /\ x \notin ks[f] => EvDels(two[2], f, x)
        BY <2>2, <3>1
    <3> QED BY <3>2, <3>3, AnnouncedBy
  <2>5. Head(one).name = "typed" /\ Head(two).name = "other"
      BY <1>ev
  <2>6. /\ WellFormed(one) /\ WellFormed(two)
        /\ Truthful(one, ks) /\ Truthful(two, ks)
      BY <2>1, EventSequences, TruthfulSequences
  <2> HIDE DEF ks, one, two
  <2>7. CASE Write(d, k)
    <3>1. Command("write", ks, one)
        BY <2>7 DEF Write, ks, one
    <3> QED BY <2>1, <2>3, <2>5, <2>6, <3>1, CommandExact
  <2>8. CASE SlotsRestore(d, k)
    <3>1. Command("slotsrestore", ks, two)
        BY <2>8 DEF SlotsRestore, ks, two
    <3> QED BY <2>1, <2>4, <2>5, <2>6, <3>1, CommandExact
  <2> QED BY <1>1, <2>7, <2>8
<1>13. ASSUME NEW w \in RestoreThreads, NEW d \in Dbs, NEW k \in Keys,
              RestoreOneWithReplace(w, d, k)
       PROVE  ExactInv'
  <2> DEFINE ks == [keyspace EXCEPT ![d] = @ \cup {k}]
             one == <<Ev("other", d, k)>>
  <2>1. ks \in [Dbs -> SUBSET Keys]
      BY <1>ks
  <2>2. \A f \in Dbs, x \in Keys :
          /\ x \in ks[f] /\ x \notin keyspace[f] => f = d /\ x = k
          /\ x \in keyspace[f] => x \in ks[f]
      BY <1>ks
  <2>3. restored' = restored \cup {<<w, d, k>>}
      BY <1>13 DEF RestoreOneWithReplace
  <2>4. /\ Outstanding(d, k)'
        /\ \A f, x : Outstanding(f, x) => Outstanding(f, x)'
      BY <2>3 DEF Outstanding
  <2>5. Head(one).name = "other"
      BY <1>ev
  <2>6. WellFormed(one) /\ Truthful(one, ks)
      BY EventSequences, TruthfulSequences
  <2>7. Raise("slotsrestore_async", ks, one)
      BY <1>13 DEF RestoreOneWithReplace
  <2> HIDE DEF ks, one
  <2>8. AnnouncedOrWaiting(one, ks)
      BY <2>2, <2>4 DEF AnnouncedOrWaiting
  <2> QED BY <2>1, <2>5, <2>6, <2>7, <2>8, RaiseExact
<1>14. ASSUME NEW w \in RestoreThreads, NEW d \in Dbs, NEW k \in Keys,
              NotifyOne(w, d, k)
       PROVE  ExactInv'
  <2> DEFINE evs == TypeEvents(d, k)
  <2>1. Raise("slotsrestore_async", keyspace, evs)
      BY <1>14 DEF NotifyOne
  <2>2. restored' = restored \ {<<w, d, k>>}
      BY <1>14 DEF NotifyOne
  <2>3. \A f, x : Outstanding(f, x) => Outstanding(f, x)' \/ (f = d /\ x = k)
      BY <2>2 DEF Outstanding
  <2>4. k \in keyspace[d] => evs = <<Ev("typed", d, k)>>
      BY DEF TypeEvents
  <2>5. k \notin keyspace[d] => evs = <<>>
      BY DEF TypeEvents
  <2>6. WellFormed(evs) /\ Truthful(evs, keyspace)
    <3> HIDE DEF evs
    <3>1. CASE k \in keyspace[d]
      <4>1. WellFormed(<<Ev("typed", d, k)>>) /\ Truthful(<<Ev("typed", d, k)>>, keyspace)
          BY <3>1, EventSequences, TruthfulSequences, Zenon
      <4> QED BY <2>4, <3>1, <4>1, Zenon
    <3>2. CASE k \notin keyspace[d]
      <4>1. WellFormed(<<>>) /\ Truthful(<<>>, keyspace)
          BY EventSequences, TruthfulSequences, Zenon
      <4> QED BY <2>5, <3>2, <4>1, Zenon
    <3> QED BY <3>1, <3>2
  <2>7. evs # <<>> => Head(evs).name # "move_to"
      BY <1>ev, <2>4, <2>5
  <2>8. k \in keyspace[d] => 1 \in 1 .. Len(evs) /\ EvAdds(evs[1], d, k)
      BY <1>ev, <2>4 DEF AddNames
  <2> HIDE DEF evs
  <2>9. AnnouncedOrWaiting(evs, keyspace)
      BY <2>3, <2>8 DEF AnnouncedOrWaiting
  <2> QED BY <1>ks, <2>1, <2>6, <2>7, <2>9, RaiseExact
<1>2. ASSUME NEW d \in Dbs, NEW k \in Keys, Pop(d, k) \/ Del(d, k) \/ Expired(d, k)
      PROVE  ExactInv'
  <2> DEFINE ks == [keyspace EXCEPT ![d] = @ \ {k}]
             del == <<Ev("del", d, k)>>
             exp == <<Ev("expired", d, k)>>
             two == <<Ev("typed", d, k), Ev("del", d, k)>>
  <2>1. ks \in [Dbs -> SUBSET Keys] /\ k \notin ks[d]
      BY <1>ks
  <2>2. \A f \in Dbs, x \in Keys :
          /\ x \in keyspace[f] /\ x \notin ks[f] => f = d /\ x = k
          /\ x \in ks[f] => x \in keyspace[f]
      BY <1>ks
  <2>3. Announced(del, ks)
    <3>1. Len(del) = 1 /\ EvDels(del[1], d, k)
        BY <1>ev DEF DelNames
    <3> HIDE DEF del, ks
    <3> QED BY <2>2, <3>1, AnnouncedBy
  <2>4. Announced(exp, ks)
    <3>1. Len(exp) = 1 /\ EvDels(exp[1], d, k)
        BY <1>ev DEF DelNames
    <3> HIDE DEF exp, ks
    <3> QED BY <2>2, <3>1, AnnouncedBy
  <2>5. Announced(two, ks)
    <3>1. Len(two) = 2 /\ EvDels(two[2], d, k)
        BY <1>ev DEF DelNames
    <3> HIDE DEF two, ks
    <3>2. 2 \in 1 .. Len(two)
        BY <3>1
    <3>3. \A f \in Dbs, x \in Keys :
            /\ x \in ks[f] /\ x \notin keyspace[f] => EvAdds(two[2], f, x)
            /\ x \in keyspace[f] /\ x \notin ks[f] => EvDels(two[2], f, x)
        BY <2>2, <3>1
    <3> QED BY <3>2, <3>3, AnnouncedBy
  <2>6. Head(del).name = "del" /\ Head(exp).name = "expired" /\ Head(two).name = "typed"
      BY <1>ev
  <2>7. /\ WellFormed(del) /\ WellFormed(exp) /\ WellFormed(two)
        /\ Truthful(del, ks) /\ Truthful(exp, ks) /\ Truthful(two, ks)
      BY <2>1, EventSequences, TruthfulSequences
  <2> HIDE DEF ks, del, exp, two
  <2>8. CASE Pop(d, k)
    <3>1. Command("pop", ks, two)
        BY <2>8 DEF Pop, ks, two
    <3> QED BY <2>1, <2>5, <2>6, <2>7, <3>1, CommandExact
  <2>9. CASE Del(d, k)
    <3>1. Command("del", ks, del)
        BY <2>9 DEF Del, ks, del
    <3> QED BY <2>1, <2>3, <2>6, <2>7, <3>1, CommandExact
  <2>10. CASE Expired(d, k)
    <3>1. Command("expired", ks, exp)
        BY <2>10 DEF Expired, ks, exp
    <3> QED BY <2>1, <2>4, <2>6, <2>7, <3>1, CommandExact
  <2> QED BY <1>2, <2>8, <2>9, <2>10
<1>3. ASSUME NEW d \in Dbs, NEW k \in Keys, Touch(d, k) \/ Restore(d, k) \/ Evict(d, k)
      PROVE  ExactInv'
  <2> DEFINE one == <<Ev("other", d, k)>>
  <2>1. /\ [keyspace EXCEPT ![d] = @ \cup {k}] \in [Dbs -> SUBSET Keys]
        /\ [keyspace EXCEPT ![d] = @ \ {k}] \in [Dbs -> SUBSET Keys]
      BY <1>ks
  <2>2. Head(one).name = "other"
      BY <1>ev
  <2>3. /\ WellFormed(one) /\ WellFormed(<<>>)
        /\ \A ks : Truthful(one, ks) /\ Truthful(<<>>, ks)
      BY EventSequences, TruthfulSequences
  <2>4. Announced(one, keyspace)
      BY DEF Announced
  <2>5. "restore" \in ForeignCommands /\ "evict" \in ForeignCommands
      BY DEF ForeignCommands
  <2> HIDE DEF one
  <2>6. CASE Touch(d, k)
    <3>1. Command("touch", keyspace, one)
        BY <2>6 DEF Touch, one
    <3> QED BY <1>ks, <2>2, <2>3, <2>4, <3>1, CommandExact
  <2>7. CASE Restore(d, k)
    <3>1. Command("restore", [keyspace EXCEPT ![d] = @ \cup {k}], one)
        BY <2>7 DEF Restore, one
    <3> QED BY <2>1, <2>2, <2>3, <2>5, <3>1, CommandExact
  <2>8. CASE Evict(d, k)
    <3>1. Command("evict", [keyspace EXCEPT ![d] = @ \ {k}], <<>>)
        BY <2>8 DEF Evict
    <3> QED BY <2>1, <2>3, <2>5, <3>1, CommandExact
  <2> QED BY <1>3, <2>6, <2>7, <2>8
<1>4. ASSUME NEW d \in Dbs, NEW k \in Keys, NEW j \in Keys,
             LMove(d, k, j) \/ Rename(d, k, j)
      PROVE  ExactInv'
  <2> DEFINE ks == [keyspace EXCEPT ![d] = (@ \ {k}) \cup {j}]
             three == <<Ev("typed", d, j), Ev("typed", d, k), Ev("del", d, k)>>
             pair == <<Ev("rename_from", d, k), Ev("rename_to", d, j)>>
  <2>0. j # k
      BY <1>4 DEF LMove, Rename
  <2>1. ks \in [Dbs -> SUBSET Keys] /\ k \notin ks[d] /\ j \in ks[d]
      BY <1>ks, <2>0
  <2>2. \A f \in Dbs, x \in Keys :
          /\ x \in keyspace[f] /\ x \notin ks[f] => f = d /\ x = k
          /\ x \in ks[f] /\ x \notin keyspace[f] => f = d /\ x = j
      BY <1>ks
  <2>3. Announced(three, ks)
    <3>1. Len(three) = 3 /\ EvAdds(three[1], d, j) /\ EvDels(three[3], d, k)
        BY <1>ev DEF AddNames, DelNames
    <3> HIDE DEF three, ks
    <3>2. 1 \in 1 .. Len(three) /\ 3 \in 1 .. Len(three)
        BY <3>1
    <3>3. \A f \in Dbs, x \in Keys :
            /\ x \in ks[f] /\ x \notin keyspace[f] => EvAdds(three[1], f, x)
            /\ x \in keyspace[f] /\ x \notin ks[f] => EvDels(three[3], f, x)
        BY <2>2, <3>1
    <3> QED BY <3>2, <3>3, AnnouncedBy, Zenon
  <2>4. Announced(pair, ks)
    <3>1. Len(pair) = 2 /\ EvAdds(pair[2], d, j) /\ EvDels(pair[1], d, k)
        BY <1>ev DEF AddNames, DelNames
    <3> HIDE DEF pair, ks
    <3>2. 2 \in 1 .. Len(pair) /\ 1 \in 1 .. Len(pair)
        BY <3>1
    <3>3. \A f \in Dbs, x \in Keys :
            /\ x \in ks[f] /\ x \notin keyspace[f] => EvAdds(pair[2], f, x)
            /\ x \in keyspace[f] /\ x \notin ks[f] => EvDels(pair[1], f, x)
        BY <2>2, <3>1
    <3> QED BY <3>2, <3>3, AnnouncedBy, Zenon
  <2>5. Head(three).name = "typed" /\ Head(pair).name = "rename_from"
      BY <1>ev
  <2>6. /\ WellFormed(three) /\ WellFormed(pair)
        /\ Truthful(three, ks) /\ Truthful(pair, ks)
      BY <2>1, EventSequences, TruthfulSequences
  <2> HIDE DEF ks, three, pair
  <2>7. CASE LMove(d, k, j)
    <3>1. Command("lmove", ks, three)
        BY <2>7 DEF LMove, ks, three
    <3> QED BY <2>1, <2>3, <2>5, <2>6, <3>1, CommandExact
  <2>8. CASE Rename(d, k, j)
    <3>1. Command("rename", ks, pair)
        BY <2>8 DEF Rename, ks, pair
    <3> QED BY <2>1, <2>4, <2>5, <2>6, <3>1, CommandExact
  <2> QED BY <1>4, <2>7, <2>8
<1>5. ASSUME NEW d \in Dbs, NEW k \in Keys, NEW j \in Keys, Copy(d, k, j)
      PROVE  ExactInv'
  <2> DEFINE ks == [keyspace EXCEPT ![d] = @ \cup {j}]
             one == <<Ev("other", d, j)>>
  <2>1. ks \in [Dbs -> SUBSET Keys]
      BY <1>ks
  <2>2. WellFormed(one) /\ Truthful(one, ks)
      BY EventSequences, TruthfulSequences
  <2>3. Head(one).name = "other"
      BY <1>ev
  <2>4. Command("copy", ks, one) /\ "copy" \in ForeignCommands
      BY <1>5 DEF Copy, ForeignCommands
  <2> HIDE DEF ks, one
  <2> QED BY <2>1, <2>2, <2>3, <2>4, CommandExact
<1>6. ASSUME NEW d \in Dbs, NEW e \in Dbs, SwapDb(d, e)
      PROVE  ExactInv'
  <2> DEFINE ks == [keyspace EXCEPT ![d] = keyspace[e], ![e] = keyspace[d]]
  <2>1. ks \in [Dbs -> SUBSET Keys]
      BY <1>ks
  <2>2. WellFormed(<<>>) /\ Truthful(<<>>, ks)
      BY DEF WellFormed, Shape, Truthful
  <2>3. Command("swapdb", ks, <<>>) /\ "swapdb" \in ForeignCommands
      BY <1>6 DEF SwapDb, ForeignCommands
  <2> HIDE DEF ks
  <2> QED BY <2>1, <2>2, <2>3, CommandExact
<1>7. ASSUME NEW d \in Dbs, NEW e \in Dbs, NEW k \in Keys, Move(d, e, k)
      PROVE  ExactInv'
  <2> DEFINE ks == [keyspace EXCEPT ![d] = @ \ {k}, ![e] = @ \cup {k}]
             pair == <<Ev("move_from", d, k), Ev("move_to", e, k)>>
  <2>0. d # e
      BY <1>7 DEF Move
  <2>1. ks \in [Dbs -> SUBSET Keys] /\ k \notin ks[d] /\ k \in ks[e]
      BY <1>ks, <2>0
  <2>2. \A f \in Dbs, x \in Keys :
          /\ x \in keyspace[f] /\ x \notin ks[f] => f = d /\ x = k
          /\ x \in ks[f] /\ x \notin keyspace[f] => f = e /\ x = k
      BY <1>ks, <2>0
  <2>3. Announced(pair, ks)
    <3>1. Len(pair) = 2 /\ EvAdds(pair[2], e, k) /\ EvDels(pair[1], d, k)
        BY <1>ev DEF AddNames, DelNames
    <3> HIDE DEF pair, ks
    <3>2. 2 \in 1 .. Len(pair) /\ 1 \in 1 .. Len(pair)
        BY <3>1
    <3>3. \A f \in Dbs, x \in Keys :
            /\ x \in ks[f] /\ x \notin keyspace[f] => EvAdds(pair[2], f, x)
            /\ x \in keyspace[f] /\ x \notin ks[f] => EvDels(pair[1], f, x)
        BY <2>2, <3>1
    <3> QED BY <3>2, <3>3, AnnouncedBy, Zenon
  <2>4. WellFormed(pair) /\ Truthful(pair, ks)
      BY <2>1, EventSequences, TruthfulSequences
  <2>5. Head(pair).name = "move_from"
      BY <1>ev
  <2>6. Command("move", ks, pair)
      BY <1>7 DEF Move
  <2> HIDE DEF ks, pair
  <2> QED BY <2>1, <2>3, <2>4, <2>5, <2>6, CommandExact
<1>8. ASSUME NEW c, NEW F \in SUBSET Dbs, Flush(c, F)
      PROVE  ExactInv'
  <2> USE <1>8 DEF Flush, FlushdbCallback, progress, pair_stat
  <2>0. events' = <<>> /\ calls' = <<>>
      BY DEF CanRun, Idle, CallbackDone
  <2>1. DelsAreGone'
      BY <2>0 DEF DelsAreGone, Truthful, HalfDels
  <2>2. InOwnSlot'
      BY DEF InOwnSlot, ExactInv, EmptyTables
  <2>3. Repaired'
    <3> SUFFICES ASSUME foreign = 0, NEW d \in Dbs, NEW k \in Keys
                 PROVE  /\ InTable(d, k)' => k \in keyspace'[d]
                        /\ k \in keyspace'[d] /\ ~InTable(d, k)' => PendAdd(d, k)'
        BY DEF Repaired
    <3>1. /\ InTable(d, k) => k \in keyspace[d]
          /\ k \in keyspace[d] /\ ~InTable(d, k) => Outstanding(d, k)
        BY IdleExact DEF ExactInv, CanRun
    <3>2. CASE d \in F
        BY <3>2 DEF InTable, EmptyTables
    <3>3. CASE d \notin F
      <4>1. Outstanding(d, k) => PendAdd(d, k)'
          BY DEF Outstanding, PendAdd
      <4> QED BY <3>1, <3>3, <4>1 DEF InTable
    <3> QED BY <3>2, <3>3
  <2> QED BY <2>1, <2>2, <2>3 DEF ExactInv
<1>9. ASSUME Save
      PROVE  ExactInv'
    BY <1>9 DEF Save, index, progress, pair_stat, ExactInv, DelsAreGone,
                Truthful, HalfDels, InOwnSlot, Repaired, InTable, PendAdd, PendDel
<1>10. ASSUME OnLoad, events' = <<>>, foreign' # 0 \/ keyspace' = EmptyDbs
       PROVE  ExactInv'
  <2> USE <1>10 DEF OnLoad
  <2>1. DelsAreGone'
      BY DEF DelsAreGone, Truthful, HalfDels
  <2>2. InOwnSlot'
      BY DEF InOwnSlot, EmptyTables
  <2>3. Repaired'
      BY DEF Repaired, InTable, EmptyTables, EmptyDbs
  <2> QED BY <2>1, <2>2, <2>3 DEF ExactInv
<1>11. CASE Restart
    BY <1>10, <1>11 DEF Restart
<1>12. CASE ModuleLoad
  <2>1. OnLoad /\ events' = <<>> /\ foreign' = foreign + 1
      BY <1>12 DEF ModuleLoad, CanRun, Idle
  <2>2. foreign' # 0
      BY <2>1 DEF IInv, TypeOK
  <2> QED BY <1>10, <2>1, <2>2
<1> QED
    BY <1>1, <1>2, <1>3, <1>4, <1>5, <1>6, <1>7, <1>8, <1>9, <1>11, <1>12, <1>13,
       <1>14 DEF Client

(* Loading one key of the RDB: its "loaded" event announces it.            *)
LEMMA LoadExact == IInv /\ ExactInv /\ Load => ExactInv'
<1> SUFFICES ASSUME IInv, ExactInv, NEW d \in Dbs, NEW k \in Keys, LoadKey(d, k)
             PROVE  ExactInv'
    BY DEF Load
<1> USE DEF LoadKey, index, progress, pair_stat
<1>1. keyspace \in [Dbs -> SUBSET Keys] /\ k \in keyspace'[d]
    BY DEF IInv, TypeOK
<1>2. /\ events' = <<Ev("loaded", d, k)>> /\ Len(events') = 1
      /\ EvAdds(events'[1], d, k) /\ Head(events').name = "loaded"
    BY DEF Ev, EvAdds, AddNames
<1>3. DelsAreGone'
  <2>1. Truthful(events', keyspace')
      BY <1>1, TruthfulSequences
  <2>2. \A f \in Dbs, x \in Keys : ~HalfDels(f, x)'
      BY <1>2 DEF HalfDels
  <2>3. calls' = <<>>
      BY DEF Idle, CallbackDone
  <2> QED BY <2>1, <2>2, <2>3 DEF DelsAreGone
<1>4. InOwnSlot'
    BY DEF InOwnSlot, ExactInv
<1>5. Repaired'
  <2> SUFFICES ASSUME foreign = 0, NEW f \in Dbs, NEW x \in Keys
      PROVE  /\ x \in keyspace'[f] /\ ~InTable(f, x) => PendAdd(f, x)'
             /\ x \notin keyspace'[f] /\ InTable(f, x) => PendDel(f, x)'
      BY DEF Repaired, InTable
  <2>1. /\ InTable(f, x) => x \in keyspace[f]
        /\ x \in keyspace[f] /\ ~InTable(f, x) => Outstanding(f, x)
      BY IdleExact DEF ExactInv
  <2>5. Outstanding(f, x) => PendAdd(f, x)'
      BY DEF Outstanding, PendAdd
  <2>2. PendAdd(d, k)'
      BY <1>2 DEF PendAdd
  <2>3. x \in keyspace[f] => x \in keyspace'[f]
      BY <1>1
  <2>4. x \in keyspace'[f] => x \in keyspace[f] \/ (f = d /\ x = k)
      BY <1>1
  <2> QED BY <2>1, <2>2, <2>3, <2>4, <2>5
<1> QED BY <1>3, <1>4, <1>5 DEF ExactInv

(* Delivering the first event: what is pending is either still pending or  *)
(* belongs to this event.                                                  *)
LEMMA PendTail ==
    ASSUME NEW evs \in Seq(Event), evs # <<>>, NEW d, NEW k
    PROVE  /\ (\E i \in 1 .. Len(evs) : EvAdds(evs[i], d, k)) =>
                 \/ EvAdds(Head(evs), d, k)
                 \/ \E i \in 1 .. Len(Tail(evs)) : EvAdds(Tail(evs)[i], d, k)
           /\ (\E i \in 1 .. Len(evs) : EvDels(evs[i], d, k)) =>
                 \/ EvDels(Head(evs), d, k)
                 \/ \E i \in 1 .. Len(Tail(evs)) : EvDels(Tail(evs)[i], d, k)
<1>1. /\ Head(evs) = evs[1] /\ Len(evs) \in Nat \ {0}
      /\ \A i \in 2 .. Len(evs) : i - 1 \in 1 .. Len(Tail(evs)) /\ Tail(evs)[i - 1] = evs[i]
    BY TailFacts
<1>2. \A i \in 1 .. Len(evs) : i = 1 \/ i \in 2 .. Len(evs)
    BY <1>1
<1>3. ASSUME NEW i \in 1 .. Len(evs), EvAdds(evs[i], d, k)
      PROVE  \/ EvAdds(Head(evs), d, k)
             \/ \E j \in 1 .. Len(Tail(evs)) : EvAdds(Tail(evs)[j], d, k)
  <2>1. CASE i = 1
      BY <1>1, <1>3, <2>1
  <2>2. CASE i \in 2 .. Len(evs)
      BY <1>1, <1>3, <2>2
  <2> QED BY <1>2, <2>1, <2>2
<1>4. ASSUME NEW i \in 1 .. Len(evs), EvDels(evs[i], d, k)
      PROVE  \/ EvDels(Head(evs), d, k)
             \/ \E j \in 1 .. Len(Tail(evs)) : EvDels(Tail(evs)[j], d, k)
  <2>1. CASE i = 1
      BY <1>1, <1>4, <2>1
  <2>2. CASE i \in 2 .. Len(evs)
      BY <1>1, <1>4, <2>2
  <2> QED BY <1>2, <2>1, <2>2
<1> QED BY <1>3, <1>4

(* Callbacks that turn the first event into one call.                      *)
LEMMA OneCallExact ==
    ASSUME IInv, ExactInv,
           NEW op \in {"add", "del"}, NEW names,
           \/ op = "add" /\ names = TypeChangeEvents
           \/ op = "del" /\ names = DelEvents,
           Deliver(names), calls' = <<Do(op, Head(events).db, Head(events).key)>>,
           UNCHANGED <<server, index, zsl, in_pair, pair_stat>>
    PROVE  ExactInv'
<1> DEFINE e == Head(events)
<1> USE DEF Deliver, CallbackDone, server, index, pair_stat
<1>1. /\ events \in Seq(Event) /\ events # <<>> /\ events' = Tail(events)
      /\ Shape(events) /\ Truthful(events, keyspace) /\ calls = <<>>
    BY DEF IInv, TypeOK, PairInv, ExactInv, DelsAreGone
<1>2. /\ e \in Event
      /\ Tail(events) # <<>> => (Head(Tail(events)).name = "rename_to" =>
                                    e.name = "rename_from")
    BY <1>1, TailShape
<1>3. /\ Truthful(Tail(events), keyspace)
      /\ e.name \in DelNames => e.key \notin keyspace[e.db]
      /\ e.name \in AddNames /\ e.key \notin keyspace[e.db] =>
            /\ Tail(events) # <<>>
            /\ Tail(events)[Len(Tail(events))].name \in DelEvents
            /\ Tail(events)[Len(Tail(events))].db = e.db
            /\ Tail(events)[Len(Tail(events))].key = e.key
      /\ Tail(events) # <<>> /\ Head(Tail(events)).name = "move_to" =>
            e.name = "move_from"
    BY <1>1, TailTruthful
<1>4. /\ op = "add" => e.name \in AddNames /\ e.name \notin DelNames
      /\ op = "del" => e.name \in DelNames /\ e.name \notin AddNames
      /\ e.name \notin {"rename_from", "move_from", "rename_to", "move_to"}
    BY DEF TypeChangeEvents, DelEvents, AddNames, DelNames
<1>5. /\ Len(calls') = 1 /\ calls'[1].op = op
      /\ calls'[1].db = e.db /\ calls'[1].key = e.key
    BY DEF Do
<1> HIDE DEF e
<1>6. \A d \in Dbs, k \in Keys : ~HalfDels(d, k) /\ ~HalfDels(d, k)'
    BY <1>1, <1>2, <1>3, <1>4 DEF HalfDels, e
<1>7. DelsAreGone'
  <2> SUFFICES ASSUME NEW i \in 1 .. Len(calls')
      PROVE  /\ calls'[i].op = "del" => calls'[i].key \notin keyspace[calls'[i].db]
             /\ calls'[i].op = "add" /\ calls'[i].key \notin keyspace[calls'[i].db] =>
                   /\ events' # <<>>
                   /\ EvDels(events'[Len(events')], calls'[i].db, calls'[i].key)
                   /\ events'[Len(events')].name \in DelEvents
      BY <1>1, <1>3, <1>6 DEF DelsAreGone
  <2>1. i = 1
      BY <1>5
  <2>2. DelEvents \subseteq DelNames
      BY DEF DelEvents, DelNames
  <2> QED BY <1>1, <1>3, <1>4, <1>5, <2>1, <2>2 DEF EvDels
<1>8. InOwnSlot'
    BY DEF InOwnSlot, ExactInv
<1>9. Repaired'
  <2> SUFFICES ASSUME foreign = 0, NEW d \in Dbs, NEW k \in Keys
      PROVE  (PendAdd(d, k) => PendAdd(d, k)') /\ (PendDel(d, k) => PendDel(d, k)')
      BY DEF ExactInv, Repaired, InTable
  <2>1. /\ PendAdd(d, k) => EvAdds(e, d, k) \/ Outstanding(d, k)
                \/ \E i \in 1 .. Len(events') : EvAdds(events'[i], d, k)
        /\ PendDel(d, k) => EvDels(e, d, k)
                \/ \E i \in 1 .. Len(events') : EvDels(events'[i], d, k)
    <3>1. /\ PendAdd(d, k) => Outstanding(d, k)
                \/ \E i \in 1 .. Len(events) : EvAdds(events[i], d, k)
          /\ PendDel(d, k) => \E i \in 1 .. Len(events) : EvDels(events[i], d, k)
      <4>1. ~\E i \in 1 .. Len(calls) : TRUE
          BY <1>1
      <4>2. ~HalfDels(d, k)
          BY <1>6
      <4> QED BY <4>1, <4>2, Zenon DEF PendAdd, PendDel, Outstanding
    <3> QED BY <1>1, <3>1, PendTail, Zenon DEF e
  <2>2. EvAdds(e, d, k) => PendAdd(d, k)'
      BY <1>4, <1>5 DEF EvAdds, PendAdd
  <2>3. EvDels(e, d, k) => PendDel(d, k)'
      BY <1>4, <1>5 DEF EvDels, PendDel
  <2>4. Outstanding(d, k) => PendAdd(d, k)'
      BY DEF Outstanding, PendAdd
  <2> QED BY <2>1, <2>2, <2>3, <2>4 DEF PendAdd, PendDel
<1> QED BY <1>7, <1>8, <1>9 DEF ExactInv

(* The pair events.  A first event moves the pending deletion into the     *)
(* static variables, a second one moves it from there into a call.         *)
LEMMA PairExact == IInv /\ ExactInv /\ NotifyPair => ExactInv'
<1> SUFFICES ASSUME IInv, ExactInv, NotifyPair PROVE ExactInv'
    OBVIOUS
<1> DEFINE e == Head(events)  t == Tail(events)
<1>1. /\ events \in Seq(Event) /\ events # <<>> /\ events' = t
      /\ Shape(events) /\ Truthful(events, keyspace)
      /\ calls = <<>> /\ ~in_pair /\ cmd_flag = CMD_NONE
      /\ from_key \in Keys \cup {NoKey} /\ from_dbid \in Dbs
    BY DEF IInv, TypeOK, PairInv, ExactInv, DelsAreGone, NotifyPair, Deliver, CallbackDone
<1>2. /\ e \in Event
      /\ e.name \in {"rename_to", "move_to"} => t = <<>>
      /\ t # <<>> => (Head(t).name = "rename_to" => e.name = "rename_from")
      /\ e.name = "rename_from" => t # <<>> /\ Head(t).name = "rename_to"
    BY <1>1, TailShape
<1>3. /\ Truthful(t, keyspace)
      /\ e.name \in DelNames => e.key \notin keyspace[e.db]
      /\ e.name \in AddNames /\ e.key \notin keyspace[e.db] => t # <<>>
      /\ e.name = "rename_from" => Head(t).db = e.db
      /\ e.name = "move_from" =>
            t # <<>> /\ Head(t).name = "move_to" /\ Head(t).key = e.key
      /\ t # <<>> /\ Head(t).name = "move_to" => e.name = "move_from"
    BY <1>1, TailTruthful
<1>4. e.name \in {"rename_from", "rename_to", "move_from", "move_to", "other"}
    BY DEF NotifyPair, Deliver, GenericEvents, DelEvents
<1>5. e.db \in Dbs /\ e.key \in Keys
    BY <1>2 DEF Event
<1>6. /\ UNCHANGED <<keyspace, foreign, slotkey_tables>>
      /\ from_key' = IF e.name = "rename_from" THEN e.key ELSE from_key
      /\ from_dbid' = IF e.name = "move_from" THEN e.db ELSE from_dbid
      /\ to_key' = IF e.name = "rename_to" THEN e.key ELSE to_key
      /\ to_dbid' = IF e.name = "move_to" THEN e.db ELSE to_dbid
      /\ cmd_flag' = NewFlag(e)
      /\ calls' = CASE cmd_flag' = CMD_NONE   -> <<>>
                    [] cmd_flag' = CMD_RENAME -> RenameCalls(e.db, from_key', to_key')
                    [] cmd_flag' = CMD_MOVE   -> MoveCalls(e.key, from_dbid', to_dbid')
    BY DEF NotifyPair, NewFrom, server, index
<1>7. e.name \notin {"rename_to", "move_to"} => calls' = <<>>
    BY <1>1, <1>6 DEF NewFlag, CMD_NONE, CMD_RENAME, CMD_MOVE
<1>8. e.name = "rename_to" => calls' = <<Do("del", e.db, from_key), Do("add", e.db, e.key)>>
    BY <1>6 DEF NewFlag, RenameCalls, CMD_NONE, CMD_RENAME, CMD_MOVE
<1>9. e.name = "move_to" => calls' = <<Do("del", from_dbid, e.key), Do("add", e.db, e.key)>>
    BY <1>6 DEF NewFlag, MoveCalls, CMD_NONE, CMD_RENAME, CMD_MOVE
<1>10. \A d, k : HalfDels(d, k) <=>
           \/ e.name = "rename_to" /\ e.db = d /\ from_key = k
           \/ e.name = "move_to" /\ from_dbid = d /\ e.key = k
    BY <1>1 DEF HalfDels
<1>11. \A d, k : HalfDels(d, k)' <=>
           /\ t # <<>>
           /\ \/ Head(t).name = "rename_to" /\ Head(t).db = d /\ from_key' = k
              \/ Head(t).name = "move_to" /\ from_dbid' = d /\ Head(t).key = k
    BY <1>1 DEF HalfDels
<1> HIDE DEF e, t
<1>12. \A d, k : HalfDels(d, k)' <=>
           e.name \in {"rename_from", "move_from"} /\ e.db = d /\ e.key = k
    BY <1>2, <1>3, <1>6, <1>11
<1>13. \A d \in Dbs, k \in Keys : HalfDels(d, k) => k \notin keyspace[d]
    BY DEF ExactInv, DelsAreGone
<1>14. InOwnSlot'
    BY <1>6 DEF InOwnSlot, ExactInv
<1>15. SUFFICES /\ DelsAreGone'
                /\ \A d \in Dbs, k \in Keys :
                      /\ PendAdd(d, k) => PendAdd(d, k)'
                      /\ PendDel(d, k) => PendDel(d, k)'
    BY <1>6, <1>14 DEF ExactInv, Repaired, InTable
<1>16. \A d \in Dbs, k \in Keys : HalfDels(d, k)' => k \notin keyspace[d]
    BY <1>3, <1>12 DEF DelNames
<1>17. ASSUME NEW d \in Dbs, NEW k \in Keys
       PROVE  /\ PendAdd(d, k) => EvAdds(e, d, k) \/ Outstanding(d, k)
                   \/ \E i \in 1 .. Len(events') : EvAdds(events'[i], d, k)
              /\ PendDel(d, k) => EvDels(e, d, k) \/ HalfDels(d, k)
                   \/ \E i \in 1 .. Len(events') : EvDels(events'[i], d, k)
  <2>1. /\ PendAdd(d, k) => Outstanding(d, k)
              \/ \E i \in 1 .. Len(events) : EvAdds(events[i], d, k)
        /\ PendDel(d, k) => HalfDels(d, k)
              \/ \E i \in 1 .. Len(events) : EvDels(events[i], d, k)
    <3>1. ~\E i \in 1 .. Len(calls) : TRUE
        BY <1>1
    <3> QED BY <3>1, Zenon DEF PendAdd, PendDel, Outstanding
  <2> QED BY <1>1, <2>1, PendTail, Zenon DEF e, t
<1>18. ASSUME NEW d \in Dbs, NEW k \in Keys, EvDels(e, d, k)
       PROVE  HalfDels(d, k)'
    BY <1>4, <1>12, <1>18 DEF EvDels, DelNames
<1>21. \A d \in Dbs, k \in Keys : Outstanding(d, k) => PendAdd(d, k)'
    BY DEF NotifyPair, server, Outstanding, PendAdd
<1>19. CASE e.name \notin {"rename_to", "move_to"}
  <2>1. DelsAreGone'
    <3>1. calls' = <<>> /\ Truthful(events', keyspace')
        BY <1>1, <1>3, <1>6, <1>7, <1>19
    <3>2. \A d \in Dbs, k \in Keys : HalfDels(d, k)' => k \notin keyspace'[d]
        BY <1>6, <1>16
    <3> QED BY <3>1, <3>2 DEF DelsAreGone
  <2>2. ASSUME NEW d \in Dbs, NEW k \in Keys
        PROVE  ~EvAdds(e, d, k) /\ ~HalfDels(d, k)
      BY <1>4, <1>10, <1>19 DEF EvAdds, AddNames
  <2> QED BY <1>17, <1>18, <1>21, <2>1, <2>2 DEF PendAdd, PendDel
<1>20. CASE e.name \in {"rename_to", "move_to"}
  <2> DEFINE dd == IF e.name = "rename_to" THEN e.db ELSE from_dbid
             dk == IF e.name = "rename_to" THEN from_key ELSE e.key
  <2>1. /\ Len(calls') = 2 /\ calls'[1].op = "del" /\ calls'[2].op = "add"
        /\ calls'[1].db = dd /\ calls'[1].key = dk
        /\ calls'[2].db = e.db /\ calls'[2].key = e.key
      BY <1>8, <1>9, <1>20 DEF Do
  <2>2. dd \in Dbs /\ dk \in Keys
      BY <1>1, <1>5, <1>20 DEF IInv, PairInv, e
  <2>3. HalfDels(dd, dk) /\ \A d, k : HalfDels(d, k) => d = dd /\ k = dk
      BY <1>10, <1>20
  <2>4. dk \notin keyspace[dd]
      BY <1>13, <2>2, <2>3
  <2>5. t = <<>> /\ e.key \in keyspace[e.db]
      BY <1>2, <1>3, <1>20 DEF AddNames
  <2> HIDE DEF dd, dk
  <2>6. DelsAreGone'
    <3> SUFFICES ASSUME NEW i \in 1 .. Len(calls')
        PROVE  /\ calls'[i].op = "del" => calls'[i].key \notin keyspace[calls'[i].db]
               /\ ~(calls'[i].op = "add" /\ calls'[i].key \notin keyspace[calls'[i].db])
        BY <1>1, <1>3, <1>6, <1>16 DEF DelsAreGone
    <3>1. i = 1 \/ i = 2
        BY <2>1
    <3> QED BY <2>1, <2>4, <2>5, <3>1
  <2>7. ASSUME NEW d \in Dbs, NEW k \in Keys
        PROVE  /\ EvAdds(e, d, k) => PendAdd(d, k)'
               /\ HalfDels(d, k) => PendDel(d, k)'
    <3>1. 1 \in 1 .. Len(calls') /\ 2 \in 1 .. Len(calls')
        BY <2>1
    <3> QED BY <2>1, <2>3, <3>1 DEF EvAdds, PendAdd, PendDel
  <2> QED BY <1>17, <1>18, <1>21, <2>6, <2>7 DEF PendAdd, PendDel
<1> QED BY <1>19, <1>20

(* Changing one entry of a table of tables.                                *)
LEMMA NestedExcept ==
    ASSUME NEW A, NEW B, NEW C, NEW f \in [A -> [B -> C]],
           NEW a \in A, NEW b \in B, NEW v
    PROVE  \A x \in A, y \in B :
              [f EXCEPT ![a][b] = v][x][y] = IF x = a /\ y = b THEN v ELSE f[x][y]
OBVIOUS

(* The dict half of Slots_Add and Slots_Del: one call less is pending and  *)
(* exactly its key has entered or left the dict of its slot.               *)
LEMMA CallExact ==
    ASSUME IInv, ExactInv, NEW op \in {"add", "del"}, NextCall(op),
           LET d == Head(calls).db
               k == Head(calls).key
           IN  slotkey_tables' = [slotkey_tables EXCEPT ![d][slots_num[k]] =
                                    IF op = "add" THEN @ \cup {k} ELSE @ \ {k}],
           UNCHANGED <<server, events, in_pair, pair_stat>>
    PROVE  ExactInv'
<1> USE IndexAssumption DEF server, pair_stat
<1> DEFINE c == Head(calls)  t == Tail(calls)
<1>1. /\ calls \in Seq(Call) /\ calls # <<>> /\ calls' = t /\ c.op = op
    BY DEF IInv, TypeOK, NextCall
<1>2. /\ c = calls[1] /\ Len(calls) \in Nat \ {0}
      /\ Len(t) = Len(calls) - 1
      /\ \A i \in 1 .. Len(t) : t[i] = calls[i + 1]
      /\ \A i \in 2 .. Len(calls) : i - 1 \in 1 .. Len(t) /\ t[i - 1] = calls[i]
    BY <1>1, TailFacts
<1>3. c \in Call /\ c.db \in Dbs /\ c.key \in Keys /\ slots_num[c.key] \in Slots
  <2>1. c \in Call
      BY <1>1, <1>2, ElementOfSeq
  <2> QED BY <2>1 DEF Call
<1>4. slotkey_tables \in [Dbs -> [Slots -> SUBSET Keys]]
    BY DEF IInv, TypeOK
<1>5. slotkey_tables' = [slotkey_tables EXCEPT ![c.db][slots_num[c.key]] =
          IF op = "add" THEN @ \cup {c.key} ELSE @ \ {c.key}]
    OBVIOUS
<1> HIDE DEF c, t
<1>6. \A d \in Dbs, s \in Slots :
         /\ d = c.db /\ s = slots_num[c.key] =>
              /\ op = "add" => slotkey_tables'[d][s] = slotkey_tables[d][s] \cup {c.key}
              /\ op = "del" => slotkey_tables'[d][s] = slotkey_tables[d][s] \ {c.key}
         /\ ~(d = c.db /\ s = slots_num[c.key]) =>
              slotkey_tables'[d][s] = slotkey_tables[d][s]
  <2> DEFINE new == IF op = "add"
                    THEN slotkey_tables[c.db][slots_num[c.key]] \cup {c.key}
                    ELSE slotkey_tables[c.db][slots_num[c.key]] \ {c.key}
  <2>1. slotkey_tables' = [slotkey_tables EXCEPT ![c.db][slots_num[c.key]] = new]
      BY <1>5, Zenon
  <2>2. /\ op = "add" => new = slotkey_tables[c.db][slots_num[c.key]] \cup {c.key}
        /\ op = "del" => new = slotkey_tables[c.db][slots_num[c.key]] \ {c.key}
      BY Zenon
  <2> HIDE DEF new
  <2>3. \A d \in Dbs, s \in Slots :
         slotkey_tables'[d][s] = IF d = c.db /\ s = slots_num[c.key]
                                 THEN new ELSE slotkey_tables[d][s]
    <3> DEFINE f == [slotkey_tables EXCEPT ![c.db][slots_num[c.key]] = new]
    <3>1. \A d \in Dbs, s \in Slots :
            f[d][s] = IF d = c.db /\ s = slots_num[c.key]
                      THEN new ELSE slotkey_tables[d][s]
        BY <1>3, <1>4, NestedExcept
    <3>2. slotkey_tables' = f
        BY <2>1, Zenon
    <3> HIDE DEF f
    <3> QED BY <3>1, <3>2, ZenonT(40)
  <2>4. ASSUME NEW d \in Dbs, NEW s \in Slots, d = c.db, s = slots_num[c.key]
        PROVE  slotkey_tables'[d][s] = new
      BY <2>3, <2>4, Zenon
  <2>5. ASSUME NEW d \in Dbs, NEW s \in Slots, ~(d = c.db /\ s = slots_num[c.key])
        PROVE  slotkey_tables'[d][s] = slotkey_tables[d][s]
      BY <2>3, <2>5, ZenonT(40)
  <2> QED BY <2>2, <2>4, <2>5, ZenonT(40)
<1>7. \A d \in Dbs, k \in Keys :
         InTable(d, k)' <=> IF d = c.db /\ k = c.key THEN op = "add" ELSE InTable(d, k)
  <2> SUFFICES ASSUME NEW d \in Dbs, NEW k \in Keys
      PROVE  k \in slotkey_tables'[d][slots_num[k]] <=>
                IF d = c.db /\ k = c.key THEN op = "add"
                ELSE k \in slotkey_tables[d][slots_num[k]]
      BY Zenon DEF InTable
  <2>1. slots_num[k] \in Slots
      OBVIOUS
  <2>2. CASE ~(d = c.db /\ slots_num[k] = slots_num[c.key])
    <3>1. slotkey_tables'[d][slots_num[k]] = slotkey_tables[d][slots_num[k]]
        BY <1>6, <2>1, <2>2, Zenon
    <3> QED BY <2>2, <3>1, Zenon
  <2>3. CASE d = c.db /\ slots_num[k] = slots_num[c.key] /\ op = "add"
    <3>1. slotkey_tables'[d][slots_num[k]] = slotkey_tables[d][slots_num[k]] \cup {c.key}
        BY <1>6, <2>1, <2>3, Zenon
    <3> QED BY <2>3, <3>1
  <2>4. CASE d = c.db /\ slots_num[k] = slots_num[c.key] /\ op = "del"
    <3>1. slotkey_tables'[d][slots_num[k]] = slotkey_tables[d][slots_num[k]] \ {c.key}
        BY <1>6, <2>1, <2>4, Zenon
    <3> QED BY <2>4, <3>1
  <2> QED BY <2>2, <2>3, <2>4
<1>8. InOwnSlot'
  <2> SUFFICES ASSUME NEW d \in Dbs, NEW s \in Slots, NEW k \in slotkey_tables'[d][s]
               PROVE  slots_num[k] = s
      BY DEF InOwnSlot
  <2>1. k \in slotkey_tables[d][s] \/ (s = slots_num[c.key] /\ k = c.key)
    <3>1. CASE d = c.db /\ s = slots_num[c.key] /\ op = "add"
      <4>1. k \in slotkey_tables[d][s] \cup {c.key}
          BY <1>6, <3>1, Zenon
      <4> QED BY <3>1, <4>1
    <3>2. CASE d = c.db /\ s = slots_num[c.key] /\ op = "del"
      <4>1. k \in slotkey_tables[d][s] \ {c.key}
          BY <1>6, <3>2, Zenon
      <4> QED BY <4>1
    <3>3. CASE ~(d = c.db /\ s = slots_num[c.key])
        BY <1>6, <3>3, Zenon
    <3> QED BY <3>1, <3>2, <3>3
  <2> QED BY <2>1 DEF ExactInv, InOwnSlot
<1>9. /\ op = "del" => c.key \notin keyspace[c.db]
      /\ op = "add" /\ c.key \notin keyspace[c.db] =>
            events # <<>> /\ EvDels(events[Len(events)], c.db, c.key)
  <2>1. 1 \in 1 .. Len(calls)
      BY <1>2
  <2> QED BY <1>1, <1>2, <2>1 DEF ExactInv, DelsAreGone
<1>10. DelsAreGone'
  <2>1. Truthful(events', keyspace') /\ \A d \in Dbs, k \in Keys : HalfDels(d, k)' => k \notin keyspace'[d]
      BY DEF ExactInv, DelsAreGone, HalfDels
  <2>2. ASSUME NEW i \in 1 .. Len(calls')
        PROVE  /\ calls'[i].op = "del" => calls'[i].key \notin keyspace[calls'[i].db]
               /\ calls'[i].op = "add" /\ calls'[i].key \notin keyspace[calls'[i].db] =>
                   /\ events # <<>>
                   /\ EvDels(events[Len(events)], calls'[i].db, calls'[i].key)
                   /\ events[Len(events)].name \in DelEvents
    <3>1. i + 1 \in 1 .. Len(calls) /\ calls'[i] = calls[i + 1]
        BY <1>1, <1>2
    <3> QED BY <3>1 DEF ExactInv, DelsAreGone
  <2> QED BY <2>1, <2>2 DEF DelsAreGone
<1>11. ASSUME NEW d \in Dbs, NEW k \in Keys
       PROVE  /\ PendAdd(d, k) => PendAdd(d, k)' \/ (op = "add" /\ d = c.db /\ k = c.key)
              /\ PendDel(d, k) => PendDel(d, k)' \/ (op = "del" /\ d = c.db /\ k = c.key)
  <2>1. \A i \in 1 .. Len(calls) : i = 1 \/ i \in 2 .. Len(calls)
      BY <1>2
  <2>2. ASSUME NEW x, NEW i \in 1 .. Len(calls),
               calls[i].op = x, calls[i].db = d, calls[i].key = k
        PROVE  \/ op = x /\ d = c.db /\ k = c.key
               \/ \E j \in 1 .. Len(calls') :
                     calls'[j].op = x /\ calls'[j].db = d /\ calls'[j].key = k
    <3>1. CASE i = 1
        BY <1>1, <1>2, <2>2, <3>1
    <3>2. CASE i \in 2 .. Len(calls)
      <4>1. i - 1 \in 1 .. Len(calls') /\ calls'[i - 1] = calls[i]
          BY <1>1, <1>2, <3>2
      <4> QED BY <2>2, <4>1
    <3> QED BY <2>1, <3>1, <3>2
  <2>3. HalfDels(d, k) => HalfDels(d, k)'
      BY DEF HalfDels
  <2>4. PendAdd(d, k) => PendAdd(d, k)' \/ (op = "add" /\ d = c.db /\ k = c.key)
      BY <2>2 DEF PendAdd
  <2>5. PendDel(d, k) => PendDel(d, k)' \/ (op = "del" /\ d = c.db /\ k = c.key)
      BY <2>2, <2>3 DEF PendDel
  <2> QED BY <2>4, <2>5
<1>12. Repaired'
  <2> SUFFICES ASSUME foreign = 0, NEW d \in Dbs, NEW k \in Keys
      PROVE  /\ k \in keyspace[d] /\ ~InTable(d, k)' => PendAdd(d, k)'
             /\ k \notin keyspace[d] /\ InTable(d, k)' => PendDel(d, k)'
      BY DEF Repaired
  <2>1. /\ k \in keyspace[d] /\ ~InTable(d, k) => PendAdd(d, k)
        /\ k \notin keyspace[d] /\ InTable(d, k) => PendDel(d, k)
      BY DEF ExactInv, Repaired
  <2>2. CASE d = c.db /\ k = c.key
    <3>1. ASSUME op = "add", k \notin keyspace[d] PROVE PendDel(d, k)'
      <4>1. events # <<>> /\ EvDels(events[Len(events)], d, k)
          BY <1>9, <2>2, <3>1
      <4>2. Len(events) \in 1 .. Len(events)
          BY <4>1 DEF IInv, TypeOK
      <4> QED BY <4>1, <4>2 DEF PendDel, EvDels
    <3> QED BY <1>7, <1>9, <2>2, <3>1
  <2>3. CASE ~(d = c.db /\ k = c.key)
      BY <1>7, <1>11, <2>1, <2>3
  <2> QED BY <2>2, <2>3
<1> QED BY <1>8, <1>10, <1>12 DEF ExactInv

(* The callbacks.                                                          *)
LEMMA CallbackExact == IInv /\ ExactInv /\ Callback => ExactInv'
<1> SUFFICES ASSUME IInv, ExactInv, Callback PROVE ExactInv'
    OBVIOUS
<1>1. CASE NotifyTypeChangeCallback
    BY <1>1, OneCallExact DEF NotifyTypeChangeCallback, TypeChangeCalls
<1>2. CASE NotifyDel
    BY <1>2, OneCallExact DEF NotifyDel
<1>3. CASE NotifyPair
    BY <1>3, PairExact
<1>4. CASE ReleasePair
  <2> USE <1>4 DEF ReleasePair, server, index
  <2>1. events = <<>>
      BY DEF IInv, PairInv
  <2>2. \A d, k : ~HalfDels(d, k) /\ ~HalfDels(d, k)'
      BY <2>1 DEF HalfDels
  <2> QED BY <2>2 DEF ExactInv, DelsAreGone, Truthful, InOwnSlot, Repaired,
                      InTable, PendAdd, PendDel
<1>5. CASE Slots_Add
    BY <1>5, CallExact DEF Slots_Add
<1>6. CASE Slots_Del
    BY <1>6, CallExact DEF Slots_Del
<1>7. CASE TaggedListUpdate
    BY <1>7 DEF TaggedListUpdate, server, pair_stat, ExactInv, DelsAreGone,
                Truthful, HalfDels, InOwnSlot, Repaired, InTable, PendAdd, PendDel
<1> QED
    BY <1>1, <1>2, <1>3, <1>4, <1>5, <1>6, <1>7 DEF Callback

(* The invariant about pending events and calls, in every reachable state. *)
THEOREM ExactInvariant == Spec => []ExactInv
<1>1. IInv /\ ExactInv /\ UNCHANGED vars => ExactInv'
    BY DEF vars, server, index, progress, pair_stat, ExactInv, DelsAreGone,
           Truthful, HalfDels, InOwnSlot, Repaired, InTable, PendAdd, PendDel
<1>2. IInv /\ ExactInv /\ [Next]_vars => ExactInv'
    BY <1>1, ClientExact, LoadExact, CallbackExact DEF Next
<1> QED BY <1>2, InitExact, IndexInvariant, PTL DEF Spec

(* Between the commands of a server that has seen no foreign command since *)
(* it started, the dict of every slot of every database holds exactly the  *)
(* keys of the keyspace that belong to this slot, give or take keys that   *)
(* a thread has restored and not notified yet: for any number of           *)
(* databases, slots, keys and threads and any sequence of writes,          *)
(* deletions, expirations, renames, moves, flushes, restores and restarts. *)
THEOREM IndexIsExact == Spec => []IndexExact
<1>1. IInv /\ ExactInv => IndexExact
  <2> SUFFICES ASSUME IInv, ExactInv, Idle, foreign = 0, NEW d \in Dbs, NEW s \in Slots
               PROVE  /\ \A k \in slotkey_tables[d][s] :
                            k \in keyspace[d] /\ slots_num[k] = s
                      /\ \A k \in keyspace[d] :
                            slots_num[k] = s /\ k \notin slotkey_tables[d][s] =>
                               Outstanding(d, k)
      BY DEF IndexExact
  <2>1. slotkey_tables[d][s] \subseteq Keys /\ keyspace[d] \subseteq Keys
      BY DEF IInv, TypeOK
  <2>2. \A k \in Keys :
          /\ InTable(d, k) => k \in keyspace[d]
          /\ k \in keyspace[d] /\ ~InTable(d, k) => Outstanding(d, k)
      BY IdleExact DEF ExactInv
  <2>3. \A k \in slotkey_tables[d][s] : slots_num[k] = s
      BY DEF ExactInv, InOwnSlot
  <2> QED BY <2>1, <2>2, <2>3 DEF InTable
<1> QED BY <1>1, IndexInvariant, ExactInvariant, PTL

(* A key that stays in the keyspace and is indexed stays indexed: a        *)
(* migration thread that looks it up between any two steps of a RENAME     *)
(* onto it, a SLOTSRESTORE or any other command finds it.                  *)
THEOREM IndexedKeysStay == Spec => NoFlicker
<1> DEFINE Keeps == \A d \in Dbs, k \in Keys :
             /\ k \in keyspace[d] \cap keyspace'[d]
             /\ k \in slotkey_tables[d][slots_num[k]]
             => k \in slotkey_tables'[d][slots_num[k]]
<1> USE IndexAssumption
<1>1. ASSUME IInv, ExactInv, [Next]_vars PROVE [ModuleLoad \/ Keeps]_vars
  <2>1. CASE UNCHANGED slotkey_tables
      BY <2>1
  <2>2. ASSUME NEW c, NEW F, Flush(c, F) PROVE Keeps
      BY <2>2 DEF Flush, FlushdbCallback, EmptyTables
  <2>3. CASE Restart
      BY <2>3 DEF Restart, EmptyDbs
  <2>4. CASE Slots_Add
    <3>1. slotkey_tables \in [Dbs -> [Slots -> SUBSET Keys]]
        BY <1>1 DEF IInv, TypeOK
    <3> QED BY <2>4, <3>1 DEF Slots_Add
  <2>5. CASE Slots_Del
    <3>1. /\ slotkey_tables \in [Dbs -> [Slots -> SUBSET Keys]]
          /\ calls \in Seq(Call) /\ calls # <<>> /\ Head(calls).op = "del"
        BY <1>1, <2>5 DEF IInv, TypeOK, Slots_Del, NextCall
    <3>2. /\ Head(calls) = calls[1] /\ 1 \in 1 .. Len(calls)
          /\ Head(calls).db \in Dbs /\ Head(calls).key \in Keys
      <4>1. Head(calls) = calls[1] /\ 1 \in 1 .. Len(calls)
          BY <3>1
      <4>2. calls[1] \in Call
          BY <3>1, <4>1, ElementOfSeq
      <4> QED BY <4>1, <4>2 DEF Call
    <3>3. Head(calls).key \notin keyspace[Head(calls).db]
        BY <1>1, <3>1, <3>2 DEF ExactInv, DelsAreGone
    <3> QED BY <2>5, <3>1, <3>2, <3>3 DEF Slots_Del
  <2>6. ASSUME NEW c, NEW ks, NEW evs, Raise(c, ks, evs)
        PROVE  UNCHANGED slotkey_tables
      BY <2>6 DEF Raise, index
  <2>7. CASE UNCHANGED vars
      BY <2>7
  <2>8. CASE Client
    <3>1. ASSUME NEW d \in Dbs, NEW k \in Keys,
                 \/ Write(d, k) \/ Pop(d, k) \/ Del(d, k) \/ Expired(d, k)
                 \/ Touch(d, k) \/ SlotsRestore(d, k) \/ Restore(d, k) \/ Evict(d, k)
          PROVE  UNCHANGED slotkey_tables
        BY <2>6, <3>1 DEF Command, Write, Pop, Del, Expired, Touch, SlotsRestore,
                          Restore, Evict
    <3>2. ASSUME NEW w, NEW d, NEW k,
                 RestoreOneWithReplace(w, d, k) \/ NotifyOne(w, d, k)
          PROVE  UNCHANGED slotkey_tables
        BY <2>6, <3>2 DEF RestoreOneWithReplace, NotifyOne
    <3>3. ASSUME NEW d, NEW k, NEW j, LMove(d, k, j) \/ Rename(d, k, j) \/ Copy(d, k, j)
          PROVE  UNCHANGED slotkey_tables
        BY <2>6, <3>3 DEF Command, LMove, Rename, Copy
    <3>4. ASSUME NEW d, NEW e, SwapDb(d, e) \/ \E k \in Keys : Move(d, e, k)
          PROVE  UNCHANGED slotkey_tables
        BY <2>6, <3>4 DEF Command, SwapDb, Move
    <3>5. Save => UNCHANGED slotkey_tables
        BY DEF Save, index
    <3> QED BY <2>1, <2>2, <2>3, <2>8, <3>1, <3>2, <3>3, <3>4, <3>5 DEF Client
  <2>9. CASE Load
      BY <2>1, <2>9 DEF Load, LoadKey, index
  <2>10. CASE Callback
      BY <2>1, <2>4, <2>5, <2>10
         DEF Callback, NotifyTypeChangeCallback, NotifyDel, NotifyPair,
             ReleasePair, TaggedListUpdate, index
  <2> QED BY <1>1, <2>7, <2>8, <2>9, <2>10 DEF Next
<1> QED BY <1>1, IndexInvariant, ExactInvariant, PTL DEF Spec, NoFlicker

=============================================================================
