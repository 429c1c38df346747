------------------------------ MODULE SlotScan ------------------------------
(***************************************************************************)
(* SLOTSSCAN and SLOTSDEL: two commands that walk through the dict of a    *)
(* slot with m_dictScan while clients and the cron job change it.          *)
(*                                                                         *)
(* The cursor counts in reversed bits, so that it stays meaningful when    *)
(* the number of buckets changes.  SLOTSSCAN is repeated by its client     *)
(* with the cursor it was answered; SLOTSDEL repeats m_dictScan itself and *)
(* unlinks the keys of each step.  Commands and the cron job run on the    *)
(* main thread, SLOTSDEL with the async option on a thread of its own that *)
(* is not alone between two steps.                                         *)
(*                                                                         *)
(* One command walks at a time: m_dictScan changes nothing, and what       *)
(* SLOTSDEL does to another walk is what a client that deletes keys does.  *)
(*                                                                         *)
(* PlainIncrement, SmallOnly and UntilEmpty are plausible mistakes: each   *)
(* is a wrong form of the definition that follows it, which a property     *)
(* must refute.                                                            *)
(***************************************************************************)
EXTENDS Dict

CONSTANTS
    WordBits,     \* bits of an unsigned long, 64 in the code
    Counts,       \* the COUNT arguments clients use
    LoopsPerKey,  \* steps SLOTSSCAN may take per key asked for, 10
    async         \* the async option

(* The powers of two up to the number of words                             *)
TwoTo[n \in 0 .. WordBits] == IF n = 0 THEN 1 ELSE 2 * TwoTo[n - 1]

Words == TwoTo[WordBits]

(* A hash is a word, the first table has a power of two of buckets, and a  *)
(* word counts the buckets of the biggest table.                           *)
ASSUME ScanAssumption ==
    /\ WordBits \in Nat \ {0} /\ Counts \subseteq Nat \ {0}
    /\ LoopsPerKey \in Nat \ {0} /\ async \in BOOLEAN
    /\ \A k \in Keys : Hash[k] < Words
    /\ \E n \in 0 .. WordBits : DICT_HT_INITIAL_SIZE = TwoTo[n]
    /\ 2 * Cardinality(Keys) <= Words

VARIABLES
    walker,   \* idle, slotsscan, or slotsdel
    cursor,   \* the cursor of the walk
    list,     \* keys m_dictScan gave to SLOTSDEL that are not unlinked yet
    freed,    \* those of them whose string was released meanwhile
    steady,   \* keys in the dict during the whole walk, but for those that
              \* SLOTSDEL left because UNLINK had no reply (history)
    seen,     \* keys the walk was given (history)
    missed,   \* steady keys the last finished walk was not given (history)
    down      \* the server has crashed

walkVars == <<walker, cursor, list, freed, steady, seen, missed, down>>
vars == <<d, walkVars>>

-----------------------------------------------------------------------------
(* m_dictScan *)

(* Reversing the n low bits of a word: the lowest becomes the highest.     *)
Reversed[n \in 0 .. WordBits] ==
    IF n = 0 THEN [v \in {0} |-> 0]
    ELSE [v \in 0 .. TwoTo[n] - 1 |->
             (v % 2) * TwoTo[n - 1] + Reversed[n - 1][v \div 2]]

rev(v) == Reversed[WordBits][v]

PlainIncrement(v, size) == ((v % size) + 1) % size

(* v |= ~mask; v = rev(v); v++; v = rev(v);                                *)
NextCursor(v, size) ==
    rev((rev((v % size) + (Words - size)) + 1) % Words)

(* The buckets of the bigger table that the current bucket of the smaller  *)
(* one expands to: the loop advances the cursor under the bigger mask      *)
(* until the bits between the two masks are zero again, so it starts at    *)
(* the cursor and takes the later ones in the order of reversed bits.      *)
Expansion(small, big, v) ==
    {i \in 0 .. big.size - 1 : /\ i % small.size = v % small.size
                               /\ rev(i) >= rev(v % big.size)}

SmallOnly(x, v) ==
    LET small == IF x.ht[0].size > x.ht[1].size THEN x.ht[1] ELSE x.ht[0]
        t0    == IF dictIsRehashing(x) THEN small ELSE x.ht[0]
    IN  IF dictSize(x) = 0 THEN [cursor |-> 0, keys |-> {}]
        ELSE [cursor |-> NextCursor(v, t0.size),
              keys |-> t0.table[v % t0.size]]

(* One step: the keys given to the callback and the next cursor.  With two *)
(* tables the loop ends where one step of the smaller table would end.     *)
m_dictScan(x, v) ==
    LET small == IF x.ht[0].size > x.ht[1].size THEN x.ht[1] ELSE x.ht[0]
        big   == IF x.ht[0].size > x.ht[1].size THEN x.ht[0] ELSE x.ht[1]
        t0    == IF dictIsRehashing(x) THEN small ELSE x.ht[0]
        more  == IF dictIsRehashing(x)
                 THEN UNION {big.table[i] : i \in Expansion(small, big, v)}
                 ELSE {}
    IN  IF dictSize(x) = 0 THEN [cursor |-> 0, keys |-> {}]
        ELSE [cursor |-> NextCursor(v, t0.size),
              keys |-> t0.table[v % t0.size] \cup more]

-----------------------------------------------------------------------------
(* What a step that may change the dict does to the keys of the walk: a    *)
(* key that leaves the dict is not steady, and its string is released.     *)
Follow ==
    /\ steady' = steady \cap Elems(d')
    /\ freed' = (freed \cap list') \cup (list' \ Elems(d'))

(* Of a finished walk only what it missed is kept.                         *)
EndWalk(m) ==
    /\ walker' = "idle" /\ cursor' = 0 /\ list' = {} /\ freed' = {}
    /\ steady' = {} /\ seen' = {} /\ missed' = m

(* SlotsMGRT_Scan: steps until the cursor is 0, there are count keys, or   *)
(* the steps are used up.                                                  *)
SlotsMGRT_Scan(v, count) ==
    LET loops == count * LoopsPerKey
        call[n \in 1 .. loops] ==
          LET at == IF n = 1 THEN [cursor |-> v, keys |-> {}, length |-> 0]
                    ELSE call[n - 1]
              s == m_dictScan(d, at.cursor)
          IN  IF n > 1 /\ (at.cursor = 0 \/ at.length >= count) THEN at
              ELSE [cursor |-> s.cursor, keys |-> at.keys \cup s.keys,
                    length |-> at.length + Cardinality(s.keys)]
    IN  call[loops]

(* One SLOTSSCAN on the main thread, the first of a walk or the next one.  *)
SlotsScan(count) ==
    LET old == IF walker = "idle" THEN Elems(d) ELSE steady
        r   == SlotsMGRT_Scan(cursor, count)
    IN  /\ ~down /\ walker \in {"idle", "slotsscan"}
        /\ \/ /\ r.cursor # 0
              /\ walker' = "slotsscan" /\ cursor' = r.cursor
              /\ steady' = old /\ seen' = seen \cup r.keys
              /\ UNCHANGED <<list, freed, missed>>
           \/ r.cursor = 0 /\ EndWalk(old \ (seen \cup r.keys))
        /\ UNCHANGED <<d, down>>

(* SlotsMGRT_DelSlotKeys, for a slot that has keys: walker is the place    *)
(* in its loop.                                                            *)
SlotsDel ==
    /\ ~down /\ walker = "idle" /\ dictSize(d) # 0
    /\ walker' = "del_scan" /\ steady' = Elems(d)
    /\ UNCHANGED <<d, cursor, list, freed, seen, missed, down>>

DelScan ==
    LET s == m_dictScan(d, cursor) IN
    /\ ~down /\ walker = "del_scan"
    /\ walker' = "del_unlink" /\ list' = s.keys /\ cursor' = s.cursor
    /\ UNCHANGED <<d, freed, steady, seen, missed, down>>

(* UNLINK raises the del event, and Slots_Del takes the key out of the     *)
(* dict; for a key that does not exist there is no event.                  *)
Unlink(k) == IF k \in Elems(d) THEN m_dictDelete(k) ELSE UNCHANGED d

(* delKeys of a key of the list.  A string that was released meanwhile is  *)
(* read nonetheless: UNLINK gets some other name, or the server crashes.   *)
(* An UNLINK without a reply leaves the key and goes on with the next, a   *)
(* refused UNLINK ends the command.                                        *)
DelUnlink ==
    /\ ~down /\ walker = "del_unlink"
    /\ \E k \in list :
       \/ /\ list' = list \ {k}
          /\ \/ k \notin freed /\ Unlink(k)
             \/ k \in freed /\ \E j \in Keys : Unlink(j) \/ UNCHANGED d
          /\ Follow
          /\ UNCHANGED <<walker, cursor, seen, missed, down>>
       \/ /\ k \notin freed
          /\ list' = list \ {k} /\ steady' = steady \ {k}
          /\ UNCHANGED <<d, walker, cursor, freed, seen, missed, down>>
       \/ /\ k \in freed /\ down' = TRUE
          /\ UNCHANGED <<d, walker, cursor, list, freed, steady, seen,
                         missed>>

DelRefused ==
    /\ ~down /\ walker = "del_unlink" /\ list # {}
    /\ EndWalk({})
    /\ UNCHANGED <<d, down>>

UntilEmpty(v) == dictSize(d) = 0

(* while (cursor != 0)                                                     *)
Finished(v) == v = 0

DelLoop ==
    /\ ~down /\ walker = "del_unlink" /\ list = {}
    /\ \/ Finished(cursor) /\ EndWalk(steady)
       \/ /\ ~Finished(cursor)
          /\ walker' = "del_scan"
          /\ UNCHANGED <<cursor, list, freed, steady, seen, missed>>
    /\ UNCHANGED <<d, down>>

DelStep == DelRefused \/ DelLoop \/ DelScan \/ DelUnlink

(* Clients, migrations and the cron job.                                   *)
Others ==
    /\ ~down /\ (walker \in {"del_scan", "del_unlink"} => async)
    /\ DictNext
    /\ UNCHANGED <<walker, cursor, list, seen, missed, down>>
    /\ Follow

Init ==
    /\ DictInit
    /\ walker = "idle" /\ cursor = 0 /\ list = {} /\ freed = {}
    /\ steady = {} /\ seen = {} /\ missed = {} /\ down = FALSE

Next ==
    \/ \E n \in Counts : SlotsScan(n)
    \/ SlotsDel
    \/ DelStep
    \/ Others

(* The thread that runs SLOTSDEL is scheduled; nobody else need do         *)
(* anything.                                                               *)
Spec == Init /\ [][Next]_vars /\ WF_vars(DelStep)

-----------------------------------------------------------------------------
(* Properties *)

(* "The function guarantees all elements present in the dictionary get     *)
(* returned between the start and end of the iteration": a key that was    *)
(* there during the whole walk was given to SLOTSSCAN, and was unlinked by *)
(* SLOTSDEL if its UNLINK had a reply, however often the dict grew, shrank *)
(* or was half rehashed between two steps, and although SLOTSDEL shrinks   *)
(* it itself.                                                              *)
WalkComplete == missed = {}

(* The reversed cursor only grows, whatever the sizes of the tables are at *)
(* each step: a walk ends after at most as many steps as the biggest table *)
(* has buckets, even if the dict changes its size all the time.            *)
CursorAdvances ==
    [][cursor' # cursor /\ cursor' # 0 => rev(cursor') > rev(cursor)]_vars

(* SLOTSDEL ends, with clients adding keys all the time, unless the server *)
(* crashes on a string that was released.                                  *)
SlotsDelEnds == (walker = "del_scan") ~> (walker = "idle" \/ down)
=============================================================================
