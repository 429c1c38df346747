-------------------------- MODULE MoverThreadProofs --------------------------
(***************************************************************************)
(* Proofs about MoverThread for any number of clients, workers and chunks: *)
(* locks are taken in one order and returned on every path, a client is    *)
(* blocked as long as its thread runs, and only the cron job frees a       *)
(* connection that somebody refers to.                                     *)
(*                                                                         *)
(* The argument is a Hoare logic for the programs of MoverThread.  A       *)
(* condition is what a thread holds: a set of locks and a phase in the use *)
(* of its connection.  Effect gives the condition before and after one     *)
(* instruction, Runs the ones before and after a program.  The invariant   *)
(* says that the program every thread has still to execute runs from what  *)
(* the thread really holds to having given everything back.                *)
(***************************************************************************)
EXTENDS MoverThread, SequenceTheorems, WellFoundedInduction, TLAPS

(* The phases in the use of a connection: not in use; looked up, but not   *)
(* looked at what was found; not found; opened and not yet in the cache;   *)
(* in use and, unless the cron job has closed it, in the cache; taken out  *)
(* of the cache.  A command that has unblocked its client is done.         *)
Phases == {"none", "maybe", "miss", "new", "both", "out", "done"}
Conditions == [held : SUBSET Locks, phase : Phases]
At(h, p) == [held |-> h, phase |-> p]
Connections == [live : BOOLEAN, cached : BOOLEAN, age : Ages]

InPhase(p, hasPtr, c) ==
    CASE p = "maybe" -> (hasPtr \/ ~c.cached) /\ (c.live => c.cached)
      [] p = "miss"  -> ~hasPtr /\ ~c.cached
      [] p = "new"   -> hasPtr /\ ~c.cached /\ c.live
      [] p = "both"  -> hasPtr /\ (c.live => c.cached)
      [] p = "out"   -> hasPtr /\ ~c.cached
      [] OTHER       -> ~hasPtr

(* One instruction: conditions p before and q after it.                    *)
DoEffect(x, p, q) ==
    \/ x \in RedisCalls /\ p = At({"gil"}, "none") /\ q = p
    \/ x \in {"MGRT", "wait", "time"} /\ p = At({}, "none") /\ q = p
    \/ x = "find"    /\ p = At({"cache"}, "none") /\ q = At({"cache"}, "maybe")
    \/ x = "refresh" /\ p = At({}, "maybe") /\ q = At({}, "both")
    \/ x \in {"SELECT", "SLOTSRESTORE"} /\ p = At({}, "both") /\ q = p
    \/ x = "connect" /\ p = At({}, "miss") /\ q = At({}, "new")
    \/ x = "insert"  /\ p = At({"cache"}, "new") /\ q = At({"cache"}, "both")
    \/ x = "fetch"   /\ p = At({"cache"}, "both") /\ q = At({"cache"}, "maybe")
    \/ x = "close"   /\ p = At({}, "maybe") /\ q = At({}, "none")
    \/ x = "remove"  /\ p = At({"cache"}, "both") /\ q = At({"cache"}, "out")
    \/ x = "free"    /\ p = At({}, "out") /\ q = At({}, "none")
    \/ x = "timeout" /\ p = At({"gil", "cache"}, "none") /\ q = p
    \/ x = "unblock" /\ p = At({}, "none") /\ q = At({}, "done")

Effect(i, p, q) ==
    \/ /\ i[1] \in {"rd", "wr"} /\ i[2] \in Locks
       /\ p.held \subseteq {"gil"} /\ (i[2] = "gil" => p.held = {})
       /\ p.phase # "done"
       /\ q = At(p.held \cup {i[2]}, p.phase)
    \/ /\ i[1] = "un" /\ i[2] \in p.held /\ p.held \subseteq {"gil", i[2]}
       /\ p.phase # "done"
       /\ q = At(p.held \ {i[2]}, p.phase)
    \/ i[1] = "do" /\ DoEffect(i[2], p, q)

(* A program: h lists the conditions between its instructions.             *)
Steps(s, h) == \A n \in 1 .. Len(s) : Effect(s[n], h[n], h[n + 1])

Runs(s, p, q) ==
    \E h \in Seq(Conditions) :
        /\ Len(h) = Len(s) + 1
        /\ h[1] = p /\ h[Len(h)] = q
        /\ Steps(s, h)

(* How an actor ends: the main thread with the GIL, which it holds while   *)
(* it looks for something to do.                                           *)
Final(a) == CASE a = Main      -> At({"gil"}, "none")
              [] a \in Clients -> At({}, "done")
              [] OTHER         -> At({}, "none")

HeldBy(a) == {l \in Locks : Holds(a, l)}

(* The program of a runs from what it holds.                               *)
Sound(a) ==
    \E p \in Conditions :
        /\ Runs(code[a], p, Final(a))
        /\ p.held = HeldBy(a)
        /\ a \in Threads => InPhase(p.phase, ptr[a], conn[a])

Steps1 == RedisCalls \cup {"MGRT", "wait", "time", "find", "refresh", "SELECT",
            "SLOTSRESTORE", "connect", "insert", "fetch", "close", "remove", "free",
            "timeout", "unblock"}
Instructions == ({"rd", "wr", "un"} \X Locks) \cup ({"do"} \X Steps1)

LocksOK ==
    /\ readers \in [Locks -> SUBSET Actors]
    /\ writer \in [Locks -> SUBSET Actors]
    /\ \A l \in Locks : /\ \A a, b \in writer[l] : a = b
                        /\ writer[l] = {} \/ readers[l] = {}

DataOK ==
    /\ slots_mgrt_threads \in ThreadCounts
    /\ client \in [Clients -> {"idle", "blocked", "ready"}]
    /\ chunks \in [Clients -> 0 .. MaxChunks]
    /\ conn \in [Threads -> Connections]
    /\ ptr \in [Threads -> BOOLEAN] /\ unixtime \in [Threads -> Ages]
    /\ orphans \subseteq Ages
    /\ due \in BOOLEAN /\ down \in BOOLEAN

CodeOK == code \in [Actors -> Seq(Instructions)] /\ \A a \in Actors : Sound(a)

(* A connection that is open is referred to, and one that is referred to   *)
(* is open unless the cron job has closed it.                              *)
Owned(hasPtr, c) ==
    /\ c.live => hasPtr \/ c.cached
    /\ (hasPtr \/ c.cached) /\ ~c.live => c.age > MGRT_BATCH_KEY_TIMEOUT
    /\ KeysTerminated /\ c.cached => c.live

ConnInv == \A t \in Threads : Owned(ptr[t], conn[t])

(* A client is blocked as long as its thread has something to do.          *)
Blocking == \A c \in Clients : client[c] = "blocked" <=> code[c] # <<>>

IInv == DataOK /\ LocksOK /\ ConnInv /\ Blocking /\ CodeOK

-----------------------------------------------------------------------------
(* Rules of the logic: conditions are typed ...                            *)
LEMMA RunsType ==
    ASSUME NEW s \in Seq(Instructions), NEW p, NEW q, Runs(s, p, q)
    PROVE  p \in Conditions /\ q \in Conditions
<1>1. PICK h \in Seq(Conditions) :
          /\ Len(h) = Len(s) + 1
          /\ h[1] = p /\ h[Len(h)] = q
    BY DEF Runs
<1>2. 1 \in 1 .. Len(h) /\ Len(h) \in 1 .. Len(h)
    BY <1>1
<1> QED BY <1>1, <1>2, ElementOfSeq

(* ... nothing to do, one instruction ...                                  *)
LEMMA RunsEmpty ==
    ASSUME NEW p \in Conditions
    PROVE  Runs(<<>>, p, p)
<1>1. /\ <<p>> \in Seq(Conditions) /\ Len(<<p>>) = Len(<<>>) + 1
      /\ <<p>>[1] = p /\ <<p>>[Len(<<p>>)] = p
    OBVIOUS
<1>2. Steps(<<>>, <<p>>)
    BY DEF Steps
<1> QED BY <1>1, <1>2 DEF Runs

LEMMA RunsOne ==
    ASSUME NEW i, NEW p \in Conditions, NEW q \in Conditions, Effect(i, p, q)
    PROVE  Runs(<<i>>, p, q)
<1> DEFINE h == <<p, q>>
<1>1. /\ h \in Seq(Conditions) /\ Len(h) = 2 /\ Len(<<i>>) = 1
      /\ h[1] = p /\ h[2] = q /\ <<i>>[1] = i
    OBVIOUS
<1> HIDE DEF h
<1>2. Steps(<<i>>, h)
  <2> SUFFICES ASSUME NEW n \in 1 .. Len(<<i>>) PROVE Effect(<<i>>[n], h[n], h[n + 1])
      BY DEF Steps
  <2>1. n = 1 /\ n + 1 = 2
      BY <1>1
  <2> QED BY <1>1, <2>1
<1> QED BY <1>1, <1>2 DEF Runs

(* ... one program after the other ...                                     *)
LEMMA RunsConcat ==
    ASSUME NEW s \in Seq(Instructions), NEW t \in Seq(Instructions),
           NEW p, NEW q, NEW r, Runs(s, p, q), Runs(t, q, r)
    PROVE  Runs(s \o t, p, r)
<1>1. PICK g \in Seq(Conditions) :
          /\ Len(g) = Len(s) + 1
          /\ g[1] = p /\ g[Len(g)] = q /\ Steps(s, g)
    BY DEF Runs
<1>2. PICK h \in Seq(Conditions) :
          /\ Len(h) = Len(t) + 1
          /\ h[1] = q /\ h[Len(h)] = r /\ Steps(t, h)
    BY DEF Runs
<1> DEFINE m == Len(s)  n == Len(t)
           k == [i \in 1 .. m + n + 1 |-> IF i <= m THEN g[i] ELSE h[i - m]]
<1>3. m \in Nat /\ n \in Nat
    OBVIOUS
<1>4. k \in Seq(Conditions) /\ Len(k) = m + n + 1
  <2>1. ASSUME NEW i \in 1 .. m + n + 1
        PROVE  (IF i <= m THEN g[i] ELSE h[i - m]) \in Conditions
    <3>1. CASE i <= m
      <4>1. i \in 1 .. Len(g)
          BY <1>1, <1>3, <3>1
      <4> QED BY <3>1, <4>1, ElementOfSeq
    <3>2. CASE ~(i <= m)
      <4>1. i - m \in 1 .. Len(h)
          BY <1>2, <1>3, <3>2
      <4> QED BY <3>2, <4>1, ElementOfSeq
    <3> QED BY <3>1, <3>2
  <2>2. m + n + 1 \in Nat
      BY <1>3
  <2>3. k \in [1 .. m + n + 1 -> Conditions]
      BY <2>1
  <2> QED BY <2>2, <2>3
<1>5. /\ s \o t \in Seq(Instructions) /\ Len(s \o t) = m + n
      /\ \A i \in 1 .. m + n : (s \o t)[i] = IF i <= m THEN s[i] ELSE t[i - m]
    BY ConcatProperties
<1>6. \A i \in 1 .. m + n + 1 : k[i] = IF i <= m THEN g[i] ELSE h[i - m]
    OBVIOUS
<1> HIDE DEF k
<1>7. m + 1 \in 1 .. m + n + 1 /\ k[m + 1] = q
  <2>1. m + 1 \in 1 .. m + n + 1 /\ ~(m + 1 <= m) /\ (m + 1) - m = 1
      BY <1>3
  <2> QED BY <1>2, <1>6, <2>1
<1>8. k[1] = p
  <2>1. CASE m = 0
    <3>1. k[0 + 1] = q /\ 0 + 1 = 1 /\ Len(g) = 1
        BY <1>1, <1>7, <2>1
    <3> QED BY <1>1, <3>1
  <2>2. CASE m # 0
    <3>1. 1 \in 1 .. m + n + 1 /\ 1 <= m
        BY <1>3, <2>2
    <3> QED BY <1>1, <1>6, <3>1
  <2> QED BY <2>1, <2>2
<1>9. k[Len(k)] = r
  <2>1. m + n + 1 \in 1 .. m + n + 1 /\ ~(m + n + 1 <= m) /\ (m + n + 1) - m = n + 1
      BY <1>3
  <2> QED BY <1>2, <1>4, <1>6, <2>1
<1>10. Steps(s \o t, k)
  <2> SUFFICES ASSUME NEW i \in 1 .. m + n
               PROVE  Effect((s \o t)[i], k[i], k[i + 1])
      BY <1>5 DEF Steps
  <2>1. CASE i <= m
    <3>1. i \in 1 .. Len(s) /\ (s \o t)[i] = s[i] /\ i \in 1 .. m + n + 1 /\ k[i] = g[i]
        BY <1>3, <1>5, <1>6, <2>1
    <3>2. k[i + 1] = g[i + 1]
      <4>1. CASE i = m
          BY <1>1, <1>7, <4>1
      <4>2. CASE i # m
        <5>1. i + 1 \in 1 .. m + n + 1 /\ i + 1 <= m
            BY <1>3, <2>1, <4>2
        <5> QED BY <1>6, <5>1
      <4> QED BY <4>1, <4>2
    <3> QED BY <1>1, <3>1, <3>2 DEF Steps
  <2>2. CASE ~(i <= m)
    <3>1. /\ i - m \in 1 .. Len(t) /\ (s \o t)[i] = t[i - m]
          /\ i \in 1 .. m + n + 1 /\ k[i] = h[i - m]
        BY <1>3, <1>5, <1>6, <2>2
    <3>2. i + 1 \in 1 .. m + n + 1 /\ ~(i + 1 <= m) /\ (i + 1) - m = (i - m) + 1
        BY <1>3, <2>2
    <3>3. k[i + 1] = h[(i - m) + 1]
        BY <1>6, <3>2
    <3> QED BY <1>2, <3>1, <3>3 DEF Steps
  <2> QED BY <2>1, <2>2
<1> QED BY <1>4, <1>5, <1>8, <1>9, <1>10 DEF Runs

(* ... and what is left after the first instruction.                       *)
LEMMA RunsTail ==
    ASSUME NEW s \in Seq(Instructions), s # <<>>, NEW p, NEW r, Runs(s, p, r)
    PROVE  /\ Head(s) \in Instructions /\ Tail(s) \in Seq(Instructions)
           /\ \E q \in Conditions : Effect(Head(s), p, q) /\ Runs(Tail(s), q, r)
<1>1. PICK h \in Seq(Conditions) :
          /\ Len(h) = Len(s) + 1
          /\ h[1] = p /\ h[Len(h)] = r /\ Steps(s, h)
    BY DEF Runs
<1>2. /\ Len(s) \in Nat \ {0} /\ Head(s) = s[1] /\ Tail(s) \in Seq(Instructions)
      /\ Len(Tail(s)) = Len(s) - 1
      /\ \A i \in 1 .. Len(Tail(s)) : Tail(s)[i] = s[i + 1]
    OBVIOUS
<1>3. /\ h # <<>> /\ Tail(h) \in Seq(Conditions) /\ Len(Tail(h)) = Len(h) - 1
      /\ \A i \in 1 .. Len(Tail(h)) : Tail(h)[i] = h[i + 1]
  <2>1. Len(h) # 0
      BY <1>1, <1>2
  <2>2. h # <<>>
      BY <2>1, EmptySeq
  <2> QED BY <2>2
<1>4. s[1] \in Instructions /\ h[2] \in Conditions /\ Effect(s[1], p, h[2])
  <2>1. 1 \in 1 .. Len(s) /\ 2 \in 1 .. Len(h) /\ 1 + 1 = 2
      BY <1>1, <1>2
  <2> QED BY <1>1, <2>1, ElementOfSeq DEF Steps
<1>5. Runs(Tail(s), h[2], r)
  <2>1. Len(Tail(h)) = Len(Tail(s)) + 1
      BY <1>1, <1>2, <1>3
  <2>2. Tail(h)[1] = h[2]
    <3>1. 1 \in 1 .. Len(Tail(h)) /\ 1 + 1 = 2
        BY <1>1, <1>2, <1>3
    <3> QED BY <1>3, <3>1
  <2>3. Tail(h)[Len(Tail(h))] = r
    <3>1. Len(Tail(h)) \in 1 .. Len(Tail(h)) /\ Len(Tail(h)) + 1 = Len(h)
        BY <1>1, <1>2, <1>3
    <3> QED BY <1>1, <1>3, <3>1
  <2>4. Steps(Tail(s), Tail(h))
    <3> SUFFICES ASSUME NEW i \in 1 .. Len(Tail(s))
                 PROVE  Effect(Tail(s)[i], Tail(h)[i], Tail(h)[i + 1])
        BY DEF Steps
    <3>1. /\ i + 1 \in 1 .. Len(s) /\ i \in 1 .. Len(Tail(h))
          /\ i + 1 \in 1 .. Len(Tail(h))
        BY <1>1, <1>2, <1>3
    <3>2. Effect(s[i + 1], h[i + 1], h[(i + 1) + 1])
        BY <1>1, <3>1 DEF Steps
    <3> QED BY <1>2, <1>3, <3>1, <3>2
  <2> QED BY <1>3, <2>1, <2>2, <2>3, <2>4 DEF Runs
<1> QED BY <1>2, <1>4, <1>5

-----------------------------------------------------------------------------
(* A typed program, and how programs are put together.                     *)
Program(s, p, q) == s \in Seq(Instructions) /\ Runs(s, p, q)

LEMMA ProgramConcat ==
    ASSUME NEW s, NEW t, NEW p, NEW q, NEW r, Program(s, p, q), Program(t, q, r)
    PROVE  Program(s \o t, p, r)
BY RunsConcat, ConcatProperties DEF Program

LEMMA ProgramEmpty ==
    ASSUME NEW p \in Conditions
    PROVE  Program(<<>>, p, p)
BY RunsEmpty, EmptySeq DEF Program

LEMMA ProgramOne ==
    ASSUME NEW i \in Instructions, NEW p \in Conditions, NEW q \in Conditions,
           Effect(i, p, q)
    PROVE  Program(<<i>>, p, q)
BY RunsOne DEF Program

LEMMA ProgramTwo ==
    ASSUME NEW i \in Instructions, NEW j \in Instructions,
           NEW p \in Conditions, NEW q \in Conditions, NEW r \in Conditions,
           Effect(i, p, q), Effect(j, q, r)
    PROVE  Program(<<i, j>>, p, r)
<1>1. Program(<<i>>, p, q) /\ Program(<<j>>, q, r)
    BY ProgramOne
<1>2. <<i, j>> = <<i>> \o <<j>>
  <2> DEFINE s == <<i>>  t == <<j>>
  <2>1. s \in Seq(Instructions) /\ t \in Seq(Instructions) /\ Len(s) = 1 /\ Len(t) = 1
      OBVIOUS
  <2>2. /\ s \o t \in Seq(Instructions) /\ Len(s \o t) = 2
        /\ (s \o t)[1] = i /\ (s \o t)[2] = j
      OBVIOUS
  <2>3. <<i, j>> \in Seq(Instructions) /\ Len(<<i, j>>) = 2
      OBVIOUS
  <2>4. \A n \in 1 .. 2 : <<i, j>>[n] = (s \o t)[n]
      BY <2>2
  <2> HIDE DEF s, t
  <2>5. <<i, j>> = s \o t
      BY <2>2, <2>3, <2>4, SeqEqual
  <2> QED BY <2>5 DEF s, t
<1> QED BY <1>1, <1>2, ProgramConcat

LEMMA ProgramThree ==
    ASSUME NEW i \in Instructions, NEW j \in Instructions, NEW k \in Instructions,
           NEW p \in Conditions, NEW q \in Conditions, NEW r \in Conditions,
           NEW u \in Conditions,
           Effect(i, p, q), Effect(j, q, r), Effect(k, r, u)
    PROVE  Program(<<i, j, k>>, p, u)
<1>1. Program(<<i, j>>, p, r) /\ Program(<<k>>, r, u)
    BY ProgramOne, ProgramTwo
<1>2. <<i, j, k>> = <<i, j>> \o <<k>>
    OBVIOUS
<1> QED BY <1>1, <1>2, ProgramConcat

(* The instructions: their effects on the conditions that occur.           *)
LEMMA InstructionFacts ==
    /\ \A l \in Locks : {Rd(l), Wr(l), Un(l)} \subseteq Instructions
    /\ \A x \in Steps1 : Do(x) \in Instructions
    /\ \A h \in SUBSET Locks, ph \in Phases : At(h, ph) \in Conditions
    /\ \A l \in {"slot", "list", "cache"}, h \in {{}, {"gil"}}, ph \in Phases \ {"done"} :
          /\ Effect(Rd(l), At(h, ph), At(h \cup {l}, ph))
          /\ Effect(Wr(l), At(h, ph), At(h \cup {l}, ph))
          /\ Effect(Un(l), At(h \cup {l}, ph), At(h, ph))
    /\ Effect(Wr("gil"), At({}, "none"), At({"gil"}, "none"))
    /\ Effect(Un("gil"), At({"gil"}, "none"), At({}, "none"))
    /\ \A x, p, q : DoEffect(x, p, q) => Effect(Do(x), p, q)
<1> USE DEF Rd, Wr, Un, Do
<1>1. \A l \in Locks : {Rd(l), Wr(l), Un(l)} \subseteq Instructions
    BY DEF Instructions
<1>2. \A x \in Steps1 : Do(x) \in Instructions
    BY DEF Instructions
<1>3. \A h \in SUBSET Locks, ph \in Phases : At(h, ph) \in Conditions
    BY DEF At, Conditions
<1>4. ASSUME NEW l \in {"slot", "list", "cache"}, NEW h \in {{}, {"gil"}},
             NEW ph \in Phases \ {"done"}
      PROVE  /\ Effect(Rd(l), At(h, ph), At(h \cup {l}, ph))
             /\ Effect(Wr(l), At(h, ph), At(h \cup {l}, ph))
             /\ Effect(Un(l), At(h \cup {l}, ph), At(h, ph))
  <2>1. l \in Locks /\ l # "gil" /\ (h \cup {l}) \ {l} = h /\ h \subseteq {"gil"}
        /\ h \cup {l} \subseteq {"gil", l}
      BY DEF Locks
  <2>2. /\ At(h, ph).held = h /\ At(h, ph).phase = ph
        /\ At(h \cup {l}, ph).held = h \cup {l} /\ At(h \cup {l}, ph).phase = ph
      BY DEF At
  <2>3. /\ Rd(l)[1] = "rd" /\ Rd(l)[2] = l /\ Wr(l)[1] = "wr" /\ Wr(l)[2] = l
        /\ Un(l)[1] = "un" /\ Un(l)[2] = l
      OBVIOUS
  <2> HIDE DEF Rd, Wr, Un
  <2>4. Effect(Rd(l), At(h, ph), At(h \cup {l}, ph))
      BY <2>1, <2>2, <2>3 DEF Effect
  <2>5. Effect(Wr(l), At(h, ph), At(h \cup {l}, ph))
      BY <2>1, <2>2, <2>3 DEF Effect
  <2>6. Effect(Un(l), At(h \cup {l}, ph), At(h, ph))
      BY <2>1, <2>2, <2>3 DEF Effect
  <2> QED BY <2>4, <2>5, <2>6
<1>5. /\ Effect(Wr("gil"), At({}, "none"), At({"gil"}, "none"))
      /\ Effect(Un("gil"), At({"gil"}, "none"), At({}, "none"))
  <2>1. {} \cup {"gil"} = {"gil"} /\ {"gil"} \ {"gil"} = {}
      OBVIOUS
  <2> QED BY <2>1 DEF Effect, At, Locks
<1>6. \A x, p, q : DoEffect(x, p, q) => Effect(Do(x), p, q)
    BY DEF Effect
<1> QED BY <1>1, <1>2, <1>3, <1>4, <1>5, <1>6

Nothing == At({}, "none")
Gil     == At({"gil"}, "none")

(* Reading and changing the index, with or without the GIL.                *)
LEMMA IndexPrograms ==
    /\ \A l \in {"slot", "list"}, p \in {Nothing, Gil} :
          Program(Reading(l), p, p) /\ Program(Writing(l), p, p)
    /\ \A s \in IndexChange : Program(s, Gil, Gil)
    /\ \A x \in RedisCalls : \A cb \in Callbacks(x) : Program(cb, Gil, Gil)
<1>1. ASSUME NEW l \in {"slot", "list"}, NEW h \in {{}, {"gil"}}
      PROVE  /\ Program(Reading(l), At(h, "none"), At(h, "none"))
             /\ Program(Writing(l), At(h, "none"), At(h, "none"))
  <2>1. l \in {"slot", "list", "cache"} /\ l \in Locks /\ "none" \in Phases \ {"done"}
        /\ h \in SUBSET Locks /\ h \cup {l} \in SUBSET Locks
      BY DEF Locks, Phases
  <2>2. /\ Rd(l) \in Instructions /\ Wr(l) \in Instructions /\ Un(l) \in Instructions
        /\ At(h, "none") \in Conditions /\ At(h \cup {l}, "none") \in Conditions
      BY <2>1, InstructionFacts
  <2>3. /\ Effect(Rd(l), At(h, "none"), At(h \cup {l}, "none"))
        /\ Effect(Wr(l), At(h, "none"), At(h \cup {l}, "none"))
        /\ Effect(Un(l), At(h \cup {l}, "none"), At(h, "none"))
      BY <2>1, InstructionFacts
  <2> QED BY <2>2, <2>3, ProgramTwo DEF Reading, Writing
<1>2. \A l \in {"slot", "list"}, p \in {Nothing, Gil} :
          Program(Reading(l), p, p) /\ Program(Writing(l), p, p)
    BY <1>1 DEF Nothing, Gil
<1>3. \A s \in IndexChange : Program(s, Gil, Gil)
    BY <1>2, ProgramConcat DEF IndexChange
<1>4. Gil \in Conditions
    BY InstructionFacts DEF Gil, Locks, Phases
<1>5. \A x \in RedisCalls : \A cb \in Callbacks(x) : cb = <<>> \/ cb \in IndexChange
    BY DEF Callbacks
<1>6. \A x \in RedisCalls : \A cb \in Callbacks(x) : Program(cb, Gil, Gil)
    BY <1>3, <1>4, <1>5, ProgramEmpty
<1> QED BY <1>2, <1>3, <1>6

(* A call of Redis between ASYNC_LOCK and ASYNC_UNLOCK.                    *)
LEMMA CallPrograms == \A x \in RedisCalls : Program(Call(x), Nothing, Nothing)
<1> TAKE x \in RedisCalls
<1>1. Nothing \in Conditions /\ Gil \in Conditions
    BY InstructionFacts DEF Nothing, Gil, Locks, Phases
<1>2. Wr("gil") \in Instructions /\ Un("gil") \in Instructions /\ Do(x) \in Instructions
    BY InstructionFacts DEF Locks, Steps1
<1>3. Effect(Do(x), Gil, Gil)
    BY InstructionFacts DEF DoEffect, Gil
<1> QED BY <1>1, <1>2, <1>3, InstructionFacts, ProgramThree DEF Call, Nothing, Gil

(* Getting, using and closing a connection.                                *)
LEMMA ConnPrograms ==
    /\ Program(GetConnCtx, Nothing, At({}, "both"))
    /\ Program(NewConn, At({}, "miss"), At({}, "both"))
    /\ Program(CloseConn, At({}, "both"), Nothing)
    /\ Program(FreeConn, At({}, "both"), Nothing)
    /\ Program(doSplitRestoreCmdTask, Nothing, Nothing)
<1> DEFINE C(ph) == At({"cache"}, ph)  F(ph) == At({}, ph)
<1>1. \A ph \in Phases : C(ph) \in Conditions /\ F(ph) \in Conditions
    BY InstructionFacts DEF Locks
<1>2. \A ph \in Phases \ {"done"} :
          Effect(Wr("cache"), F(ph), C(ph)) /\ Effect(Un("cache"), C(ph), F(ph))
  <2>1. {} \cup {"cache"} = {"cache"}
      OBVIOUS
  <2> QED BY <2>1, InstructionFacts
<1>3. /\ Effect(Do("time"), F("none"), F("none"))
      /\ Effect(Do("find"), C("none"), C("maybe"))
      /\ Effect(Do("refresh"), F("maybe"), F("both"))
      /\ Effect(Do("SELECT"), F("both"), F("both"))
      /\ Effect(Do("SLOTSRESTORE"), F("both"), F("both"))
      /\ Effect(Do("connect"), F("miss"), F("new"))
      /\ Effect(Do("insert"), C("new"), C("both"))
      /\ Effect(Do("fetch"), C("both"), C("maybe"))
      /\ Effect(Do("close"), F("maybe"), F("none"))
      /\ Effect(Do("remove"), C("both"), C("out"))
      /\ Effect(Do("free"), F("out"), F("none"))
    BY InstructionFacts DEF DoEffect
<1>4. /\ {Wr("cache"), Un("cache"), Do("time"), Do("find"), Do("refresh"),
          Do("SELECT"), Do("SLOTSRESTORE"), Do("connect"), Do("insert"),
          Do("fetch"), Do("close"), Do("remove"), Do("free")} \subseteq Instructions
      /\ {"none", "maybe", "miss", "new", "both", "out"} \subseteq Phases \ {"done"}
    BY InstructionFacts DEF Locks, Steps1, Phases
<1> HIDE DEF C, F
<1>5. Program(GetConnCtx, F("none"), F("both"))
  <2>1. Program(<<Do("time"), Wr("cache")>>, F("none"), C("none"))
      BY <1>1, <1>2, <1>3, <1>4, ProgramTwo
  <2>2. Program(<<Do("find"), Un("cache"), Do("refresh")>>, C("none"), F("both"))
      BY <1>1, <1>2, <1>3, <1>4, ProgramThree
  <2>3. GetConnCtx = <<Do("time"), Wr("cache")>>
                       \o <<Do("find"), Un("cache"), Do("refresh")>>
      BY DEF GetConnCtx
  <2> QED BY <2>1, <2>2, <2>3, ProgramConcat
<1>6. Program(NewConn, F("miss"), F("both"))
  <2>1. Program(<<Do("connect"), Wr("cache")>>, F("miss"), C("new"))
      BY <1>1, <1>2, <1>3, <1>4, ProgramTwo
  <2>2. Program(<<Do("insert"), Un("cache")>>, C("new"), F("both"))
      BY <1>1, <1>2, <1>3, <1>4, ProgramTwo
  <2>3. NewConn = <<Do("connect"), Wr("cache")>> \o <<Do("insert"), Un("cache")>>
      BY DEF NewConn
  <2> QED BY <2>1, <2>2, <2>3, ProgramConcat
<1>7. Program(CloseConn, F("both"), F("none"))
  <2>1. Program(<<Wr("cache"), Do("fetch")>>, F("both"), C("maybe"))
      BY <1>1, <1>2, <1>3, <1>4, ProgramTwo
  <2>2. Program(<<Un("cache"), Do("close")>>, C("maybe"), F("none"))
      BY <1>1, <1>2, <1>3, <1>4, ProgramTwo
  <2>3. CloseConn = <<Wr("cache"), Do("fetch")>> \o <<Un("cache"), Do("close")>>
      BY DEF CloseConn
  <2> QED BY <2>1, <2>2, <2>3, ProgramConcat
<1>8. Program(FreeConn, F("both"), F("none"))
  <2>1. Program(<<Wr("cache"), Do("remove")>>, F("both"), C("out"))
      BY <1>1, <1>2, <1>3, <1>4, ProgramTwo
  <2>2. Program(<<Un("cache"), Do("free")>>, C("out"), F("none"))
      BY <1>1, <1>2, <1>3, <1>4, ProgramTwo
  <2>3. FreeConn = <<Wr("cache"), Do("remove")>> \o <<Un("cache"), Do("free")>>
      BY DEF FreeConn
  <2> QED BY <2>1, <2>2, <2>3, ProgramConcat
<1>9. Program(doSplitRestoreCmdTask, F("none"), F("none"))
  <2>1. Program(<<Do("SELECT"), Do("SLOTSRESTORE")>>, F("both"), F("both"))
      BY <1>1, <1>3, <1>4, ProgramTwo
  <2>2. Program(GetConnCtx \o <<Do("SELECT"), Do("SLOTSRESTORE")>>, F("none"), F("both"))
      BY <1>5, <2>1, ProgramConcat
  <2> QED BY <1>7, <2>2, ProgramConcat DEF doSplitRestoreCmdTask
<1> QED BY <1>5, <1>6, <1>7, <1>8, <1>9 DEF C, F, Nothing

(* Every command takes nothing with it and leaves nothing behind.          *)
LEMMA CommandPrograms ==
    /\ \A x \in AllCommands : \A s \in dispatchCmd(x) : Program(s, Nothing, Nothing)
    /\ \A s \in MainPrograms \cup {<<>>} : Program(s, Gil, Gil)
    /\ Program(CronLoopCallback, Gil, Gil)
<1>0. Nothing \in Conditions /\ Gil \in Conditions
    BY InstructionFacts DEF Nothing, Gil, Locks, Phases
<1>1. Program(Reading("slot"), Nothing, Nothing) /\ Program(Reading("list"), Nothing, Nothing)
    BY IndexPrograms
<1>2. Program(Left, Nothing, Nothing)
    BY <1>1 DEF Left
<1>3. Program(migrateKeys, Nothing, Nothing)
  <2>1. /\ Program(Call("DUMP"), Nothing, Nothing) /\ Program(Call("PTTL"), Nothing, Nothing)
        /\ Program(Call("UNLINK"), Nothing, Nothing)
      BY CallPrograms DEF RedisCalls
  <2>2. Program(<<Do("MGRT")>>, Nothing, Nothing)
    <3>1. Effect(Do("MGRT"), Nothing, Nothing)
        BY InstructionFacts DEF DoEffect, Nothing
    <3>2. Do("MGRT") \in Instructions
        BY InstructionFacts DEF Steps1
    <3> QED BY <1>0, <3>1, <3>2, ProgramOne
  <2>3. Program(dumpObj, Nothing, Nothing)
      BY <2>1, ProgramConcat DEF dumpObj
  <2>4. Program(dumpObj \o <<Do("MGRT")>>, Nothing, Nothing)
      BY <2>2, <2>3, ProgramConcat
  <2> QED BY <2>1, <2>4, ProgramConcat DEF migrateKeys
<1>4. \A s \in SlotsMGRT_OneKey : Program(s, Nothing, Nothing)
    BY <1>3 DEF SlotsMGRT_OneKey
<1>5. \A s \in SlotsMGRT_SlotOneKey : Program(s, Nothing, Nothing)
  <2>1. Program(Reading("slot") \o migrateKeys, Nothing, Nothing)
      BY <1>1, <1>3, ProgramConcat
  <2>2. Program(Reading("slot") \o migrateKeys \o Left, Nothing, Nothing)
      BY <1>2, <2>1, ProgramConcat
  <2> QED BY <1>1, <2>2 DEF SlotsMGRT_SlotOneKey
<1>6. \A s \in SlotsMGRT_TagKeys : Program(s, Nothing, Nothing)
  <2>1. Program(Reading("slot") \o Reading("list"), Nothing, Nothing)
      BY <1>1, ProgramConcat
  <2>2. Program(Reading("slot") \o Reading("list") \o migrateKeys, Nothing, Nothing)
      BY <1>3, <2>1, ProgramConcat
  <2>3. Program(Reading("slot") \o Reading("list") \o migrateKeys \o Left, Nothing, Nothing)
      BY <1>2, <2>2, ProgramConcat
  <2> QED BY <1>1, <1>3, <2>1, <2>3 DEF SlotsMGRT_TagKeys
<1>7. \A s \in SlotsMGRT_TagSlotKeys : Program(s, Nothing, Nothing)
  <2>1. \A s \in SlotsMGRT_TagKeys : Program(Reading("slot") \o s, Nothing, Nothing)
      BY <1>1, <1>6, ProgramConcat
  <2> QED BY <1>1, <2>1 DEF SlotsMGRT_TagSlotKeys
<1>8. \A s \in SlotsMGRT_DelSlotKeys : Program(s, Nothing, Nothing)
  <2>1. Program(Reading("slot") \o Reading("slot"), Nothing, Nothing)
      BY <1>1, ProgramConcat
  <2>2. Program(Call("UNLINK"), Nothing, Nothing)
      BY CallPrograms DEF RedisCalls
  <2>3. Program(Reading("slot") \o Reading("slot") \o Call("UNLINK"), Nothing, Nothing)
      BY <2>1, <2>2, ProgramConcat
  <2> QED BY <1>1, <2>3 DEF SlotsMGRT_DelSlotKeys
<1>9. \A s \in SlotsTest : Program(s, Nothing, Nothing)
    BY CallPrograms DEF SlotsTest, RedisCalls
<1>10. \A s \in slotsRestoreCmd : Program(s, Nothing, Nothing)
  <2>1. Program(Call("RESTORE"), Nothing, Nothing) /\ Program(Call("notify"), Nothing, Nothing)
      BY CallPrograms DEF RedisCalls
  <2> QED BY <2>1, ProgramConcat DEF slotsRestoreCmd, restoreOneWithReplace
<1>11. \A x \in AllCommands : \A s \in dispatchCmd(x) : Program(s, Nothing, Nothing)
    BY <1>4, <1>5, <1>6, <1>7, <1>8, <1>9, <1>10 DEF dispatchCmd, AllCommands
<1>12. \A s \in MainPrograms \cup {<<>>} : Program(s, Gil, Gil)
  <2>1. Program(Reading("slot") \o Reading("slot"), Gil, Gil)
      BY IndexPrograms, ProgramConcat
  <2> QED BY <1>0, <2>1, IndexPrograms, ProgramEmpty DEF MainPrograms
<1>13. Program(CronLoopCallback, Gil, Gil)
  <2> DEFINE gc == At({"gil", "cache"}, "none")
  <2>1. gc \in Conditions
      BY InstructionFacts DEF Locks, Phases
  <2>2. Effect(Wr("cache"), Gil, gc) /\ Effect(Un("cache"), gc, Gil)
    <3>1. {"gil"} \cup {"cache"} = {"gil", "cache"}
        OBVIOUS
    <3> QED BY <3>1, InstructionFacts DEF Gil, Phases
  <2>3. Effect(Do("timeout"), gc, gc)
      BY InstructionFacts DEF DoEffect
  <2>4. {Wr("cache"), Un("cache"), Do("timeout")} \subseteq Instructions
      BY InstructionFacts DEF Locks, Steps1
  <2> HIDE DEF gc
  <2> QED BY <1>0, <2>1, <2>2, <2>3, <2>4, ProgramThree DEF CronLoopCallback
<1> QED BY <1>11, <1>12, <1>13

-----------------------------------------------------------------------------
(* Only the last instruction of a command unblocks the client, and before  *)
(* a lock of a slot is released it was taken.                              *)
LEMMA EffectInversion ==
    ASSUME NEW i \in Instructions, NEW p \in Conditions
    PROVE  /\ Effect(i, p, At({}, "done")) => i = Do("unblock") /\ p = Nothing
           /\ Effect(Un("slot"), p, Nothing) => p = At({"slot"}, "none")
           /\ Effect(i, p, At({"slot"}, "none")) => p = Nothing
<1>1. p = At(p.held, p.phase) /\ p.held \in SUBSET Locks
    BY DEF Conditions, At
<1>2. \A g, h, ph, ps : At(g, ph) = At(h, ps) => g = h /\ ph = ps
    BY DEF At
<1>3. ASSUME Effect(i, p, At({}, "done")) PROVE i = Do("unblock") /\ p = Nothing
  <2>1. i[1] = "do" /\ DoEffect(i[2], p, At({}, "done"))
      BY <1>2, <1>3 DEF Effect
  <2>2. i[2] = "unblock" /\ p = At({}, "none")
      BY <1>2, <2>1 DEF DoEffect, At
  <2> QED BY <2>1, <2>2 DEF Instructions, Do, Nothing
<1>4. ASSUME Effect(Un("slot"), p, Nothing) PROVE p = At({"slot"}, "none")
  <2>1. "slot" \in p.held /\ At({}, "none") = At(p.held \ {"slot"}, p.phase)
      BY <1>4 DEF Effect, Un, Nothing
  <2>2. p.held \ {"slot"} = {} /\ p.phase = "none"
      BY <1>2, <2>1
  <2>3. p.held = {"slot"}
      BY <2>1, <2>2
  <2> QED BY <1>1, <2>2, <2>3
<1>5. ASSUME Effect(i, p, At({"slot"}, "none")) PROVE p = Nothing
  <2>1. CASE /\ p.held \subseteq {"gil"}
             /\ At({"slot"}, "none") = At(p.held \cup {i[2]}, p.phase)
    <3>1. {"slot"} = p.held \cup {i[2]} /\ p.phase = "none"
        BY <1>2, <2>1
    <3>2. p.held = {}
        BY <2>1, <3>1
    <3> QED BY <1>1, <3>1, <3>2 DEF Nothing
  <2>2. CASE /\ i[2] \in p.held /\ p.held \subseteq {"gil", i[2]}
             /\ At({"slot"}, "none") = At(p.held \ {i[2]}, p.phase)
    <3>1. {"slot"} = p.held \ {i[2]}
        BY <1>2, <2>2
    <3> QED BY <2>2, <3>1
  <2>3. CASE DoEffect(i[2], p, At({"slot"}, "none"))
    <3>1. {"slot"} # {} /\ {"slot"} # {"gil"} /\ {"slot"} # {"cache"}
          /\ {"slot"} # {"gil", "cache"}
        OBVIOUS
    <3> QED BY <1>2, <2>3, <3>1 DEF DoEffect
  <2> QED BY <1>5, <2>1, <2>2, <2>3 DEF Effect
<1> QED BY <1>3, <1>4, <1>5

(* The ways out of a command are programs too.                             *)
LEMMA ExitsRun ==
    ASSUME NEW t \in Threads, NEW p, NEW s \in Exits(t),
           code[t] \in Seq(Instructions), code[t] # <<>>,
           Next1(t)[1] = "do", Next1(t)[2] # "unblock",
           Runs(code[t], p, Final(t))
    PROVE  Program(s, Nothing, Final(t))
<1>0. t # Main
    BY ThreadAssumption, NamesAssumption DEF Threads
<1>1. CASE t \notin Clients
  <2>1. s = <<>> /\ Final(t) = Nothing
      BY <1>0, <1>1 DEF Exits, Final, Nothing
  <2>2. Nothing \in Conditions
      BY InstructionFacts DEF Nothing, Locks, Phases
  <2> QED BY <2>1, <2>2, ProgramEmpty
<1>2. CASE t \in Clients
  <2> DEFINE c == code[t]  n == Len(c)
  <2>1. Final(t) = At({}, "done") /\ Final(t) \in Conditions /\ Nothing \in Conditions
      BY <1>0, <1>2, InstructionFacts DEF Final, Nothing, Locks, Phases
  <2>2. PICK h \in Seq(Conditions) :
            /\ Len(h) = n + 1
            /\ h[n + 1] = Final(t)
            /\ \A k \in 1 .. n : Effect(c[k], h[k], h[k + 1])
      BY DEF Runs, Steps
  <2>3. n \in Nat \ {0} /\ c[1][1] = "do" /\ c[1][2] # "unblock"
      BY DEF Next1
  <2>4. \A k \in 1 .. n : c[k] \in Instructions /\ h[k] \in Conditions
    <3>1. \A k \in 1 .. n : k \in 1 .. Len(h)
        BY <2>2, <2>3
    <3> QED BY <2>2, <3>1, ElementOfSeq
  <2> HIDE DEF c, n
  <2>5. c[n] = Do("unblock") /\ h[n] = Nothing /\ Effect(c[n], Nothing, Final(t))
    <3>1. n \in 1 .. n
        BY <2>3
    <3>2. Effect(c[n], h[n], At({}, "done"))
        BY <2>1, <2>2, <3>1
    <3> QED BY <2>1, <2>4, <3>1, <3>2, EffectInversion
  <2>6. Program(<<c[n]>>, Nothing, Final(t))
    <3>1. c[n] \in Instructions
        BY <2>3, <2>4
    <3> QED BY <2>1, <2>5, <3>1, ProgramOne
  <2>7. SubSeq(c, n - 0, n) = <<c[n]>>
    <3>1. n - 0 = n /\ n \in Int /\ n \in 1 .. n /\ n - n + 1 = 1 /\ n + 1 - 1 = n
        BY <2>3
    <3>2. \A k \in n .. n : c[k] \in Instructions
        BY <2>3, <2>4
    <3>3. /\ SubSeq(c, n, n) \in Seq(Instructions) /\ Len(SubSeq(c, n, n)) = 1
          /\ SubSeq(c, n, n)[1] = c[n]
        BY <3>1, <3>2, SubSeqProperties
    <3>4. <<c[n]>> \in Seq(Instructions) /\ Len(<<c[n]>>) = 1 /\ <<c[n]>>[1] = c[n]
        BY <2>4, <3>1
    <3> DEFINE u == SubSeq(c, n, n)  v == <<c[n]>>
    <3> HIDE DEF u, v
    <3>5. u = v
      <4>1. u \in Seq(Instructions) /\ v \in Seq(Instructions) /\ Len(u) = 1 /\ Len(v) = 1
            /\ u[1] = v[1]
          BY <3>3, <3>4 DEF u, v
      <4>2. \A k \in 1 .. Len(u) : u[k] = v[k]
          BY <4>1
      <4> QED BY <4>1, <4>2, SeqEqual
    <3> QED BY <3>1, <3>5 DEF u, v
  <2>8. ASSUME c[n - 1] = Un("slot")
        PROVE  /\ Program(<<c[n - 2], c[n - 1], c[n]>>, Nothing, Final(t))
               /\ SubSeq(c, n - 2, n) = <<c[n - 2], c[n - 1], c[n]>>
    <3>1. n # 1
        BY <2>3, <2>5 DEF Do
    <3>2. n # 2
      <4> SUFFICES ASSUME n = 2 PROVE FALSE
          OBVIOUS
      <4>1. n - 1 = 1
          OBVIOUS
      <4>2. c[1] = <<"un", "slot">>
          BY <2>8, <4>1 DEF Un
      <4> QED BY <2>3, <4>2
    <3>3. /\ n - 1 \in 1 .. n /\ n - 2 \in 1 .. n /\ n \in 1 .. n
          /\ (n - 1) + 1 = n /\ (n - 2) + 1 = n - 1
        BY <2>3, <3>1, <3>2
    <3>4. Effect(c[n - 1], h[n - 1], h[n]) /\ Effect(c[n - 2], h[n - 2], h[n - 1])
        BY <2>2, <3>3
    <3>5. h[n - 1] = At({"slot"}, "none")
        BY <2>4, <2>5, <2>8, <3>3, <3>4, EffectInversion
    <3>6. h[n - 2] = Nothing
        BY <2>4, <3>3, <3>4, <3>5, EffectInversion
    <3>7. Program(<<c[n - 2], c[n - 1], c[n]>>, Nothing, Final(t))
        BY <2>1, <2>4, <2>5, <3>3, <3>4, <3>6, ProgramThree
    <3>8. SubSeq(c, n - 2, n) = <<c[n - 2], c[n - 1], c[n]>>
      <4> DEFINE m == n - 2
      <4>1. /\ m \in Int /\ n \in Int /\ m <= n /\ n - m + 1 = 3
            /\ m + 1 - 1 = n - 2 /\ m + 2 - 1 = n - 1 /\ m + 3 - 1 = n
            /\ \A k \in m .. n : k \in 1 .. n
          BY <2>3, <3>3
      <4> HIDE DEF m
      <4>2. /\ SubSeq(c, m, n) \in Seq(Instructions) /\ Len(SubSeq(c, m, n)) = 3
            /\ SubSeq(c, m, n)[1] = c[n - 2] /\ SubSeq(c, m, n)[2] = c[n - 1]
            /\ SubSeq(c, m, n)[3] = c[n]
        <5>1. \A k \in m .. n : c[k] \in Instructions
            BY <2>4, <4>1
        <5>2. /\ SubSeq(c, m, n) \in Seq(Instructions) /\ Len(SubSeq(c, m, n)) = 3
              /\ \A k \in 1 .. 3 : SubSeq(c, m, n)[k] = c[m + k - 1]
            BY <4>1, <5>1, SubSeqProperties
        <5>3. 1 \in 1 .. 3 /\ 2 \in 1 .. 3 /\ 3 \in 1 .. 3
            OBVIOUS
        <5> QED BY <4>1, <5>2, <5>3
      <4>3. <<c[n - 2], c[n - 1], c[n]>> \in Seq(Instructions)
          BY <2>4, <3>3
      <4> DEFINE u == SubSeq(c, m, n)  v == <<c[n - 2], c[n - 1], c[n]>>
      <4>4. Len(v) = 3 /\ \A k \in 1 .. 3 : u[k] = v[k]
          BY <4>2
      <4> HIDE DEF u, v
      <4>5. u = v
          BY <4>2, <4>3, <4>4, SeqEqual DEF u, v
      <4> QED BY <4>5 DEF u, v, m
    <3> QED BY <3>7, <3>8
  <2>9. s = SubSeq(c, n - 0, n) \/ (c[n - 1] = Un("slot") /\ s = SubSeq(c, n - 2, n))
      BY <1>2 DEF Exits, c, n
  <2> QED BY <2>6, <2>7, <2>8, <2>9
<1> QED BY <1>1, <1>2

-----------------------------------------------------------------------------
(* Steps.  What the next instruction of a thread says about it.            *)
LEMMA ReadyFacts ==
    ASSUME IInv, NEW t \in Threads, NEW x, Ready(t, Do(x))
    PROVE  /\ t \in Actors /\ code[t] \in Seq(Instructions) /\ code[t] # <<>>
           /\ Next1(t)[1] = "do" /\ Next1(t)[2] = x
           /\ \E p, q \in Conditions :
                 /\ DoEffect(x, p, q)
                 /\ p.held = HeldBy(t) /\ InPhase(p.phase, ptr[t], conn[t])
                 /\ Runs(code[t], p, Final(t))
                 /\ Program(Tail(code[t]), q, Final(t))
<1>1. /\ t \in Actors /\ code[t] \in Seq(Instructions) /\ code[t] # <<>>
      /\ Head(code[t]) = Do(x)
    BY DEF IInv, CodeOK, Ready, Next1, Actors
<1>2. PICK p \in Conditions :
        /\ Runs(code[t], p, Final(t))
        /\ p.held = HeldBy(t) /\ InPhase(p.phase, ptr[t], conn[t])
    BY <1>1 DEF IInv, CodeOK, Sound
<1>3. PICK q \in Conditions : Effect(Do(x), p, q) /\ Program(Tail(code[t]), q, Final(t))
    BY <1>1, <1>2, RunsTail DEF Program
<1>4. DoEffect(x, p, q)
    BY <1>3 DEF Effect, Do
<1> QED BY <1>1, <1>2, <1>3, <1>4 DEF Next1, Do

(* The same for an instruction with only one condition before it.          *)
LEMMA ReadyAt ==
    ASSUME IInv, NEW t \in Threads, NEW x, Ready(t, Do(x)),
           NEW h, NEW ph, NEW g, NEW qh,
           \A p, q : DoEffect(x, p, q) => p = At(h, ph) /\ q = At(g, qh)
    PROVE  /\ HeldBy(t) = h /\ InPhase(ph, ptr[t], conn[t])
           /\ Program(Tail(code[t]), At(g, qh), Final(t))
<1>1. PICK p, q \in Conditions :
        /\ DoEffect(x, p, q) /\ p.held = HeldBy(t)
        /\ InPhase(p.phase, ptr[t], conn[t])
        /\ Program(Tail(code[t]), q, Final(t))
    BY ReadyFacts
<1>2. At(h, ph).held = h /\ At(h, ph).phase = ph
    BY DEF At
<1> QED BY <1>1, <1>2

(* Who has nothing to do holds what it ends with.                          *)
LEMMA IdleFacts ==
    ASSUME IInv, NEW a \in Actors, code[a] = <<>>
    PROVE  HeldBy(a) = Final(a).held /\ (a \in Threads => ~ptr[a])
<1>1. PICK p \in Conditions :
        /\ Runs(code[a], p, Final(a)) /\ p.held = HeldBy(a)
        /\ a \in Threads => InPhase(p.phase, ptr[a], conn[a])
    BY DEF IInv, CodeOK, Sound
<1>2. p = Final(a)
  <2>1. Len(<<>>) = 0
      OBVIOUS
  <2> QED BY <1>1, <2>1 DEF Runs
<1>3. a \in Threads => ~ptr[a]
  <2>1. Final(a).phase \in {"none", "done"}
      BY DEF Final, At
  <2> QED BY <1>1, <1>2, <2>1 DEF InPhase
<1> QED BY <1>1, <1>2, <1>3

(* A step of t that takes and releases no lock: it is enough to look at t, *)
(* and at threads whose connections change while they have nothing to do.  *)
LEMMA ThreadStep ==
    ASSUME IInv, NEW t \in Actors, UNCHANGED locks,
           NEW s, code' = [code EXCEPT ![t] = s],
           NEW p, Program(s, p, Final(t)), p.held = HeldBy(t),
           t \in Threads => InPhase(p.phase, ptr'[t], conn'[t]),
           \A b \in Threads \ {t} : ptr'[b] = ptr[b],
           \A b \in Threads \ {t} :
              \/ code[b] = <<>>
              \/ \A ph \in Phases : InPhase(ph, ptr[b], conn[b])
                                     => InPhase(ph, ptr[b], conn'[b])
    PROVE  LocksOK' /\ CodeOK'
<1>1. LocksOK'
    BY DEF IInv, LocksOK, locks
<1>2. code \in [Actors -> Seq(Instructions)] /\ s \in Seq(Instructions)
    BY DEF IInv, CodeOK, Program
<1>3. code' \in [Actors -> Seq(Instructions)] /\ code'[t] = s
      /\ \A b \in Actors \ {t} : code'[b] = code[b]
    BY <1>2
<1>4. \A b : HeldBy(b)' = HeldBy(b)
    BY DEF HeldBy, Holds, locks
<1>5. Sound(t)'
  <2>1. p \in Conditions
      BY RunsType DEF Program
  <2> QED BY <1>3, <1>4, <2>1 DEF Sound, Program
<1>6. ASSUME NEW b \in Actors \ {t} PROVE Sound(b)'
  <2>1. PICK r \in Conditions :
          /\ Runs(code[b], r, Final(b)) /\ r.held = HeldBy(b)
          /\ b \in Threads => InPhase(r.phase, ptr[b], conn[b])
      BY DEF IInv, CodeOK, Sound
  <2>2. ASSUME b \in Threads PROVE InPhase(r.phase, ptr'[b], conn'[b])
    <3>1. ptr'[b] = ptr[b]
        BY <2>2
    <3>2. CASE \A ph \in Phases : InPhase(ph, ptr[b], conn[b])
                                   => InPhase(ph, ptr[b], conn'[b])
      <4>1. r.phase \in Phases
          BY DEF Conditions
      <4> QED BY <2>1, <2>2, <3>1, <3>2, <4>1
    <3>3. CASE code[b] = <<>>
      <4>1. Len(<<>>) = 0
          OBVIOUS
      <4>2. r = Final(b)
          BY <2>1, <3>3, <4>1 DEF Runs
      <4>3. r.phase \in {"none", "done"}
          BY <4>2 DEF Final, At
      <4>4. ~ptr[b]
          BY <2>2, <3>3, IdleFacts
      <4> QED BY <3>1, <4>3, <4>4 DEF InPhase
    <3> QED BY <2>2, <3>2, <3>3
  <2> QED BY <1>3, <1>4, <2>1, <2>2 DEF Sound
<1> QED BY <1>1, <1>3, <1>5, <1>6 DEF CodeOK

(* Only what ends with the client unblocked leaves a command nothing to do,*)
(* so a client stays blocked while its thread goes on.                     *)
LEMMA BlockedStep ==
    ASSUME IInv, NEW t \in Actors, client' = client,
           NEW s, code' = [code EXCEPT ![t] = s],
           NEW p, Runs(s, p, Final(t)),
           t \in Clients => code[t] # <<>> /\ p.phase # "done"
    PROVE  Blocking'
<1>1. code \in [Actors -> Seq(Instructions)] /\ Clients \subseteq Actors
    BY DEF IInv, CodeOK, Actors, Threads
<1>2. ASSUME t \in Clients PROVE s # <<>>
  <2> SUFFICES ASSUME s = <<>> PROVE FALSE
      OBVIOUS
  <2>1. Len(<<>>) = 0
      OBVIOUS
  <2>2. p = Final(t)
      BY <2>1 DEF Runs
  <2>3. Final(t).phase = "done"
      BY <1>2, ThreadAssumption DEF Final, At
  <2> QED BY <1>2, <2>2, <2>3
<1>3. ASSUME NEW c \in Clients PROVE client'[c] = "blocked" <=> code'[c] # <<>>
  <2>1. client[c] = "blocked" <=> code[c] # <<>>
      BY DEF IInv, Blocking
  <2>2. CASE c = t
    <3>1. code'[c] = s /\ s # <<>> /\ code[c] # <<>>
        BY <1>1, <1>2, <2>2
    <3> QED BY <2>1, <3>1
  <2>3. CASE c # t
    <3>1. code'[c] = code[c]
        BY <1>1, <2>3
    <3> QED BY <2>1, <3>1
  <2> QED BY <2>2, <2>3
<1> QED BY <1>3 DEF Blocking

(* Taking or releasing a lock, by any actor.                               *)
LEMMA LockStepIInv ==
    ASSUME IInv, NEW a \in Actors, LockStep(a), UNCHANGED slots_mgrt_threads
    PROVE  IInv'
<1> DEFINE l == Next1(a)[2]
<1>1. /\ UNCHANGED <<client, chunks, conn, ptr, unixtime, orphans, due, down>>
      /\ code' = [code EXCEPT ![a] = <<>> \o Tail(@)]
      /\ code[a] # <<>>
    BY DEF LockStep, Acquire, Release, Continue, conns
<1>2. code \in [Actors -> Seq(Instructions)] /\ code[a] \in Seq(Instructions)
    BY DEF IInv, CodeOK
<1>3. PICK p \in Conditions :
        /\ Runs(code[a], p, Final(a)) /\ p.held = HeldBy(a)
        /\ a \in Threads => InPhase(p.phase, ptr[a], conn[a])
    BY DEF IInv, CodeOK, Sound
<1>4. PICK q \in Conditions :
        Effect(Next1(a), p, q) /\ Runs(Tail(code[a]), q, Final(a))
    BY <1>1, <1>2, <1>3, RunsTail DEF Next1
<1>5. Next1(a) \in Instructions /\ Tail(code[a]) \in Seq(Instructions)
    BY <1>1, <1>2, <1>3, RunsTail DEF Next1
<1>6. l \in Locks /\ Next1(a)[1] \in {"rd", "wr", "un"} /\ Next1(a) = <<Next1(a)[1], l>>
    BY <1>5 DEF LockStep, Instructions
<1>7. q.phase = p.phase
    BY <1>4, <1>6 DEF Effect, At
<1>8. /\ code' \in [Actors -> Seq(Instructions)] /\ code'[a] = Tail(code[a])
      /\ \A b \in Actors \ {a} : code'[b] = code[b]
  <2>1. <<>> \o Tail(code[a]) = Tail(code[a])
      BY <1>5, ConcatEmptySeq
  <2> QED BY <1>1, <1>2, <1>5, <2>1
<1>9. DataOK' /\ ConnInv' /\ Blocking'
  <2>1. p.phase # "done"
      BY <1>4, <1>6 DEF Effect
  <2>2. code' = [code EXCEPT ![a] = Tail(code[a])]
    <3>1. <<>> \o Tail(code[a]) = Tail(code[a])
        BY <1>5, ConcatEmptySeq
    <3> QED BY <1>1, <3>1
  <2>3. Blocking'
      BY <1>1, <1>4, <1>7, <2>1, <2>2, BlockedStep
  <2> QED BY <1>1, <2>3 DEF IInv, DataOK, ConnInv
<1>10. /\ readers \in [Locks -> SUBSET Actors] /\ writer \in [Locks -> SUBSET Actors]
       /\ \A k \in Locks : /\ \A b, c \in writer[k] : b = c
                           /\ writer[k] = {} \/ readers[k] = {}
    BY DEF IInv, LocksOK
<1> HIDE DEF l
<1>11. SUFFICES LocksOK' /\ HeldBy(a)' = q.held
                /\ \A b \in Actors \ {a} : HeldBy(b)' = HeldBy(b)
  <2>1. Sound(a)'
      BY <1>1, <1>3, <1>4, <1>7, <1>8, <1>11 DEF Sound
  <2>2. ASSUME NEW b \in Actors \ {a} PROVE Sound(b)'
    <3>1. Sound(b)
        BY DEF IInv, CodeOK
    <3> QED BY <1>1, <1>8, <1>11, <3>1 DEF Sound
  <2> QED BY <1>8, <1>9, <1>11, <2>1, <2>2 DEF IInv, CodeOK
<1>12. CASE /\ Next1(a)[1] = "rd" /\ writer[l] = {}
            /\ readers' = [readers EXCEPT ![l] = @ \cup {a}]
            /\ UNCHANGED writer
  <2>1. q.held = p.held \cup {l}
      BY <1>4, <1>12 DEF Effect, At, l
  <2>2. LocksOK'
      BY <1>6, <1>10, <1>12 DEF LocksOK
  <2>3. HeldBy(a)' = HeldBy(a) \cup {l}
      BY <1>6, <1>10, <1>12 DEF HeldBy, Holds
  <2>4. \A b \in Actors \ {a} : HeldBy(b)' = HeldBy(b)
      BY <1>6, <1>10, <1>12 DEF HeldBy, Holds
  <2> QED BY <1>3, <2>1, <2>2, <2>3, <2>4
<1>13. CASE /\ Next1(a)[1] = "wr" /\ writer[l] = {} /\ readers[l] = {}
            /\ writer' = [writer EXCEPT ![l] = {a}]
            /\ UNCHANGED readers
  <2>1. q.held = p.held \cup {l}
      BY <1>4, <1>13 DEF Effect, At, l
  <2>2. LocksOK'
      BY <1>6, <1>10, <1>13 DEF LocksOK
  <2>3. HeldBy(a)' = HeldBy(a) \cup {l}
      BY <1>6, <1>10, <1>13 DEF HeldBy, Holds
  <2>4. \A b \in Actors \ {a} : HeldBy(b)' = HeldBy(b)
      BY <1>6, <1>10, <1>13 DEF HeldBy, Holds
  <2> QED BY <1>3, <2>1, <2>2, <2>3, <2>4
<1>14. CASE /\ Next1(a)[1] = "un"
            /\ readers' = [readers EXCEPT ![l] = @ \ {a}]
            /\ writer' = [writer EXCEPT ![l] = @ \ {a}]
  <2>1. q.held = p.held \ {l}
      BY <1>4, <1>14 DEF Effect, At, l
  <2>2. LocksOK'
      BY <1>6, <1>10, <1>14 DEF LocksOK
  <2>3. HeldBy(a)' = HeldBy(a) \ {l}
      BY <1>6, <1>10, <1>14 DEF HeldBy, Holds
  <2>4. \A b \in Actors \ {a} : HeldBy(b)' = HeldBy(b)
      BY <1>6, <1>10, <1>14 DEF HeldBy, Holds
  <2> QED BY <1>3, <2>1, <2>2, <2>3, <2>4
<1> QED
    BY <1>6, <1>12, <1>13, <1>14 DEF LockStep, Acquire, Release, Ready, Rd, Wr, Un, l

(* Going on with s before the rest of the program.                         *)
LEMMA ContinueProgram ==
    ASSUME NEW t \in Actors, code \in [Actors -> Seq(Instructions)],
           NEW s, Continue(t, s),
           NEW p, NEW q, Program(s, p, q), Program(Tail(code[t]), q, Final(t))
    PROVE  /\ code' = [code EXCEPT ![t] = s \o Tail(code[t])]
           /\ Program(s \o Tail(code[t]), p, Final(t))
BY ProgramConcat DEF Continue

(* Calls of Redis.                                                         *)
LEMMA CallRedisIInv ==
    ASSUME IInv, NEW t \in Threads, NEW x \in RedisCalls, CallRedis(t, x),
           UNCHANGED slots_mgrt_threads
    PROVE  IInv'
<1>1. /\ Ready(t, Do(x))
      /\ UNCHANGED <<locks, client, chunks, conn, ptr, unixtime, orphans, due, down>>
    BY DEF CallRedis, conns
<1>2. /\ t \in Actors /\ code[t] \in Seq(Instructions) /\ code[t] # <<>>
      /\ Next1(t)[1] = "do" /\ Next1(t)[2] # "unblock"
    BY <1>1, ReadyFacts DEF RedisCalls
<1>3. PICK p, q \in Conditions :
        /\ DoEffect(x, p, q)
        /\ p.held = HeldBy(t) /\ InPhase(p.phase, ptr[t], conn[t])
        /\ Runs(code[t], p, Final(t))
        /\ Program(Tail(code[t]), q, Final(t))
    BY <1>1, ReadyFacts
<1>4. p = Gil /\ q = Gil
    BY <1>3 DEF DoEffect, RedisCalls, Gil
<1>5. DataOK' /\ ConnInv'
    BY <1>1 DEF IInv, DataOK, ConnInv
<1>6. PICK cb \in Callbacks(x) :
          \/ Continue(t, cb)
          \/ \E s \in Exits(t) : Jump(t, cb \o <<Un("gil")>> \o s)
    BY DEF CallRedis, BadReply
<1>7. Program(cb, Gil, Gil)
    BY IndexPrograms
<1>8. \E s : code' = [code EXCEPT ![t] = s] /\ Program(s, Gil, Final(t))
  <2>1. CASE Continue(t, cb)
      BY <1>2, <1>3, <1>4, <1>7, <2>1, ContinueProgram DEF IInv, CodeOK
  <2>2. ASSUME NEW s \in Exits(t), Jump(t, cb \o <<Un("gil")>> \o s)
        PROVE  \E r : code' = [code EXCEPT ![t] = r] /\ Program(r, Gil, Final(t))
    <3>1. Program(s, Nothing, Final(t))
        BY <1>2, <1>3, ExitsRun
    <3>2. Program(<<Un("gil")>>, Gil, Nothing)
        BY InstructionFacts, ProgramOne DEF Gil, Nothing, Locks, Phases
    <3>3. Program(cb \o <<Un("gil")>>, Gil, Nothing)
        BY <1>7, <3>2, ProgramConcat
    <3>4. Program(cb \o <<Un("gil")>> \o s, Gil, Final(t))
        BY <3>1, <3>3, ProgramConcat
    <3> QED BY <2>2, <3>4 DEF Jump
  <2> QED BY <1>6, <2>1, <2>2
<1>9. PICK s : code' = [code EXCEPT ![t] = s] /\ Program(s, Gil, Final(t))
    BY <1>8
<1>10. LocksOK' /\ CodeOK'
    BY <1>1, <1>2, <1>3, <1>4, <1>9, ThreadStep
<1>11. Blocking'
  <2>1. Gil.phase # "done"
      BY DEF Gil, At
  <2> QED BY <1>1, <1>2, <1>9, <2>1, BlockedStep DEF Program
<1> QED BY <1>5, <1>10, <1>11 DEF IInv

(* The use of a connection: the phase of t changes with its pointer and    *)
(* its place in the cache.                                                 *)
LEMMA UseConnIInv ==
    ASSUME IInv, NEW t \in Threads, UseConn(t), UNCHANGED slots_mgrt_threads
    PROVE  IInv'
<1>1. UNCHANGED <<locks, client, chunks, orphans, due>> /\ down' \in BOOLEAN
  <2>1. down \in BOOLEAN /\ ptr[t] \in BOOLEAN /\ conn[t].live \in BOOLEAN
      BY DEF IInv, DataOK, Connections
  <2> QED BY <2>1 DEF UseConn, Touch
<1>2. /\ conn \in [Threads -> Connections] /\ conn[t] \in Connections
      /\ ptr \in [Threads -> BOOLEAN] /\ unixtime \in [Threads -> Ages]
      /\ t \in Actors /\ code \in [Actors -> Seq(Instructions)]
      /\ \A b \in Threads : Owned(ptr[b], conn[b])
    BY DEF IInv, DataOK, ConnInv, Actors, CodeOK
<1>3. 0 \in Ages /\ Oldest \in Ages
    BY ThreadAssumption DEF Ages, Oldest
<1>4. ASSUME conn' \in [Threads -> Connections],
             ptr' \in [Threads -> BOOLEAN], unixtime' \in [Threads -> Ages],
             \A b \in Threads \ {t} : conn'[b] = conn[b] /\ ptr'[b] = ptr[b],
             Owned(ptr'[t], conn'[t]), code[t] # <<>>,
             NEW s, code' = [code EXCEPT ![t] = s],
             NEW ph, ph # "done", Program(s, At(HeldBy(t), ph), Final(t)),
             InPhase(ph, ptr'[t], conn'[t])
      PROVE  IInv'
  <2>1. DataOK'
      BY <1>1, <1>4 DEF IInv, DataOK
  <2>2. ConnInv'
      BY <1>2, <1>4 DEF ConnInv
  <2>3. LocksOK' /\ CodeOK' /\ Blocking'
    <3>1. At(HeldBy(t), ph).held = HeldBy(t) /\ At(HeldBy(t), ph).phase = ph
        BY DEF At
    <3>2. /\ \A b \in Threads \ {t} : ptr'[b] = ptr[b]
          /\ \A b \in Threads \ {t} :
                \/ code[b] = <<>>
                \/ \A h \in Phases : InPhase(h, ptr[b], conn[b])
                                      => InPhase(h, ptr[b], conn'[b])
        BY <1>4
    <3>3. LocksOK' /\ CodeOK'
        BY <1>1, <1>2, <1>4, <3>1, <3>2, ThreadStep
    <3>4. Blocking'
        BY <1>1, <1>2, <1>4, <3>1, BlockedStep DEF Program
    <3> QED BY <3>3, <3>4
  <2> QED BY <2>1, <2>2, <2>3 DEF IInv
<1>5. ASSUME NEW x, Ready(t, Do(x)), x # "unblock", NEW s \in Exits(t)
      PROVE  Program(s, Nothing, Final(t))
  <2>1. /\ code[t] \in Seq(Instructions) /\ code[t] # <<>>
        /\ Next1(t)[1] = "do" /\ Next1(t)[2] # "unblock"
        /\ \E p : Runs(code[t], p, Final(t))
      BY <1>5, ReadyFacts
  <2> QED BY <2>1, ExitsRun
<1>6. /\ \A v, c : InPhase("none", v, c) <=> ~v
      /\ \A v, c : InPhase("maybe", v, c) <=> (v \/ ~c.cached) /\ (c.live => c.cached)
      /\ \A v, c : InPhase("miss", v, c) <=> ~v /\ ~c.cached
      /\ \A v, c : InPhase("new", v, c) <=> v /\ ~c.cached /\ c.live
      /\ \A v, c : InPhase("both", v, c) <=> v /\ (c.live => c.cached)
      /\ \A v, c : InPhase("out", v, c) <=> v /\ ~c.cached
    BY DEF InPhase
<1>7. /\ \A h \in {{}, {"cache"}}, ph \in Phases : At(h, ph) \in Conditions
      /\ {"none", "maybe", "miss", "new", "both", "out"} \subseteq Phases
      /\ Nothing \in Conditions /\ Nothing = At({}, "none")
    BY InstructionFacts DEF Nothing, Locks, Phases
<1>8. ASSUME NEW x, Ready(t, Do(x)), Continue(t, <<>>),
             NEW g \in {{}, {"cache"}}, NEW ph \in Phases,
             Program(Tail(code[t]), At(g, ph), Final(t))
      PROVE  /\ code[t] # <<>>
             /\ code' = [code EXCEPT ![t] = <<>> \o Tail(code[t])]
             /\ Program(<<>> \o Tail(code[t]), At(g, ph), Final(t))
    BY <1>2, <1>7, <1>8, ProgramEmpty, ContinueProgram DEF Ready
<1>9. CASE ReadTime(t)
  <2>1. /\ Ready(t, Do("time")) /\ ptr' = ptr /\ conn' = conn /\ Continue(t, <<>>)
        /\ unixtime' = [unixtime EXCEPT ![t] = 0]
      BY <1>9 DEF ReadTime
  <2>2. \A p, q : DoEffect("time", p, q) => p = At({}, "none") /\ q = At({}, "none")
      BY DEF DoEffect, RedisCalls
  <2>3. /\ HeldBy(t) = {} /\ InPhase("none", ptr[t], conn[t])
        /\ Program(Tail(code[t]), At({}, "none"), Final(t))
      BY <2>1, <2>2, ReadyAt
  <2>4. unixtime' \in [Threads -> Ages]
      BY <1>2, <1>3, <2>1
  <2>5. /\ code[t] # <<>> /\ code' = [code EXCEPT ![t] = <<>> \o Tail(code[t])]
        /\ Program(<<>> \o Tail(code[t]), At({}, "none"), Final(t))
      BY <1>7, <1>8, <2>1, <2>3
  <2> QED BY <1>2, <1>4, <2>1, <2>3, <2>4, <2>5
<1>10. CASE Find(t)
  <2>1. /\ Ready(t, Do("find")) /\ Continue(t, <<>>) /\ unixtime' = unixtime
        /\ ptr' = [ptr EXCEPT ![t] = conn[t].cached] /\ conn' = conn
      BY <1>10 DEF Find
  <2>2. \A p, q : DoEffect("find", p, q)
                    => p = At({"cache"}, "none") /\ q = At({"cache"}, "maybe")
      BY DEF DoEffect, RedisCalls
  <2>3. /\ HeldBy(t) = {"cache"} /\ InPhase("none", ptr[t], conn[t])
        /\ Program(Tail(code[t]), At({"cache"}, "maybe"), Final(t))
      BY <2>1, <2>2, ReadyAt
  <2>4. /\ ptr' \in [Threads -> BOOLEAN]
        /\ \A b \in Threads \ {t} : conn'[b] = conn[b] /\ ptr'[b] = ptr[b]
        /\ ptr'[t] = conn[t].cached /\ conn'[t] = conn[t] /\ ~ptr[t]
      BY <1>2, <1>6, <2>1, <2>3 DEF Connections
  <2>5. Owned(ptr'[t], conn'[t]) /\ InPhase("maybe", ptr'[t], conn'[t])
      BY <1>2, <1>6, <2>4 DEF Owned
  <2>6. /\ code[t] # <<>> /\ code' = [code EXCEPT ![t] = <<>> \o Tail(code[t])]
        /\ Program(<<>> \o Tail(code[t]), At({"cache"}, "maybe"), Final(t))
      BY <1>7, <1>8, <2>1, <2>3
  <2> QED BY <1>2, <1>4, <2>1, <2>3, <2>4, <2>5, <2>6
<1>11. CASE Refresh(t)
  <2>1. Ready(t, Do("refresh")) /\ ptr' = ptr
      BY <1>11 DEF Refresh
  <2>2. \A p, q : DoEffect("refresh", p, q) => p = At({}, "maybe") /\ q = At({}, "both")
      BY DEF DoEffect, RedisCalls
  <2>3. /\ HeldBy(t) = {} /\ InPhase("maybe", ptr[t], conn[t])
        /\ Program(Tail(code[t]), At({}, "both"), Final(t))
      BY <2>1, <2>2, ReadyAt
  <2>4. CASE /\ ptr[t] /\ Continue(t, <<>>)
             /\ conn' = IF conn[t].live THEN [conn EXCEPT ![t].age = unixtime[t]]
                                        ELSE conn
             /\ unixtime' = [unixtime EXCEPT ![t] = Oldest]
    <3>1. /\ conn' \in [Threads -> Connections] /\ unixtime' \in [Threads -> Ages]
          /\ \A b \in Threads \ {t} : conn'[b] = conn[b]
          /\ conn'[t].cached = conn[t].cached /\ conn'[t].live = conn[t].live
          /\ ~conn[t].live => conn'[t].age = conn[t].age
        BY <1>2, <1>3, <2>4 DEF Connections
    <3>2. Owned(ptr'[t], conn'[t]) /\ InPhase("both", ptr'[t], conn'[t])
        BY <1>2, <1>6, <2>1, <2>3, <2>4, <3>1 DEF Owned
    <3>3. /\ code[t] # <<>> /\ code' = [code EXCEPT ![t] = <<>> \o Tail(code[t])]
          /\ Program(<<>> \o Tail(code[t]), At({}, "both"), Final(t))
        BY <1>7, <1>8, <2>1, <2>3, <2>4
    <3> QED BY <1>2, <1>4, <2>1, <2>3, <3>1, <3>2, <3>3
  <2>5. CASE ~ptr[t] /\ Continue(t, NewConn) /\ UNCHANGED <<conn, unixtime>>
    <3>1. /\ code' = [code EXCEPT ![t] = NewConn \o Tail(code[t])]
          /\ Program(NewConn \o Tail(code[t]), At({}, "miss"), Final(t))
        BY <1>2, <2>3, <2>5, ConnPrograms, ContinueProgram
    <3>2. code[t] # <<>> /\ InPhase("miss", ptr'[t], conn'[t])
        BY <1>6, <2>1, <2>3, <2>5 DEF Ready
    <3> QED BY <1>2, <1>4, <2>1, <2>3, <2>5, <3>1, <3>2
  <2> QED BY <1>11, <2>4, <2>5 DEF Refresh
<1>12. CASE Connect(t)
  <2>1. Ready(t, Do("connect")) /\ unixtime' = [unixtime EXCEPT ![t] = Oldest]
      BY <1>12 DEF Connect
  <2>2. \A p, q : DoEffect("connect", p, q) => p = At({}, "miss") /\ q = At({}, "new")
      BY DEF DoEffect, RedisCalls
  <2>3. /\ HeldBy(t) = {} /\ InPhase("miss", ptr[t], conn[t])
        /\ Program(Tail(code[t]), At({}, "new"), Final(t))
      BY <2>1, <2>2, ReadyAt
  <2>4. unixtime' \in [Threads -> Ages] /\ unixtime[t] \in Ages
      BY <1>2, <1>3, <2>1
  <2>5. CASE /\ conn' = [conn EXCEPT ![t] = [live |-> TRUE, cached |-> FALSE,
                                            age |-> unixtime[t]]]
             /\ ptr' = [ptr EXCEPT ![t] = TRUE]
             /\ Continue(t, <<>>)
    <3>0. [live |-> TRUE, cached |-> FALSE, age |-> unixtime[t]] \in Connections
        BY <2>4 DEF Connections
    <3>1. /\ conn' \in [Threads -> Connections] /\ ptr' \in [Threads -> BOOLEAN]
          /\ \A b \in Threads \ {t} : conn'[b] = conn[b] /\ ptr'[b] = ptr[b]
          /\ conn'[t].live /\ ~conn'[t].cached /\ ptr'[t]
        BY <1>2, <2>5, <3>0
    <3>2. Owned(ptr'[t], conn'[t]) /\ InPhase("new", ptr'[t], conn'[t])
        BY <1>6, <3>1 DEF Owned
    <3>3. /\ code[t] # <<>> /\ code' = [code EXCEPT ![t] = <<>> \o Tail(code[t])]
          /\ Program(<<>> \o Tail(code[t]), At({}, "new"), Final(t))
        BY <1>7, <1>8, <2>1, <2>3, <2>5
    <3> QED BY <1>4, <2>3, <2>4, <3>1, <3>2, <3>3
  <2>6. ASSUME NEW s \in Exits(t), Jump(t, s), UNCHANGED <<conn, ptr>> PROVE IInv'
    <3>1. Program(s, At({}, "none"), Final(t)) /\ code' = [code EXCEPT ![t] = s]
        BY <1>5, <2>1, <2>6 DEF Jump, Nothing
    <3>2. code[t] # <<>> /\ InPhase("none", ptr'[t], conn'[t])
        BY <1>6, <2>1, <2>3, <2>6 DEF Ready
    <3> QED BY <1>2, <1>4, <2>3, <2>4, <2>6, <3>1, <3>2
  <2> QED BY <1>12, <2>5, <2>6 DEF Connect
<1>13. CASE Insert(t)
  <2>1. /\ Ready(t, Do("insert")) /\ ptr' = ptr /\ unixtime' = unixtime
        /\ Continue(t, <<>>) /\ conn' = [conn EXCEPT ![t].cached = TRUE]
      BY <1>13 DEF Insert
  <2>2. \A p, q : DoEffect("insert", p, q)
                    => p = At({"cache"}, "new") /\ q = At({"cache"}, "both")
      BY DEF DoEffect, RedisCalls
  <2>3. /\ HeldBy(t) = {"cache"} /\ InPhase("new", ptr[t], conn[t])
        /\ Program(Tail(code[t]), At({"cache"}, "both"), Final(t))
      BY <2>1, <2>2, ReadyAt
  <2>4. /\ conn' \in [Threads -> Connections]
        /\ \A b \in Threads \ {t} : conn'[b] = conn[b]
        /\ conn'[t].cached /\ conn'[t].live /\ ptr'[t]
      BY <1>2, <1>6, <2>1, <2>3 DEF Connections
  <2>5. Owned(ptr'[t], conn'[t]) /\ InPhase("both", ptr'[t], conn'[t])
      BY <1>6, <2>4 DEF Owned
  <2>6. /\ code[t] # <<>> /\ code' = [code EXCEPT ![t] = <<>> \o Tail(code[t])]
        /\ Program(<<>> \o Tail(code[t]), At({"cache"}, "both"), Final(t))
      BY <1>7, <1>8, <2>1, <2>3
  <2> QED BY <1>2, <1>4, <2>1, <2>3, <2>4, <2>5, <2>6
<1>14. ASSUME NEW x \in {"SELECT", "SLOTSRESTORE"}, Ready(t, Do(x))
       PROVE  /\ HeldBy(t) = {} /\ InPhase("both", ptr[t], conn[t]) /\ code[t] # <<>>
              /\ Continue(t, <<>>) =>
                    \E s : code' = [code EXCEPT ![t] = s] /\ Program(s, At({}, "both"), Final(t))
              /\ \A r \in Exits(t) : Jump(t, CloseConn \o r) =>
                    \E s : code' = [code EXCEPT ![t] = s] /\ Program(s, At({}, "both"), Final(t))
  <2>1. \A p, q : DoEffect(x, p, q) => p = At({}, "both") /\ q = At({}, "both")
      BY DEF DoEffect, RedisCalls
  <2>2. /\ HeldBy(t) = {} /\ InPhase("both", ptr[t], conn[t])
        /\ Program(Tail(code[t]), At({}, "both"), Final(t))
      BY <1>14, <2>1, ReadyAt
  <2>3. ASSUME Continue(t, <<>>)
        PROVE  \E s : code' = [code EXCEPT ![t] = s] /\ Program(s, At({}, "both"), Final(t))
      BY <1>7, <1>8, <1>14, <2>2, <2>3
  <2>4. ASSUME NEW r \in Exits(t), Jump(t, CloseConn \o r)
        PROVE  \E s : code' = [code EXCEPT ![t] = s] /\ Program(s, At({}, "both"), Final(t))
    <3>1. Program(r, Nothing, Final(t))
        BY <1>5, <1>14
    <3>2. Program(CloseConn \o r, At({}, "both"), Final(t))
        BY <3>1, ConnPrograms, ProgramConcat
    <3> QED BY <2>4, <3>2 DEF Jump
  <2>5. code[t] # <<>>
      BY <1>14 DEF Ready
  <2> QED BY <2>2, <2>3, <2>4, <2>5
<1>15. CASE Select(t)
  <2>1. Ready(t, Do("SELECT")) /\ conn' = conn /\ unixtime' = unixtime
      BY <1>15 DEF Select
  <2>2. HeldBy(t) = {} /\ InPhase("both", ptr[t], conn[t]) /\ code[t] # <<>>
      BY <1>14, <2>1
  <2>3. CASE ptr' = ptr /\ (Continue(t, <<>>) \/ \E r \in Exits(t) : Jump(t, CloseConn \o r))
    <3>1. PICK s : code' = [code EXCEPT ![t] = s] /\ Program(s, At({}, "both"), Final(t))
        BY <1>14, <2>1, <2>3
    <3> QED BY <1>2, <1>4, <2>1, <2>2, <2>3, <3>1
  <2>4. CASE /\ t \notin Clients /\ Jump(t, <<>>)
             /\ ptr' = [ptr EXCEPT ![t] = FALSE]
    <3>1. Final(t) = Nothing
        BY <2>4, ThreadAssumption, NamesAssumption DEF Final, Nothing, Threads
    <3>2. code' = [code EXCEPT ![t] = <<>>] /\ Program(<<>>, At({}, "none"), Final(t))
        BY <1>7, <2>4, <3>1, ProgramEmpty DEF Jump
    <3>3. /\ ptr' \in [Threads -> BOOLEAN] /\ ~ptr'[t]
          /\ \A b \in Threads \ {t} : ptr'[b] = ptr[b]
        BY <1>2, <2>4
    <3>4. Owned(ptr'[t], conn'[t]) /\ InPhase("none", ptr'[t], conn'[t])
        BY <1>2, <1>6, <2>1, <2>2, <3>3 DEF Owned
    <3> QED BY <1>2, <1>4, <2>1, <2>2, <3>2, <3>3, <3>4
  <2> QED BY <1>15, <2>3, <2>4 DEF Select
<1>16. CASE SendChunks(t)
  <2>1. /\ Ready(t, Do("SLOTSRESTORE")) /\ ptr' = ptr /\ unixtime' = unixtime
        /\ Continue(t, <<>>) \/ \E r \in Exits(t) : Jump(t, CloseConn \o r)
        /\ \/ conn' = conn
           \/ conn[t].live /\ conn' = [conn EXCEPT ![t].age = 0]
      BY <1>16 DEF SendChunks
  <2>2. HeldBy(t) = {} /\ InPhase("both", ptr[t], conn[t]) /\ code[t] # <<>>
      BY <1>14, <2>1
  <2>3. /\ conn' \in [Threads -> Connections]
        /\ \A b \in Threads \ {t} : conn'[b] = conn[b]
        /\ conn'[t].cached = conn[t].cached /\ conn'[t].live = conn[t].live
        /\ ~conn[t].live => conn'[t].age = conn[t].age
      BY <1>2, <1>3, <2>1 DEF Connections
  <2>4. Owned(ptr'[t], conn'[t]) /\ InPhase("both", ptr'[t], conn'[t])
      BY <1>2, <1>6, <2>1, <2>2, <2>3 DEF Owned
  <2>5. PICK s : code' = [code EXCEPT ![t] = s] /\ Program(s, At({}, "both"), Final(t))
      BY <1>14, <2>1
  <2> QED BY <1>2, <1>4, <2>1, <2>2, <2>3, <2>4, <2>5
<1>17. CASE Fetch(t)
  <2>1. /\ Ready(t, Do("fetch")) /\ Continue(t, <<>>) /\ unixtime' = unixtime
        /\ ptr' = [ptr EXCEPT ![t] = conn[t].cached] /\ conn' = conn
      BY <1>17 DEF Fetch
  <2>2. \A p, q : DoEffect("fetch", p, q)
                    => p = At({"cache"}, "both") /\ q = At({"cache"}, "maybe")
      BY DEF DoEffect, RedisCalls
  <2>3. /\ HeldBy(t) = {"cache"} /\ InPhase("both", ptr[t], conn[t])
        /\ Program(Tail(code[t]), At({"cache"}, "maybe"), Final(t))
      BY <2>1, <2>2, ReadyAt
  <2>4. /\ ptr' \in [Threads -> BOOLEAN] /\ ptr'[t] = conn[t].cached
        /\ \A b \in Threads \ {t} : ptr'[b] = ptr[b]
      BY <1>2, <2>1 DEF Connections
  <2>5. Owned(ptr'[t], conn'[t]) /\ InPhase("maybe", ptr'[t], conn'[t])
      BY <1>2, <1>6, <2>1, <2>3, <2>4 DEF Owned
  <2>6. /\ code[t] # <<>> /\ code' = [code EXCEPT ![t] = <<>> \o Tail(code[t])]
        /\ Program(<<>> \o Tail(code[t]), At({"cache"}, "maybe"), Final(t))
      BY <1>7, <1>8, <2>1, <2>3
  <2> QED BY <1>2, <1>4, <2>1, <2>3, <2>4, <2>5, <2>6
<1>18. CASE Close(t)
  <2>1. /\ Ready(t, Do("close")) /\ conn' = conn /\ ptr' = ptr /\ unixtime' = unixtime
        /\ Continue(t, IF ptr[t] THEN FreeConn ELSE <<>>)
      BY <1>18 DEF Close, conns
  <2>2. \A p, q : DoEffect("close", p, q) => p = At({}, "maybe") /\ q = At({}, "none")
      BY DEF DoEffect, RedisCalls
  <2>3. /\ HeldBy(t) = {} /\ InPhase("maybe", ptr[t], conn[t])
        /\ Program(Tail(code[t]), At({}, "none"), Final(t))
      BY <2>1, <2>2, ReadyAt
  <2>4. CASE ptr[t]
    <3>1. /\ code' = [code EXCEPT ![t] = FreeConn \o Tail(code[t])]
          /\ Program(FreeConn \o Tail(code[t]), At({}, "both"), Final(t))
        BY <1>2, <1>7, <2>1, <2>3, <2>4, ConnPrograms, ContinueProgram
    <3>2. code[t] # <<>> /\ InPhase("both", ptr'[t], conn'[t])
        BY <1>6, <2>1, <2>3, <2>4 DEF Ready
    <3> QED BY <1>2, <1>4, <2>1, <2>3, <3>1, <3>2
  <2>5. CASE ~ptr[t]
    <3>1. /\ code[t] # <<>> /\ code' = [code EXCEPT ![t] = <<>> \o Tail(code[t])]
          /\ Program(<<>> \o Tail(code[t]), At({}, "none"), Final(t))
        BY <1>7, <1>8, <2>1, <2>3, <2>5
    <3>2. InPhase("none", ptr'[t], conn'[t])
        BY <1>6, <2>1, <2>5
    <3> QED BY <1>2, <1>4, <2>1, <2>3, <3>1, <3>2
  <2> QED BY <2>4, <2>5
<1>19. CASE Remove(t)
  <2>1. /\ Ready(t, Do("remove")) /\ ptr' = ptr /\ unixtime' = unixtime
        /\ Continue(t, <<>>) /\ conn' = [conn EXCEPT ![t].cached = FALSE]
      BY <1>19 DEF Remove
  <2>2. \A p, q : DoEffect("remove", p, q)
                    => p = At({"cache"}, "both") /\ q = At({"cache"}, "out")
      BY DEF DoEffect, RedisCalls
  <2>3. /\ HeldBy(t) = {"cache"} /\ InPhase("both", ptr[t], conn[t])
        /\ Program(Tail(code[t]), At({"cache"}, "out"), Final(t))
      BY <2>1, <2>2, ReadyAt
  <2>4. /\ conn' \in [Threads -> Connections]
        /\ \A b \in Threads \ {t} : conn'[b] = conn[b]
        /\ ~conn'[t].cached /\ conn'[t].live = conn[t].live
        /\ conn'[t].age = conn[t].age /\ ptr'[t]
      BY <1>2, <1>6, <2>1, <2>3 DEF Connections
  <2>5. Owned(ptr'[t], conn'[t]) /\ InPhase("out", ptr'[t], conn'[t])
      BY <1>2, <1>6, <2>1, <2>4 DEF Owned
  <2>6. /\ code[t] # <<>> /\ code' = [code EXCEPT ![t] = <<>> \o Tail(code[t])]
        /\ Program(<<>> \o Tail(code[t]), At({"cache"}, "out"), Final(t))
      BY <1>7, <1>8, <2>1, <2>3
  <2> QED BY <1>2, <1>4, <2>1, <2>3, <2>4, <2>5, <2>6
<1>20. CASE Free(t)
  <2>1. /\ Ready(t, Do("free")) /\ ptr' = [ptr EXCEPT ![t] = FALSE]
        /\ unixtime' = unixtime /\ Continue(t, <<>>)
        /\ conn' = [conn EXCEPT ![t].live = FALSE, ![t].age = 0]
      BY <1>20 DEF Free
  <2>2. \A p, q : DoEffect("free", p, q) => p = At({}, "out") /\ q = At({}, "none")
      BY DEF DoEffect, RedisCalls
  <2>3. /\ HeldBy(t) = {} /\ InPhase("out", ptr[t], conn[t])
        /\ Program(Tail(code[t]), At({}, "none"), Final(t))
      BY <2>1, <2>2, ReadyAt
  <2>4. /\ conn' \in [Threads -> Connections] /\ ptr' \in [Threads -> BOOLEAN]
        /\ \A b \in Threads \ {t} : conn'[b] = conn[b] /\ ptr'[b] = ptr[b]
        /\ ~conn'[t].live /\ ~conn'[t].cached /\ ~ptr'[t]
      BY <1>2, <1>3, <1>6, <2>1, <2>3 DEF Connections
  <2>5. Owned(ptr'[t], conn'[t]) /\ InPhase("none", ptr'[t], conn'[t])
      BY <1>6, <2>4 DEF Owned
  <2>6. /\ code[t] # <<>> /\ code' = [code EXCEPT ![t] = <<>> \o Tail(code[t])]
        /\ Program(<<>> \o Tail(code[t]), At({}, "none"), Final(t))
      BY <1>7, <1>8, <2>1, <2>3
  <2> QED BY <1>2, <1>4, <2>1, <2>3, <2>4, <2>5, <2>6
<1> QED
    BY <1>9, <1>10, <1>11, <1>12, <1>13, <1>15, <1>16, <1>17, <1>18, <1>19, <1>20
    DEF UseConn

(* The thread pool of a command and its end.                               *)
LEMMA CommandIInv ==
    ASSUME IInv, NEW c \in Clients, Command(c)
    PROVE  IInv'
<1>1. UNCHANGED slots_mgrt_threads
    BY DEF Command
<1>2. c \in Threads /\ c \in Actors /\ Workers(c) \subseteq Threads
    BY DEF Threads, Actors
<1>3. /\ code \in [Actors -> Seq(Instructions)]
      /\ client \in [Clients -> {"idle", "blocked", "ready"}]
      /\ chunks \in [Clients -> 0 .. MaxChunks]
      /\ conn \in [Threads -> Connections]
    BY DEF IInv, CodeOK, DataOK
<1>4. Nothing \in Conditions /\ At({}, "done") \in Conditions
    BY InstructionFacts DEF Nothing, Locks, Phases
<1>5. /\ Nothing.held = {} /\ Nothing.phase = "none"
      /\ At({}, "done").held = {} /\ At({}, "done").phase = "done"
      /\ \A v, b : InPhase("none", v, b) <=> ~v
      /\ \A v, b : InPhase("done", v, b) <=> ~v
    BY DEF Nothing, At, InPhase
<1>6. ASSUME NEW t \in {c} \cup Workers(c), Thread(t) PROVE IInv'
  <2>1. t \in Threads /\ t \in Actors
      BY <1>2 DEF Actors
  <2>2. CASE LockStep(t)
      BY <1>1, <2>1, <2>2, LockStepIInv
  <2>3. CASE DoStep(t)
      BY <1>1, <2>1, <2>3, CallRedisIInv, UseConnIInv DEF DoStep
  <2> QED BY <1>6, <2>2, <2>3 DEF Thread
<1>7. ASSUME NEW w \in Workers(c), Take(c, w) PROVE IInv'
  <2>1. /\ chunks[c] > 0 /\ code[w] = <<>>
        /\ chunks' = [chunks EXCEPT ![c] = @ - 1]
        /\ code' = [code EXCEPT ![w] = doSplitRestoreCmdTask]
        /\ UNCHANGED <<locks, client, conn, ptr, unixtime, orphans, due, down>>
      BY <1>7 DEF Take, Jump, conns
  <2>2. w \in Threads /\ w \in Actors /\ Final(w) = Nothing
      BY <1>2, NamesAssumption DEF Final, Nothing, Actors
  <2>3. HeldBy(w) = {} /\ ~ptr[w]
      BY <1>5, <2>1, <2>2, IdleFacts
  <2>4. LocksOK' /\ CodeOK'
      BY <1>5, <2>1, <2>2, <2>3, ConnPrograms, ThreadStep
  <2>5. chunks' \in [Clients -> 0 .. MaxChunks]
    <3>1. MaxChunks \in Nat /\ chunks[c] \in 0 .. MaxChunks
        BY <1>3, ThreadAssumption
    <3>2. chunks[c] - 1 \in 0 .. MaxChunks
        BY <2>1, <3>1
    <3> QED BY <1>3, <2>1, <3>2
  <2>6. DataOK' /\ ConnInv'
      BY <1>1, <2>1, <2>5 DEF IInv, DataOK, ConnInv
  <2>7. Blocking'
    <3>1. w \notin Clients
        BY NamesAssumption
    <3> QED BY <2>1, <2>2, <3>1, ConnPrograms, BlockedStep DEF Program
  <2> QED BY <2>4, <2>6, <2>7 DEF IInv
<1>8. CASE MGRT(c)
  <2>1. /\ Ready(c, Do("MGRT"))
        /\ UNCHANGED <<locks, client, conn, ptr, unixtime, orphans, due, down>>
      BY <1>8 DEF MGRT, conns
  <2>2. \A p, q : DoEffect("MGRT", p, q) => p = At({}, "none") /\ q = At({}, "none")
      BY DEF DoEffect, RedisCalls
  <2>3. /\ HeldBy(c) = {} /\ InPhase("none", ptr[c], conn[c])
        /\ Program(Tail(code[c]), Nothing, Final(c))
      BY <1>2, <2>1, <2>2, ReadyAt DEF Nothing
  <2>4. Program(<<Do("wait")>>, Nothing, Nothing)
    <3>1. Effect(Do("wait"), Nothing, Nothing)
        BY InstructionFacts DEF DoEffect, Nothing
    <3>2. Do("wait") \in Instructions
        BY InstructionFacts DEF Steps1
    <3> QED BY <1>4, <3>1, <3>2, ProgramOne
  <2>5. \E s : code' = [code EXCEPT ![c] = s] /\ Program(s, Nothing, Final(c))
    <3>1. CASE Continue(c, <<Do("wait")>>)
        BY <1>2, <1>3, <2>3, <2>4, <3>1, ContinueProgram
    <3>2. CASE Continue(c, doSplitRestoreCmdTask)
        BY <1>2, <1>3, <2>3, <3>2, ConnPrograms, ContinueProgram
    <3> QED BY <1>8, <3>1, <3>2 DEF MGRT
  <2>6. LocksOK' /\ CodeOK'
      BY <1>2, <1>5, <2>1, <2>3, <2>5, ThreadStep
  <2>7. chunks' \in [Clients -> 0 .. MaxChunks]
    <3>1. 1 .. MaxChunks \subseteq 0 .. MaxChunks
        BY ThreadAssumption
    <3> QED BY <1>3, <1>8, <3>1 DEF MGRT
  <2>8. DataOK' /\ ConnInv'
      BY <1>1, <2>1, <2>7 DEF IInv, DataOK, ConnInv
  <2>9. Blocking'
    <3>1. code[c] # <<>>
        BY <2>1 DEF Ready
    <3> QED BY <1>2, <1>5, <2>1, <2>5, <3>1, BlockedStep DEF Program
  <2> QED BY <2>6, <2>8, <2>9 DEF IInv
<1>9. CASE Wait(c)
  <2>1. /\ Ready(c, Do("wait")) /\ \A w \in Workers(c) : code[w] = <<>>
        /\ orphans' = orphans \cup {conn[w].age : w \in {v \in Workers(c) : conn[v].cached}}
        /\ conn' = [t \in Threads |-> IF t \in Workers(c) THEN NoConn ELSE conn[t]]
        /\ UNCHANGED <<locks, client, chunks, ptr, unixtime, due, down>>
      BY <1>9 DEF Wait
  <2>2. \A p, q : DoEffect("wait", p, q) => p = At({}, "none") /\ q = At({}, "none")
      BY DEF DoEffect, RedisCalls
  <2>3. /\ HeldBy(c) = {} /\ InPhase("none", ptr[c], conn[c])
        /\ Program(Tail(code[c]), Nothing, Final(c))
      BY <1>2, <2>1, <2>2, ReadyAt DEF Nothing
  <2>4. \E s : code' = [code EXCEPT ![c] = s] /\ Program(s, Nothing, Final(c))
    <3>1. CASE Continue(c, <<>>)
        BY <1>2, <1>3, <1>4, <2>3, <3>1, ProgramEmpty, ContinueProgram
    <3>2. ASSUME NEW s \in Exits(c), Jump(c, s)
          PROVE  code' = [code EXCEPT ![c] = s] /\ Program(s, Nothing, Final(c))
      <4>1. /\ code[c] \in Seq(Instructions) /\ code[c] # <<>>
            /\ Next1(c)[1] = "do" /\ Next1(c)[2] # "unblock"
            /\ \E p : Runs(code[c], p, Final(c))
          BY <1>2, <2>1, ReadyFacts
      <4> QED BY <1>2, <3>2, <4>1, ExitsRun DEF Jump
    <3> QED BY <1>9, <3>1, <3>2 DEF Wait
  <2>5. LocksOK' /\ CodeOK'
    <3>1. c \notin Workers(c)
        BY NamesAssumption
    <3>2. ~ptr'[c]
        BY <1>5, <2>1, <2>3
    <3>3. \A b \in Threads \ {c} : conn'[b] = conn[b] \/ code[b] = <<>>
        BY <2>1
    <3>4. /\ UNCHANGED locks /\ HeldBy(c) = Nothing.held
          /\ InPhase(Nothing.phase, ptr'[c], conn'[c])
      <4>1. UNCHANGED locks /\ ptr'[c] = ptr[c] /\ conn'[c] = conn[c]
          BY <1>2, <1>5, <2>1, <3>1
      <4> QED BY <2>3, <4>1 DEF Nothing, At
    <3>5. \A b \in Threads \ {c} : ptr'[b] = ptr[b]
        BY <2>1
    <3>6. PICK s : code' = [code EXCEPT ![c] = s] /\ Program(s, Nothing, Final(c))
        BY <2>4
    <3> QED BY <1>2, <3>3, <3>4, <3>5, <3>6, ThreadStep
  <2>6. \A w \in Workers(c) : ~ptr[w]
      BY <1>2, <2>1, IdleFacts DEF Actors
  <2>7. NoConn \in Connections
      BY ThreadAssumption DEF NoConn, Ages, Oldest, Connections
  <2>8. conn' \in [Threads -> Connections]
      BY <1>3, <2>1, <2>7
  <2>9. orphans' \subseteq Ages
    <3>1. \A w \in Workers(c) : conn[w].age \in Ages
        BY <1>2 DEF IInv, DataOK, Connections
    <3>2. orphans \subseteq Ages
        BY DEF IInv, DataOK
    <3> QED BY <1>3, <2>1, <3>1, <3>2
  <2>10. DataOK'
      BY <1>1, <2>1, <2>8, <2>9 DEF IInv, DataOK
  <2>11. ConnInv'
    <3> SUFFICES ASSUME NEW t \in Threads PROVE Owned(ptr'[t], conn'[t])
        BY DEF ConnInv
    <3>1. CASE t \in Workers(c)
      <4>1. conn'[t] = NoConn /\ ~ptr'[t]
          BY <2>1, <2>6, <3>1
      <4> QED BY <4>1 DEF NoConn, Owned
    <3>2. CASE t \notin Workers(c)
      <4>1. conn'[t] = conn[t] /\ ptr'[t] = ptr[t]
          BY <2>1, <3>2
      <4> QED BY <4>1 DEF IInv, ConnInv
    <3> QED BY <3>1, <3>2
  <2>12. Blocking'
    <3>1. code[c] # <<>>
        BY <2>1 DEF Ready
    <3> QED BY <1>2, <1>5, <2>1, <2>4, <3>1, BlockedStep DEF Program
  <2> QED BY <2>5, <2>10, <2>11, <2>12 DEF IInv
<1>10. CASE UnblockClient(c)
  <2>1. /\ Ready(c, Do("unblock")) /\ Continue(c, <<>>)
        /\ client' = [client EXCEPT ![c] = "ready"]
        /\ UNCHANGED <<locks, chunks, conn, ptr, unixtime, orphans, due, down>>
      BY <1>10 DEF UnblockClient, conns
  <2>2. \A p, q : DoEffect("unblock", p, q) => p = At({}, "none") /\ q = At({}, "done")
      BY DEF DoEffect, RedisCalls
  <2>3. /\ HeldBy(c) = {} /\ InPhase("none", ptr[c], conn[c])
        /\ Program(Tail(code[c]), At({}, "done"), Final(c))
      BY <1>2, <2>1, <2>2, ReadyAt
  <2>4. \E s : code' = [code EXCEPT ![c] = s] /\ Program(s, At({}, "done"), Final(c))
      BY <1>2, <1>3, <1>4, <2>1, <2>3, ProgramEmpty, ContinueProgram
  <2>5. LocksOK' /\ CodeOK'
    <3>1. InPhase("done", ptr'[c], conn'[c])
        BY <1>5, <2>1, <2>3
    <3>2. PICK s : code' = [code EXCEPT ![c] = s] /\ Program(s, At({}, "done"), Final(c))
        BY <2>4
    <3> QED BY <1>2, <1>5, <2>1, <2>3, <3>1, <3>2, ThreadStep
  <2>6. DataOK' /\ ConnInv'
      BY <1>1, <1>3, <2>1 DEF IInv, DataOK, ConnInv
  (* What is left to do runs from "done", so it is nothing. *)
  <2>7. code'[c] = <<>>
    <3>1. Runs(Tail(code[c]), At({}, "done"), Final(c)) /\ Tail(code[c]) \in Seq(Instructions)
        BY <2>3 DEF Program
    <3>2. Tail(code[c]) = <<>>
      <4> SUFFICES ASSUME Tail(code[c]) # <<>> PROVE FALSE
          OBVIOUS
      <4>1. PICK q : Effect(Head(Tail(code[c])), At({}, "done"), q)
          BY <3>1, RunsTail
      <4>2. At({}, "done") # At({}, "none") /\ At({}, "done").phase = "done"
          BY DEF At
      <4>3. \A x, q2 : ~DoEffect(x, At({}, "done"), q2)
          BY DEF DoEffect, At
      <4> QED BY <4>1, <4>2, <4>3 DEF Effect
    <3>3. code'[c] = <<>> \o Tail(code[c])
        BY <1>2, <1>3, <2>1 DEF Continue
    <3> QED BY <3>2, <3>3
  <2>8. Blocking'
    <3> SUFFICES ASSUME NEW b \in Clients
                 PROVE  client'[b] = "blocked" <=> code'[b] # <<>>
        BY DEF Blocking
    <3>1. CASE b = c
        BY <1>3, <2>1, <2>7, <3>1
    <3>2. CASE b # c
      <4>1. client'[b] = client[b] /\ code'[b] = code[b]
        <5>1. b \in Actors
            BY DEF Actors, Threads
        <5> QED BY <1>3, <2>1, <3>2, <5>1 DEF Continue
      <4> QED BY <4>1 DEF IInv, Blocking
    <3> QED BY <3>1, <3>2
  <2> QED BY <2>5, <2>6, <2>8 DEF IInv
<1> QED BY <1>6, <1>7, <1>8, <1>9, <1>10 DEF Command

(* The main thread: the event loop, the cron job and starting a command.   *)
LEMMA MainIInv ==
    ASSUME IInv, MainStep
    PROVE  IInv'
<1>1. UNCHANGED slots_mgrt_threads
    BY DEF MainStep
<1>2. Main \in Actors /\ Main \notin Threads /\ Final(Main) = Gil
    BY ThreadAssumption, NamesAssumption DEF Threads, Actors, Final, Gil
<1>3. Gil.held = {"gil"}
    BY DEF Gil, At
<1>4. CASE LockStep(Main)
    BY <1>1, <1>2, <1>4, LockStepIInv
<1>5. CASE EventLoop
  <2>1. /\ code[Main] = <<>> /\ due' = FALSE
        /\ client' = [c \in Clients |-> IF client[c] = "ready" THEN "idle" ELSE client[c]]
        /\ UNCHANGED <<locks, chunks, conn, ptr, unixtime, orphans, down>>
      BY <1>5 DEF EventLoop, MainIdle, conns
  <2>2. PICK p : /\ p = CronLoopCallback \/ p \in MainPrograms \cup {<<>>}
                 /\ code' = [code EXCEPT ![Main] = p \o <<Un("gil"), Wr("gil")>>]
      BY <1>5 DEF EventLoop, Jump
  <2>3. Program(<<Un("gil"), Wr("gil")>>, Gil, Gil)
    <3>1. Nothing \in Conditions /\ Gil \in Conditions
        BY InstructionFacts DEF Nothing, Gil, Locks, Phases
    <3>2. Wr("gil") \in Instructions /\ Un("gil") \in Instructions
        BY InstructionFacts DEF Locks
    <3>3. Effect(Un("gil"), Gil, Nothing) /\ Effect(Wr("gil"), Nothing, Gil)
        BY InstructionFacts DEF Nothing, Gil
    <3> QED BY <3>1, <3>2, <3>3, ProgramTwo
  <2>4. Program(p \o <<Un("gil"), Wr("gil")>>, Gil, Gil)
      BY <2>2, <2>3, CommandPrograms, ProgramConcat
  <2>5. HeldBy(Main) = {"gil"}
      BY <1>2, <1>3, <2>1, IdleFacts
  <2>6. LocksOK' /\ CodeOK'
      BY <1>2, <1>3, <2>1, <2>2, <2>4, <2>5, ThreadStep
  <2>7. client' \in [Clients -> {"idle", "blocked", "ready"}]
      BY <2>1 DEF IInv, DataOK
  <2>8. DataOK' /\ ConnInv'
      BY <1>1, <2>1, <2>7 DEF IInv, DataOK, ConnInv
  <2>9. Blocking'
    <3> SUFFICES ASSUME NEW c \in Clients
                 PROVE  client'[c] = "blocked" <=> code'[c] # <<>>
        BY DEF Blocking
    <3>1. client'[c] = "blocked" <=> client[c] = "blocked"
        BY <2>1
    <3>2. code'[c] = code[c]
      <4>1. c # Main /\ c \in Actors
          BY ThreadAssumption DEF Actors, Threads
      <4> QED BY <2>2, <4>1 DEF IInv, CodeOK
    <3> QED BY <3>1, <3>2 DEF IInv, Blocking
  <2> QED BY <2>6, <2>8, <2>9 DEF IInv
<1>6. CASE SlotsMGRT_CloseTimedoutConns
  <2>1. /\ code[Main] # <<>> /\ Head(code[Main]) = Do("timeout") /\ Continue(Main, <<>>)
        /\ UNCHANGED <<locks, client, chunks, ptr, unixtime, due>>
        /\ down' \in BOOLEAN
      BY <1>6 DEF SlotsMGRT_CloseTimedoutConns, Ready, Next1
  <2> DEFINE Closed == {t \in Threads : conn[t].cached /\ TimedOut(conn[t].age)}
             Gone   == {age \in orphans : TimedOut(age)}
  <2>2. PICK kept \in SUBSET Closed, stay \in SUBSET Gone :
            /\ KeysTerminated => kept = {}
            /\ conn' = [t \in Threads |->
                           IF t \in Closed
                           THEN [conn[t] EXCEPT !.live = FALSE, !.cached = t \in kept]
                           ELSE conn[t]]
            /\ orphans' = (orphans \ Gone) \cup stay
      BY <1>6 DEF SlotsMGRT_CloseTimedoutConns
  <2>10. conn \in [Threads -> Connections] /\ orphans \subseteq Ages
      BY DEF IInv, DataOK
  <2>11. ASSUME NEW t \in Threads
         PROVE  /\ conn'[t] \in Connections /\ Owned(ptr[t], conn'[t])
                /\ \A ph \in Phases : InPhase(ph, ptr[t], conn[t])
                                      => InPhase(ph, ptr[t], conn'[t])
    <3>0. conn[t] \in Connections /\ Owned(ptr[t], conn[t])
        BY <2>10 DEF IInv, ConnInv
    <3>1. CASE t \in Closed
      <4>1. /\ conn[t].cached /\ conn[t].age > MGRT_BATCH_KEY_TIMEOUT
            /\ conn'[t] = [conn[t] EXCEPT !.live = FALSE, !.cached = t \in kept]
        <5>1. conn[t].cached /\ conn[t].age > MGRT_BATCH_KEY_TIMEOUT
            BY <3>1 DEF TimedOut
        <5> HIDE DEF Closed, Gone
        <5>2. conn'[t] = [conn[t] EXCEPT !.live = FALSE, !.cached = t \in kept]
            BY <2>2, <3>1
        <5> QED BY <5>1, <5>2
      <4>2. /\ ~conn'[t].live /\ conn'[t].cached = (t \in kept)
            /\ conn'[t].age = conn[t].age /\ conn'[t] \in Connections
        <5> DEFINE c == conn[t]  stays == t \in kept
        <5>1. c \in Connections /\ stays \in BOOLEAN
            BY <3>0
        <5>2. conn'[t] = [c EXCEPT !.live = FALSE, !.cached = stays]
            BY <4>1
        <5> HIDE DEF c, stays
        <5>3. /\ ~conn'[t].live /\ conn'[t].cached = stays
              /\ conn'[t].age = c.age /\ conn'[t] \in Connections
            BY <5>1, <5>2 DEF Connections
        <5> QED BY <5>3 DEF c, stays
      <4>3. Owned(ptr[t], conn'[t])
          BY <2>2, <4>1, <4>2 DEF Owned
      <4>4. ASSUME NEW ph \in Phases, InPhase(ph, ptr[t], conn[t])
            PROVE  InPhase(ph, ptr[t], conn'[t])
          BY <4>1, <4>2, <4>4 DEF InPhase
      <4> QED BY <4>2, <4>3, <4>4
    <3>2. CASE t \notin Closed
      <4>1. conn'[t] = conn[t]
          BY <2>2, <3>2
      <4> QED BY <3>0, <4>1
    <3> QED BY <3>1, <3>2
  <2> HIDE DEF Closed, Gone
  <2>12. conn' \in [Threads -> Connections] /\ orphans' \subseteq Ages
    <3>1. orphans' \subseteq orphans
        BY <2>2 DEF Gone
    <3> QED BY <2>2, <2>10, <2>11, <3>1
  <2>3. code \in [Actors -> Seq(Instructions)] /\ code[Main] \in Seq(Instructions)
      BY <1>2 DEF IInv, CodeOK
  <2>4. PICK p \in Conditions : Runs(code[Main], p, Final(Main)) /\ p.held = HeldBy(Main)
      BY <1>2 DEF IInv, CodeOK, Sound
  <2>5. PICK q \in Conditions :
          Effect(Do("timeout"), p, q) /\ Program(Tail(code[Main]), q, Final(Main))
      BY <2>1, <2>3, <2>4, RunsTail DEF Program
  <2>6. q = p
    <3>1. DoEffect("timeout", p, q)
        BY <2>5 DEF Effect, Do
    <3> QED BY <3>1 DEF DoEffect, RedisCalls
  <2>7. /\ code' = [code EXCEPT ![Main] = <<>> \o Tail(code[Main])]
        /\ Program(<<>> \o Tail(code[Main]), p, Final(Main))
      BY <1>2, <2>1, <2>3, <2>5, <2>6, ProgramEmpty, ContinueProgram
  <2>8. LocksOK' /\ CodeOK'
    <3>1. /\ \A b \in Threads : ptr'[b] = ptr[b]
          /\ \A b \in Threads \ {Main} :
                \/ code[b] = <<>>
                \/ \A ph \in Phases : InPhase(ph, ptr[b], conn[b])
                                       => InPhase(ph, ptr[b], conn'[b])
        BY <2>1, <2>11
    <3> QED BY <1>2, <2>1, <2>4, <2>7, <3>1, ThreadStep
  <2>9. DataOK' /\ ConnInv'
    <3>1. DataOK'
        BY <1>1, <2>1, <2>12 DEF IInv, DataOK
    <3>2. ConnInv'
        BY <2>1, <2>11 DEF ConnInv
    <3> QED BY <3>1, <3>2
  <2>13. Blocking'
    <3>1. Main \notin Clients
        BY ThreadAssumption
    <3> QED BY <1>2, <2>1, <2>7, <3>1, BlockedStep DEF Program
  <2> QED BY <2>8, <2>9, <2>13 DEF IInv
<1> QED BY <1>4, <1>5, <1>6 DEF MainStep

(* Steps that leave every program, lock and pointer alone.                 *)
LEMMA CodeUnchanged ==
    ASSUME IInv, UNCHANGED <<code, locks, ptr>>,
           \A b \in Threads : /\ conn'[b].cached = conn[b].cached
                              /\ conn'[b].live = conn[b].live
    PROVE  LocksOK' /\ CodeOK'
<1>1. LocksOK'
    BY DEF IInv, LocksOK, locks
<1>2. \A b : HeldBy(b)' = HeldBy(b)
    BY DEF HeldBy, Holds, locks
<1>3. ASSUME NEW a \in Actors PROVE Sound(a)'
  <2>1. Sound(a)
      BY DEF IInv, CodeOK
  <2>2. \A p : a \in Threads /\ InPhase(p, ptr[a], conn[a]) => InPhase(p, ptr'[a], conn'[a])
      BY DEF InPhase
  <2> QED BY <1>2, <2>1, <2>2 DEF Sound
<1> QED BY <1>1, <1>3 DEF IInv, CodeOK

LEMMA AsyncBlockIInv ==
    ASSUME IInv, NEW c \in Clients, NEW x \in AllCommands, AsyncBlock(c, x)
    PROVE  IInv'
<1>1. /\ code[c] = <<>>
      /\ UNCHANGED <<slots_mgrt_threads, locks, chunks, conn, ptr, unixtime, orphans, due>>
    BY DEF AsyncBlock, conns
<1>2. c \in Threads /\ c \in Actors /\ Final(c) = At({}, "done")
    BY ThreadAssumption DEF Threads, Actors, Final
<1>3. Nothing \in Conditions /\ At({}, "done") \in Conditions
    BY InstructionFacts DEF Nothing, Locks, Phases
<1>4. /\ Nothing.held = {} /\ Nothing.phase = "none" /\ At({}, "done").held = {}
      /\ \A v, b : InPhase("none", v, b) <=> ~v
    BY DEF Nothing, At, InPhase
<1>5. HeldBy(c) = {} /\ ~ptr[c]
    BY <1>1, <1>2, <1>4, IdleFacts
<1>6. ASSUME NEW p \in dispatchCmd(x) \cup {<<>>}, Jump(c, p \o <<Do("unblock")>>),
             client' = [client EXCEPT ![c] = "blocked"], UNCHANGED down
      PROVE  IInv'
  <2>1. Program(p, Nothing, Nothing)
      BY <1>3, CommandPrograms, ProgramEmpty
  <2>2. Program(<<Do("unblock")>>, Nothing, At({}, "done"))
    <3>1. Effect(Do("unblock"), Nothing, At({}, "done"))
        BY InstructionFacts DEF DoEffect, Nothing
    <3>2. Do("unblock") \in Instructions
        BY InstructionFacts DEF Steps1
    <3> QED BY <1>3, <3>1, <3>2, ProgramOne
  <2>3. Program(p \o <<Do("unblock")>>, Nothing, Final(c))
      BY <1>2, <2>1, <2>2, ProgramConcat
  <2>4. code' = [code EXCEPT ![c] = p \o <<Do("unblock")>>]
      BY <1>6 DEF Jump
  <2>5. LocksOK' /\ CodeOK'
      BY <1>1, <1>2, <1>4, <1>5, <2>3, <2>4, ThreadStep
  <2>6. DataOK' /\ ConnInv'
      BY <1>1, <1>6 DEF IInv, DataOK, ConnInv
  <2>7. Blocking'
    <3> SUFFICES ASSUME NEW b \in Clients
                 PROVE  client'[b] = "blocked" <=> code'[b] # <<>>
        BY DEF Blocking
    <3>0. /\ b \in Actors /\ code \in [Actors -> Seq(Instructions)]
          /\ client \in [Clients -> {"idle", "blocked", "ready"}]
        BY DEF Actors, Threads, IInv, CodeOK, DataOK
    <3>1. CASE b = c
      <4>1. code'[b] = p \o <<Do("unblock")>> /\ client'[b] = "blocked"
          BY <1>6, <2>4, <3>0, <3>1
      <4>2. p \o <<Do("unblock")>> # <<>>
        <5>1. p \in Seq(Instructions) /\ <<Do("unblock")>> \in Seq(Instructions)
            BY <2>1, <2>2 DEF Program
        <5>2. Len(p \o <<Do("unblock")>>) = Len(p) + 1 /\ Len(p) \in Nat
            BY <5>1, ConcatProperties
        <5> DEFINE u == p \o <<Do("unblock")>>
        <5> HIDE DEF u
        <5>3. Len(u) # 0
            BY <5>2 DEF u
        <5>4. u # <<>>
            BY <5>3, EmptySeq
        <5> QED BY <5>4 DEF u
      <4> QED BY <4>1, <4>2
    <3>2. CASE b # c
      <4>1. client'[b] = client[b] /\ code'[b] = code[b]
          BY <1>6, <2>4, <3>0, <3>2
      <4> QED BY <4>1 DEF IInv, Blocking
    <3> QED BY <3>1, <3>2
  <2> QED BY <2>5, <2>6, <2>7 DEF IInv
<1>7. CASE UNCHANGED <<code, client>> /\ (down' = TRUE \/ UNCHANGED down)
  <2>1. LocksOK' /\ CodeOK'
      BY <1>1, <1>7, CodeUnchanged
  <2>2. DataOK' /\ ConnInv'
      BY <1>1, <1>7 DEF IInv, DataOK, ConnInv
  <2>3. Blocking'
      BY <1>7 DEF IInv, Blocking
  <2> QED BY <2>1, <2>2, <2>3 DEF IInv
<1> QED BY <1>6, <1>7 DEF AsyncBlock

(* A second more, and not beyond the first value that has timed out.       *)
LEMMA OlderInAges ==
    ASSUME NEW age \in Ages
    PROVE  Older(age) \in Ages /\ Older(age) >= age
<1> DEFINE S == {age + 1, Oldest}
<1>1. age \in Nat /\ Oldest \in Nat /\ age <= Oldest
    BY ThreadAssumption DEF Ages, Oldest
<1>2. \E x \in S : \A y \in S : x =< y
  <2>1. CASE age + 1 =< Oldest
      BY <1>1, <2>1
  <2>2. CASE Oldest =< age + 1
      BY <1>1, <2>2
  <2> QED BY <1>1, <2>1, <2>2
<1>3. Min(S) \in S /\ \A y \in S : Min(S) =< y
    BY <1>2 DEF Min
<1>4. Min(S) \in Nat /\ Min(S) <= Oldest /\ Min(S) >= age
    BY <1>1, <1>3
<1> QED BY <1>1, <1>4 DEF Older, Ages

LEMMA TickIInv ==
    ASSUME IInv, Tick
    PROVE  IInv'
<1>1. /\ conn' = [t \in Threads |-> IF conn[t].live
                                    THEN [conn[t] EXCEPT !.age = Older(conn[t].age)]
                                    ELSE conn[t]]
      /\ unixtime' = [t \in Threads |-> Older(unixtime[t])]
      /\ orphans' = {Older(age) : age \in orphans}
      /\ due' = TRUE
      /\ UNCHANGED <<slots_mgrt_threads, code, locks, client, chunks, ptr, down>>
    BY DEF Tick
<1>2. /\ conn \in [Threads -> Connections] /\ unixtime \in [Threads -> Ages]
      /\ orphans \subseteq Ages
    BY DEF IInv, DataOK
<1>3. ASSUME NEW t \in Threads
      PROVE  /\ conn'[t] \in Connections
             /\ conn'[t].live = conn[t].live /\ conn'[t].cached = conn[t].cached
             /\ ~conn[t].live => conn'[t].age = conn[t].age
  <2>1. conn[t] \in Connections /\ conn[t].age \in Ages
      BY <1>2 DEF Connections
  <2>2. CASE conn[t].live
    <3>1. Older(conn[t].age) \in Ages
        BY <2>1, OlderInAges
    <3>2. conn'[t] = [conn[t] EXCEPT !.age = Older(conn[t].age)]
        BY <1>1, <2>2
    <3> QED BY <2>1, <2>2, <3>1, <3>2 DEF Connections
  <2>3. CASE ~conn[t].live
      BY <1>1, <2>1, <2>3
  <2> QED BY <2>2, <2>3
<1>4. DataOK'
  <2>1. conn' \in [Threads -> Connections]
      BY <1>1, <1>3
  <2>2. unixtime' \in [Threads -> Ages] /\ orphans' \subseteq Ages
      BY <1>1, <1>2, OlderInAges
  <2> QED BY <1>1, <2>1, <2>2 DEF IInv, DataOK
<1>5. ConnInv'
  <2> SUFFICES ASSUME NEW t \in Threads PROVE Owned(ptr'[t], conn'[t])
      BY DEF ConnInv
  <2>1. Owned(ptr[t], conn[t]) /\ ptr'[t] = ptr[t]
      BY <1>1 DEF IInv, ConnInv
  <2> QED BY <1>3, <2>1 DEF Owned
<1>6. Blocking'
    BY <1>1 DEF IInv, Blocking
<1>7. LocksOK' /\ CodeOK'
    BY <1>1, <1>3, CodeUnchanged
<1> QED BY <1>4, <1>5, <1>6, <1>7 DEF IInv

-----------------------------------------------------------------------------
(* The invariant: the programs of all threads fit what they hold, on every *)
(* path through a command, on the paths of errors and with the callbacks   *)
(* that run inside a call of Redis.                                        *)
THEOREM ThreadInvariant == Spec => []IInv
<1>1. Init => IInv
  <2> SUFFICES ASSUME Init PROVE IInv
      OBVIOUS
  <2>1. NoConn \in Connections /\ Oldest \in Ages
      BY ThreadAssumption DEF NoConn, Ages, Oldest, Connections
  <2>2. 0 \in 0 .. MaxChunks
      BY ThreadAssumption
  <2>3. DataOK
      BY <2>1, <2>2 DEF Init, DataOK
  <2>4. LocksOK
    <3>1. Main \in Actors
        BY DEF Actors
    <3> QED BY <3>1 DEF Init, LocksOK, Locks
  <2>5. ConnInv
      BY DEF Init, ConnInv, Owned, NoConn
  <2>6. code \in [Actors -> Seq(Instructions)]
    <3>1. <<>> \in Seq(Instructions)
        BY EmptySeq
    <3> QED BY <3>1 DEF Init
  <2>7. ASSUME NEW a \in Actors PROVE Sound(a)
    <3>1. Final(a) \in Conditions
        BY InstructionFacts DEF Final, Locks, Phases
    <3>2. code[a] = <<>> /\ Runs(<<>>, Final(a), Final(a))
        BY <3>1, RunsEmpty DEF Init
    <3>3. Final(a).held = HeldBy(a)
      <4>1. CASE a = Main
        <5>1. Final(a).held = {"gil"}
            BY <4>1, ThreadAssumption DEF Final, At
        <5> QED BY <4>1, <5>1 DEF Init, HeldBy, Holds, Locks
      <4>2. CASE a # Main
        <5>1. Final(a).held = {}
            BY <4>2 DEF Final, At
        <5> QED BY <4>2, <5>1 DEF Init, HeldBy, Holds
      <4> QED BY <4>1, <4>2
    <3>4. ASSUME a \in Threads PROVE InPhase(Final(a).phase, ptr[a], conn[a])
      <4>1. Final(a).phase \in {"none", "done"} /\ ~ptr[a]
          BY <3>4 DEF Init, Final, At
      <4> QED BY <4>1 DEF InPhase
    <3> QED BY <3>1, <3>2, <3>3, <3>4 DEF Sound
  <2>8. Blocking
      BY DEF Init, Blocking, Actors, Threads
  <2> QED BY <2>3, <2>4, <2>5, <2>6, <2>7, <2>8 DEF IInv, CodeOK
<1>2. IInv /\ [Next]_vars => IInv'
  <2> SUFFICES ASSUME IInv, [Next]_vars PROVE IInv'
      OBVIOUS
  <2>1. ASSUME NEW c \in Clients, Command(c) PROVE IInv'
      BY <2>1, CommandIInv
  <2>2. CASE MainStep
      BY <2>2, MainIInv
  <2>3. ASSUME NEW c \in Clients, NEW x \in AllCommands, AsyncBlock(c, x) PROVE IInv'
      BY <2>3, AsyncBlockIInv
  <2>4. CASE Tick
      BY <2>4, TickIInv
  <2>5. CASE UNCHANGED vars
    <3>1. UNCHANGED <<code, locks, conn, ptr, unixtime>>
        BY <2>5 DEF vars, conns
    <3>2. LocksOK' /\ CodeOK'
        BY <3>1, CodeUnchanged
    <3>3. DataOK' /\ ConnInv' /\ Blocking'
        BY <2>5, <3>1 DEF vars, IInv, DataOK, ConnInv, Blocking
    <3> QED BY <3>2, <3>3 DEF IInv
  <2> QED BY <2>1, <2>2, <2>3, <2>4, <2>5 DEF Next
<1> QED BY <1>1, <1>2, PTL DEF Spec

(* A client is blocked exactly as long as its thread has something to do:  *)
(* on every path through a command, of any number of clients and workers,  *)
(* the thread unblocks it last and does so once.                           *)
THEOREM BlockedWhileRunning == Spec => []TypeOK
<1>1. IInv => TypeOK
    BY DEF IInv, DataOK, LocksOK, Blocking, TypeOK, Connections
<1> QED BY <1>1, ThreadInvariant, PTL

(* The locks are taken in one order by every thread, so no cycle of        *)
(* waiting threads can form, for any number of clients and workers.        *)
THEOREM LocksAreOrdered == Spec => []LockOrder
<1>1. IInv => LockOrder
  <2> SUFFICES ASSUME IInv, NEW a \in Actors, code[a] # <<>>, Next1(a)[1] \in {"rd", "wr"},
                      NEW l \in Locks, Holds(a, l)
               PROVE  l = "gil" /\ Next1(a)[2] # "gil"
      BY DEF LockOrder
  <2>1. PICK p \in Conditions : Runs(code[a], p, Final(a)) /\ p.held = HeldBy(a)
      BY DEF IInv, CodeOK, Sound
  <2>2. code[a] \in Seq(Instructions)
      BY DEF IInv, CodeOK
  <2>3. PICK q \in Conditions : Effect(Next1(a), p, q)
      BY <2>1, <2>2, RunsTail DEF Next1
  <2>4. p.held \subseteq {"gil"} /\ (Next1(a)[2] = "gil" => p.held = {})
      BY <2>3 DEF Effect
  <2>5. l \in p.held
      BY <2>1 DEF HeldBy
  <2> QED BY <2>4, <2>5
<1> QED BY <1>1, ThreadInvariant, PTL

-----------------------------------------------------------------------------
(* What one instruction does to a lock: only its own instructions touch it *)
LEMMA EffectOnLock ==
    ASSUME NEW i \in Instructions, NEW p \in Conditions, NEW q \in Conditions,
           NEW l \in Locks, Effect(i, p, q)
    PROVE  /\ l \in p.held /\ l \notin q.held => i = Un(l)
           /\ l \notin p.held /\ l \in q.held => i \in {Rd(l), Wr(l)}
           /\ l \in p.held => i \notin {Rd(l), Wr(l)}
           /\ i = Un(l) => l \in p.held
<1>1. i = <<i[1], i[2]>>
    BY DEF Instructions
<1>2. CASE /\ i[1] \in {"rd", "wr"} /\ i[2] \in Locks
           /\ p.held \subseteq {"gil"} /\ (i[2] = "gil" => p.held = {})
           /\ q = At(p.held \cup {i[2]}, p.phase)
  <2>1. q.held = p.held \cup {i[2]}
      BY <1>2 DEF At
  <2>2. i # Un(l)
      BY <1>2 DEF Un
  <2>3. l = i[2] => i \in {Rd(l), Wr(l)}
      BY <1>1, <1>2 DEF Rd, Wr
  <2>4. i \in {Rd(l), Wr(l)} => i[2] = l
      BY DEF Rd, Wr
  <2> QED BY <1>2, <2>1, <2>2, <2>3, <2>4
<1>3. CASE /\ i[1] = "un" /\ i[2] \in p.held
           /\ q = At(p.held \ {i[2]}, p.phase)
  <2>1. q.held = p.held \ {i[2]}
      BY <1>3 DEF At
  <2>2. i \notin {Rd(l), Wr(l)}
      BY <1>3 DEF Rd, Wr
  <2>3. i = Un(l) <=> i[2] = l
      BY <1>1, <1>3 DEF Un
  <2> QED BY <1>3, <2>1, <2>2, <2>3
<1>4. CASE i[1] = "do" /\ DoEffect(i[2], p, q)
  <2>1. q.held = p.held
      BY <1>4 DEF DoEffect, At
  <2>2. i \notin {Rd(l), Wr(l), Un(l)}
      BY <1>4 DEF Rd, Wr, Un
  <2> QED BY <2>1, <2>2
<1> QED BY <1>2, <1>3, <1>4 DEF Effect

(* The least element of a set of numbers.                                  *)
LEMMA LeastNumber ==
    ASSUME NEW S \in SUBSET Nat, S # {}
    PROVE  \E n \in S : \A k \in S : n <= k
<1> DEFINE T == S
<1>0. T \subseteq Nat /\ T # {}
    OBVIOUS
<1> HIDE DEF T
<1>1. PICK n \in T : \A k \in T : ~(<<k, n>> \in OpToRel(<, Nat))
    BY <1>0, NatLessThanWellFounded, WFMin
<1>2. \A k \in T : ~(k < n)
    BY <1>0, <1>1 DEF OpToRel
<1>3. \A k \in T : n <= k
    BY <1>0, <1>2
<1> QED BY <1>3 DEF T

(* A program that ends without l releases it, before it takes it, exactly  *)
(* if it starts with l.                                                    *)
LEMMA OwesWhatIsHeld ==
    ASSUME NEW s \in Seq(Instructions), NEW p, NEW q, Runs(s, p, q),
           NEW l \in Locks, l \notin q.held
    PROVE  l \in p.held <=> Owes(s, l)
<1>1. PICK h \in Seq(Conditions) :
          /\ Len(h) = Len(s) + 1
          /\ h[1] = p /\ h[Len(h)] = q /\ Steps(s, h)
    BY DEF Runs
<1> DEFINE m == Len(s)
<1>2. m \in Nat
    OBVIOUS
<1>3. ASSUME NEW n \in 1 .. m
      PROVE  /\ s[n] \in Instructions /\ h[n] \in Conditions /\ h[n + 1] \in Conditions
             /\ Effect(s[n], h[n], h[n + 1])
  <2>1. n \in 1 .. Len(h) /\ n + 1 \in 1 .. Len(h)
      BY <1>1, <1>2
  <2> QED BY <1>1, <2>1, ElementOfSeq DEF Steps
<1>4. ASSUME NEW n \in 1 .. m
      PROVE  /\ l \in h[n].held /\ l \notin h[n + 1].held => s[n] = Un(l)
             /\ l \notin h[n].held /\ l \in h[n + 1].held => s[n] \in {Rd(l), Wr(l)}
             /\ l \in h[n].held => s[n] \notin {Rd(l), Wr(l)}
             /\ s[n] = Un(l) => l \in h[n].held
    BY <1>3, EffectOnLock
<1> HIDE DEF m
<1>5. ASSUME l \in p.held PROVE Owes(s, l)
  <2> DEFINE S == {n \in 1 .. m + 1 : l \notin h[n].held}
  <2>1. m + 1 \in S /\ S \in SUBSET Nat
      BY <1>1, <1>2 DEF m
  <2>2. PICK n \in S : \A k \in S : n <= k
      BY <2>1, LeastNumber
  <2>3. n \in 1 .. m + 1 /\ l \notin h[n].held /\ n # 1
      BY <1>1, <1>5
  <2>4. n - 1 \in 1 .. m /\ (n - 1) + 1 = n
      BY <1>2, <2>3
  <2>5. \A k \in 1 .. n - 1 : k \in 1 .. m /\ l \in h[k].held
    <3> SUFFICES ASSUME NEW k \in 1 .. n - 1 PROVE k \in 1 .. m /\ l \in h[k].held
        OBVIOUS
    <3>1. k \in 1 .. m /\ k \in 1 .. m + 1 /\ ~(n <= k)
        BY <1>2, <2>3
    <3> QED BY <2>2, <3>1
  <2>6. s[n - 1] = Un(l)
    <3>1. n - 1 \in 1 .. n - 1
        BY <2>4
    <3>2. l \in h[n - 1].held /\ l \notin h[(n - 1) + 1].held
        BY <2>3, <2>4, <2>5, <3>1
    <3> QED BY <1>4, <2>4, <3>2
  <2>7. \A k \in 1 .. (n - 1) - 1 : s[k] \notin {Rd(l), Wr(l)}
    <3> SUFFICES ASSUME NEW k \in 1 .. (n - 1) - 1 PROVE s[k] \notin {Rd(l), Wr(l)}
        OBVIOUS
    <3>1. k \in 1 .. n - 1
        BY <2>3
    <3> QED BY <1>4, <2>5, <3>1
  <2> QED BY <2>4, <2>6, <2>7 DEF Owes, m
<1>6. ASSUME Owes(s, l) PROVE l \in p.held
  <2>1. PICK n \in 1 .. m : /\ s[n] = Un(l)
                            /\ \A k \in 1 .. n - 1 : s[k] \notin {Rd(l), Wr(l)}
      BY <1>6 DEF Owes, m
  <2> DEFINE S == {k \in 1 .. n : l \in h[k].held}
  <2>2. n \in S /\ S \in SUBSET Nat
      BY <1>2, <1>4, <2>1
  <2>3. PICK k \in S : \A j \in S : k <= j
      BY <2>2, LeastNumber
  <2>4. k \in 1 .. n /\ l \in h[k].held
      OBVIOUS
  <2>5. k = 1
    <3> SUFFICES ASSUME k # 1 PROVE FALSE
        OBVIOUS
    <3>1. /\ k - 1 \in 1 .. n - 1 /\ k - 1 \in 1 .. m /\ k - 1 \in 1 .. n
          /\ (k - 1) + 1 = k /\ ~(k <= k - 1)
        BY <1>2, <2>1, <2>4
    <3>2. l \notin h[k - 1].held
        BY <2>3, <3>1
    <3>3. s[k - 1] \in {Rd(l), Wr(l)}
        BY <1>4, <2>4, <3>1, <3>2
    <3> QED BY <2>1, <3>1, <3>3
  <2> QED BY <1>1, <2>4, <2>5
<1> QED BY <1>5, <1>6

(* Every lock is returned, by every thread on every path through its       *)
(* command: it holds what the rest of its program releases, and no more.   *)
THEOREM LocksAreReturned == Spec => []LocksReturned
<1>1. IInv => LocksReturned
  <2> SUFFICES ASSUME IInv, NEW a \in Actors, NEW l \in Locks, ~(a = Main /\ l = "gil")
               PROVE  Holds(a, l) <=> Owes(code[a], l)
      BY DEF LocksReturned
  <2>1. PICK p \in Conditions : Runs(code[a], p, Final(a)) /\ p.held = HeldBy(a)
      BY DEF IInv, CodeOK, Sound
  <2>2. code[a] \in Seq(Instructions)
      BY DEF IInv, CodeOK
  <2>3. l \notin Final(a).held
    <3>1. CASE a = Main
      <4>1. Final(a).held = {"gil"}
          BY <3>1, ThreadAssumption DEF Final, At
      <4> QED BY <3>1, <4>1
    <3>2. CASE a # Main
      <4>1. Final(a).held = {}
          BY <3>2 DEF Final, At
      <4> QED BY <4>1
    <3> QED BY <3>1, <3>2
  <2>4. l \in p.held <=> Owes(code[a], l)
      BY <2>1, <2>2, <2>3, OwesWhatIsHeld
  <2> QED BY <2>1, <2>4 DEF HeldBy
<1> QED BY <1>1, ThreadInvariant, PTL

(* A connection is open as long as its thread or the cache refers to it    *)
(* and no longer, unless the cron job freed it, which it does only to one  *)
(* whose last_time lies back more than the limit: on every path of errors, *)
(* with the cron job and the passing of time between any two steps.        *)
THEOREM ConnectionsAreOwned == Spec => []ConnOwned
<1>1. IInv => ConnOwned
  <2> SUFFICES ASSUME IInv, NEW t \in Threads
               PROVE  Owned(ptr[t], conn[t]) /\ (ptr[t] => code[t] # <<>>)
      BY DEF ConnOwned, Owned
  <2>1. Owned(ptr[t], conn[t])
      BY DEF IInv, ConnInv
  <2>2. code[t] = <<>> => ~ptr[t]
      BY IdleFacts DEF Actors
  <2> QED BY <2>1, <2>2
<1> QED BY <1>1, ThreadInvariant, PTL
=============================================================================
