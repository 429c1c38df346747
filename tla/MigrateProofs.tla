---------------------------- MODULE MigrateProofs ----------------------------
(***************************************************************************)
(* Proofs about Migrate for any number of keys, movers, faults and writes, *)
(* any sizes of objects and chunks.  This module holds what is true of     *)
(* every configuration: how a batch is cut into chunks, and the types.     *)
(* MigrateSafetyProofs and MigrateHandoffProofs go on from it.             *)
(***************************************************************************)
EXTENDS Migrate, SequenceTheorems, FiniteSetTheorems, WellFoundedInduction, TLAPS

(* Induction over the naturals for a set, which is all that is needed.     *)
LEMMA NatSetInduction ==
    ASSUME NEW S, 0 \in S, \A n \in Nat : n \in S => n + 1 \in S
    PROVE  Nat \subseteq S
<1> SUFFICES ASSUME NEW n \in Nat, n \notin S PROVE FALSE
    OBVIOUS
<1> DEFINE T == {i \in Nat : i \notin S}
<1>1. T \subseteq Nat /\ T # {}
    OBVIOUS
<1> HIDE DEF T
<1>2. PICK x \in T : \A y \in T : ~(<<y, x>> \in OpToRel(<, Nat))
    BY <1>1, NatLessThanWellFounded, WFMin
<1>3. \A y \in T : ~(y < x)
    BY <1>1, <1>2 DEF OpToRel
<1>4. x \in Nat /\ x # 0 /\ x - 1 \in Nat /\ x - 1 < x /\ x = (x - 1) + 1
    BY DEF T
<1>5. x - 1 \in S
    BY <1>3, <1>4 DEF T
<1> QED BY <1>4, <1>5 DEF T

-----------------------------------------------------------------------------
(* Cutting a batch into chunks: one object after the other.                *)
Dumps == [key : Keys, ver : 0 .. MaxVersion, ttl : Nat \cup {-3, -2, -1}] \cup {Hole}

CutStart == [size |-> 0, done |-> <<>>, open |-> <<>>]

CutNext(p, o) ==
    IF p.size > MaxCmdSize
    THEN [size |-> Size(o), done |-> Append(p.done, p.open), open |-> <<o>>]
    ELSE [size |-> p.size + Size(o), done |-> p.done, open |-> Append(p.open, o)]

LEMMA CutSteps ==
    ASSUME NEW os, Len(os) \in Nat
    PROVE  \E c : /\ c[0] = CutStart /\ Cut(os) = c[Len(os)]
                  /\ \A i \in 1 .. Len(os) : c[i] = CutNext(c[i - 1], os[i])
<1> DEFINE Rec(g, n) == g = [i \in 0 .. n |-> IF i = 0 THEN CutStart
                                              ELSE CutNext(g[i - 1], os[i])]
           S == {n \in Nat : \E g : Rec(g, n)}
<1>1. 0 \in S
  <2> DEFINE g == [i \in 0 .. 0 |-> CutStart]
  <2>1. Rec(g, 0)
      OBVIOUS
  <2> QED BY <2>1
<1>2. ASSUME NEW n \in Nat, n \in S PROVE n + 1 \in S
  <2>1. PICK g : Rec(g, n)
      BY <1>2
  <2> DEFINE h == [i \in 0 .. n + 1 |-> IF i = n + 1 THEN CutNext(g[n], os[n + 1])
                                        ELSE g[i]]
  <2> HIDE DEF CutStart, CutNext
  <2>2. \A i \in 0 .. n : g[i] = IF i = 0 THEN CutStart ELSE CutNext(g[i - 1], os[i])
      BY <2>1
  <2>3. ASSUME NEW i \in 0 .. n + 1
        PROVE  h[i] = IF i = 0 THEN CutStart ELSE CutNext(h[i - 1], os[i])
    <3>1. CASE i = n + 1
      <4>1. i # 0 /\ i - 1 = n /\ i - 1 \in 0 .. n + 1 /\ i - 1 # n + 1
          BY <3>1
      <4> QED BY <3>1, <4>1
    <3>2. CASE i = 0
        BY <2>2, <3>2
    <3>3. CASE i # 0 /\ i # n + 1
      <4>1. i \in 0 .. n /\ i - 1 \in 0 .. n + 1 /\ i - 1 # n + 1
          BY <3>3
      <4> QED BY <2>2, <3>3, <4>1
    <3> QED BY <3>1, <3>2, <3>3
  <2>4. h = [i \in 0 .. n + 1 |-> h[i]]
      OBVIOUS
  <2> HIDE DEF h
  <2>5. Rec(h, n + 1)
      BY <2>3, <2>4
  <2> QED BY <2>5
<1>3. Len(os) \in S
  <2> HIDE DEF S
  <2> QED BY <1>1, <1>2, NatSetInduction
<1> DEFINE c == CHOOSE g : Rec(g, Len(os))
<1>4. Rec(c, Len(os))
    BY <1>3
<1>5. Cut(os) = c[Len(os)]
    BY DEF Cut, CutStart, CutNext
<1> HIDE DEF c
<1>6. c[0] = CutStart /\ \A i \in 1 .. Len(os) : c[i] = CutNext(c[i - 1], os[i])
    BY <1>4
<1> QED BY <1>5, <1>6

LEMMA AppendFacts ==
    ASSUME NEW D, NEW s \in Seq(D), NEW x \in D
    PROVE  /\ Append(s, x) \in Seq(D) /\ Len(Append(s, x)) = Len(s) + 1
           /\ DOMAIN Append(s, x) = 1 .. Len(s) + 1 /\ DOMAIN s = 1 .. Len(s)
           /\ \A i \in 1 .. Len(s) : Append(s, x)[i] = s[i]
           /\ Append(s, x)[Len(s) + 1] = x
           /\ Append(s, x) # <<>>
           /\ Range(Append(s, x)) = Range(s) \cup {x}
<1>1. /\ Append(s, x) \in Seq(D) /\ Len(Append(s, x)) = Len(s) + 1
      /\ DOMAIN Append(s, x) = 1 .. Len(s) + 1 /\ DOMAIN s = 1 .. Len(s)
      /\ \A i \in 1 .. Len(s) : Append(s, x)[i] = s[i]
      /\ Append(s, x)[Len(s) + 1] = x
    OBVIOUS
<1>2. Append(s, x) # <<>>
  <2>1. Len(<<>>) = 0 /\ Len(s) \in Nat
      OBVIOUS
  <2> QED BY <1>1, <2>1
<1> DEFINE t == Append(s, x)  n == Len(s)
<1>3. n \in Nat
    OBVIOUS
<1>4. DOMAIN t = 1 .. n + 1 /\ DOMAIN s = 1 .. n /\ t[n + 1] = x
      /\ \A i \in 1 .. n : t[i] = s[i]
    BY <1>1
<1> HIDE DEF t, n
<1>5. Range(t) = Range(s) \cup {x}
  <2>1. \A i \in 1 .. n + 1 : i \in 1 .. n \/ i = n + 1
      BY <1>3
  <2>2. n + 1 \in 1 .. n + 1 /\ \A i \in 1 .. n : i \in 1 .. n + 1
      BY <1>3
  <2> QED BY <1>4, <2>1, <2>2 DEF Range
<1> QED BY <1>1, <1>2, <1>5 DEF t

(* What the chunks hold together.                                          *)
Content(cs) == UNION {Range(cs[c]) : c \in DOMAIN cs}

LEMMA ContentAppend ==
    ASSUME NEW cs \in Seq(Seq(Dumps)), NEW ch \in Seq(Dumps)
    PROVE  Content(Append(cs, ch)) = Content(cs) \cup Range(ch)
<1> DEFINE t == Append(cs, ch)  n == Len(cs)
<1>1. /\ DOMAIN t = 1 .. n + 1 /\ DOMAIN cs = 1 .. n /\ t[n + 1] = ch
      /\ \A i \in 1 .. n : t[i] = cs[i]
    BY AppendFacts
<1>2. n \in Nat
    OBVIOUS
<1> HIDE DEF t, n
<1>3. /\ \A i \in 1 .. n + 1 : i \in 1 .. n \/ i = n + 1
      /\ n + 1 \in 1 .. n + 1 /\ \A i \in 1 .. n : i \in 1 .. n + 1
    BY <1>2
<1>4. Content(t) = Content(cs) \cup Range(ch)
  <2>1. /\ \A x : x \in Content(t) <=> \E c \in DOMAIN t : x \in Range(t[c])
        /\ \A x : x \in Content(cs) <=> \E c \in DOMAIN cs : x \in Range(cs[c])
      BY DEF Content
  <2>2. \A x : x \in Content(t) <=> x \in Content(cs) \/ x \in Range(ch)
      BY <1>1, <1>3, <2>1
  <2> QED BY <2>2
<1> QED BY <1>4 DEF t

(* Split sends every object and no other, and no empty chunk.              *)
LEMMA SplitFacts ==
    ASSUME NEW os \in Seq(Dumps), os # <<>>
    PROVE  /\ Split(os) \in Seq(Seq(Dumps)) /\ Split(os) # <<>>
           /\ \A c \in DOMAIN Split(os) : Split(os)[c] # <<>>
           /\ Content(Split(os)) = Range(os)
<1>1. Len(os) \in Nat \ {0} /\ DOMAIN os = 1 .. Len(os)
    BY EmptySeq
<1>2. PICK c : /\ c[0] = CutStart /\ Cut(os) = c[Len(os)]
               /\ \A i \in 1 .. Len(os) : c[i] = CutNext(c[i - 1], os[i])
    BY <1>1, CutSteps
<1> DEFINE Good(i, p) ==
             /\ p.size \in Nat /\ p.done \in Seq(Seq(Dumps)) /\ p.open \in Seq(Dumps)
             /\ i > 0 => p.open # <<>>
             /\ \A b \in DOMAIN p.done : p.done[b] # <<>>
             /\ Content(p.done) \cup Range(p.open) = {os[j] : j \in 1 .. i}
           S == {i \in Nat : i <= Len(os) => Good(i, c[i])}
<1>3. \A o \in Dumps : Size(o) \in Nat
    BY MigrateAssumption DEF Size, Dumps
<1>4. 0 \in S
  <2>1. CutStart.size = 0 /\ CutStart.done = <<>> /\ CutStart.open = <<>>
      BY DEF CutStart
  <2>2. <<>> \in Seq(Seq(Dumps)) /\ <<>> \in Seq(Dumps) /\ DOMAIN <<>> = {}
      BY EmptySeq
  <2>3. Content(<<>>) = {} /\ Range(<<>>) = {}
      BY <2>2 DEF Content, Range
  <2>4. {os[j] : j \in 1 .. 0} = {}
      OBVIOUS
  <2> DEFINE p == c[0]
  <2>5. p.size = 0 /\ p.done = <<>> /\ p.open = <<>>
      BY <1>2, <2>1
  <2> HIDE DEF p
  <2>6. Good(0, p)
      BY <2>2, <2>3, <2>4, <2>5
  <2> QED BY <2>6 DEF p
<1>5. ASSUME NEW i \in Nat, i \in S PROVE i + 1 \in S
  <2> SUFFICES ASSUME i + 1 <= Len(os) PROVE Good(i + 1, c[i + 1])
      OBVIOUS
  <2> DEFINE p == c[i]  o == os[i + 1]
  <2>1. Good(i, p) /\ i + 1 \in 1 .. Len(os) /\ (i + 1) - 1 = i
    <3>1. i <= Len(os) /\ i + 1 \in 1 .. Len(os) /\ (i + 1) - 1 = i
      <4> HIDE DEF S
      <4> QED BY <1>1
    <3> HIDE DEF Good
    <3>2. Good(i, c[i])
        BY <1>5, <3>1
    <3> QED BY <3>1, <3>2
  <2>2. c[i + 1] = CutNext(p, o) /\ o \in Dumps
      BY <1>2, <2>1, ElementOfSeq
  <2>3. Size(o) \in Nat /\ MaxCmdSize \in Nat
      BY <1>3, <2>2, MigrateAssumption
  <2>4. {os[j] : j \in 1 .. i + 1} = {os[j] : j \in 1 .. i} \cup {o}
    <3>1. \A j \in 1 .. i + 1 : j \in 1 .. i \/ j = i + 1
        OBVIOUS
    <3>2. i + 1 \in 1 .. i + 1 /\ \A j \in 1 .. i : j \in 1 .. i + 1
        OBVIOUS
    <3> QED BY <3>1, <3>2
  <2> HIDE DEF p, o
  <2>5. CASE p.size > MaxCmdSize
    <3> DEFINE q == [size |-> Size(o), done |-> Append(p.done, p.open), open |-> <<o>>]
    <3>1. CutNext(p, o) = q
        BY <2>5 DEF CutNext
    <3>2. q.size = Size(o) /\ q.done = Append(p.done, p.open) /\ q.open = <<o>>
        OBVIOUS
    <3> HIDE DEF q
    <3>3. i > 0
      <4>1. i = 0 => p.size = 0
          BY <1>2 DEF p, CutStart
      <4> QED BY <2>3, <2>5, <4>1
    <3>4. <<o>> \in Seq(Dumps) /\ <<o>> # <<>> /\ Range(<<o>>) = {o}
      <4>1. <<o>> \in Seq(Dumps) /\ <<o>> # <<>> /\ DOMAIN <<o>> = 1 .. 1 /\ <<o>>[1] = o
          BY <2>2
      <4> QED BY <4>1 DEF Range
    <3>5. /\ Append(p.done, p.open) \in Seq(Seq(Dumps))
          /\ \A b \in DOMAIN Append(p.done, p.open) : Append(p.done, p.open)[b] # <<>>
      <4>1. /\ p.done \in Seq(Seq(Dumps)) /\ p.open \in Seq(Dumps) /\ p.open # <<>>
            /\ \A b \in DOMAIN p.done : p.done[b] # <<>>
          BY <2>1, <3>3
      <4> DEFINE n == Len(p.done)
      <4>2. /\ n \in Nat /\ DOMAIN Append(p.done, p.open) = 1 .. n + 1
            /\ DOMAIN p.done = 1 .. n
            /\ \A b \in 1 .. n : Append(p.done, p.open)[b] = p.done[b]
            /\ Append(p.done, p.open)[n + 1] = p.open
            /\ Append(p.done, p.open) \in Seq(Seq(Dumps))
          BY <4>1, AppendFacts
      <4> HIDE DEF n
      <4>3. \A b \in 1 .. n + 1 : b \in 1 .. n \/ b = n + 1
          BY <4>2
      <4> QED BY <4>1, <4>2, <4>3
    <3>6. Content(q.done) \cup Range(q.open) = {os[j] : j \in 1 .. i + 1}
        BY <2>1, <2>4, <3>2, <3>4, ContentAppend
    <3> QED BY <2>2, <2>3, <3>1, <3>2, <3>4, <3>5, <3>6 DEF o
  <2>6. CASE ~(p.size > MaxCmdSize)
    <3> DEFINE q == [size |-> p.size + Size(o), done |-> p.done, open |-> Append(p.open, o)]
    <3>1. CutNext(p, o) = q
        BY <2>6 DEF CutNext
    <3>2. q.size = p.size + Size(o) /\ q.done = p.done /\ q.open = Append(p.open, o)
        OBVIOUS
    <3> HIDE DEF q
    <3>3. /\ Append(p.open, o) \in Seq(Dumps) /\ Append(p.open, o) # <<>>
          /\ Range(Append(p.open, o)) = Range(p.open) \cup {o}
      <4>1. p.open \in Seq(Dumps)
          BY <2>1
      <4> QED BY <2>2, <4>1, AppendFacts
    <3>4. Content(q.done) \cup Range(q.open) = {os[j] : j \in 1 .. i + 1}
        BY <2>1, <2>4, <3>2, <3>3
    <3> QED BY <2>1, <2>2, <2>3, <3>1, <3>2, <3>3, <3>4 DEF o
  <2> QED BY <2>5, <2>6
<1>6. Len(os) \in S
  <2> HIDE DEF S
  <2> QED BY <1>1, <1>4, <1>5, NatSetInduction
<1> DEFINE p == c[Len(os)]
<1>7. Good(Len(os), p)
    BY <1>1, <1>6
<1>8. Split(os) = Append(p.done, p.open)
    BY <1>2 DEF Split
<1>9. {os[j] : j \in 1 .. Len(os)} = Range(os)
    BY <1>1 DEF Range
<1> HIDE DEF p
<1>10. p.done \in Seq(Seq(Dumps)) /\ p.open \in Seq(Dumps) /\ p.open # <<>>
       /\ (\A b \in DOMAIN p.done : p.done[b] # <<>>)
       /\ Content(p.done) \cup Range(p.open) = Range(os)
    BY <1>1, <1>7, <1>9
<1>11. Split(os) \in Seq(Seq(Dumps)) /\ Split(os) # <<>>
    BY <1>8, <1>10, AppendFacts
<1>12. Content(Split(os)) = Range(os)
    BY <1>8, <1>10, ContentAppend
<1>13. \A b \in DOMAIN Split(os) : Split(os)[b] # <<>>
  <2> DEFINE n == Len(p.done)
  <2>1. /\ n \in Nat /\ DOMAIN Split(os) = 1 .. n + 1 /\ DOMAIN p.done = 1 .. n
        /\ \A b \in 1 .. n : Split(os)[b] = p.done[b]
        /\ Split(os)[n + 1] = p.open
      BY <1>8, <1>10, AppendFacts
  <2> HIDE DEF n
  <2>2. \A b \in 1 .. n + 1 : b \in 1 .. n \/ b = n + 1
      BY <2>1
  <2> QED BY <1>10, <2>1, <2>2
<1> QED BY <1>11, <1>12, <1>13

(* The bytes of a chunk and the objects of all chunks, one by one.         *)
LEMMA BytesSteps ==
    ASSUME NEW os, Len(os) \in Nat
    PROVE  \E b : /\ b[0] = 0 /\ ChunkBytes(os) = b[Len(os)]
                  /\ \A i \in 1 .. Len(os) : b[i] = b[i - 1] + Size(os[i])
<1> DEFINE Rec(g, n) == g = [i \in 0 .. n |-> IF i = 0 THEN 0
                                              ELSE g[i - 1] + Size(os[i])]
           S == {n \in Nat : \E g : Rec(g, n)}
<1>1. 0 \in S
  <2> DEFINE g == [i \in 0 .. 0 |-> 0]
  <2>1. Rec(g, 0)
      OBVIOUS
  <2> QED BY <2>1
<1>2. ASSUME NEW n \in Nat, n \in S PROVE n + 1 \in S
  <2>1. PICK g : Rec(g, n)
      BY <1>2
  <2> DEFINE h == [i \in 0 .. n + 1 |-> IF i = n + 1 THEN g[n] + Size(os[n + 1])
                                        ELSE g[i]]
  <2>2. \A i \in 0 .. n : g[i] = IF i = 0 THEN 0 ELSE g[i - 1] + Size(os[i])
      BY <2>1
  <2>3. ASSUME NEW i \in 0 .. n + 1
        PROVE  h[i] = IF i = 0 THEN 0 ELSE h[i - 1] + Size(os[i])
    <3>1. CASE i = n + 1
      <4>1. i # 0 /\ i - 1 = n /\ i - 1 \in 0 .. n + 1 /\ i - 1 # n + 1
          BY <3>1
      <4> QED BY <3>1, <4>1
    <3>2. CASE i = 0
        BY <2>2, <3>2
    <3>3. CASE i # 0 /\ i # n + 1
      <4>1. i \in 0 .. n /\ i - 1 \in 0 .. n + 1 /\ i - 1 # n + 1
          BY <3>3
      <4> QED BY <2>2, <3>3, <4>1
    <3> QED BY <3>1, <3>2, <3>3
  <2>4. h = [i \in 0 .. n + 1 |-> h[i]]
      OBVIOUS
  <2> HIDE DEF h
  <2>5. Rec(h, n + 1)
      BY <2>3, <2>4
  <2> QED BY <2>5
<1>3. Len(os) \in S
  <2> HIDE DEF S
  <2> QED BY <1>1, <1>2, NatSetInduction
<1> DEFINE b == CHOOSE g : Rec(g, Len(os))
<1>4. Rec(b, Len(os))
    BY <1>3
<1>5. ChunkBytes(os) = b[Len(os)]
    BY DEF ChunkBytes
<1> HIDE DEF b
<1>6. b[0] = 0 /\ \A i \in 1 .. Len(os) : b[i] = b[i - 1] + Size(os[i])
    BY <1>4
<1> QED BY <1>5, <1>6

Cat(s, t) == s \o t

LEMMA FlattenSteps ==
    ASSUME NEW cs, Len(cs) \in Nat \ {0}
    PROVE  \E f : /\ f[1] = cs[1] /\ FlattenSeq(cs) = f[Len(cs)]
                  /\ \A i \in 2 .. Len(cs) : f[i] = f[i - 1] \o cs[i]
<1> DEFINE Rec(g, n) == g = [i \in 1 .. n |-> IF i = 1 THEN cs[i]
                                              ELSE Cat(g[i - 1], cs[i])]
           S == {n \in Nat : \E g : Rec(g, n)}
<1>1. 0 \in S
  <2> DEFINE g == [i \in 1 .. 0 |-> 0]
  <2>1. Rec(g, 0)
      OBVIOUS
  <2> QED BY <2>1
<1>2. ASSUME NEW n \in Nat, n \in S PROVE n + 1 \in S
  <2>1. PICK g : Rec(g, n)
      BY <1>2
  <2> DEFINE h == [i \in 1 .. n + 1 |-> IF i = n + 1
                                        THEN IF n = 0 THEN cs[1] ELSE Cat(g[n], cs[n + 1])
                                        ELSE g[i]]
  <2>2. \A i \in 1 .. n : g[i] = IF i = 1 THEN cs[i] ELSE Cat(g[i - 1], cs[i])
      BY <2>1
  <2>3. ASSUME NEW i \in 1 .. n + 1
        PROVE  h[i] = IF i = 1 THEN cs[i] ELSE Cat(h[i - 1], cs[i])
    <3>1. CASE i = n + 1 /\ n # 0
      <4>1. i # 1 /\ i - 1 = n /\ i - 1 \in 1 .. n + 1 /\ i - 1 # n + 1
          BY <3>1
      <4> QED BY <3>1, <4>1
    <3>2. CASE i = n + 1 /\ n = 0
        BY <3>2
    <3>3. CASE i = 1 /\ i # n + 1
      <4>1. i \in 1 .. n
          BY <3>3
      <4> QED BY <2>2, <3>3, <4>1
    <3>4. CASE i # 1 /\ i # n + 1
      <4>1. i \in 1 .. n /\ i - 1 \in 1 .. n + 1 /\ i - 1 # n + 1
          BY <3>4
      <4> QED BY <2>2, <3>4, <4>1
    <3> QED BY <3>1, <3>2, <3>3, <3>4
  <2>4. h = [i \in 1 .. n + 1 |-> h[i]]
      OBVIOUS
  <2> HIDE DEF h
  <2>5. Rec(h, n + 1)
      BY <2>3, <2>4
  <2> QED BY <2>5
<1>3. Len(cs) \in S
  <2> HIDE DEF S
  <2> QED BY <1>1, <1>2, NatSetInduction
<1> DEFINE f == CHOOSE g : Rec(g, Len(cs))
<1>4. Rec(f, Len(cs))
    BY <1>3
<1>5. FlattenSeq(cs) = f[Len(cs)]
    BY DEF FlattenSeq, Cat
<1> HIDE DEF f
<1>6. f[1] = cs[1] /\ \A i \in 2 .. Len(cs) : f[i] = Cat(f[i - 1], cs[i])
    BY <1>4
<1> QED BY <1>5, <1>6 DEF Cat

LEMMA SizeNat ==
    ASSUME NEW o \in Dumps PROVE Size(o) \in Nat
<1> QED BY MigrateAssumption DEF Size, Dumps

LEMMA BytesAppend ==
    /\ ChunkBytes(<<>>) = 0
    /\ \A s \in Seq(Dumps), o \in Dumps :
           ChunkBytes(s) \in Nat /\ ChunkBytes(Append(s, o)) = ChunkBytes(s) + Size(o)
<1>1. ChunkBytes(<<>>) = 0
  <2>1. Len(<<>>) = 0
      OBVIOUS
  <2> QED BY <2>1, BytesSteps
<1>2. ASSUME NEW s \in Seq(Dumps), NEW o \in Dumps
      PROVE  ChunkBytes(s) \in Nat /\ ChunkBytes(Append(s, o)) = ChunkBytes(s) + Size(o)
  <2> DEFINE n == Len(s)  t == Append(s, o)
  <2>1. /\ n \in Nat /\ Len(t) = n + 1 /\ t[n + 1] = o
        /\ \A i \in 1 .. n : t[i] = s[i]
      BY AppendFacts
  <2>2. \A i \in 1 .. n : Size(s[i]) \in Nat
      BY ElementOfSeq, SizeNat
  <2>3. PICK b : /\ b[0] = 0 /\ ChunkBytes(s) = b[n]
                 /\ \A i \in 1 .. n : b[i] = b[i - 1] + Size(s[i])
      BY <2>1, BytesSteps
  <2>4. Len(t) \in Nat
      BY <2>1
  <2>5. PICK d : /\ d[0] = 0 /\ ChunkBytes(t) = d[Len(t)]
                 /\ \A i \in 1 .. Len(t) : d[i] = d[i - 1] + Size(t[i])
      BY <2>4, BytesSteps
  <2> HIDE DEF n, t
  <2> DEFINE S == {i \in Nat : i <= n => b[i] \in Nat /\ d[i] = b[i]}
  <2>6. 0 \in S
      BY <2>3, <2>5
  <2>7. ASSUME NEW i \in Nat, i \in S PROVE i + 1 \in S
    <3> SUFFICES ASSUME i + 1 <= n PROVE b[i + 1] \in Nat /\ d[i + 1] = b[i + 1]
        OBVIOUS
    <3>1. i <= n /\ i + 1 \in 1 .. n /\ i + 1 \in 1 .. Len(t) /\ (i + 1) - 1 = i
        BY <2>1
    <3>2. b[i + 1] = b[i] + Size(s[i + 1]) /\ d[i + 1] = d[i] + Size(s[i + 1])
        BY <2>1, <2>3, <2>5, <3>1
    <3> QED BY <2>2, <2>7, <3>1, <3>2
  <2>8. n \in S
    <3> HIDE DEF S
    <3> QED BY <2>1, <2>6, <2>7, NatSetInduction
  <2>9. d[n + 1] = d[n] + Size(o)
    <3>1. n + 1 \in 1 .. Len(t) /\ (n + 1) - 1 = n
        BY <2>1
    <3> QED BY <2>1, <2>5, <3>1
  <2> QED BY <2>1, <2>3, <2>5, <2>8, <2>9 DEF t
<1> QED BY <1>1, <1>2

LEMMA FlattenAppend ==
    /\ FlattenSeq(<<>>) = <<>>
    /\ \A cs \in Seq(Seq(Dumps)), ch \in Seq(Dumps) :
           /\ FlattenSeq(cs) \in Seq(Dumps)
           /\ FlattenSeq(Append(cs, ch)) = FlattenSeq(cs) \o ch
<1>1. FlattenSeq(<<>>) = <<>>
  <2>1. Len(<<>>) = 0
      OBVIOUS
  <2> QED BY <2>1 DEF FlattenSeq
<1>2. ASSUME NEW cs \in Seq(Seq(Dumps)), NEW ch \in Seq(Dumps)
      PROVE  /\ FlattenSeq(cs) \in Seq(Dumps)
             /\ FlattenSeq(Append(cs, ch)) = FlattenSeq(cs) \o ch
  <2> DEFINE n == Len(cs)  t == Append(cs, ch)
  <2>1. /\ n \in Nat /\ Len(t) = n + 1 /\ t[n + 1] = ch
        /\ \A i \in 1 .. n : t[i] = cs[i] /\ cs[i] \in Seq(Dumps)
      BY AppendFacts, ElementOfSeq
  <2>2. Len(t) \in Nat \ {0}
      BY <2>1
  <2>3. PICK g : /\ g[1] = t[1] /\ FlattenSeq(t) = g[Len(t)]
                 /\ \A i \in 2 .. Len(t) : g[i] = g[i - 1] \o t[i]
      BY <2>2, FlattenSteps
  <2>4. CASE cs = <<>>
    <3>1. n = 0
        BY <2>4
    <3>2. FlattenSeq(t) = ch
      <4> HIDE DEF n, t
      <4> QED BY <2>1, <2>3, <3>1
    <3>3. <<>> \o ch = ch /\ <<>> \in Seq(Dumps)
        BY ConcatEmptySeq, EmptySeq
    <3> QED BY <1>1, <2>4, <3>2, <3>3
  <2>5. CASE cs # <<>>
    <3>1. n \in Nat \ {0}
        BY <2>5, EmptySeq
    <3>2. PICK f : /\ f[1] = cs[1] /\ FlattenSeq(cs) = f[n]
                   /\ \A i \in 2 .. n : f[i] = f[i - 1] \o cs[i]
        BY <3>1, FlattenSteps
    <3> HIDE DEF n, t
    <3> DEFINE S == {i \in Nat : i + 1 <= n => f[i + 1] \in Seq(Dumps) /\ g[i + 1] = f[i + 1]}
    <3>3. 0 \in S
      <4>1. 1 \in 1 .. n /\ 0 + 1 = 1
          BY <3>1
      <4> QED BY <2>1, <2>3, <3>2, <4>1
    <3>4. ASSUME NEW i \in Nat, i \in S PROVE i + 1 \in S
      <4> SUFFICES ASSUME (i + 1) + 1 <= n
                   PROVE  f[(i + 1) + 1] \in Seq(Dumps) /\ g[(i + 1) + 1] = f[(i + 1) + 1]
          OBVIOUS
      <4> DEFINE j == (i + 1) + 1
      <4>1. /\ i + 1 <= n /\ j \in 2 .. n /\ j \in 1 .. n /\ j \in 2 .. Len(t)
            /\ j - 1 = i + 1
          BY <2>1
      <4>2. f[i + 1] \in Seq(Dumps) /\ g[i + 1] = f[i + 1]
          BY <3>4, <4>1
      <4> HIDE DEF j
      <4>3. f[j] = Cat(f[j - 1], cs[j]) /\ g[j] = Cat(g[j - 1], t[j])
          BY <2>3, <3>2, <4>1 DEF Cat
      <4>4. f[j] = Cat(f[i + 1], cs[j]) /\ g[j] = f[j]
          BY <2>1, <4>1, <4>2, <4>3
      <4>5. Cat(f[i + 1], cs[j]) \in Seq(Dumps)
          BY <2>1, <4>1, <4>2, ConcatProperties DEF Cat
      <4> QED BY <4>4, <4>5 DEF j
    <3>5. n - 1 \in S
      <4>1. n - 1 \in Nat
          BY <3>1
      <4> HIDE DEF S
      <4> QED BY <3>3, <3>4, <4>1, NatSetInduction
    <3>6. f[n] \in Seq(Dumps) /\ g[n] = f[n]
      <4>1. n - 1 \in Nat /\ (n - 1) + 1 = n /\ n <= n
          BY <3>1
      <4> QED BY <3>5, <4>1
    <3>7. g[n + 1] = Cat(g[n], ch)
      <4>1. n + 1 \in 2 .. Len(t) /\ (n + 1) - 1 = n
          BY <2>1, <3>1
      <4>2. g[n + 1] = Cat(g[(n + 1) - 1], t[n + 1])
          BY <2>3, <4>1 DEF Cat
      <4> QED BY <2>1, <4>1, <4>2
    <3>8. FlattenSeq(t) = Cat(FlattenSeq(cs), ch) /\ FlattenSeq(cs) \in Seq(Dumps)
        BY <2>1, <2>3, <3>2, <3>6, <3>7
    <3> QED BY <3>8 DEF Cat, t
  <2> QED BY <2>4, <2>5
<1> QED BY <1>1, <1>2

LEMMA CatAssociative ==
    ASSUME NEW s \in Seq(Dumps), NEW t \in Seq(Dumps), NEW u \in Seq(Dumps)
    PROVE  Cat(Cat(s, t), u) = Cat(s, Cat(t, u))
<1>1. (s \o t) \o u = s \o (t \o u)
    BY ConcatAssociative
<1> QED BY <1>1 DEF Cat

LEMMA FrontFacts ==
    ASSUME NEW s \in Seq(Dumps), NEW o \in Dumps
    PROVE  Front(Append(s, o)) = s
<1> DEFINE t == Append(s, o)  n == Len(s)
<1>1. /\ n \in Nat /\ Len(t) = n + 1 /\ \A i \in 1 .. n : t[i] = s[i]
      /\ \A i \in 1 .. n : s[i] \in Dumps
    BY AppendFacts, ElementOfSeq
<1>2. Front(t) = SubSeq(t, 1, n)
  <2> HIDE DEF t
  <2>1. (n + 1) - 1 = n
      BY <1>1
  <2> QED BY <1>1, <2>1 DEF Front
<1> HIDE DEF t
<1>3. /\ SubSeq(t, 1, n) \in Seq(Dumps) /\ Len(SubSeq(t, 1, n)) = n
      /\ \A i \in 1 .. n : SubSeq(t, 1, n)[i] = s[i]
  <2>1. n \in Int /\ 1 \in Int /\ \A i \in 1 .. n : t[i] \in Dumps
      BY <1>1
  <2> HIDE DEF n
  <2>2. /\ SubSeq(t, 1, n) \in Seq(Dumps)
        /\ Len(SubSeq(t, 1, n)) = IF 1 <= n THEN n - 1 + 1 ELSE 0
        /\ \A i \in 1 .. n - 1 + 1 : SubSeq(t, 1, n)[i] = t[1 + i - 1]
      BY <2>1, SubSeqProperties
  <2>3. n - 1 + 1 = n /\ (~(1 <= n) => n = 0) /\ \A i \in 1 .. n : 1 + i - 1 = i
      BY <1>1
  <2> QED BY <1>1, <2>2, <2>3
<1>4. SubSeq(t, 1, n) = s
    BY <1>3, SeqEqual
<1> QED BY <1>2, <1>4 DEF t

(* The chunks of Split are the batch cut into pieces, in its order, and    *)
(* each would be within the limit without its last object.                 *)
LEMMA SplitFits ==
    ASSUME NEW os \in Seq(Dumps), os # <<>>
    PROVE  /\ FlattenSeq(Split(os)) = os
           /\ \A c \in DOMAIN Split(os) : ChunkBytes(Front(Split(os)[c])) <= MaxCmdSize
<1>1. Len(os) \in Nat \ {0} /\ MaxCmdSize \in Nat
    BY EmptySeq, MigrateAssumption
<1>2. PICK c : /\ c[0] = CutStart /\ Cut(os) = c[Len(os)]
               /\ \A i \in 1 .. Len(os) : c[i] = CutNext(c[i - 1], os[i])
    BY <1>1, CutSteps
<1> DEFINE Fits(s) == ChunkBytes(Front(s)) <= MaxCmdSize
           Good(i, p) ==
             /\ p.done \in Seq(Seq(Dumps)) /\ p.open \in Seq(Dumps)
             /\ p.size = ChunkBytes(p.open)
             /\ FlattenSeq(p.done) \o p.open = SubSeq(os, 1, i)
             /\ \A b \in DOMAIN p.done : Fits(p.done[b])
             /\ i > 0 => Fits(p.open)
           S == {i \in Nat : i <= Len(os) => Good(i, c[i])}
<1>3. 0 \in S
  <2> DEFINE p == c[0]
  <2>1. p.size = 0 /\ p.done = <<>> /\ p.open = <<>>
      BY <1>2 DEF CutStart
  <2>2. <<>> \in Seq(Seq(Dumps)) /\ <<>> \in Seq(Dumps) /\ DOMAIN <<>> = {}
      BY EmptySeq
  <2>3. FlattenSeq(<<>>) = <<>> /\ ChunkBytes(<<>>) = 0
      BY FlattenAppend, BytesAppend
  <2>4. <<>> \o <<>> = <<>> /\ SubSeq(os, 1, 0) = <<>>
      BY <2>2, ConcatEmptySeq, SubSeqEmpty
  <2> HIDE DEF p, Fits
  <2>5. FlattenSeq(p.done) \o p.open = SubSeq(os, 1, 0)
      BY <2>1, <2>3, <2>4
  <2>6. Good(0, p)
      BY <2>1, <2>2, <2>3, <2>5
  <2> QED BY <2>6 DEF p
<1>4. ASSUME NEW i \in Nat, i \in S PROVE i + 1 \in S
  <2> HIDE DEF Good
  <2> SUFFICES ASSUME i + 1 <= Len(os) PROVE Good(i + 1, c[i + 1])
      OBVIOUS
  <2> USE DEF Good
  <2> DEFINE p == c[i]  o == os[i + 1]  d == FlattenSeq(p.done)
  <2>1. Good(i, p) /\ i + 1 \in 1 .. Len(os) /\ (i + 1) - 1 = i
    <3>1. i <= Len(os) /\ i + 1 \in 1 .. Len(os) /\ (i + 1) - 1 = i
      <4> HIDE DEF S
      <4> QED BY <1>1
    <3> HIDE DEF Good
    <3> QED BY <1>4, <3>1
  <2>2. c[i + 1] = CutNext(p, o) /\ o \in Dumps
      BY <1>2, <2>1, ElementOfSeq
  <2> HIDE DEF p, o, Fits
  <2>3. Size(o) \in Nat /\ p.size \in Nat /\ d \in Seq(Dumps)
      BY <2>1, <2>2, SizeNat, BytesAppend, FlattenAppend
  <2>4. SubSeq(os, 1, i + 1) = SubSeq(os, 1, i) \o <<o>>
    <3>1. 1 \in 1 .. Len(os) /\ i + 1 \in 1 .. Len(os)
        BY <1>1, <2>1
    <3> QED BY <2>1, <3>1, SubSeqRecursiveSecond DEF o
  <2>5. /\ <<o>> \in Seq(Dumps) /\ Append(<<>>, o) = <<o>> /\ <<>> \in Seq(Dumps)
      BY <2>2
  <2>6. CASE p.size > MaxCmdSize
    <3> DEFINE q == [size |-> Size(o), done |-> Append(p.done, p.open), open |-> <<o>>]
    <3>1. CutNext(p, o) = q
        BY <2>6 DEF CutNext
    <3>2. q.size = Size(o) /\ q.done = Append(p.done, p.open) /\ q.open = <<o>>
        OBVIOUS
    <3> HIDE DEF q
    <3>3. q.size = ChunkBytes(q.open)
      <4>1. ChunkBytes(Append(<<>>, o)) = ChunkBytes(<<>>) + Size(o) /\ ChunkBytes(<<>>) = 0
          BY <2>2, <2>5, BytesAppend
      <4> QED BY <2>3, <2>5, <3>2, <4>1
    <3>4. Fits(q.open)
      <4>1. Front(Append(<<>>, o)) = <<>> /\ ChunkBytes(<<>>) = 0
          BY <2>2, <2>5, FrontFacts, BytesAppend
      <4> QED BY <1>1, <2>5, <3>2, <4>1 DEF Fits
    <3>5. FlattenSeq(q.done) \o q.open = SubSeq(os, 1, i + 1)
      <4>1. FlattenSeq(q.done) = d \o p.open
          BY <2>1, <3>2, FlattenAppend
      <4> HIDE DEF d
      <4>2. d \o p.open = SubSeq(os, 1, i)
          BY <2>1 DEF d
      <4> QED BY <2>4, <3>2, <4>1, <4>2
    <3>6. q.done \in Seq(Seq(Dumps)) /\ \A b \in DOMAIN q.done : Fits(q.done[b])
      <4>1. i > 0
        <5>1. i = 0 => p.size = 0
            BY <1>2 DEF p, CutStart
        <5> QED BY <1>1, <2>6, <5>1
      <4>2. /\ p.done \in Seq(Seq(Dumps)) /\ p.open \in Seq(Dumps) /\ Fits(p.open)
            /\ \A b \in DOMAIN p.done : Fits(p.done[b])
          BY <2>1, <4>1
      <4> DEFINE n == Len(p.done)
      <4>3. /\ n \in Nat /\ DOMAIN q.done = 1 .. n + 1 /\ DOMAIN p.done = 1 .. n
            /\ \A b \in 1 .. n : q.done[b] = p.done[b]
            /\ q.done[n + 1] = p.open /\ q.done \in Seq(Seq(Dumps))
          BY <3>2, <4>2, AppendFacts
      <4> HIDE DEF n
      <4>4. \A b \in 1 .. n + 1 : b \in 1 .. n \/ b = n + 1
          BY <4>3
      <4> QED BY <4>2, <4>3, <4>4
    <3>7. q.open \in Seq(Dumps)
        BY <2>5, <3>2
    <3> QED BY <2>2, <3>1, <3>3, <3>4, <3>5, <3>6, <3>7
  <2>7. CASE ~(p.size > MaxCmdSize)
    <3> DEFINE q == [size |-> p.size + Size(o), done |-> p.done, open |-> Append(p.open, o)]
    <3>1. CutNext(p, o) = q
        BY <2>7 DEF CutNext
    <3>2. q.size = p.size + Size(o) /\ q.done = p.done /\ q.open = Append(p.open, o)
        OBVIOUS
    <3> HIDE DEF q
    <3>3. p.open \in Seq(Dumps) /\ q.open \in Seq(Dumps) /\ q.open = p.open \o <<o>>
      <4>1. p.open \in Seq(Dumps)
          BY <2>1
      <4> QED BY <2>2, <3>2, <4>1, AppendFacts, AppendIsConcat
    <3>4. q.size = ChunkBytes(q.open)
        BY <2>1, <2>2, <3>2, <3>3, BytesAppend
    <3>5. Fits(q.open)
      <4>1. Front(q.open) = p.open
          BY <2>2, <3>2, <3>3, FrontFacts
      <4> QED BY <1>1, <2>1, <2>3, <2>7, <4>1 DEF Fits
    <3>6. FlattenSeq(q.done) \o q.open = SubSeq(os, 1, i + 1)
      <4>1. FlattenSeq(q.done) = d
          BY <3>2
      <4> HIDE DEF d
      <4>2. d \o p.open = SubSeq(os, 1, i)
          BY <2>1 DEF d
      <4>3. (d \o p.open) \o <<o>> = d \o (p.open \o <<o>>)
        <5>1. d \in Seq(Dumps)
            BY <2>3 DEF d
        <5>2. p.open \in Seq(Dumps) /\ <<o>> \in Seq(Dumps)
            BY <2>5, <3>3
        <5>3. Cat(Cat(d, p.open), <<o>>) = Cat(d, Cat(p.open, <<o>>))
            BY <5>1, <5>2, CatAssociative
        <5> QED BY <5>3 DEF Cat
      <4> QED BY <2>4, <3>3, <4>1, <4>2, <4>3
    <3>7. q.done \in Seq(Seq(Dumps)) /\ \A b \in DOMAIN q.done : Fits(q.done[b])
        BY <2>1, <3>2
    <3> QED BY <2>2, <3>1, <3>3, <3>4, <3>5, <3>6, <3>7
  <2> QED BY <2>6, <2>7
<1>5. Len(os) \in S
  <2> HIDE DEF S
  <2> QED BY <1>1, <1>3, <1>4, NatSetInduction
<1> DEFINE p == c[Len(os)]
<1>6. Good(Len(os), p)
  <2> HIDE DEF Good
  <2> QED BY <1>1, <1>5
<1>7. Split(os) = Append(p.done, p.open) /\ SubSeq(os, 1, Len(os)) = os
    BY <1>2, SubSeqFull DEF Split
<1> HIDE DEF p, Fits
<1>8. /\ p.done \in Seq(Seq(Dumps)) /\ p.open \in Seq(Dumps)
      /\ FlattenSeq(p.done) \o p.open = os
      /\ Fits(p.open) /\ \A b \in DOMAIN p.done : Fits(p.done[b])
  <2>1. Cat(FlattenSeq(p.done), p.open) = SubSeq(os, 1, Len(os))
      BY <1>6 DEF Cat
  <2>2. Cat(FlattenSeq(p.done), p.open) = os
      BY <1>7, <2>1
  <2>3. FlattenSeq(p.done) \o p.open = os
      BY <2>2 DEF Cat
  <2>4. Len(os) > 0
      BY <1>1
  <2> QED BY <1>6, <2>3, <2>4, Zenon
<1>9. FlattenSeq(Split(os)) = os
    BY <1>7, <1>8, FlattenAppend
<1>10. \A b \in DOMAIN Split(os) : Fits(Split(os)[b])
  <2> DEFINE n == Len(p.done)
  <2>1. /\ n \in Nat /\ DOMAIN Split(os) = 1 .. n + 1 /\ DOMAIN p.done = 1 .. n
        /\ \A b \in 1 .. n : Split(os)[b] = p.done[b]
        /\ Split(os)[n + 1] = p.open
      BY <1>7, <1>8, AppendFacts
  <2> HIDE DEF n
  <2>2. \A b \in 1 .. n + 1 : b \in 1 .. n \/ b = n + 1
      BY <2>1
  <2> QED BY <1>8, <2>1, <2>2
<1> QED BY <1>9, <1>10 DEF Fits

-----------------------------------------------------------------------------
(* The batch of a command: keys of the slot, at most all of them, and keys *)
(* the source has unless it is one key alone.                              *)
LEMMA SetToSeqFacts ==
    ASSUME NEW S, IsFiniteSet(S)
    PROVE  /\ SetToSeq(S) \in Seq(S) /\ Len(SetToSeq(S)) = Cardinality(S)
           /\ Range(SetToSeq(S)) \subseteq S
           /\ \A i, j \in DOMAIN SetToSeq(S) : SetToSeq(S)[i] = SetToSeq(S)[j] => i = j
<1>1. Cardinality(S) \in Nat /\ ExistsBijection(1 .. Cardinality(S), S)
    BY FS_CardinalityType
<1>2. \E f \in [1 .. Cardinality(S) -> S] : IsInjective(f)
    BY <1>1 DEF ExistsBijection, Bijection, Injection
<1>3. SetToSeq(S) \in [1 .. Cardinality(S) -> S] /\ IsInjective(SetToSeq(S))
    BY <1>2 DEF SetToSeq
<1> DEFINE q == SetToSeq(S)
<1> HIDE DEF q
<1>4. q \in [1 .. Cardinality(S) -> S] /\ IsInjective(q)
    BY <1>3 DEF q
<1>5. q \in Seq(S) /\ Len(q) = Cardinality(S) /\ Range(q) \subseteq S
    BY <1>1, <1>4 DEF Range
<1>6. \A i, j \in DOMAIN q : q[i] = q[j] => i = j
    BY <1>4 DEF IsInjective
<1> QED BY <1>5, <1>6 DEF q

LEMMA IndexedFinite ==
    /\ IsFiniteSet(Indexed) /\ dictSize \in 0 .. Cardinality(Keys)
    /\ Cardinality(Keys) \in Nat
<1>1. IsFiniteSet(Keys) /\ Indexed \in SUBSET Keys
    BY MigrateAssumption DEF Indexed
<1> QED BY <1>1, FS_Subset, FS_CardinalityType DEF dictSize

LEMMA BatchFacts ==
    ASSUME NEW k \in Keys
    PROVE  /\ <<k>> \in Seq(Keys) /\ Len(<<k>>) = 1 /\ 1 <= Cardinality(Keys)
           /\ SameTag(k) \in Seq(Keys) /\ Len(SameTag(k)) <= Cardinality(Keys)
           /\ Range(SameTag(k)) \subseteq Indexed
           /\ \A i, j \in DOMAIN SameTag(k) : SameTag(k)[i] = SameTag(k)[j] => i = j
<1>1. <<k>> \in Seq(Keys) /\ Len(<<k>>) = 1
    OBVIOUS
<1>2. 1 <= Cardinality(Keys)
  <2>1. Cardinality(Keys) # 0 /\ Cardinality(Keys) \in Nat
      BY MigrateAssumption, FS_EmptySet, FS_CardinalityType
  <2> QED BY <2>1
<1> DEFINE S == {j \in Indexed : Tag[j] = Tag[k]}
<1>3. SameTag(k) = SetToSeq(S)
    BY DEF SameTag
<1>4. S \in SUBSET Indexed /\ S \in SUBSET Keys
    BY DEF Indexed
<1> HIDE DEF S
<1>5. IsFiniteSet(S) /\ Cardinality(S) <= Cardinality(Keys)
    BY <1>4, MigrateAssumption, FS_Subset
<1>6. SetToSeq(S) \in Seq(S) /\ Len(SetToSeq(S)) = Cardinality(S)
      /\ Range(SetToSeq(S)) \subseteq S
      /\ \A i, j \in DOMAIN SetToSeq(S) : SetToSeq(S)[i] = SetToSeq(S)[j] => i = j
    BY <1>5, SetToSeqFacts
<1>7. SetToSeq(S) \in Seq(Keys)
    BY <1>4, <1>6
<1> QED BY <1>1, <1>2, <1>3, <1>4, <1>5, <1>6, <1>7

-----------------------------------------------------------------------------
(* Types *)
Entries   == [ver : 0 .. MaxVersion, exp : Nat] \cup {Absent}
Locations == {"idle", "size", "walk", "dump", "connect", "send", "del", "reply"}
Picking   == {"idle", "size", "walk"}
Statuses  == {"todo", "sent", "ok", "err"}
Requests  == [mover : Movers, chunk : Nat, objs : Seq(Dumps), next : Nat \ {0},
              failed : BOOLEAN, each : BOOLEAN, waiting : BOOLEAN]

DataTypes ==
    /\ src \in [Keys -> Entries] /\ dst \in [Keys -> Entries]
    /\ truth \in [Keys -> Entries]
    /\ now \in 0 .. MaxClock /\ version \in 0 .. MaxVersion
    /\ faults \in 0 .. MaxFaults /\ down \in BOOLEAN

MoverTypes ==
    /\ pc \in [Movers -> Locations] /\ cmd \in [Movers -> AllCmds]
    /\ mode \in [Movers -> {"batch", "pool", "pipeline"}]
    /\ keys \in [Movers -> Seq(Keys)]
    /\ objs \in [Movers -> Seq(Dumps)]
    /\ chunks \in [Movers -> Seq(Seq(Dumps))]
    /\ status = [m \in Movers |-> status[m]]
    /\ \A m \in Movers : status[m] \in [DOMAIN chunks[m] -> Statuses]
    /\ unlinked \in [Movers -> Nat]
    /\ reply \in [Movers -> [ret : -1 .. Cardinality(Keys), left : 0 .. Cardinality(Keys)]]

(* How far a mover has come: what it has gathered at each location.        *)
Progress ==
    \A m \in Movers :
        /\ Len(objs[m]) <= Len(keys[m]) /\ Len(keys[m]) <= Cardinality(Keys)
        /\ unlinked[m] <= Len(keys[m])
        /\ pc[m] = "idle" => keys[m] = <<>>
        /\ pc[m] \in Picking => objs[m] = <<>>
        /\ pc[m] \in {"size", "walk"} => Len(keys[m]) = 1
        /\ pc[m] # "idle" /\ pc[m] # "reply" => keys[m] # <<>>
        /\ pc[m] \in Picking \cup {"dump"} => chunks[m] = <<>>
        /\ pc[m] \in Picking \cup {"dump", "connect", "send"} =>
              unlinked[m] = 0 /\ reply[m].ret = 0
        /\ pc[m] = "del" => reply[m].ret \in 0 .. unlinked[m]
        /\ pc[m] \in {"connect", "send", "del"} => Len(objs[m]) = Len(keys[m])

TypeInv == DataTypes /\ MoverTypes /\ Progress /\ reqs \subseteq Requests

LEMMA EntryFacts ==
    /\ Absent \in Entries
    /\ \A e \in Entries : e # Absent => e.ver \in 0 .. MaxVersion /\ e.exp \in Nat
    /\ \A v \in 0 .. MaxVersion, x \in Nat : Entry(v, x) \in Entries /\ Entry(v, x) # Absent
    /\ \A v, x : Entry(v, x).ver = v /\ Entry(v, x).exp = x
<1>1. 0 .. MaxVersion \subseteq Nat
    BY MigrateAssumption
<1>2. \A v \in 0 .. MaxVersion, x \in Nat : Entry(v, x) # Absent
  <2> SUFFICES ASSUME NEW v \in 0 .. MaxVersion, NEW x \in Nat PROVE Entry(v, x) # Absent
      OBVIOUS
  <2>1. Entry(v, x) \in [ver : Nat, exp : Nat]
      BY <1>1 DEF Entry
  <2> QED BY <2>1, MigrateAssumption
<1>3. \A v \in 0 .. MaxVersion, x \in Nat : Entry(v, x) \in Entries
    BY DEF Entry, Entries
<1>4. \A e \in Entries : e # Absent => e.ver \in 0 .. MaxVersion /\ e.exp \in Nat
    BY DEF Entries
<1>5. \A v, x : Entry(v, x).ver = v /\ Entry(v, x).exp = x
    BY DEF Entry
<1>6. Absent \in Entries
    BY DEF Entries
<1> QED BY <1>2, <1>3, <1>4, <1>5, <1>6

(* Clients, the destination and Forget change no mover.                    *)
LEMMA ClientTypes ==
    ASSUME TypeInv, Client
    PROVE  TypeInv' /\ UNCHANGED <<mover, reqs, faults, down>>
<1> USE DEF TypeInv, DataTypes
<1>1. UNCHANGED <<mover, reqs, faults, down>>
    BY DEF Client, SrcWrite, DstWrite, SrcDelete, SrcExpire, Tick
<1>2. MoverTypes' /\ Progress' /\ reqs' \subseteq Requests
    BY <1>1 DEF mover, MoverTypes, Progress
<1>3. /\ version \in Nat /\ now \in Nat /\ MaxVersion \in Nat /\ MaxClock \in Nat
      /\ TTLs \subseteq Nat
    BY MigrateAssumption
<1>4. \A t \in TTLs : Expiry(t) \in Nat
    BY <1>3 DEF Expiry, NoExp
<1>5. DataTypes'
  <2>1. ASSUME NEW k \in Keys, NEW t \in TTLs, SrcWrite(k, t) \/ DstWrite(k, t)
        PROVE  DataTypes'
    <3>1. version + 1 \in 0 .. MaxVersion /\ version' = version + 1
        BY <1>3, <2>1 DEF SrcWrite, DstWrite
    <3>2. Entry(version + 1, Expiry(t)) \in Entries
        BY <1>4, <3>1, EntryFacts
    <3>3. CASE SrcWrite(k, t)
      <4>1. /\ src' = [src EXCEPT ![k] = Entry(version + 1, Expiry(t))]
            /\ truth' = [truth EXCEPT ![k] = src'[k]]
            /\ UNCHANGED <<dst, now, faults, down>>
          BY <3>3 DEF SrcWrite
      <4>2. src' \in [Keys -> Entries] /\ src'[k] \in Entries
          BY <3>2, <4>1
      <4> QED BY <3>1, <4>1, <4>2
    <3>4. CASE DstWrite(k, t)
      <4>1. /\ dst' = [dst EXCEPT ![k] = Entry(version + 1, Expiry(t))]
            /\ truth' = [truth EXCEPT ![k] = dst'[k]]
            /\ UNCHANGED <<src, now, faults, down>>
          BY <3>4 DEF DstWrite
      <4>2. dst' \in [Keys -> Entries] /\ dst'[k] \in Entries
          BY <3>2, <4>1
      <4> QED BY <3>1, <4>1, <4>2
    <3> QED BY <2>1, <3>3, <3>4
  <2>2. ASSUME NEW k \in Keys, SrcDelete(k) \/ SrcExpire(k) PROVE DataTypes'
      BY <2>2, EntryFacts DEF SrcDelete, SrcExpire
  <2>3. ASSUME Tick PROVE DataTypes'
      BY <1>3, <2>3 DEF Tick, data
  <2> QED BY <2>1, <2>2, <2>3 DEF Client
<1> QED BY <1>1, <1>2, <1>5

LEMMA FaultTypes ==
    ASSUME faults \in 0 .. MaxFaults, NEW f, Fault(f)
    PROVE  faults' \in 0 .. MaxFaults
BY MigrateAssumption DEF Fault

LEMMA DumpFacts ==
    /\ Hole \in Dumps
    /\ \A o \in Dumps : o # Hole => /\ o.key \in Keys /\ o.ver \in 0 .. MaxVersion
                                    /\ o.ttl \in Nat \cup {-3, -2, -1}
    /\ \A k \in Keys, v \in 0 .. MaxVersion, t \in Nat \cup {-3, -2, -1} :
          [key |-> k, ver |-> v, ttl |-> t] \in Dumps /\ [key |-> k, ver |-> v, ttl |-> t] # Hole
<1>1. 0 .. MaxVersion \subseteq Nat /\ Nat \cup {-3, -2, -1} \subseteq Int
    BY MigrateAssumption
<1>2. ASSUME NEW k \in Keys, NEW v \in 0 .. MaxVersion, NEW t \in Nat \cup {-3, -2, -1}
      PROVE  [key |-> k, ver |-> v, ttl |-> t] \in Dumps
               /\ [key |-> k, ver |-> v, ttl |-> t] # Hole
  <2>1. [key |-> k, ver |-> v, ttl |-> t] \in [key : Keys, ver : Nat, ttl : Int]
      BY <1>1
  <2>2. [key |-> k, ver |-> v, ttl |-> t] \in Dumps
      BY DEF Dumps
  <2> QED BY <2>1, <2>2, MigrateAssumption
<1>3. Hole \in Dumps
    BY DEF Dumps
<1>4. \A o \in Dumps : o # Hole => /\ o.key \in Keys /\ o.ver \in 0 .. MaxVersion
                                   /\ o.ttl \in Nat \cup {-3, -2, -1}
    BY DEF Dumps
<1> QED BY <1>2, <1>3, <1>4

(* Restoring an object, and a request that nobody waits for.               *)
LEMMA DestinationTypes ==
    ASSUME TypeInv, Destination
    PROVE  TypeInv' /\ UNCHANGED <<src, truth, version, now, down, mover>>
<1> USE DEF TypeInv, DataTypes
<1>1. UNCHANGED <<src, truth, version, now, down, mover>>
    BY DEF Destination, restoreOneWithReplace, Forget, data
<1>2. MoverTypes' /\ Progress'
    BY <1>1 DEF mover, MoverTypes, Progress
<1>3. PICK r \in reqs : restoreOneWithReplace(r) \/ Forget(r)
    BY DEF Destination
<1>4. r \in Requests
    BY <1>3
<1>5. CASE Forget(r)
    BY <1>1, <1>2, <1>5 DEF Forget, data
<1>6. CASE restoreOneWithReplace(r)
  <2> DEFINE o == r.objs[r.next]
             stop == IF r.each THEN r.next + 1 ELSE Len(r.objs) + 1
  <2>1. r.next \in Nat \ {0} /\ r.objs \in Seq(Dumps) /\ Len(r.objs) \in Nat
        /\ stop \in Nat \ {0} /\ r.next + 1 \in Nat \ {0}
      BY <1>4 DEF Requests
  <2>2. /\ [r EXCEPT !.next = @ + 1] \in Requests
        /\ [r EXCEPT !.next = stop, !.failed = TRUE] \in Requests
    <3> HIDE DEF stop
    <3> QED BY <1>4, <2>1 DEF Requests
  <2>3. reqs' \subseteq Requests
      BY <1>6, <2>2 DEF restoreOneWithReplace, stop
  <2>4. faults' \in 0 .. MaxFaults
      BY <1>6, FaultTypes DEF restoreOneWithReplace
  <2>5. dst' \in [Keys -> Entries]
    <3>1. CASE dst' = dst
        BY <3>1
    <3>2. CASE o # Hole /\ dst' = [dst EXCEPT ![o.key] = Entry(o.ver, RestoredExp(o.ttl))]
      <4>0. o \in Dumps
        <5>1. r.next \in 1 .. Len(r.objs)
            BY <1>6, <2>1 DEF restoreOneWithReplace, Complete
        <5> QED BY <2>1, <5>1, ElementOfSeq
      <4>1. o.ver \in 0 .. MaxVersion /\ o.ttl \in Int /\ now \in Nat
          BY <3>2, <4>0, DumpFacts, MigrateAssumption
      <4>2. RestoredExp(o.ttl) \in Nat
          BY <4>1 DEF RestoredExp, NoExp
      <4>3. Entry(o.ver, RestoredExp(o.ttl)) \in Entries
          BY <4>1, <4>2, EntryFacts
      <4> QED BY <3>2, <4>3
    <3> QED BY <1>6, <3>1, <3>2 DEF restoreOneWithReplace
  <2> QED BY <1>1, <1>2, <2>3, <2>4, <2>5
<1> QED BY <1>1, <1>3, <1>5, <1>6

(* The answer of a command that ends.                                      *)
LEMMA FinishTypes ==
    ASSUME TypeInv, NEW m \in Movers, NEW ret \in -1 .. Cardinality(Keys), Finish(m, ret)
    PROVE  /\ pc' \in [Movers -> Locations] /\ pc' = [pc EXCEPT ![m] = "reply"]
           /\ reply' \in [Movers -> [ret : -1 .. Cardinality(Keys),
                                     left : 0 .. Cardinality(Keys)]]
           /\ reply'[m].ret = ret /\ reply'[m].left = Left(m)
           /\ \A i \in Movers \ {m} : reply'[i] = reply[i]
<1>1. Left(m) \in 0 .. Cardinality(Keys)
    BY IndexedFinite DEF Left
<1>2. /\ pc' = [pc EXCEPT ![m] = "reply"]
      /\ reply' = [reply EXCEPT ![m] = [ret |-> ret, left |-> Left(m)]]
    BY DEF Finish, Goto
<1>3. pc \in [Movers -> Locations]
      /\ reply \in [Movers -> [ret : -1 .. Cardinality(Keys), left : 0 .. Cardinality(Keys)]]
    BY DEF TypeInv, MoverTypes
<1> HIDE DEF Left
<1> QED BY <1>1, <1>2, <1>3 DEF Locations

(* How a command begins: with no key, with one, or with one whose tag is   *)
(* collected next.                                                         *)
Begins(m) ==
    \E c \in AllCmds, batch \in Seq(Keys), l \in {"reply", "dump", "size"} :
        /\ Begin(m, c, batch, l) /\ CanStart(m, c)
        /\ Len(batch) <= Cardinality(Keys) /\ Len(batch) <= 1
        /\ l # "reply" => Len(batch) = 1
        /\ l = "reply" => batch = <<>>
        /\ l = "size" => c \in {"tagone", "tagslot"}

LEMMA StartBegins ==
    ASSUME NEW m \in Movers, Start(m)
    PROVE  Begins(m)
<1>1. ASSUME NEW c \in AllCmds, CanStart(m, c), Begin(m, c, <<>>, "reply")
      PROVE  Begins(m)
  <2> DEFINE batch == <<>>
  <2>1. batch \in Seq(Keys) /\ Len(batch) = 0 /\ 0 <= Cardinality(Keys) /\ batch = <<>>
        /\ Begin(m, c, batch, "reply")
      BY <1>1, IndexedFinite
  <2>2. "reply" \in {"reply", "dump", "size"} /\ "reply" # "size"
        /\ Len(batch) <= Cardinality(Keys) /\ Len(batch) <= 1
      BY <2>1
  <2>3. CanStart(m, c)
      BY <1>1
  <2> HIDE DEF batch
  <2>4. \E b \in Seq(Keys), l \in {"reply", "dump", "size"} :
          /\ Begin(m, c, b, l)
          /\ Len(b) <= Cardinality(Keys) /\ Len(b) <= 1
          /\ l = "reply" /\ b = <<>>
      BY <2>1, <2>2
  <2> QED BY <2>3, <2>4 DEF Begins
<1>2. ASSUME NEW c \in AllCmds, NEW k \in Keys, NEW l \in {"dump", "size"},
             CanStart(m, c), Begin(m, c, <<k>>, l), l = "size" => c \in {"tagone", "tagslot"}
      PROVE  Begins(m)
  <2>1. <<k>> \in Seq(Keys) /\ Len(<<k>>) = 1
      OBVIOUS
  <2>2. Len(<<k>>) <= Cardinality(Keys)
      BY BatchFacts
  <2> DEFINE batch == <<k>>
  <2>3. batch \in Seq(Keys) /\ Len(batch) = 1 /\ Len(batch) <= Cardinality(Keys)
        /\ Begin(m, c, batch, l)
      BY <1>2, <2>1, <2>2
  <2> HIDE DEF batch
  <2>4. l # "reply" /\ l \in {"reply", "dump", "size"} /\ Len(batch) <= 1
      BY <2>3
  <2> QED BY <1>2, <2>3, <2>4 DEF Begins
<1>3. Indexed \subseteq Keys
    BY DEF Indexed
<1>4. \A k : ByTag(k) \in {"dump", "size"}
    BY DEF ByTag
<1>5. ASSUME NEW k \in Keys, SlotsMGRT_OneKey(m, k) PROVE Begins(m)
  <2> "one" \in AllCmds /\ "dump" \in {"dump", "size"} /\ "dump" # "size"
      BY DEF AllCmds
  <2> QED BY <1>2, <1>5 DEF SlotsMGRT_OneKey
<1>6. ASSUME NEW k \in Keys, SlotsMGRT_TagKeys(m, k) PROVE Begins(m)
  <2> "tagone" \in AllCmds
      BY DEF AllCmds
  <2> QED BY <1>2, <1>4, <1>6 DEF SlotsMGRT_TagKeys
<1>7. ASSUME SlotsMGRT_SlotOneKey(m) PROVE Begins(m)
  <2> "slot" \in AllCmds /\ "dump" \in {"dump", "size"} /\ "dump" # "size"
      BY DEF AllCmds
  <2>1. CanStart(m, "slot")
      BY <1>7 DEF SlotsMGRT_SlotOneKey
  <2>2. CASE Begin(m, "slot", <<>>, "reply")
      BY <1>1, <2>1, <2>2
  <2>3. CASE \E k \in Indexed : Begin(m, "slot", <<k>>, "dump")
    <3>1. PICK k \in Indexed : Begin(m, "slot", <<k>>, "dump")
        BY <2>3
    <3> QED BY <1>2, <1>3, <2>1, <3>1
  <2> QED BY <1>7, <2>2, <2>3 DEF SlotsMGRT_SlotOneKey
<1>8. ASSUME SlotsMGRT_TagSlotKeys(m) PROVE Begins(m)
  <2> "tagslot" \in AllCmds
      BY DEF AllCmds
  <2>1. CanStart(m, "tagslot")
      BY <1>8 DEF SlotsMGRT_TagSlotKeys
  <2>2. CASE Begin(m, "tagslot", <<>>, "reply")
      BY <1>1, <2>1, <2>2
  <2>3. CASE \E k \in Indexed : Begin(m, "tagslot", <<k>>, ByTag(k))
    <3>1. PICK k \in Indexed : Begin(m, "tagslot", <<k>>, ByTag(k))
        BY <2>3
    <3> QED BY <1>2, <1>3, <1>4, <2>1, <3>1
  <2> QED BY <1>8, <2>2, <2>3 DEF SlotsMGRT_TagSlotKeys
<1> QED BY <1>5, <1>6, <1>7, <1>8 DEF Start

LEMMA StartTypes ==
    ASSUME TypeInv, NEW m \in Movers, Start(m)
    PROVE  TypeInv'
<1>1. PICK c \in AllCmds, batch \in Seq(Keys), l \in {"reply", "dump", "size"} :
        /\ Begin(m, c, batch, l) /\ CanStart(m, c)
        /\ Len(batch) <= Cardinality(Keys) /\ Len(batch) <= 1
        /\ l # "reply" => Len(batch) = 1
        /\ l = "reply" => batch = <<>>
    BY StartBegins DEF Begins
<1>2. PICK t \in mgrtTypes : mode' = [mode EXCEPT ![m] = SendMode(t)]
    BY <1>1 DEF Begin
<1>3. SendMode(t) \in {"batch", "pool", "pipeline"}
    BY MigrateAssumption DEF SendMode
<1>4. /\ pc' = [pc EXCEPT ![m] = l]
      /\ cmd' = [cmd EXCEPT ![m] = c] /\ keys' = [keys EXCEPT ![m] = batch]
      /\ UNCHANGED <<data, now, faults, down, objs, chunks, status, unlinked, reply, reqs>>
      /\ pc[m] = "idle"
    BY <1>1 DEF Begin, CanStart
<1>5. DataTypes' /\ reqs' \subseteq Requests
    BY <1>4 DEF TypeInv, DataTypes, data
<1>6. MoverTypes'
    BY <1>2, <1>3, <1>4 DEF TypeInv, MoverTypes, Locations
<1>7. Progress'
  <2>1. objs[m] = <<>> /\ Len(<<>>) = 0 /\ Len(batch) \in Nat /\ unlinked[m] = 0
        /\ chunks[m] = <<>> /\ reply[m].ret = 0
      BY <1>4 DEF TypeInv, Progress, Picking
  <2>2. /\ keys'[m] = batch /\ pc'[m] = l
        /\ \A n \in Movers \ {m} : keys'[n] = keys[n] /\ pc'[n] = pc[n]
      BY <1>4 DEF TypeInv, MoverTypes
  <2>3. l # "reply" => batch # <<>>
    <3>1. l # "reply" => Len(batch) = 1
        BY <1>1
    <3>2. Len(batch) = 1 => Len(batch) # 0
        OBVIOUS
    <3> QED BY <3>1, <3>2, EmptySeq
  <2>4. l # "idle" /\ l \notin {"walk", "connect", "send", "del"}
      OBVIOUS
  <2> SUFFICES ASSUME NEW n \in Movers
               PROVE  /\ Len(objs[n]) <= Len(keys'[n]) /\ Len(keys'[n]) <= Cardinality(Keys)
                      /\ unlinked[n] <= Len(keys'[n])
                      /\ pc'[n] = "idle" => keys'[n] = <<>>
                      /\ pc'[n] \in Picking => objs[n] = <<>>
                      /\ pc'[n] \in {"size", "walk"} => Len(keys'[n]) = 1
                      /\ pc'[n] # "idle" /\ pc'[n] # "reply" => keys'[n] # <<>>
                      /\ pc'[n] \in Picking \cup {"dump"} => chunks[n] = <<>>
                      /\ pc'[n] \in Picking \cup {"dump", "connect", "send"} =>
                            unlinked[n] = 0 /\ reply[n].ret = 0
                      /\ pc'[n] = "del" => reply[n].ret \in 0 .. unlinked[n]
                      /\ pc'[n] \in {"connect", "send", "del"} => Len(objs[n]) = Len(keys'[n])
      BY <1>4 DEF Progress
  <2>5. CASE n = m
      BY <1>1, <2>1, <2>2, <2>3, <2>4, <2>5 DEF Picking
  <2>6. CASE n # m
      BY <2>2, <2>6 DEF TypeInv, Progress
  <2> QED BY <2>5, <2>6
<1> QED BY <1>5, <1>6, <1>7 DEF TypeInv

(* The two lock sections in which a batch is collected.                    *)
LEMMA TagTypes ==
    ASSUME TypeInv, NEW m \in Movers, TagSize(m) \/ TagWalk(m)
    PROVE  TypeInv'
<1>1. /\ pc[m] \in {"size", "walk"} /\ keys[m] \in Seq(Keys) /\ Len(keys[m]) = 1
      /\ objs[m] = <<>> /\ Len(<<>>) = 0
    BY DEF TagSize, TagWalk, TypeInv, MoverTypes, Progress, Picking
<1>2. keys[m][1] \in Keys
    BY <1>1
<1> DEFINE batch == SameTag(keys[m][1])
<1>3. batch \in Seq(Keys) /\ Len(batch) \in Nat /\ Len(batch) <= Cardinality(Keys)
    BY <1>2, BatchFacts
<1> HIDE DEF batch
<1>4. UNCHANGED <<data, now, faults, down, cmd, mode, objs, chunks, status, unlinked,
                  reply, reqs>>
    BY DEF TagSize, TagWalk
<1>5. PICK l \in Locations :
        /\ pc' = [pc EXCEPT ![m] = l]
        /\ \/ l \in {"reply", "walk"} /\ keys' = keys
           \/ /\ keys' = [keys EXCEPT ![m] = batch]
              /\ l = "reply" \/ (l = "dump" /\ batch # <<>>)
    BY DEF TagSize, TagWalk, batch, Locations
<1>6. /\ pc' \in [Movers -> Locations] /\ pc'[m] = l
      /\ keys' \in [Movers -> Seq(Keys)]
      /\ \A n \in Movers \ {m} : keys'[n] = keys[n] /\ pc'[n] = pc[n]
      /\ keys'[m] = keys[m] \/ keys'[m] = batch
    BY <1>3, <1>5 DEF TypeInv, MoverTypes
<1>7. DataTypes' /\ MoverTypes' /\ reqs' \subseteq Requests
    BY <1>4, <1>6 DEF TypeInv, DataTypes, MoverTypes, data
<1>8. Progress'
  <2>1. /\ chunks[m] = <<>> /\ unlinked[m] = 0 /\ reply[m].ret = 0 /\ keys[m] # <<>>
        /\ Len(keys[m]) <= Cardinality(Keys)
      BY <1>1 DEF TypeInv, Progress, Picking
  <2>2. /\ pc'[m] \in {"reply", "walk", "dump"}
        /\ pc'[m] = "walk" => keys'[m] = keys[m]
        /\ pc'[m] = "dump" => keys'[m] # <<>>
      BY <1>5, <1>6 DEF TypeInv, MoverTypes
  <2> SUFFICES ASSUME NEW n \in Movers
               PROVE  /\ Len(objs[n]) <= Len(keys'[n]) /\ Len(keys'[n]) <= Cardinality(Keys)
                      /\ unlinked[n] <= Len(keys'[n])
                      /\ pc'[n] = "idle" => keys'[n] = <<>>
                      /\ pc'[n] \in Picking => objs[n] = <<>>
                      /\ pc'[n] \in {"size", "walk"} => Len(keys'[n]) = 1
                      /\ pc'[n] # "idle" /\ pc'[n] # "reply" => keys'[n] # <<>>
                      /\ pc'[n] \in Picking \cup {"dump"} => chunks[n] = <<>>
                      /\ pc'[n] \in Picking \cup {"dump", "connect", "send"} =>
                            unlinked[n] = 0 /\ reply[n].ret = 0
                      /\ pc'[n] = "del" => reply[n].ret \in 0 .. unlinked[n]
                      /\ pc'[n] \in {"connect", "send", "del"} => Len(objs[n]) = Len(keys'[n])
      BY <1>4 DEF Progress
  <2>3. CASE n = m
    <3>1. Len(keys'[m]) \in Nat /\ Len(keys'[m]) <= Cardinality(Keys)
      <4>1. CASE keys'[m] = keys[m]
        <5>1. Len(keys[m]) = 1 /\ Len(keys[m]) <= Cardinality(Keys)
            BY <1>1, <2>1
        <5> QED BY <4>1, <5>1
      <4>2. CASE keys'[m] = batch
          BY <1>3, <4>2
      <4> QED BY <1>6, <4>1, <4>2
    <3>2. Len(objs[m]) <= Len(keys'[m]) /\ unlinked[m] <= Len(keys'[m])
        BY <1>1, <2>1, <3>1
    <3>3. pc'[m] \in {"size", "walk"} => Len(keys'[m]) = 1
        BY <1>1, <2>2
    <3>4. pc'[m] # "idle" /\ pc'[m] # "reply" => keys'[m] # <<>>
        BY <2>1, <2>2
    <3> QED BY <1>1, <2>1, <2>2, <2>3, <3>1, <3>2, <3>3, <3>4 DEF Picking
  <2>4. CASE n # m
      BY <1>6, <2>4 DEF TypeInv, Progress
  <2> QED BY <2>3, <2>4
<1> QED BY <1>7, <1>8 DEF TypeInv

LEMMA DumpTypes ==
    ASSUME TypeInv, NEW m \in Movers, Dump(m)
    PROVE  TypeInv'
<1> DEFINE n == Len(objs[m])  k == keys[m][n + 1]
           o == IF Live(src[k]) THEN Dumped(k, src[k].ver) ELSE Hole
<1>1. /\ keys[m] \in Seq(Keys) /\ objs[m] \in Seq(Dumps) /\ n \in Nat
      /\ n < Len(keys[m]) /\ pc[m] = "dump"
    BY DEF TypeInv, MoverTypes, Dump
<1>2. k \in Keys /\ src[k] \in Entries
  <2>1. n + 1 \in 1 .. Len(keys[m])
      BY <1>1
  <2> QED BY <1>1, <2>1, ElementOfSeq DEF TypeInv, DataTypes
<1>3. o \in Dumps
    BY <1>2, EntryFacts, DumpFacts DEF Live, Dumped, Unset
<1>4. UNCHANGED <<dst, truth, version, now, down, cmd, mode, keys, chunks,
                  status, unlinked, reqs>>
    BY DEF Dump
<1> HIDE DEF n
<1>5. CASE /\ objs' = [objs EXCEPT ![m] = Append(@, o)]
           /\ src' = [src EXCEPT ![k] = IF Live(src[k]) THEN @ ELSE Absent]
           /\ UNCHANGED <<faults, pc, reply>>
  <2> HIDE DEF o, k
  <2>1. src' \in [Keys -> Entries]
      BY <1>2, <1>5, EntryFacts DEF TypeInv, DataTypes
  <2>2. Append(objs[m], o) \in Seq(Dumps) /\ Len(Append(objs[m], o)) = n + 1
      BY <1>1, <1>3, AppendFacts DEF n
  <2>3. /\ objs' \in [Movers -> Seq(Dumps)] /\ Len(objs'[m]) = n + 1
        /\ \A i \in Movers \ {m} : objs'[i] = objs[i]
      BY <1>5, <2>2 DEF TypeInv, MoverTypes
  <2>4. DataTypes' /\ MoverTypes' /\ reqs' \subseteq Requests
      BY <1>4, <1>5, <2>1, <2>3 DEF TypeInv, DataTypes, MoverTypes
  <2>5. Progress'
      BY <1>1, <1>4, <1>5, <2>3 DEF TypeInv, Progress, Picking
  <2> QED BY <2>4, <2>5 DEF TypeInv
<1>7. CASE /\ Fault("dump_null") /\ objs' = [objs EXCEPT ![m] = Append(@, Hole)]
           /\ UNCHANGED <<src, pc, reply>>
  <2>1. faults' \in 0 .. MaxFaults
      BY <1>7, FaultTypes DEF TypeInv, DataTypes
  <2>2. Append(objs[m], Hole) \in Seq(Dumps) /\ Len(Append(objs[m], Hole)) = n + 1
      BY <1>1, AppendFacts, DumpFacts DEF n
  <2>3. /\ objs' \in [Movers -> Seq(Dumps)] /\ Len(objs'[m]) = n + 1
        /\ \A i \in Movers \ {m} : objs'[i] = objs[i]
      BY <1>7, <2>2 DEF TypeInv, MoverTypes
  <2>4. DataTypes' /\ MoverTypes' /\ reqs' \subseteq Requests
      BY <1>4, <1>7, <2>1, <2>3 DEF TypeInv, DataTypes, MoverTypes
  <2>5. Progress'
      BY <1>1, <1>4, <1>7, <2>3 DEF TypeInv, Progress, Picking
  <2> QED BY <2>4, <2>5 DEF TypeInv
<1>6. CASE Fault("dump_err") /\ Finish(m, SLOTS_MGRT_ERR) /\ UNCHANGED <<objs, src>>
  <2>1. SLOTS_MGRT_ERR \in -1 .. Cardinality(Keys)
      BY IndexedFinite DEF SLOTS_MGRT_ERR
  <2>2. /\ pc' \in [Movers -> Locations] /\ pc' = [pc EXCEPT ![m] = "reply"]
        /\ reply' \in [Movers -> [ret : -1 .. Cardinality(Keys), left : 0 .. Cardinality(Keys)]]
        /\ \A i \in Movers \ {m} : reply'[i] = reply[i]
      BY <1>6, <2>1, FinishTypes
  <2>3. faults' \in 0 .. MaxFaults
      BY <1>6, FaultTypes DEF TypeInv, DataTypes
  <2>4. DataTypes' /\ MoverTypes' /\ reqs' \subseteq Requests
      BY <1>4, <1>6, <2>2, <2>3 DEF TypeInv, DataTypes, MoverTypes
  <2>5. pc'[m] = "reply" /\ \A i \in Movers \ {m} : pc'[i] = pc[i]
      BY <2>2 DEF TypeInv, MoverTypes
  <2>6. Progress'
      BY <1>4, <1>6, <2>2, <2>5 DEF TypeInv, Progress, Picking
  <2> QED BY <2>4, <2>6 DEF TypeInv
<1> QED BY <1>5, <1>6, <1>7 DEF Dump, n

LEMMA PttlTypes ==
    ASSUME TypeInv, NEW m \in Movers, Pttl(m)
    PROVE  /\ TypeInv'
           /\ \E x \in Dumps :
                LET n == Len(objs[m]) IN
                  /\ objs' = [objs EXCEPT ![m] = [@ EXCEPT ![n] = x]]
                  /\ \/ x = Hole /\ src' = src
                     \/ \E tv \in Nat \cup {-2, -1} : x = [objs[m][n] EXCEPT !.ttl = tv]
<1> DEFINE n == Len(objs[m])  o == objs[m][n]  e == src[o.key]
           tv == CASE ~Live(e) -> -2 [] Live(e) /\ e.exp = NoExp -> -1
                   [] OTHER -> e.exp - now
<1>1. /\ objs[m] \in Seq(Dumps) /\ n \in 1 .. Len(objs[m]) /\ o # Hole /\ pc[m] = "dump"
    BY DEF TypeInv, MoverTypes, Pttl
<1>2. o \in Dumps
    BY <1>1, ElementOfSeq
<1>3. o.key \in Keys /\ e \in Entries /\ now \in Nat
    BY <1>1, <1>2, DumpFacts, MigrateAssumption DEF TypeInv, DataTypes
<1>4. tv \in Nat \cup {-2, -1}
  <2>1. CASE ~Live(e)
      BY <2>1
  <2>2. CASE Live(e)
    <3>1. e.exp \in Nat /\ (e.exp = NoExp \/ now <= e.exp)
        BY <1>3, <2>2, EntryFacts DEF Live
    <3>2. CASE e.exp = NoExp
        BY <2>2, <3>2
    <3>3. CASE e.exp # NoExp
      <4>1. e.exp - now \in Nat /\ tv = e.exp - now
          BY <1>3, <2>2, <3>1, <3>3
      <4> QED BY <4>1
    <3> QED BY <3>2, <3>3
  <2> QED BY <2>1, <2>2
<1> HIDE DEF tv
<1>5. [o EXCEPT !.ttl = tv] \in Dumps
  <2>1. o \in [key : Keys, ver : 0 .. MaxVersion, ttl : Nat \cup {-3, -2, -1}]
      BY <1>1, <1>2 DEF Dumps
  <2> QED BY <1>4, <2>1 DEF Dumps
<1>6. UNCHANGED <<dst, truth, version, now, down, pc, cmd, mode, keys, chunks, status,
                  unlinked, reply, reqs>>
    BY DEF Pttl
<1>7. ASSUME NEW x \in Dumps, src' \in [Keys -> Entries], faults' \in 0 .. MaxFaults,
             objs' = [objs EXCEPT ![m] = [objs[m] EXCEPT ![n] = x]]
      PROVE  TypeInv'
  <2>1. /\ [objs[m] EXCEPT ![n] = x] \in Seq(Dumps)
        /\ Len([objs[m] EXCEPT ![n] = x]) = Len(objs[m])
      BY <1>1, <1>7, ExceptSeq
  <2>2. /\ objs' \in [Movers -> Seq(Dumps)] /\ Len(objs'[m]) = Len(objs[m])
        /\ \A i \in Movers \ {m} : objs'[i] = objs[i]
      BY <1>7, <2>1 DEF TypeInv, MoverTypes
  <2>3. objs'[m] # <<>> /\ objs[m] # <<>>
      BY <1>1, <2>2
  <2>4. DataTypes' /\ MoverTypes' /\ reqs' \subseteq Requests
      BY <1>6, <1>7, <2>2 DEF TypeInv, DataTypes, MoverTypes
  <2>5. Progress'
      BY <1>1, <1>6, <2>2, <2>3 DEF TypeInv, Progress, Picking
  <2> QED BY <2>4, <2>5 DEF TypeInv
<1>8. CASE /\ objs' = [objs EXCEPT ![m] = [objs[m] EXCEPT ![n] = [o EXCEPT !.ttl = tv]]]
           /\ src' = [src EXCEPT ![o.key] = IF Live(e) THEN @ ELSE Absent]
           /\ UNCHANGED faults
  <2>1. src' \in [Keys -> Entries] /\ faults' \in 0 .. MaxFaults
      BY <1>3, <1>8, EntryFacts DEF TypeInv, DataTypes
  <2> QED BY <1>4, <1>5, <1>7, <1>8, <2>1
<1>9. CASE /\ Fault("pttl_null") /\ UNCHANGED src
           /\ objs' = [objs EXCEPT ![m] = [objs[m] EXCEPT ![n] = Hole]]
  <2>1. src' \in [Keys -> Entries] /\ faults' \in 0 .. MaxFaults
      BY <1>9, FaultTypes DEF TypeInv, DataTypes
  <2> QED BY <1>7, <1>9, <2>1, DumpFacts
<1>10. \/ /\ objs' = [objs EXCEPT ![m] = [objs[m] EXCEPT ![n] = [o EXCEPT !.ttl = tv]]]
          /\ src' = [src EXCEPT ![o.key] = IF Live(e) THEN @ ELSE Absent]
          /\ UNCHANGED faults
       \/ /\ Fault("pttl_null") /\ UNCHANGED src
          /\ objs' = [objs EXCEPT ![m] = [objs[m] EXCEPT ![n] = Hole]]
    BY DEF Pttl, tv
<1> QED BY <1>8, <1>9, <1>10

(* Sent is a prefix of the batch: all of it if there is no hole.           *)
LEMMA SentFacts ==
    ASSUME NEW os \in Seq(Dumps)
    PROVE  /\ Sent(os) \in Seq(Dumps) /\ Range(Sent(os)) \subseteq Range(os)
           /\ Hole \notin Range(os) => Sent(os) = os
           /\ Len(os) = 1 /\ Hole \in Range(os) => Sent(os) = <<>>
           /\ Sent(os) = <<>> => \A i \in DOMAIN os : os[i] = Hole
<1> DEFINE S == {i \in DOMAIN os : os[i] # Hole}  n == Cardinality(S)
<1>1. Len(os) \in Nat /\ DOMAIN os = 1 .. Len(os)
    OBVIOUS
<1>2. IsFiniteSet(1 .. Len(os)) /\ Cardinality(1 .. Len(os)) = Len(os)
  <2>1. 1 \in Int /\ Len(os) \in Int
      BY <1>1
  <2>2. /\ IsFiniteSet(1 .. Len(os))
        /\ Cardinality(1 .. Len(os)) = IF 1 > Len(os) THEN 0 ELSE Len(os) - 1 + 1
      BY <2>1, FS_Interval
  <2> QED BY <1>1, <2>2
<1>3. n \in 0 .. Len(os)
  <2>1. S \in SUBSET (1 .. Len(os))
      BY <1>1
  <2>2. IsFiniteSet(S) /\ Cardinality(S) <= Len(os)
      BY <1>2, <2>1, FS_Subset
  <2> QED BY <1>1, <2>2, FS_CardinalityType
<1>4. Sent(os) = SubSeq(os, 1, n)
    BY DEF Sent
<1> HIDE DEF n, S
<1>5. \A i \in 1 .. n : os[i] \in Dumps /\ i \in 1 .. Len(os)
  <2>1. \A i \in 1 .. n : i \in 1 .. Len(os)
      BY <1>1, <1>3
  <2> QED BY <2>1, ElementOfSeq
<1>6. /\ SubSeq(os, 1, n) \in Seq(Dumps) /\ Len(SubSeq(os, 1, n)) = n
      /\ \A i \in 1 .. n : SubSeq(os, 1, n)[i] = os[i]
  <2>1. n \in Nat /\ n \in Int /\ 1 \in Int
      BY <1>1, <1>3
  <2>2. /\ SubSeq(os, 1, n) \in Seq(Dumps)
        /\ Len(SubSeq(os, 1, n)) = IF 1 <= n THEN n - 1 + 1 ELSE 0
        /\ \A i \in 1 .. n - 1 + 1 : SubSeq(os, 1, n)[i] = os[1 + i - 1]
      BY <1>5, <2>1, SubSeqProperties
  <2>3. n - 1 + 1 = n /\ (~(1 <= n) => n = 0) /\ \A i \in 1 .. n : 1 + i - 1 = i
      BY <2>1
  <2> QED BY <2>2, <2>3
<1> DEFINE t == SubSeq(os, 1, n)
<1> HIDE DEF t
<1>7. t \in Seq(Dumps) /\ Len(t) = n /\ DOMAIN t = 1 .. n /\ \A i \in 1 .. n : t[i] = os[i]
    BY <1>6 DEF t
<1>8. Range(t) \subseteq Range(os)
    BY <1>1, <1>5, <1>7 DEF Range
<1>9. ASSUME Hole \notin Range(os) PROVE t = os
  <2>1. S = 1 .. Len(os)
      BY <1>1, <1>9 DEF S, Range
  <2>2. n = Len(os)
      BY <1>2, <2>1 DEF n
  <2>3. Len(t) = Len(os) /\ \A i \in 1 .. Len(t) : t[i] = os[i]
      BY <1>7, <2>2
  <2> QED BY <1>7, <2>3, SeqEqual
<1>10. ASSUME Len(os) = 1, Hole \in Range(os) PROVE t = <<>>
  <2>1. S = {}
      BY <1>1, <1>10 DEF S, Range
  <2>2. n = 0
      BY <2>1, FS_EmptySet DEF n
  <2> QED BY <1>7, <2>2, EmptySeq
<1>11. ASSUME t = <<>> PROVE \A i \in DOMAIN os : os[i] = Hole
  <2>1. n = 0
      BY <1>7, <1>11, EmptySeq
  <2>2. IsFiniteSet(S)
    <3>1. S \in SUBSET (1 .. Len(os))
        BY <1>1 DEF S
    <3> QED BY <1>2, <3>1, FS_Subset
  <2>3. S = {}
      BY <2>1, <2>2, FS_EmptySet DEF n
  <2> QED BY <2>3 DEF S
<1> QED BY <1>4, <1>7, <1>8, <1>9, <1>10, <1>11 DEF t

LEMMA MGRTTypes ==
    ASSUME TypeInv, NEW m \in Movers, MGRT(m)
    PROVE  TypeInv'
<1> DEFINE send == Sent(objs[m])
<1>1. /\ objs[m] \in Seq(Dumps) /\ pc[m] = "dump" /\ Len(objs[m]) = Len(keys[m])
      /\ UNCHANGED <<data, now, faults, cmd, mode, keys, objs, unlinked, reqs>>
    BY DEF TypeInv, MoverTypes, MGRT
<1>2. send \in Seq(Dumps)
    BY <1>1, SentFacts
<1> HIDE DEF send
<1>3. CASE send = <<>> /\ Finish(m, 0) /\ UNCHANGED <<chunks, status, down>>
  <2>1. 0 \in -1 .. Cardinality(Keys)
      BY IndexedFinite
  <2>2. /\ pc' \in [Movers -> Locations] /\ pc' = [pc EXCEPT ![m] = "reply"]
        /\ reply' \in [Movers -> [ret : -1 .. Cardinality(Keys), left : 0 .. Cardinality(Keys)]]
        /\ \A i \in Movers \ {m} : reply'[i] = reply[i]
      BY <1>3, <2>1, FinishTypes
  <2>3. DataTypes' /\ MoverTypes' /\ reqs' \subseteq Requests
      BY <1>1, <1>3, <2>2 DEF TypeInv, DataTypes, MoverTypes, data
  <2>4. pc'[m] = "reply" /\ \A i \in Movers \ {m} : pc'[i] = pc[i]
      BY <2>2 DEF TypeInv, MoverTypes
  <2>5. Progress'
      BY <1>1, <1>3, <2>2, <2>4 DEF TypeInv, Progress, Picking
  <2> QED BY <2>3, <2>5 DEF TypeInv
<1>4. CASE /\ send # <<>>
           /\ chunks' = [chunks EXCEPT ![m] = Split(send)]
           /\ status' = [status EXCEPT ![m] = [c \in 1 .. Len(Split(send)) |-> "todo"]]
           /\ Goto(m, IF mode[m] = "pool" THEN "send" ELSE "connect")
           /\ UNCHANGED <<reply, down>>
  <2>1. Split(send) \in Seq(Seq(Dumps)) /\ DOMAIN Split(send) = 1 .. Len(Split(send))
      BY <1>2, <1>4, SplitFacts
  <2>2. /\ pc' = [pc EXCEPT ![m] = IF mode[m] = "pool" THEN "send" ELSE "connect"]
      BY <1>4 DEF Goto
  <2>3. /\ chunks' \in [Movers -> Seq(Seq(Dumps))] /\ chunks'[m] = Split(send)
        /\ \A i \in Movers \ {m} : chunks'[i] = chunks[i]
      BY <1>4, <2>1 DEF TypeInv, MoverTypes
  <2>4. /\ status' = [i \in Movers |-> status'[i]]
        /\ status'[m] = [c \in DOMAIN Split(send) |-> "todo"]
        /\ \A i \in Movers \ {m} : status'[i] = status[i]
    <3> DEFINE w == [c \in 1 .. Len(Split(send)) |-> "todo"]
    <3>1. w = [c \in DOMAIN Split(send) |-> "todo"]
        BY <2>1
    <3>2. status' = [status EXCEPT ![m] = w]
        BY <1>4
    <3> HIDE DEF w
    <3>3. status = [i \in Movers |-> status[i]]
        BY DEF TypeInv, MoverTypes
    <3>4. status' = [i \in Movers |-> IF i = m THEN w ELSE status[i]]
        BY <3>2, <3>3
    <3>5. status'[m] = w /\ \A i \in Movers \ {m} : status'[i] = status[i]
        BY <3>4
    <3>6. status' = [i \in Movers |-> status'[i]]
        BY <3>4
    <3> QED BY <3>1, <3>5, <3>6
  <2>5. \A i \in Movers : status'[i] \in [DOMAIN chunks'[i] -> Statuses]
    <3>1. status'[m] \in [DOMAIN chunks'[m] -> Statuses]
      <4> HIDE DEF send
      <4>1. [c \in DOMAIN Split(send) |-> "todo"] \in [DOMAIN Split(send) -> Statuses]
          BY DEF Statuses
      <4> QED BY <2>3, <2>4, <4>1
    <3>2. \A i \in Movers \ {m} : status'[i] \in [DOMAIN chunks'[i] -> Statuses]
        BY <2>3, <2>4 DEF TypeInv, MoverTypes
    <3> QED BY <3>1, <3>2
  <2>6. DataTypes' /\ MoverTypes' /\ reqs' \subseteq Requests
    <3>1. pc' \in [Movers -> Locations]
        BY <2>2 DEF TypeInv, MoverTypes, Locations
    <3>2. DataTypes' /\ reqs' \subseteq Requests
        BY <1>1, <1>4 DEF TypeInv, DataTypes, data
    <3>3. UNCHANGED <<cmd, mode, keys, objs, unlinked, reply>>
        BY <1>1, <1>4
    <3>4. MoverTypes'
        BY <2>3, <2>4, <2>5, <3>1, <3>3 DEF TypeInv, MoverTypes
    <3> QED BY <3>2, <3>4
  <2>7. pc'[m] \in {"send", "connect"} /\ \A i \in Movers \ {m} : pc'[i] = pc[i]
      BY <2>2 DEF TypeInv, MoverTypes
  <2>8. Progress'
      BY <1>1, <1>4, <2>3, <2>7 DEF TypeInv, Progress, Picking
  <2> QED BY <2>6, <2>8 DEF TypeInv
<1>5. CASE down' = TRUE /\ UNCHANGED <<pc, chunks, status, reply>>
    BY <1>1, <1>5 DEF TypeInv, DataTypes, MoverTypes, data, Progress
<1> QED BY <1>3, <1>4, <1>5 DEF MGRT, send

(* Steps of a mover that change only its location, its answer and the      *)
(* count of faults.                                                        *)
LEMMA GotoTypes ==
    ASSUME TypeInv, NEW m \in Movers, NEW l, pc' = [pc EXCEPT ![m] = l],
           \/ l = "reply"
           \/ l = "send" /\ pc[m] = "connect"
           \/ l = "del" /\ pc[m] = "send",
           reply' \in [Movers -> [ret : -1 .. Cardinality(Keys), left : 0 .. Cardinality(Keys)]],
           l # "reply" => reply' = reply,
           \A i \in Movers \ {m} : reply'[i] = reply[i],
           faults' \in 0 .. MaxFaults,
           UNCHANGED <<data, now, down, cmd, mode, keys, objs, chunks, status, unlinked, reqs>>
    PROVE  TypeInv'
<1>1. pc \in [Movers -> Locations] /\ l \in Locations
    BY DEF TypeInv, MoverTypes, Locations
<1>2. pc' \in [Movers -> Locations] /\ pc'[m] = l /\ \A i \in Movers \ {m} : pc'[i] = pc[i]
    BY <1>1
<1>3. DataTypes' /\ MoverTypes' /\ reqs' \subseteq Requests
    BY <1>2 DEF TypeInv, DataTypes, MoverTypes, data
<1>4. Progress'
  <2>1. unlinked[m] \in Nat
      BY DEF TypeInv, MoverTypes
  <2> QED BY <1>2, <2>1 DEF TypeInv, Progress, Picking
<1> QED BY <1>3, <1>4 DEF TypeInv

LEMMA ConnectTypes ==
    ASSUME TypeInv, NEW m \in Movers, Connect(m)
    PROVE  TypeInv'
<1>1. SLOTS_MGRT_ERR \in -1 .. Cardinality(Keys)
    BY IndexedFinite DEF SLOTS_MGRT_ERR
<1>2. CASE Goto(m, "send") /\ UNCHANGED <<reply, faults>>
    BY <1>2, GotoTypes DEF Connect, Goto, TypeInv, DataTypes, MoverTypes
<1>3. CASE Fault("connect") /\ Finish(m, SLOTS_MGRT_ERR)
  <2>1. faults' \in 0 .. MaxFaults
      BY <1>3, FaultTypes DEF TypeInv, DataTypes
  <2> QED BY <1>1, <1>3, <2>1, FinishTypes, GotoTypes DEF Connect
<1> QED BY <1>2, <1>3 DEF Connect

LEMMA SendDoneTypes ==
    ASSUME TypeInv, NEW m \in Movers, SendDone(m)
    PROVE  TypeInv'
<1>1. SLOTS_MGRT_ERR \in -1 .. Cardinality(Keys)
    BY IndexedFinite DEF SLOTS_MGRT_ERR
<1>2. /\ pc[m] = "send" /\ faults' \in 0 .. MaxFaults
      /\ UNCHANGED <<data, now, down, cmd, mode, keys, objs, chunks, status, unlinked, reqs>>
    BY DEF SendDone, TypeInv, DataTypes
<1>3. CASE Goto(m, "del") /\ UNCHANGED reply
    BY <1>2, <1>3, GotoTypes DEF Goto, TypeInv, MoverTypes
<1>4. CASE Finish(m, SLOTS_MGRT_ERR)
    BY <1>1, <1>2, <1>4, FinishTypes, GotoTypes
<1> QED BY <1>3, <1>4 DEF SendDone

LEMMA delTypes ==
    ASSUME TypeInv, NEW m \in Movers, delKeys(m) \/ delDone(m)
    PROVE  TypeInv'
<1>1. SLOTS_MGRT_ERR \in -1 .. Cardinality(Keys)
    BY IndexedFinite DEF SLOTS_MGRT_ERR
<1>2. /\ keys[m] \in Seq(Keys) /\ Len(keys[m]) \in 0 .. Cardinality(Keys)
      /\ Cardinality(Keys) \in Nat
      /\ unlinked[m] \in Nat /\ unlinked[m] <= Len(keys[m]) /\ pc[m] = "del"
      /\ reply[m].ret \in 0 .. unlinked[m]
    BY IndexedFinite DEF TypeInv, MoverTypes, Progress, delKeys, delDone
<1>3. CASE delDone(m)
  <2>1. Finish(m, reply[m].ret) /\ faults' \in 0 .. MaxFaults
        /\ UNCHANGED <<data, now, down, cmd, mode, keys, objs, chunks, status, unlinked, reqs>>
      BY <1>3 DEF delDone, Deleted, TypeInv, DataTypes
  <2>2. reply[m].ret \in -1 .. Cardinality(Keys)
      BY <1>2
  <2> QED BY <2>1, <2>2, FinishTypes, GotoTypes
<1>4. CASE delKeys(m) /\ Fault("unlink_err")
           /\ Finish(m, SLOTS_MGRT_ERR) /\ UNCHANGED <<src, unlinked>>
  <2>1. UNCHANGED <<dst, truth, version, now, down, cmd, mode, keys, objs, chunks,
                    status, reqs>>
      BY <1>4 DEF delKeys
  <2>2. faults' \in 0 .. MaxFaults
      BY <1>4, FaultTypes DEF TypeInv, DataTypes
  <2> QED BY <1>1, <1>4, <2>1, <2>2, FinishTypes, GotoTypes DEF data
<1>5. ASSUME delKeys(m), src' \in [Keys -> Entries], faults' \in 0 .. MaxFaults,
             unlinked' = [unlinked EXCEPT ![m] = unlinked[m] + 1], UNCHANGED pc,
             NEW r \in {reply[m].ret, reply[m].ret + 1},
             reply' = [reply EXCEPT ![m] = [reply[m] EXCEPT !.ret = r]]
      PROVE  TypeInv'
  <2>1. /\ UNCHANGED <<dst, truth, version, now, down, cmd, mode, keys, objs, chunks,
                       status, reqs>>
        /\ unlinked[m] + 1 <= Len(keys[m])
      BY <1>5 DEF delKeys, ToUnlink
  <2>2. /\ unlinked' \in [Movers -> Nat] /\ unlinked'[m] = unlinked[m] + 1
        /\ \A i \in Movers \ {m} : unlinked'[i] = unlinked[i]
      BY <1>2, <1>5 DEF TypeInv, MoverTypes
  <2>3. r \in 0 .. unlinked[m] + 1 /\ r \in -1 .. Cardinality(Keys)
      BY <1>2, <1>5, <2>1
  <2>4. /\ reply' \in [Movers -> [ret : -1 .. Cardinality(Keys),
                                  left : 0 .. Cardinality(Keys)]]
        /\ reply'[m].ret = r /\ \A i \in Movers \ {m} : reply'[i] = reply[i]
    <3>1. reply \in [Movers -> [ret : -1 .. Cardinality(Keys), left : 0 .. Cardinality(Keys)]]
        BY DEF TypeInv, MoverTypes
    <3>2. /\ [reply[m] EXCEPT !.ret = r] \in [ret : -1 .. Cardinality(Keys),
                                               left : 0 .. Cardinality(Keys)]
          /\ [reply[m] EXCEPT !.ret = r].ret = r
        BY <2>3, <3>1
    <3> QED BY <1>5, <3>1, <3>2
  <2>5. DataTypes' /\ MoverTypes' /\ reqs' \subseteq Requests
      BY <1>5, <2>1, <2>2, <2>4 DEF TypeInv, DataTypes, MoverTypes
  <2>6. Progress'
      BY <1>2, <1>5, <2>1, <2>2, <2>3, <2>4 DEF TypeInv, Progress, Picking
  <2> QED BY <2>5, <2>6 DEF TypeInv
<1>6. CASE /\ delKeys(m)
           /\ src' = [src EXCEPT ![keys[m][unlinked[m] + 1]] = Absent]
           /\ unlinked' = [unlinked EXCEPT ![m] = unlinked[m] + 1]
           /\ reply' = [reply EXCEPT ![m].ret = @ + 1]
           /\ UNCHANGED <<pc, faults>>
  <2>1. src' \in [Keys -> Entries] /\ faults' \in 0 .. MaxFaults
      BY <1>6, EntryFacts DEF TypeInv, DataTypes
  <2> QED BY <1>5, <1>6, <2>1
<1>7. CASE /\ delKeys(m) /\ Fault("unlink_null")
           /\ unlinked' = [unlinked EXCEPT ![m] = unlinked[m] + 1]
           /\ UNCHANGED <<src, pc, reply>>
  <2>1. src' \in [Keys -> Entries] /\ faults' \in 0 .. MaxFaults
      BY <1>7, FaultTypes DEF TypeInv, DataTypes
  <2>2. reply' = [reply EXCEPT ![m] = [reply[m] EXCEPT !.ret = reply[m].ret]]
    <3>1. reply \in [Movers -> [ret : -1 .. Cardinality(Keys), left : 0 .. Cardinality(Keys)]]
        BY DEF TypeInv, MoverTypes
    <3>2. [reply[m] EXCEPT !.ret = reply[m].ret] = reply[m]
        BY <3>1
    <3> QED BY <1>7, <3>1, <3>2
  <2> QED BY <1>5, <1>7, <2>1, <2>2
<1> QED BY <1>3, <1>4, <1>6, <1>7 DEF delKeys

LEMMA ReplyTypes ==
    ASSUME TypeInv, NEW m \in Movers, Reply(m)
    PROVE  TypeInv'
<1>1. /\ pc' = [pc EXCEPT ![m] = "idle"]
      /\ cmd' = [cmd EXCEPT ![m] = "one"]
      /\ mode' = [mode EXCEPT ![m] = "batch"]
      /\ keys' = [keys EXCEPT ![m] = <<>>]
      /\ objs' = [objs EXCEPT ![m] = <<>>]
      /\ chunks' = [chunks EXCEPT ![m] = <<>>]
      /\ status' = [status EXCEPT ![m] = <<>>]
      /\ unlinked' = [unlinked EXCEPT ![m] = 0]
      /\ reply' = [reply EXCEPT ![m] = [ret |-> 0, left |-> 0]]
      /\ UNCHANGED <<data, now, faults, down, reqs>>
    BY DEF Reply, Goto
<1>2. DataTypes' /\ reqs' \subseteq Requests
    BY <1>1 DEF TypeInv, DataTypes, data
<1>3. <<>> \in Seq(Keys) /\ <<>> \in Seq(Dumps) /\ <<>> \in Seq(Seq(Dumps)) /\ Len(<<>>) = 0
      /\ <<>> \in [DOMAIN <<>> -> Statuses]
    OBVIOUS
<1>4. 0 \in -1 .. Cardinality(Keys) /\ 0 \in 0 .. Cardinality(Keys)
    BY IndexedFinite
<1>5. /\ pc' \in [Movers -> Locations] /\ cmd' \in [Movers -> AllCmds]
      /\ mode' \in [Movers -> {"batch", "pool", "pipeline"}]
      /\ keys' \in [Movers -> Seq(Keys)] /\ objs' \in [Movers -> Seq(Dumps)]
      /\ chunks' \in [Movers -> Seq(Seq(Dumps))] /\ unlinked' \in [Movers -> Nat]
      /\ reply' \in [Movers -> [ret : -1 .. Cardinality(Keys), left : 0 .. Cardinality(Keys)]]
      /\ status' = [i \in Movers |-> status'[i]]
    BY <1>1, <1>3, <1>4 DEF TypeInv, MoverTypes, Locations, AllCmds
<1>6. /\ pc'[m] = "idle" /\ keys'[m] = <<>> /\ objs'[m] = <<>> /\ chunks'[m] = <<>>
      /\ unlinked'[m] = 0 /\ status'[m] = <<>> /\ reply'[m].ret = 0
      /\ \A i \in Movers \ {m} : /\ pc'[i] = pc[i] /\ keys'[i] = keys[i] /\ objs'[i] = objs[i]
                                 /\ chunks'[i] = chunks[i] /\ unlinked'[i] = unlinked[i]
                                 /\ status'[i] = status[i] /\ reply'[i] = reply[i]
    BY <1>1 DEF TypeInv, MoverTypes
<1>7. \A i \in Movers : status'[i] \in [DOMAIN chunks'[i] -> Statuses]
    BY <1>3, <1>6 DEF TypeInv, MoverTypes
<1>8. Progress'
    BY <1>3, <1>4, <1>6 DEF TypeInv, Progress, Picking
<1> QED BY <1>2, <1>5, <1>7, <1>8 DEF TypeInv, MoverTypes

(* Sending a chunk and learning what became of it.                         *)
LEMMA StatusTypes ==
    ASSUME TypeInv, NEW m \in Movers, NEW c, NEW st \in Statuses, SetStatus(m, c, st),
           reqs' \subseteq Requests, faults' \in 0 .. MaxFaults,
           UNCHANGED <<data, now, down, pc, cmd, mode, keys, objs, chunks, unlinked, reply>>
    PROVE  TypeInv'
<1>1. /\ status = [i \in Movers |-> status[i]]
      /\ \A i \in Movers : status[i] \in [DOMAIN chunks[i] -> Statuses]
    BY DEF TypeInv, MoverTypes
<1>2. status' = [status EXCEPT ![m] = [status[m] EXCEPT ![c] = st]]
    BY DEF SetStatus
<1>3. [status[m] EXCEPT ![c] = st] \in [DOMAIN chunks[m] -> Statuses]
    BY <1>1
<1>4. status' = [i \in Movers |-> status'[i]]
      /\ \A i \in Movers : status'[i] \in [DOMAIN chunks[i] -> Statuses]
    BY <1>1, <1>2, <1>3
<1>5. DataTypes' /\ MoverTypes'
    BY <1>4 DEF TypeInv, DataTypes, MoverTypes, data
<1>6. Progress'
    BY DEF TypeInv, Progress
<1> QED BY <1>5, <1>6 DEF TypeInv

LEMMA SendTypes ==
    ASSUME TypeInv, NEW m \in Movers,
           \/ \E c \in DOMAIN status[m] : doSplitRestoreCommand(m, c)
           \/ \E r \in reqs : GetReply(m, r) \/ Timeout(m, r)
    PROVE  TypeInv'
<1>1. Statuses = {"todo", "sent", "ok", "err"} /\ faults \in 0 .. MaxFaults
    BY DEF Statuses, TypeInv, DataTypes
<1>2. ASSUME NEW c \in DOMAIN status[m], doSplitRestoreCommand(m, c) PROVE TypeInv'
  <2>1. UNCHANGED <<data, now, down, pc, cmd, mode, keys, objs, chunks, unlinked, reply>>
      BY <1>2 DEF doSplitRestoreCommand
  <2>2. Request(m, c) \in Requests
    <3>1. chunks[m] \in Seq(Seq(Dumps)) /\ DOMAIN status[m] = DOMAIN chunks[m]
        BY DEF TypeInv, MoverTypes
    <3>2. c \in 1 .. Len(chunks[m]) /\ c \in Nat
        BY <3>1
    <3>3. chunks[m][c] \in Seq(Dumps)
        BY <3>1, <3>2, ElementOfSeq
    <3> QED BY <3>2, <3>3 DEF Request, Requests
  <2>3. CASE SetStatus(m, c, "sent") /\ reqs' = reqs \cup {Request(m, c)} /\ UNCHANGED faults
    <3>1. reqs' \subseteq Requests
        BY <2>2, <2>3 DEF TypeInv
    <3> QED BY <1>1, <2>1, <2>3, <3>1, StatusTypes
  <2>4. CASE Fault("connect") /\ SetStatus(m, c, "err") /\ UNCHANGED reqs
    <3>1. faults' \in 0 .. MaxFaults /\ reqs' \subseteq Requests
        BY <1>1, <2>4, FaultTypes DEF TypeInv
    <3> QED BY <1>1, <2>1, <2>4, <3>1, StatusTypes
  <2> QED BY <1>2, <2>3, <2>4 DEF doSplitRestoreCommand
<1>3. ASSUME NEW r \in reqs, GetReply(m, r) PROVE TypeInv'
  <2>1. r \in Requests /\ [r EXCEPT !.waiting = FALSE] \in Requests
      BY DEF TypeInv, Requests
  <2>2. reqs' \subseteq Requests /\ faults' \in 0 .. MaxFaults
      BY <1>1, <1>3, <2>1 DEF GetReply, TypeInv
  <2>3. UNCHANGED <<data, now, down, pc, cmd, mode, keys, objs, chunks, unlinked, reply>>
      BY <1>3 DEF GetReply
  <2>4. \E st \in Statuses : SetStatus(m, r.chunk, st)
      BY <1>1, <1>3 DEF GetReply
  <2> QED BY <2>2, <2>3, <2>4, StatusTypes
<1>4. ASSUME NEW r \in reqs, Timeout(m, r) PROVE TypeInv'
  <2>1. r \in Requests /\ [r EXCEPT !.waiting = FALSE] \in Requests
      BY DEF TypeInv, Requests
  <2>2. reqs' \subseteq Requests /\ faults' \in 0 .. MaxFaults
      BY <1>1, <1>4, <2>1, FaultTypes DEF Timeout, TypeInv
  <2>3. UNCHANGED <<data, now, down, pc, cmd, mode, keys, objs, chunks, unlinked, reply>>
      BY <1>4 DEF Timeout
  <2>4. SetStatus(m, r.chunk, "err")
      BY <1>4 DEF Timeout, NoReplyStatus
  <2> QED BY <1>1, <2>2, <2>3, <2>4, StatusTypes
<1> QED BY <1>2, <1>3, <1>4


LEMMA InitTypes == Init => TypeInv
<1> SUFFICES ASSUME Init PROVE TypeInv
    OBVIOUS
<1>1. src \in [Keys -> Entries]
  <2>1. \A t \in TTLs : (IF t = 0 THEN NoExp ELSE t) \in Nat
      BY MigrateAssumption DEF NoExp
  <2>2. 0 \in 0 .. MaxVersion
      BY MigrateAssumption
  <2>3. \A t \in TTLs : Entry(0, IF t = 0 THEN NoExp ELSE t) \in Entries
      BY <2>1, <2>2, EntryFacts
  <2> QED BY <2>3 DEF Init
<1>2. DataTypes
  <2>1. dst \in [Keys -> Entries]
      BY EntryFacts DEF Init
  <2>2. MaxClock \in Nat /\ MaxVersion \in Nat /\ MaxFaults \in Nat
      BY MigrateAssumption
  <2>3. truth = src /\ now = 0 /\ version = 0 /\ faults = 0 /\ down = FALSE
      BY DEF Init
  <2>4. now \in 0 .. MaxClock /\ version \in 0 .. MaxVersion /\ faults \in 0 .. MaxFaults
      BY <2>2, <2>3
  <2>5. down \in BOOLEAN
      BY <2>3
  <2> QED BY <1>1, <2>1, <2>3, <2>4, <2>5, Zenon DEF DataTypes
<1>3. Cardinality(Keys) \in Nat
    BY MigrateAssumption, FS_CardinalityType
<1>4. MoverTypes
  <2>1. /\ pc \in [Movers -> Locations] /\ cmd \in [Movers -> AllCmds]
        /\ mode \in [Movers -> {"batch", "pool", "pipeline"}]
        /\ unlinked \in [Movers -> Nat]
      BY DEF Init, Locations, AllCmds
  <2>2. reply \in [Movers -> [ret : -1 .. Cardinality(Keys), left : 0 .. Cardinality(Keys)]]
      BY <1>3 DEF Init
  <2>3. /\ keys \in [Movers -> Seq(Keys)] /\ objs \in [Movers -> Seq(Dumps)]
        /\ chunks \in [Movers -> Seq(Seq(Dumps))]
      BY DEF Init
  <2>4. /\ status = [m \in Movers |-> status[m]]
        /\ \A m \in Movers : status[m] \in [DOMAIN chunks[m] -> Statuses]
      BY DEF Init
  <2> QED BY <2>1, <2>2, <2>3, <2>4 DEF MoverTypes
<1>5. Progress
    BY <1>3 DEF Init, Progress, Picking
<1> QED BY <1>2, <1>4, <1>5 DEF Init, TypeInv

(* TypeInv holds in every reachable state, whatever the keys, the commands *)
(* and the faults: in particular objs[] never outgrows keys[], and delKeys *)
(* never unlinks past the end of the batch.                                *)
THEOREM TypeInvariant == Spec => []TypeInv
<1>1. ASSUME TypeInv, [Next]_vars PROVE TypeInv'
  <2>1. ASSUME NEW m \in Movers, Start(m) PROVE TypeInv'
      BY <1>1, <2>1, StartTypes
  <2>2. ASSUME NEW m \in Movers, MoverStep(m) PROVE TypeInv'
      BY <1>1, <2>2, TagTypes, DumpTypes, PttlTypes, MGRTTypes, ConnectTypes, SendTypes,
         SendDoneTypes, delTypes, ReplyTypes DEF MoverStep
  <2>3. ASSUME NEW m \in Movers, \E r \in reqs : Timeout(m, r) PROVE TypeInv'
      BY <1>1, <2>3, SendTypes
  <2>4. CASE Destination
      BY <1>1, <2>4, DestinationTypes
  <2>5. CASE Client
      BY <1>1, <2>5, ClientTypes
  <2>6. CASE UNCHANGED vars
      BY <1>1, <2>6 DEF TypeInv, DataTypes, MoverTypes, Progress, vars, data, mover
  <2> QED BY <1>1, <2>1, <2>2, <2>3, <2>4, <2>5, <2>6 DEF Next
<1> QED BY <1>1, InitTypes, PTL DEF Spec

(* Every variable has its type (run mgrt_sync checks the same on a small   *)
(* instance).                                                              *)
THEOREM TypeCorrect == Spec => []TypeOK
<1>1. ASSUME TypeInv PROVE TypeOK
  <2>1. {src, dst, truth} \subseteq [Keys -> Entries]
      BY <1>1 DEF TypeInv, DataTypes
  <2>2. ASSUME NEW m \in Movers
        PROVE  /\ Range(keys[m]) \subseteq Keys /\ Range(objs[m]) \subseteq Dumps
               /\ DOMAIN status[m] = DOMAIN chunks[m] /\ Range(status[m]) \subseteq Statuses
               /\ unlinked[m] \in 0 .. Len(keys[m])
               /\ reply[m].ret \in -1 .. Cardinality(Keys)
               /\ reply[m].left \in 0 .. Cardinality(Keys)
    <3>1. keys[m] \in Seq(Keys) /\ objs[m] \in Seq(Dumps)
        BY <1>1 DEF TypeInv, MoverTypes
    <3>2. Range(keys[m]) \subseteq Keys /\ Range(objs[m]) \subseteq Dumps
        BY <3>1, ElementOfSeq DEF Range
    <3>3. status[m] \in [DOMAIN chunks[m] -> Statuses]
        BY <1>1 DEF TypeInv, MoverTypes
    <3>4. DOMAIN status[m] = DOMAIN chunks[m] /\ Range(status[m]) \subseteq Statuses
        BY <3>3 DEF Range
    <3>5. unlinked[m] \in 0 .. Len(keys[m])
        BY <1>1, <3>1 DEF TypeInv, MoverTypes, Progress
    <3>6. reply[m] \in [ret : -1 .. Cardinality(Keys), left : 0 .. Cardinality(Keys)]
        BY <1>1 DEF TypeInv, MoverTypes
    <3> QED BY <3>2, <3>4, <3>5, <3>6
  <2> QED BY <1>1, <2>1, <2>2 DEF TypeOK, TypeInv, DataTypes, MoverTypes, Entries, Dumps,
                                   Locations, Statuses
<1> QED BY <1>1, TypeInvariant, PTL

-----------------------------------------------------------------------------
(* What a mover sends is its batch, cut into chunks.                       *)
ChunksInv ==
    \A m \in Movers : chunks[m] # <<>> =>
        Sent(objs[m]) # <<>> /\ chunks[m] = Split(Sent(objs[m]))

LEMMA ChunksStep ==
    ASSUME TypeInv, ChunksInv, [Next]_vars
    PROVE  ChunksInv'
<1>1. ASSUME UNCHANGED <<objs, chunks>> PROVE ChunksInv'
    BY <1>1 DEF ChunksInv
<1>2. ASSUME NEW m \in Movers, Start(m) PROVE ChunksInv'
    BY <1>1, <1>2 DEF Start, SlotsMGRT_OneKey, SlotsMGRT_TagKeys, SlotsMGRT_SlotOneKey,
                      SlotsMGRT_TagSlotKeys, Begin
<1>3. ASSUME NEW m \in Movers, Dump(m) \/ Pttl(m) PROVE ChunksInv'
  <2>1. chunks' = chunks /\ chunks[m] = <<>>
      BY <1>3 DEF Dump, Pttl, TypeInv, Progress, Picking
  <2>2. \A i \in Movers \ {m} : objs'[i] = objs[i]
    <3>1. objs' = objs \/ \E x : objs' = [objs EXCEPT ![m] = x]
        BY <1>3 DEF Dump, Pttl
    <3> QED BY <3>1 DEF TypeInv, MoverTypes
  <2> QED BY <2>1, <2>2 DEF ChunksInv
<1>4. ASSUME NEW m \in Movers, MGRT(m) PROVE ChunksInv'
  <2>1. UNCHANGED objs
      BY <1>4 DEF MGRT
  <2>2. CASE UNCHANGED chunks
      BY <1>1, <2>1, <2>2
  <2>3. CASE Sent(objs[m]) # <<>> /\ chunks' = [chunks EXCEPT ![m] = Split(Sent(objs[m]))]
    <3>1. /\ chunks'[m] = Split(Sent(objs[m]))
          /\ \A i \in Movers \ {m} : chunks'[i] = chunks[i]
        BY <2>3 DEF TypeInv, MoverTypes
    <3> QED BY <2>1, <2>3, <3>1 DEF ChunksInv
  <2> QED BY <1>4, <2>2, <2>3 DEF MGRT
<1>5. ASSUME NEW m \in Movers, Reply(m) PROVE ChunksInv'
  <2>1. /\ chunks'[m] = <<>>
        /\ \A i \in Movers \ {m} : chunks'[i] = chunks[i] /\ objs'[i] = objs[i]
      BY <1>5 DEF Reply, TypeInv, MoverTypes
  <2> QED BY <2>1 DEF ChunksInv
<1>6. ASSUME NEW m \in Movers, MoverStep(m) PROVE ChunksInv'
    BY <1>1, <1>3, <1>4, <1>5, <1>6 DEF MoverStep, TagSize, TagWalk, Connect, doSplitRestoreCommand, GetReply,
                                       SendDone, delKeys, delDone
<1>7. ASSUME NEW m \in Movers, \E r \in reqs : Timeout(m, r) PROVE ChunksInv'
    BY <1>1, <1>7 DEF Timeout
<1>8. CASE Destination
    BY <1>1, <1>8 DEF Destination, restoreOneWithReplace, Forget, mover
<1>9. CASE Client
    BY <1>1, <1>9 DEF Client, SrcWrite, DstWrite, SrcDelete, SrcExpire, Tick, mover
<1>10. CASE UNCHANGED vars
    BY <1>1, <1>10 DEF vars, mover
<1> QED BY <1>2, <1>6, <1>7, <1>8, <1>9, <1>10 DEF Next

(* BatchSend_SlotsRestore, its thread pool variant and                     *)
(* Pipeline_SlotsRestore send the objects of the batch each once and in    *)
(* its order, no SLOTSRESTORE without an object, and none that exceeds     *)
(* REDIS_MGRT_CMD_PARAMS_SIZE by more than its last object: for any batch, *)
(* any sizes and any limit.                                                *)
THEOREM BatchesAreCutRight == Spec => []ChunksFit
<1>1. Init => ChunksInv
    BY DEF Init, ChunksInv
<1>2. ASSUME TypeInv, ChunksInv PROVE ChunksFit
  <2> SUFFICES ASSUME NEW m \in Movers, chunks[m] # <<>>
               PROVE  /\ FlattenSeq(chunks[m]) = Sent(objs[m])
                      /\ \A c \in DOMAIN chunks[m] :
                            /\ chunks[m][c] # <<>>
                            /\ ChunkBytes(Front(chunks[m][c])) <= MaxCmdSize
      BY DEF ChunksFit
  <2> DEFINE s == Sent(objs[m])
  <2>1. s \in Seq(Dumps)
      BY <1>2, SentFacts DEF TypeInv, MoverTypes
  <2>2. s # <<>> /\ chunks[m] = Split(s)
      BY <1>2 DEF ChunksInv
  <2> HIDE DEF s
  <2>3. /\ FlattenSeq(Split(s)) = s
        /\ \A c \in DOMAIN Split(s) : /\ Split(s)[c] # <<>>
                                      /\ ChunkBytes(Front(Split(s)[c])) <= MaxCmdSize
      BY <2>1, <2>2, SplitFacts, SplitFits
  <2> QED BY <2>2, <2>3 DEF s
<1> QED BY <1>1, <1>2, ChunksStep, TypeInvariant, PTL DEF Spec
=============================================================================
