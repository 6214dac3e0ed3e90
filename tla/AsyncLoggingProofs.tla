------------------------- MODULE AsyncLoggingProofs -------------------------
(***************************************************************************)
(* Proofs about AsyncLogging.tla, for any records and buffer sizes and any *)
(* number of buffers in flight: that the background thread always gets its *)
(* buffers back, and that the log file holds the records in order, without *)
(* a gap.                                                                  *)
(***************************************************************************)
EXTENDS AsyncLogging, SequenceTheorems, TLAPS, WellFoundedInduction

-----------------------------------------------------------------------------
(* A set of natural numbers that is not empty has a least element.         *)
LEMMA LeastNatural ==
  ASSUME NEW T, T \subseteq Nat, T # {}
  PROVE  \E x \in T : \A y \in T : x <= y
<1>1. PICK x \in T : \A y \in T : ~(<<y, x>> \in OpToRel(<, Nat))
  BY NatLessThanWellFounded, WFMin, Zenon
<1>2. x \in Nat /\ \A y \in T : y \in Nat /\ ~(y < x)
  BY <1>1 DEF OpToRel
<1>3. \A y \in T : x <= y
  BY <1>2
<1> QED BY <1>3

(* Induction: a set with 0, and with n + 1 for each n in it, has them all. *)
LEMMA SetInduction ==
  ASSUME NEW P \in SUBSET Nat, 0 \in P, \A n \in P : n + 1 \in P
  PROVE  P = Nat
<1> SUFFICES ASSUME Nat \ P # {} PROVE FALSE
  OBVIOUS
<1>1. PICK x \in Nat \ P : \A y \in Nat \ P : x <= y
  BY LeastNatural
<1>2. x # 0 /\ x - 1 \in Nat /\ ~(x <= x - 1)
  BY <1>1
<1>3. x - 1 \in P /\ (x - 1) + 1 = x
  BY <1>1, <1>2
<1> QED BY <1>1, <1>3

(* Concatenation and Append() under names that the provers do not open.    *)
Cat(a, b) == a \o b
Push(s, x) == Append(s, x)

LEMMA CatType ==
  ASSUME NEW S, NEW a \in Seq(S), NEW b \in Seq(S)
  PROVE  Cat(a, b) \in Seq(S)
BY DEF Cat

LEMMA CatAssociative ==
  ASSUME NEW S, NEW a \in Seq(S), NEW b \in Seq(S), NEW c \in Seq(S)
  PROVE  Cat(Cat(a, b), c) = Cat(a, Cat(b, c))
BY ConcatAssociative DEF Cat

LEMMA CatEmpty ==
  ASSUME NEW S, NEW a \in Seq(S)
  PROVE  Cat(a, <<>>) = a /\ Cat(<<>>, a) = a
BY DEF Cat

LEMMA CatAppend ==
  ASSUME NEW S, NEW a \in Seq(S), NEW b \in Seq(S), NEW x \in S
  PROVE  Push(Cat(a, b), x) = Cat(a, Push(b, x)) /\ Push(b, x) \in Seq(S)
<1>1. <<x>> \in Seq(S) /\ a \o b \in Seq(S) /\ Append(b, x) \in Seq(S)
  OBVIOUS
<1>2. Append(a \o b, x) = (a \o b) \o <<x>> /\ Append(b, x) = b \o <<x>>
  BY <1>1, AppendIsConcat
<1>3. (a \o b) \o <<x>> = a \o (b \o <<x>>)
  BY <1>1, ConcatAssociative
<1> QED BY <1>1, <1>2, <1>3 DEF Cat, Push

-----------------------------------------------------------------------------
(* FlattenSeq().                                                           *)

(* f[i] is what the first i sequences of s are together.                   *)
Flattens(s, f, n) ==
  \A i \in 1..n : f[i] = IF i = 1 THEN s[i] ELSE Cat(f[i - 1], s[i])

LEMMA FlattensExists ==
  ASSUME NEW S, NEW s \in Seq(Seq(S))
  PROVE  \A n \in 0..Len(s) : \E f \in [1..n -> Seq(S)] : Flattens(s, f, n)
<1> DEFINE P == {n \in Nat : n <= Len(s) =>
                   \E f \in [1..n -> Seq(S)] : Flattens(s, f, n)}
<1>1. 0 \in P
  <2>1. [i \in 1..0 |-> <<>>] \in [1..0 -> Seq(S)]
    OBVIOUS
  <2>2. Flattens(s, [i \in 1..0 |-> <<>>], 0)
    BY DEF Flattens
  <2> QED BY <2>1, <2>2
<1>2. ASSUME NEW n \in P PROVE n + 1 \in P
  <2> SUFFICES ASSUME n + 1 <= Len(s)
               PROVE  \E f \in [1..(n + 1) -> Seq(S)] : Flattens(s, f, n + 1)
    OBVIOUS
  <2>1. n \in Nat /\ Len(s) \in Nat /\ n <= Len(s)
    OBVIOUS
  <2>2. PICK f \in [1..n -> Seq(S)] : Flattens(s, f, n)
    BY <1>2, <2>1
  <2> DEFINE last == IF n = 0 THEN s[1] ELSE Cat(f[n], s[n + 1])
             g == [i \in 1..(n + 1) |-> IF i = n + 1 THEN last ELSE f[i]]
  <2>3. last \in Seq(S)
    <3>1. s[n + 1] \in Seq(S)
      BY <2>1
    <3>2. n # 0 => f[n] \in Seq(S)
      BY <2>1, <2>2
    <3> QED BY <3>1, <3>2, CatType
  <2>4. g \in [1..(n + 1) -> Seq(S)]
    BY <2>1, <2>2, <2>3
  <2>5. Flattens(s, g, n + 1)
    <3>1. ASSUME NEW i \in 1..n PROVE g[i] = f[i]
      <4>1. i \in 1..(n + 1) /\ i # n + 1
        BY <2>1
      <4> QED BY <4>1
    <3>2. g[n + 1] = last
      BY <2>1
    <3>3. ASSUME NEW i \in 1..(n + 1)
          PROVE  g[i] = IF i = 1 THEN s[i] ELSE Cat(g[i - 1], s[i])
      <4> HIDE DEF g
      <4>1. CASE i = n + 1
        BY <2>1, <3>1, <3>2, <4>1
      <4>2. CASE i \in 1..n
        <5>1. i # 1 => i - 1 \in 1..n
          BY <2>1, <4>2
        <5> QED BY <2>2, <3>1, <4>2, <5>1 DEF Flattens
      <4> QED BY <2>1, <4>1, <4>2
    <3> HIDE DEF g
    <3> QED BY <3>3 DEF Flattens
  <2> QED BY <2>4, <2>5
<1>3. P = Nat
  BY <1>1, <1>2, SetInduction
<1>4. Len(s) \in Nat
  OBVIOUS
<1> QED BY <1>3, <1>4

LEMMA FlattensUnique ==
  ASSUME NEW u, NEW n \in Nat, NEW h, NEW k, Flattens(u, h, n), Flattens(u, k, n)
  PROVE  \A i \in 1..n : h[i] = k[i]
<1> DEFINE P == {i \in Nat : i \in 1..n => h[i] = k[i]}
<1>1. 0 \in P
  OBVIOUS
<1>2. ASSUME NEW i \in P PROVE i + 1 \in P
  BY DEF Flattens
<1>3. P = Nat
  BY <1>1, <1>2, SetInduction
<1> QED BY <1>3

(* FlattenSeq() computes the last of these.                                *)
LEMMA FlattenSeqDef ==
  ASSUME NEW S, NEW s \in Seq(Seq(S)), s # <<>>
  PROVE  \E f \in [1..Len(s) -> Seq(S)] :
           Flattens(s, f, Len(s)) /\ FlattenSeq(s) = f[Len(s)]
<1> DEFINE Fix(h) == h = [i \in 1..Len(s) |-> IF i = 1 THEN s[i] ELSE h[i - 1] \o s[i]]
           g == CHOOSE h : Fix(h)
<1>1. Len(s) \in Nat \ {0}
  OBVIOUS
<1>2. PICK f \in [1..Len(s) -> Seq(S)] : Flattens(s, f, Len(s))
  <2> HIDE DEF g
  <2>1. \A n \in 0..Len(s) : \E f \in [1..n -> Seq(S)] : Flattens(s, f, n)
    BY FlattensExists, Zenon
  <2>2. Len(s) \in 0..Len(s)
    BY <1>1
  <2> QED BY <2>1, <2>2, Zenon
<1>3. Fix(f)
  BY <1>2 DEF Flattens, Cat
<1>4. Fix(g)
  BY <1>3
<1>5. FlattenSeq(s) = g[Len(s)]
  BY <1>1 DEF FlattenSeq
<1> HIDE DEF g
<1>6. Flattens(s, g, Len(s))
  BY <1>4 DEF Flattens, Cat
<1>7. g[Len(s)] = f[Len(s)]
  BY <1>1, <1>2, <1>6, FlattensUnique
<1> QED BY <1>2, <1>5, <1>7

(* One sequence more at the end.                                           *)
LEMMA FlattensMore ==
  ASSUME NEW n \in Nat, NEW m, m = n + 1, NEW s, NEW f, NEW t, NEW g,
         \A i \in 1..n : t[i] = s[i],
         Flattens(s, f, n), Flattens(t, g, m)
  PROVE  g[m] = IF n = 0 THEN t[1] ELSE Cat(f[n], t[m])
<1>1. n + 1 \in 1..(n + 1) /\ (n + 1) - 1 = n /\ \A i \in 1..n : i \in 1..(n + 1)
  OBVIOUS
<1>2. Flattens(s, g, n)
  BY <1>1 DEF Flattens
<1>3. \A i \in 1..n : f[i] = g[i]
  BY <1>2, FlattensUnique
<1>4. n # 0 => g[n + 1] = Cat(f[n], t[n + 1])
  <2> SUFFICES ASSUME n # 0 PROVE g[n + 1] = Cat(f[n], t[n + 1])
    OBVIOUS
  <2>1. n \in 1..n /\ n + 1 # 1
    OBVIOUS
  <2>2. g[n + 1] = Cat(g[(n + 1) - 1], t[n + 1])
    BY <1>1, <2>1 DEF Flattens
  <2> QED BY <1>1, <1>3, <2>1, <2>2
<1>5. n = 0 => g[1] = t[1]
  BY <1>1 DEF Flattens
<1>6. n = 0 => n + 1 = 1
  OBVIOUS
<1> QED BY <1>4, <1>5, <1>6

LEMMA FlattenAppend ==
  ASSUME NEW S, NEW s, NEW b
  PROVE  s \in Seq(Seq(S)) /\ b \in Seq(S) =>
           /\ FlattenSeq(s) \in Seq(S)
           /\ FlattenSeq(Append(s, b)) = Cat(FlattenSeq(s), b)
<1>0. SUFFICES ASSUME s \in Seq(Seq(S)), b \in Seq(S)
               PROVE  /\ FlattenSeq(s) \in Seq(S)
                      /\ FlattenSeq(Append(s, b)) = Cat(FlattenSeq(s), b)
  OBVIOUS
<1>1. PICK t : t = Append(s, b)
  OBVIOUS
<1>2. /\ Len(s) \in Nat /\ t \in Seq(Seq(S)) /\ t # <<>> /\ Len(t) = Len(s) + 1
      /\ \A i \in 1..Len(s) : t[i] = s[i]
      /\ t[Len(s) + 1] = b
  <2>1. PICK T : T = Seq(S)
    OBVIOUS
  <2>2. s \in Seq(T) /\ b \in T
    BY <1>0, <2>1
  <2>3. Len(s) \in Nat
    BY <2>2
  <2>4. /\ t \in Seq(T) /\ t # <<>> /\ Len(t) = Len(s) + 1
        /\ \A i \in 1..Len(s) : t[i] = s[i]
        /\ t[Len(s) + 1] = b
    BY <1>1, <2>2, AppendProperties
  <2> QED BY <2>1, <2>3, <2>4
<1>3. PICK g : Flattens(t, g, Len(s) + 1) /\ FlattenSeq(t) = g[Len(s) + 1]
  BY <1>2, FlattenSeqDef
<1>4. CASE s = <<>>
  <2>1. FlattenSeq(s) = <<>> /\ Len(s) = 0
    BY <1>4 DEF FlattenSeq
  <2>2. g[1] = b
    BY <1>2, <1>3, <2>1 DEF Flattens
  <2>3. Cat(<<>>, b) = b /\ <<>> \in Seq(S)
    BY <1>0, CatEmpty, EmptySeq
  <2> QED BY <1>1, <1>3, <2>1, <2>2, <2>3
<1>5. CASE s # <<>>
  <2>1. PICK f : /\ f \in [1..Len(s) -> Seq(S)]
                 /\ Flattens(s, f, Len(s)) /\ FlattenSeq(s) = f[Len(s)]
    BY <1>0, <1>5, FlattenSeqDef
  <2>2. Len(s) # 0 /\ Len(s) \in 1..Len(s)
    BY <1>0, <1>2, <1>5
  <2>3. g[Len(s) + 1] = Cat(f[Len(s)], t[Len(s) + 1])
    <3>1. Len(s) \in Nat /\ \A i \in 1..Len(s) : t[i] = s[i]
      BY <1>2
    <3>2. Flattens(s, f, Len(s)) /\ Flattens(t, g, Len(s) + 1)
      BY <1>3, <2>1
    <3> QED BY <2>2, <3>1, <3>2, FlattensMore
  <2>4. f[Len(s)] \in Seq(S)
    BY <2>1, <2>2
  <2> QED BY <1>1, <1>2, <1>3, <2>1, <2>3, <2>4
<1> QED BY <1>4, <1>5

(* The first sequence apart from the others.                               *)
AllSeqs(f, n, S) == \A i \in 1..n : f[i] \in Seq(S)

LEMMA FlattensFirst ==
  ASSUME NEW S, NEW n \in Nat, NEW m, m = n + 1, NEW s, NEW f, NEW t, NEW g,
         AllSeqs(s, m, S), AllSeqs(g, n, S), \A i \in 1..n : t[i] = s[i + 1],
         Flattens(s, f, m), Flattens(t, g, n)
  PROVE  \A i \in 1..n : f[i + 1] = Cat(s[1], g[i])
<1> DEFINE P == {i \in Nat : i \in 1..n => f[i + 1] = Cat(s[1], g[i])}
<1>1. 0 \in P
  OBVIOUS
<1>2. \A a, b, c \in Seq(S) : Cat(Cat(a, b), c) = Cat(a, Cat(b, c))
  BY CatAssociative
<1>3. ASSUME NEW i \in P PROVE i + 1 \in P
  <2>1. i \in Nat /\ (i \in 1..n => f[i + 1] = Cat(s[1], g[i]))
    OBVIOUS
  <2> HIDE DEF P
  <2>2. ASSUME i + 1 \in 1..n PROVE f[i + 2] = Cat(s[1], g[i + 1])
    <3>1. /\ i + 2 \in 1..(n + 1) /\ i + 2 # 1 /\ (i + 2) - 1 = i + 1 /\ 1 \in 1..(n + 1)
          /\ (i + 1) + 1 = i + 2 /\ (i + 1) - 1 = i
      BY <2>1, <2>2
    <3>2. t[i + 1] = s[i + 2] /\ s[i + 2] \in Seq(S) /\ s[1] \in Seq(S)
      BY <2>2, <3>1 DEF AllSeqs
    <3>3. f[i + 2] = Cat(f[(i + 2) - 1], s[i + 2]) /\ f[1] = s[1]
      BY <3>1 DEF Flattens
    <3>4. g[i + 1] = IF i + 1 = 1 THEN t[i + 1] ELSE Cat(g[(i + 1) - 1], t[i + 1])
      BY <2>2 DEF Flattens
    <3>5. CASE i = 0
      <4>1. i + 1 = 1
        BY <3>5
      <4>2. g[i + 1] = s[i + 2]
        BY <3>2, <3>4, <4>1
      <4>3. f[i + 2] = Cat(s[1], s[i + 2])
        BY <3>1, <3>3, <4>1
      <4> QED BY <4>2, <4>3
    <3>6. CASE i # 0
      <4>1. i \in 1..n /\ i + 1 # 1
        BY <2>1, <2>2, <3>6
      <4>2. f[i + 1] = Cat(s[1], g[i]) /\ g[i] \in Seq(S)
        BY <2>1, <4>1 DEF AllSeqs
      <4>3. Cat(Cat(s[1], g[i]), s[i + 2]) = Cat(s[1], Cat(g[i], s[i + 2]))
        BY <1>2, <3>2, <4>2
      <4> QED BY <3>1, <3>2, <3>3, <3>4, <4>1, <4>2, <4>3
    <3> QED BY <3>5, <3>6
  <2>3. (i + 1) + 1 = i + 2 /\ i + 1 \in Nat
    BY <2>1
  <2> QED BY <2>2, <2>3 DEF P
<1>4. P = Nat
  BY <1>1, <1>3, SetInduction
<1>5. ASSUME NEW i \in 1..n PROVE i \in P
  <2> HIDE DEF P
  <2> QED BY <1>4
<1> QED BY <1>5

LEMMA FlattenTail ==
  ASSUME NEW S, NEW s
  PROVE  s \in Seq(Seq(S)) /\ s # <<>> => FlattenSeq(s) = Cat(Head(s), FlattenSeq(Tail(s)))
<1>0. SUFFICES ASSUME s \in Seq(Seq(S)), s # <<>>
               PROVE  FlattenSeq(s) = Cat(Head(s), FlattenSeq(Tail(s)))
  OBVIOUS
<1>1. PICK t : t = Tail(s)
  OBVIOUS
<1>2. PICK n : n = Len(t)
  OBVIOUS
<1>3. /\ n \in Nat /\ Len(s) = n + 1 /\ t \in Seq(Seq(S)) /\ Head(s) = s[1]
      /\ \A i \in 1..n : t[i] = s[i + 1]
      /\ \A i \in 1..(n + 1) : s[i] \in Seq(S)
  <2>1. PICK T : T = Seq(S)
    OBVIOUS
  <2>2. s \in Seq(T)
    BY <1>0, <2>1
  <2>3. /\ n \in Nat /\ Len(s) = n + 1 /\ t \in Seq(T) /\ Head(s) = s[1]
        /\ \A i \in 1..n : t[i] = s[i + 1]
        /\ \A i \in 1..(n + 1) : s[i] \in T
    BY <1>0, <1>1, <1>2, <2>2
  <2> QED BY <2>1, <2>3
<1>4. PICK f : Flattens(s, f, n + 1) /\ FlattenSeq(s) = f[n + 1]
  BY <1>0, <1>3, FlattenSeqDef, SMTT(30)
<1>5. CASE n = 0
  <2>1. FlattenSeq(t) = <<>>
    <3>1. Len(t) = 0
      BY <1>2, <1>5
    <3>2. t = <<>>
      BY <1>3, <3>1, EmptySeq
    <3> QED BY <3>1, <3>2 DEF FlattenSeq
  <2>2. f[n + 1] = s[1] /\ s[1] \in Seq(S)
    BY <1>3, <1>4, <1>5 DEF Flattens
  <2>3. Cat(s[1], <<>>) = s[1]
    BY <2>2, CatEmpty
  <2> QED BY <1>1, <1>3, <1>4, <2>1, <2>2, <2>3
<1>6. CASE n # 0
  <2>1. t # <<>>
    BY <1>2, <1>6
  <2>2. PICK g : g \in [1..n -> Seq(S)] /\ Flattens(t, g, n) /\ FlattenSeq(t) = g[n]
    BY <1>2, <1>3, <2>1, FlattenSeqDef
  <2>3. n \in 1..n /\ \A i \in 1..n : g[i] \in Seq(S)
    BY <1>3, <1>6, <2>2
  <2>4. \A i \in 1..n : f[i + 1] = Cat(s[1], g[i])
    <3>1. n \in Nat /\ \A i \in 1..n : t[i] = s[i + 1]
      BY <1>3
    <3>3. AllSeqs(s, n + 1, S) /\ AllSeqs(g, n, S)
      BY <1>3, <2>3 DEF AllSeqs
    <3>2. Flattens(s, f, n + 1) /\ Flattens(t, g, n)
      BY <1>4, <2>2
    <3> QED BY <3>1, <3>2, <3>3, FlattensFirst
  <2> QED BY <1>1, <1>3, <1>4, <2>2, <2>3, <2>4
<1> QED BY <1>3, <1>5, <1>6

(* An empty buffer has no length.                                          *)
LEMMA EmptyLength == length(<<>>) = 0
<1> DEFINE op(r, n) == RecordSize[r] + n
           fix(h) == h = [T \in SUBSET {} |->
                           IF T = {} THEN 0
                           ELSE op(<<>>[CHOOSE x \in T : TRUE], h[T \ {CHOOSE x \in T : TRUE}])]
           iter == CHOOSE h : fix(h)
<1>1. length(<<>>) = iter[DOMAIN <<>>]
  BY DEF length, FoldSeq, FoldFunction, FoldFunctionOnSet, MapThenFoldSet
<1>2. fix([T \in SUBSET {} |-> 0])
  OBVIOUS
<1>3. fix(iter)
  BY <1>2
<1>4. DOMAIN <<>> = {}
  OBVIOUS
<1>5. iter[{}] = 0
  <2> HIDE DEF iter
  <2> QED BY <1>3
<1> HIDE DEF iter
<1> QED BY <1>1, <1>4, <1>5

-----------------------------------------------------------------------------
(* The inductive invariant.  A buffer that is not being filled or written  *)
(* is empty, and a spare that is missing stands for a full buffer that is  *)
(* queued: that is why there are two buffers to take back when two are     *)
(* missing.                                                                *)
Empties == {NULL, <<>>}

LogTypes ==
  /\ currentBuffer_ \in Buffers /\ disk \in Buffers /\ logged \in Buffers
  /\ buffers_ \in Seq(Buffers) /\ buffersToWrite \in Seq(Buffers) /\ toAppend \in Seq(Buffers)
  /\ nextBuffer_ \in Empties /\ newBuffer1 \in Empties /\ newBuffer2 \in Empties
  /\ fileOpen \in BOOLEAN

Started ==
  /\ main = "created" <=> pc = "unstarted"
  /\ pc = "unstarted" => disk = <<>> /\ buffersToWrite = <<>> /\ ~fileOpen
  /\ pc # "write" => toAppend = <<>>

SpareIsQueued == nextBuffer_ = NULL => buffers_ # <<>>

(* The records in the file, those being written and those queued.          *)
Whole == Cat(disk, Cat(Cat(FlattenSeq(toAppend), FlattenSeq(buffers_)), currentBuffer_))

WholeLog == fileOpen \/ pc = "unstarted" => Whole = logged

Gapless == \E u \in Buffers : logged = Cat(disk, u)

BufferInv == LogTypes /\ Started /\ SpareIsQueued /\ BuffersReturned

LogInv == BufferInv /\ WholeLog /\ Gapless

LEMMA EmptyBuffer == <<>> \in Buffers /\ NULL # <<>>
<1>1. <<>> \in Seq(Records)
  OBVIOUS
<1> QED BY <1>1, NullAssumption DEF Buffers

(* A record always goes into an empty buffer.                              *)
LEMMA PutEmpty ==
  ASSUME NEW r \in Records
  PROVE  Put(<<>>, r) = Append(<<>>, r)
<1>1. avail(<<>>) = BufferSize /\ BufferSize > RecordSize[r]
  BY EmptyLength, SizeAssumption DEF avail
<1> QED BY <1>1 DEF Put

(* What append() leaves: the record is last in the current buffer, and the *)
(* buffer it did not fit into, if any, is queued.                          *)
LEMMA AppendEffect ==
  ASSUME LogTypes, NEW r \in Records, append(r)
  PROVE  \/ currentBuffer_' = Append(currentBuffer_, r) /\ UNCHANGED <<nextBuffer_, buffers_>>
         \/ /\ currentBuffer_' = Append(<<>>, r)
            /\ buffers_' = Append(buffers_, currentBuffer_) /\ nextBuffer_' = NULL
<1>1. CASE hasRoom(r)
  BY <1>1 DEF append, hasRoom, Put
<1>2. CASE ~hasRoom(r)
  <2>1. (IF nextBuffer_ = NULL THEN <<>> ELSE nextBuffer_) = <<>>
    BY DEF LogTypes, Empties
  <2>2. currentBuffer_' = Put(<<>>, r)
    BY <1>2, <2>1 DEF append
  <2> QED BY <1>2, <2>2, PutEmpty DEF append
<1> QED BY <1>1, <1>2

(* The thread and the producers agree on the buffers.                      *)
LEMMA BufferStep == BufferInv /\ [Next]_vars => BufferInv'
<1> SUFFICES ASSUME BufferInv, [Next]_vars PROVE BufferInv'
  OBVIOUS
<1>1. ASSUME NEW r \in Records, append(r) PROVE BufferInv'
  <2>1. LogTypes'
    <3>1. logged' \in Buffers /\ Append(currentBuffer_, r) \in Buffers /\ Append(<<>>, r) \in Buffers
      BY <1>1 DEF append, BufferInv, LogTypes, Buffers
    <3>2. Append(buffers_, currentBuffer_) \in Seq(Buffers)
      BY DEF BufferInv, LogTypes
    <3>3. currentBuffer_' \in Buffers /\ buffers_' \in Seq(Buffers) /\ nextBuffer_' \in Empties
      BY <1>1, <3>1, <3>2, AppendEffect DEF BufferInv, LogTypes, Empties
    <3> QED BY <1>1, <3>1, <3>3 DEF append, BufferInv, LogTypes, backVars, fileVars
  <2>2. Started' /\ BuffersReturned'
    BY <1>1 DEF append, BufferInv, Started, BuffersReturned, backVars, fileVars
  <2>3. SpareIsQueued'
    <3>1. Append(buffers_, currentBuffer_) # <<>>
      BY DEF BufferInv, LogTypes
    <3> QED BY <1>1, <3>1, AppendEffect DEF BufferInv, SpareIsQueued
  <2> QED BY <2>1, <2>2, <2>3 DEF BufferInv
<1>2. CASE Start
  BY <1>2 DEF Start, BufferInv, LogTypes, Started, SpareIsQueued, BuffersReturned, Empties,
              frontVars, histVars
<1>3. CASE Stop
  BY <1>3 DEF Stop, BufferInv, LogTypes, Started, SpareIsQueued, BuffersReturned,
              frontVars, backVars, fileVars
<1>4. CASE Join
  BY <1>4 DEF Join, BufferInv, LogTypes, Started, SpareIsQueued, BuffersReturned,
              frontVars, backVars, fileVars, histVars
<1>5. CASE TestRunning
  BY <1>5 DEF TestRunning, BufferInv, LogTypes, Started, SpareIsQueued, BuffersReturned,
              frontVars, backVars, fileVars, histVars
<1>6. CASE LockAndWait
  BY <1>6 DEF LockAndWait, BufferInv, LogTypes, Started, SpareIsQueued, BuffersReturned,
              frontVars, backVars, fileVars, histVars
<1>7. ASSUME pc \in {"lock", "waiting"}, swapBuffers, UNCHANGED <<running_, fileVars, main, histVars>>
      PROVE  BufferInv'
  <2>1. newBuffer1 = <<>> /\ newBuffer2 = <<>>
    BY <1>7 DEF BufferInv, BuffersReturned
  <2>2. allBuffers \in Seq(Buffers) /\ Len(allBuffers) = Len(buffers_) + 1 /\ Len(buffers_) \in Nat
    BY DEF allBuffers, BufferInv, LogTypes
  <2>3. nextBuffer_ = NULL => Len(buffers_) >= 1
    BY DEF BufferInv, LogTypes, SpareIsQueued
  <2>4. LogTypes'
    BY <1>7, <2>1, <2>2, EmptyBuffer
       DEF swapBuffers, spareTaken, BufferInv, LogTypes, Empties, fileVars, histVars
  <2>5. Started'
    BY <1>7 DEF swapBuffers, BufferInv, Started, fileVars
  <2>6. SpareIsQueued'
    BY <1>7, <2>1, EmptyBuffer DEF swapBuffers, spareTaken, SpareIsQueued
  <2>7. BuffersReturned'
    BY <1>7, <2>1, <2>2, <2>3, EmptyBuffer DEF swapBuffers, spareTaken, BuffersReturned
  <2> QED BY <2>4, <2>5, <2>6, <2>7 DEF BufferInv
<1>8. CASE WriteBuffer
  <2>1. Head(toAppend) \in Buffers /\ Tail(toAppend) \in Seq(Buffers)
    BY <1>8 DEF WriteBuffer, BufferInv, LogTypes
  <2>2. disk' \in Buffers /\ fileOpen' \in BOOLEAN
    <3>1. disk \o Head(toAppend) \in Buffers
      BY <2>1 DEF BufferInv, LogTypes, Buffers
    <3>2. fileOpen' \in BOOLEAN
      BY <1>8, Zenon DEF WriteBuffer, LogFileAppend, openAfter
    <3>3. disk' = disk \/ disk' = disk \o Head(toAppend)
      BY <1>8, Zenon DEF WriteBuffer, LogFileAppend
    <3> QED BY <3>1, <3>2, <3>3 DEF BufferInv, LogTypes
  <2>3. LogTypes'
    BY <1>8, <2>1, <2>2 DEF WriteBuffer, BufferInv, LogTypes, frontVars, histVars
  <2> QED BY <1>8, <2>3 DEF WriteBuffer, BufferInv, Started, SpareIsQueued, BuffersReturned, frontVars
<1>9. CASE Refill
  <2>1. newBuffer1' = <<>> /\ newBuffer2' = <<>> /\ buffersToWrite' = <<>> /\ pc' = "test"
    BY <1>9 DEF Refill, reset, BufferInv, LogTypes, Empties
  <2>2. /\ pc = "write" /\ toAppend = <<>>
        /\ UNCHANGED <<frontVars, running_, toAppend, fileVars, main, histVars>>
    BY <1>9 DEF Refill
  <2> QED BY <2>1, <2>2 DEF BufferInv, LogTypes, Started, SpareIsQueued, BuffersReturned, Empties,
                            frontVars, fileVars, histVars
<1>10. CASE UNCHANGED vars
  BY <1>10 DEF vars, BufferInv, LogTypes, Started, SpareIsQueued, BuffersReturned,
               frontVars, backVars, fileVars, histVars
<1>11. CASE LockAndSwap \/ WaitEnds
  BY <1>7, <1>11 DEF LockAndSwap, WaitEnds
<1> QED BY <1>1, <1>2, <1>3, <1>4, <1>5, <1>6, <1>8, <1>9, <1>10, <1>11 DEF Next, ThreadStep

LEMMA InitBuffers == Init => BufferInv
<1> SUFFICES ASSUME Init PROVE BufferInv
  OBVIOUS
<1>1. <<>> \in Buffers /\ <<>> \in Seq(Buffers) /\ NULL # <<>>
  BY EmptyBuffer
<1>2. LogTypes
  BY <1>1 DEF Init, LogTypes, Empties
<1>3. Started /\ SpareIsQueued /\ BuffersReturned
  BY <1>1 DEF Init, Started, SpareIsQueued, BuffersReturned
<1> QED BY <1>2, <1>3 DEF BufferInv

(* The assertions at the head of the loop hold in every round, whatever    *)
(* the number of records and buffers: the thread has both of its buffers   *)
(* back, and there is always one to take back (AsyncLogging.cpp:68-105).   *)
THEOREM BuffersReturnedHolds == Spec => []BuffersReturned
<1>1. BufferInv => BuffersReturned
  BY DEF BufferInv
<1> QED BY <1>1, InitBuffers, BufferStep, PTL DEF Spec

-----------------------------------------------------------------------------
(* What the steps do to the records of Whole, on sequences in general.     *)
LEMMA FlattenType ==
  ASSUME NEW S, NEW s, s \in Seq(Seq(S))
  PROVE  FlattenSeq(s) \in Seq(S)
<1>1. <<>> \in Seq(S)
  OBVIOUS
<1> QED BY <1>1, FlattenAppend, Zenon

LEMMA FlattenEmpty == FlattenSeq(<<>>) = <<>>
BY DEF FlattenSeq

(* A record is put at the end; the buffer before it is queued.             *)
LEMMA PutRearranges ==
  ASSUME NEW S, NEW d \in Seq(S), NEW a \in Seq(S), NEW b \in Seq(S), NEW c \in Seq(S), NEW r \in S
  PROVE  /\ Cat(d, Cat(Cat(a, b), Push(c, r))) = Push(Cat(d, Cat(Cat(a, b), c)), r)
         /\ Cat(d, Cat(Cat(a, Cat(b, c)), Push(<<>>, r))) = Push(Cat(d, Cat(Cat(a, b), c)), r)
<1>1. /\ Cat(a, b) \in Seq(S) /\ Cat(b, c) \in Seq(S) /\ <<>> \in Seq(S)
      /\ Cat(Cat(a, b), c) \in Seq(S)
  BY CatType
<1>2. /\ Push(Cat(d, Cat(Cat(a, b), c)), r) = Cat(d, Push(Cat(Cat(a, b), c), r))
      /\ Push(Cat(Cat(a, b), c), r) = Cat(Cat(a, b), Push(c, r))
  BY <1>1, CatAppend
<1>3. Cat(Cat(a, b), c) = Cat(a, Cat(b, c))
  BY CatAssociative
<1>4. Cat(a, Cat(b, c)) \in Seq(S)
  BY <1>1, CatType
<1>5. Cat(Cat(a, Cat(b, c)), Push(<<>>, r)) = Push(Cat(Cat(a, Cat(b, c)), <<>>), r)
  <2>1. \A x, y \in Seq(S) : Push(Cat(x, y), r) = Cat(x, Push(y, r))
    BY CatAppend
  <2> QED BY <1>1, <1>4, <2>1, Zenon
<1>6. Cat(Cat(a, Cat(b, c)), <<>>) = Cat(a, Cat(b, c))
  BY <1>4, CatEmpty
<1> QED BY <1>2, <1>3, <1>5, <1>6

(* All that is queued is taken.                                            *)
LEMMA SwapRearranges ==
  ASSUME NEW S, NEW b \in Seq(S), NEW c \in Seq(S)
  PROVE  Cat(Cat(Cat(b, c), <<>>), <<>>) = Cat(Cat(<<>>, b), c)
<1>1. Cat(b, c) \in Seq(S)
  BY CatType
<1> QED BY <1>1, CatEmpty

(* The first buffer that is being written goes to the file.                *)
LEMMA WriteRearranges ==
  ASSUME NEW S, NEW d \in Seq(S), NEW h \in Seq(S), NEW a \in Seq(S), NEW b \in Seq(S),
         NEW c \in Seq(S)
  PROVE  Cat(Cat(d, h), Cat(Cat(a, b), c)) = Cat(d, Cat(Cat(Cat(h, a), b), c))
<1>1. Cat(a, b) \in Seq(S) /\ Cat(Cat(a, b), c) \in Seq(S)
  BY CatType
<1>2. Cat(Cat(d, h), Cat(Cat(a, b), c)) = Cat(d, Cat(h, Cat(Cat(a, b), c)))
  BY <1>1, CatAssociative
<1>3. Cat(Cat(h, a), b) = Cat(h, Cat(a, b))
  BY CatAssociative
<1>4. Cat(Cat(h, Cat(a, b)), c) = Cat(h, Cat(Cat(a, b), c))
  BY <1>1, CatAssociative
<1> QED BY <1>2, <1>3, <1>4

LEMMA FlattenedTypes ==
  ASSUME LogTypes
  PROVE  FlattenSeq(toAppend) \in Seq(Records) /\ FlattenSeq(buffers_) \in Seq(Records)
BY FlattenType DEF LogTypes, Buffers

-----------------------------------------------------------------------------
(* Nothing is lost between append() and the file.                          *)
LEMMA WholeStep == BufferInv /\ WholeLog /\ [Next]_vars => WholeLog'
<1> SUFFICES ASSUME BufferInv, WholeLog, [Next]_vars, (fileOpen \/ pc = "unstarted")'
             PROVE  Whole' = logged'
  BY DEF WholeLog
<1> DEFINE a == FlattenSeq(toAppend)
           b == FlattenSeq(buffers_)
<1>t. /\ a \in Seq(Records) /\ b \in Seq(Records) /\ currentBuffer_ \in Seq(Records)
      /\ disk \in Seq(Records)
  BY FlattenedTypes DEF BufferInv, LogTypes, Buffers
<1> HIDE DEF a, b
<1>w. Whole = Cat(disk, Cat(Cat(a, b), currentBuffer_))
  BY DEF Whole, a, b
<1>1. ASSUME NEW r \in Records, append(r) PROVE Whole' = logged'
  <2>1. Whole = logged /\ logged' = Append(logged, r) /\ UNCHANGED <<disk, toAppend>>
    BY <1>1 DEF append, WholeLog, fileVars, backVars
  <2>2. CASE currentBuffer_' = Append(currentBuffer_, r) /\ UNCHANGED <<nextBuffer_, buffers_>>
    <3>1. Whole' = Cat(disk, Cat(Cat(a, b), Push(currentBuffer_, r)))
      BY <2>1, <2>2 DEF Whole, a, b, Push
    <3>2. Whole' = Push(Whole, r)
      BY <1>t, <1>w, <3>1, PutRearranges
    <3> QED BY <2>1, <3>2 DEF Push
  <2>3. CASE currentBuffer_' = Append(<<>>, r) /\ buffers_' = Append(buffers_, currentBuffer_)
    <3>1. FlattenSeq(buffers_') = Cat(b, currentBuffer_)
      BY <2>3, FlattenAppend DEF BufferInv, LogTypes, Buffers, b
    <3>2. Whole' = Cat(disk, Cat(Cat(a, Cat(b, currentBuffer_)), Push(<<>>, r)))
      BY <2>1, <2>3, <3>1 DEF Whole, a, Push
    <3>3. Whole' = Push(Whole, r)
      BY <1>t, <1>w, <3>2, PutRearranges
    <3> QED BY <2>1, <3>3 DEF Push
  <2> QED BY <1>1, <2>2, <2>3, AppendEffect DEF BufferInv
<1>2. ASSUME pc \in {"lock", "waiting"}, swapBuffers, UNCHANGED <<running_, fileVars, main, histVars>>
      PROVE  Whole' = logged'
  <2>1. newBuffer1 = <<>> /\ toAppend = <<>>
    BY <1>2 DEF BufferInv, BuffersReturned, Started
  <2>2. Whole = logged /\ UNCHANGED <<disk, logged>>
    BY <1>2 DEF swapBuffers, WholeLog, fileVars, histVars
  <2>3. FlattenSeq(toAppend') = Cat(b, currentBuffer_)
    BY <1>2, FlattenAppend DEF swapBuffers, allBuffers, BufferInv, LogTypes, Buffers, b
  <2>4. Whole' = Cat(disk, Cat(Cat(Cat(b, currentBuffer_), <<>>), <<>>))
    BY <1>2, <2>1, <2>2, <2>3, FlattenEmpty DEF swapBuffers, Whole
  <2>5. a = <<>>
    BY <2>1, FlattenEmpty DEF a
  <2> QED BY <1>t, <1>w, <2>2, <2>4, <2>5, SwapRearranges
<1>3. CASE WriteBuffer
  <2>1. fileOpen
    BY <1>3, Zenon DEF WriteBuffer, LogFileAppend, openAfter
  <2>2. disk' = Cat(disk, Head(toAppend))
    BY <1>3, Zenon DEF WriteBuffer, LogFileAppend, Cat
  <2>3. Whole = logged /\ toAppend' = Tail(toAppend) /\ UNCHANGED <<buffers_, currentBuffer_, logged>>
    BY <1>3, <2>1 DEF WriteBuffer, WholeLog, frontVars, histVars
  <2>4. toAppend \in Seq(Seq(Records)) /\ toAppend # <<>>
    BY <1>3 DEF WriteBuffer, BufferInv, LogTypes, Buffers
  <2>5. Head(toAppend) \in Seq(Records) /\ Tail(toAppend) \in Seq(Seq(Records))
    BY <2>4
  <2>6. a = Cat(Head(toAppend), FlattenSeq(toAppend')) /\ FlattenSeq(toAppend') \in Seq(Records)
    BY <2>3, <2>4, <2>5, FlattenTail, FlattenType DEF a
  <2>7. Whole' = Cat(Cat(disk, Head(toAppend)), Cat(Cat(FlattenSeq(toAppend'), b), currentBuffer_))
    BY <2>2, <2>3 DEF Whole, b
  <2>8. PICK h, rest : h = Head(toAppend) /\ rest = FlattenSeq(toAppend')
    OBVIOUS
  <2>9. h \in Seq(Records) /\ rest \in Seq(Records)
    BY <2>5, <2>6, <2>8
  <2>10. Whole' = Cat(Cat(disk, h), Cat(Cat(rest, b), currentBuffer_)) /\ a = Cat(h, rest)
    BY <2>6, <2>7, <2>8
  <2>11. Whole' = Cat(disk, Cat(Cat(a, b), currentBuffer_))
    BY <1>t, <2>9, <2>10, WriteRearranges
  <2> QED BY <1>w, <2>3, <2>11
<1>4. ASSUME UNCHANGED <<disk, toAppend, buffers_, currentBuffer_, logged>>,
             fileOpen \/ pc = "unstarted"
      PROVE  Whole' = logged'
  BY <1>4 DEF Whole, WholeLog
<1>5. CASE Start
  BY <1>4, <1>5 DEF Start, BufferInv, Started, frontVars, histVars
<1>6. CASE Stop \/ Join
  BY <1>4, <1>6 DEF Stop, Join, frontVars, backVars, fileVars, histVars
<1>7. CASE TestRunning \/ LockAndWait
  BY <1>4, <1>7 DEF TestRunning, LockAndWait, frontVars, backVars, fileVars, histVars
<1>8. CASE Refill
  BY <1>4, <1>8 DEF Refill, frontVars, fileVars, histVars
<1>9. CASE LockAndSwap \/ WaitEnds
  BY <1>2, <1>9 DEF LockAndSwap, WaitEnds
<1>10. CASE UNCHANGED vars
  BY <1>4, <1>10 DEF vars, frontVars, backVars, fileVars, histVars
<1> QED BY <1>1, <1>3, <1>5, <1>6, <1>7, <1>8, <1>9, <1>10 DEF Next, ThreadStep

(* And what is in the file is a beginning of what was appended.            *)
LEMMA GaplessStep == BufferInv /\ BufferInv' /\ WholeLog' /\ Gapless /\ [Next]_vars => Gapless'
<1> SUFFICES ASSUME BufferInv, BufferInv', WholeLog', Gapless, [Next]_vars PROVE Gapless'
  OBVIOUS
<1>0. PICK u \in Buffers : logged = Cat(disk, u)
  BY DEF Gapless
<1>1. ASSUME NEW r \in Records, append(r) PROVE Gapless'
  <2>1. logged' = Push(logged, r) /\ disk' = disk
    BY <1>1 DEF append, fileVars, Push
  <2>2. logged' = Cat(disk', Push(u, r)) /\ Push(u, r) \in Buffers
    BY <1>0, <2>1, CatAppend DEF BufferInv, LogTypes, Buffers
  <2> QED BY <2>2 DEF Gapless
<1>2. CASE WriteBuffer
  <2>1. CASE fileOpen'
    <3>1. Whole' = logged'
      BY <2>1 DEF WholeLog
    <3>2. /\ (FlattenSeq(toAppend))' \in Seq(Records) /\ (FlattenSeq(buffers_))' \in Seq(Records)
          /\ currentBuffer_' \in Seq(Records)
      <4>1. LogTypes'
        BY DEF BufferInv
      <4> QED BY <4>1, FlattenType DEF LogTypes, Buffers
    <3>3. (Cat(Cat(FlattenSeq(toAppend), FlattenSeq(buffers_)), currentBuffer_))' \in Buffers
      BY <3>2, CatType DEF Buffers
    <3> QED BY <3>1, <3>3 DEF Gapless, Whole
  <2>2. CASE ~fileOpen'
    <3>1. disk' = disk /\ logged' = logged
      BY <1>2, <2>2, Zenon DEF WriteBuffer, LogFileAppend, histVars
    <3> QED BY <1>0, <3>1 DEF Gapless
  <2> QED BY <2>1, <2>2
<1>3. CASE UNCHANGED <<disk, logged>>
  BY <1>0, <1>3 DEF Gapless
<1>4. CASE Start \/ Stop \/ Join
  BY <1>3, <1>4 DEF Start, Stop, Join, fileVars, histVars
<1>5. CASE TestRunning \/ LockAndSwap \/ LockAndWait \/ WaitEnds \/ Refill
  BY <1>3, <1>5 DEF TestRunning, LockAndSwap, LockAndWait, WaitEnds, Refill, fileVars, histVars
<1>6. CASE UNCHANGED vars
  BY <1>3, <1>6 DEF vars, fileVars, histVars
<1> QED BY <1>1, <1>2, <1>4, <1>5, <1>6 DEF Next, ThreadStep

LEMMA InitLog == Init => LogInv
<1> SUFFICES ASSUME Init PROVE LogInv
  OBVIOUS
<1>1. <<>> \in Seq(Records) /\ Cat(<<>>, <<>>) = <<>>
  BY CatEmpty, EmptyBuffer DEF Buffers
<1>2. Whole = logged
  BY <1>1, FlattenEmpty DEF Init, Whole
<1>3. Gapless
  BY <1>1 DEF Init, Gapless, Buffers
<1> QED BY <1>2, <1>3, InitBuffers DEF LogInv, WholeLog

LEMMA LogInvariant == Spec => []LogInv
<1>1. LogInv /\ [Next]_vars => LogInv'
  BY BufferStep, WholeStep, GaplessStep DEF LogInv
<1> QED BY <1>1, InitLog, PTL DEF Spec

LEMMA CatPrefix ==
  ASSUME NEW S, NEW s \in Seq(S), NEW u \in Seq(S)
  PROVE  IsPrefix(s, Cat(s, u))
<1>1. PICK t : t = s \o u
  OBVIOUS
<1>2. /\ t \in Seq(S) /\ Len(s) \in Nat /\ Len(t) \in Nat /\ Len(s) <= Len(t)
      /\ \A i \in 1..Len(s) : t[i] = s[i] /\ s[i] \in S
  BY <1>1
<1>3. SubSeq(s, 1, Len(s)) = SubSeq(t, 1, Len(s))
  BY <1>2
<1> QED BY <1>1, <1>2, <1>3 DEF IsPrefix, Cat

(* The log is a beginning of the records appended, also after a roll that  *)
(* could not open the new file, and as long as the file is open the        *)
(* buffered records are the rest, in the order of append(), for any        *)
(* records and any buffer size (AsyncLogging.cpp:24-110, LogFile.cpp).     *)
THEOREM LogOrderHolds == Spec => []LogOrder
<1>1. LogInv => IsPrefix(disk, logged)
  BY CatPrefix DEF LogInv, BufferInv, LogTypes, Gapless, Buffers
<1>2. ASSUME LogInv, fileOpen PROVE disk \o Buffered = logged
  <2>1. Whole = logged
    BY <1>2 DEF LogInv, WholeLog
  <2> QED BY <2>1, Zenon DEF Whole, Buffered, Cat
<1>3. LogInv => LogOrder
  BY <1>1, <1>2 DEF LogOrder
<1> QED BY <1>3, LogInvariant, PTL
=============================================================================
