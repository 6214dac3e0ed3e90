---------------------------- MODULE BufferProofs ----------------------------
(***************************************************************************)
(* Proofs about Buffer for every alphabet and all sizes: the indices stay  *)
(* inside the vector, the vector's size is bounded, and the content        *)
(* behaves as a queue of bytes.                                            *)
(***************************************************************************)
EXTENDS Buffer, TLAPS

(* A Buffer between two calls: typed, with its indices in order.           *)
WellFormed(b) ==
  /\ b \in [buffer_ : Seq(Byte), readIndex_ : Nat, writeIndex_ : Nat]
  /\ b.readIndex_ <= b.writeIndex_
  /\ b.writeIndex_ <= Len(b.buffer_)
  /\ kCheapPrepend <= Len(b.buffer_)

(* A chunk is a byte string of at most MaxChunk bytes.                     *)
LEMMA ChunkType ==
  ASSUME NEW data \in Chunks
  PROVE  data \in Seq(Byte) /\ Len(data) \in Nat /\ Len(data) <= MaxChunk
  BY SizeAssumption DEF Chunks, SizeAssumption

(* What a function over an initial interval is as a sequence.              *)
LEMMA FunctionIsSequence ==
  ASSUME NEW n \in Nat, NEW S, NEW f, f \in [1..n -> S]
  PROVE  f \in Seq(S) /\ Len(f) = n /\ DOMAIN f = 1..n
  OBVIOUS

(* std::copy into the vector keeps its length and everything around the    *)
(* bytes it writes.                                                        *)
LEMMA StoreFacts ==
  ASSUME NEW mem \in Seq(Byte), NEW at \in Nat, NEW data \in Seq(Byte)
  PROVE  /\ Store(mem, at, data) \in Seq(Byte)
         /\ Len(Store(mem, at, data)) = Len(mem)
         /\ \A i \in 1..Len(mem) :
              Store(mem, at, data)[i] =
                IF i \in at + 1 .. at + Len(data) THEN data[i - at] ELSE mem[i]
<1>1. Len(mem) \in Nat /\ Len(data) \in Nat
  OBVIOUS
<1>2. \A i \in 1..Len(mem) :
        (IF i \in at + 1 .. at + Len(data) THEN data[i - at] ELSE mem[i]) \in Byte
  BY <1>1
<1>3. Store(mem, at, data) \in [1..Len(mem) -> Byte]
  BY <1>2 DEF Store
<1>4. QED
  BY <1>1, <1>3, FunctionIsSequence DEF Store

(* Two byte strings of the same length and the same bytes are the same.    *)
LEMMA SameSequence ==
  ASSUME NEW S, NEW s \in Seq(S), NEW u \in Seq(S), Len(s) = Len(u),
         \A i \in 1..Len(s) : s[i] = u[i]
  PROVE  s = u
  OBVIOUS

(* The content of a well-formed Buffer is a byte string.                   *)
LEMMA ContentType ==
  ASSUME NEW b, WellFormed(b)
  PROVE  /\ readableBytes(b) \in Nat
         /\ ContentOf(b) \in Seq(Byte)
         /\ Len(ContentOf(b)) = readableBytes(b)
         /\ \A i \in 1..readableBytes(b) : ContentOf(b)[i] = b.buffer_[b.readIndex_ + i]
<1>1. readableBytes(b) \in Nat
  BY DEF WellFormed, readableBytes
<1>2. \A i \in 1..readableBytes(b) : b.buffer_[b.readIndex_ + i] \in Byte
  BY DEF WellFormed, readableBytes
<1>3. ContentOf(b) \in [1..readableBytes(b) -> Byte]
  BY <1>2 DEF ContentOf
<1>4. QED
  BY <1>1, <1>3, FunctionIsSequence DEF ContentOf

(* resize() keeps the bytes that were there.                               *)
LEMMA EnlargeFacts ==
  ASSUME NEW b, WellFormed(b), NEW len \in Nat, writableBytes(b) < len
  PROVE  /\ WellFormed(Enlarge(b, len))
         /\ writableBytes(Enlarge(b, len)) = len
         /\ readableBytes(Enlarge(b, len)) = readableBytes(b)
         /\ ContentOf(Enlarge(b, len)) = ContentOf(b)
         /\ Len(Enlarge(b, len).buffer_) = b.writeIndex_ + len
<1> DEFINE e == Enlarge(b, len)
           n == b.writeIndex_ + len
<1>1. /\ b.buffer_ \in Seq(Byte) /\ Len(b.buffer_) \in Nat /\ n \in Nat
      /\ b.writeIndex_ \in Nat /\ b.readIndex_ \in Nat
      /\ Len(b.buffer_) < n
  BY DEF WellFormed, writableBytes
<1>2. \A i \in 1..n : (IF i \in 1..Len(b.buffer_) THEN b.buffer_[i] ELSE Zero) \in Byte
  BY <1>1, ByteAssumption DEF ByteAssumption
<1>3. Resize(b.buffer_, n) \in [1..n -> Byte]
  BY <1>2 DEF Resize
<1>4. Resize(b.buffer_, n) \in Seq(Byte) /\ Len(Resize(b.buffer_, n)) = n
  BY <1>1, <1>3, FunctionIsSequence
<1>5. /\ e.buffer_ = Resize(b.buffer_, n)
      /\ e.readIndex_ = b.readIndex_ /\ e.writeIndex_ = b.writeIndex_
      /\ e \in [buffer_ : Seq(Byte), readIndex_ : Nat, writeIndex_ : Nat]
  BY <1>1, <1>4 DEF Enlarge, WellFormed
<1>6. WellFormed(e) /\ readableBytes(e) = readableBytes(b)
  BY <1>1, <1>4, <1>5, SizeAssumption DEF WellFormed, readableBytes, SizeAssumption
<1>7. \A i \in 1..readableBytes(b) :
        e.buffer_[e.readIndex_ + i] = b.buffer_[b.readIndex_ + i]
  BY <1>1, <1>5 DEF WellFormed, readableBytes, Resize
<1>8. ContentOf(e) = ContentOf(b)
  BY <1>6, <1>7 DEF ContentOf
<1>9. QED
  BY <1>1, <1>4, <1>5, <1>6, <1>8 DEF writableBytes

(* Moving the content down to kCheapPrepend keeps it.                      *)
LEMMA CompactFacts ==
  ASSUME NEW b, WellFormed(b), kCheapPrepend <= b.readIndex_
  PROVE  /\ WellFormed(Compact(b))
         /\ writableBytes(Compact(b)) =
              writableBytes(b) + prependableBytes(b) - kCheapPrepend
         /\ readableBytes(Compact(b)) = readableBytes(b)
         /\ ContentOf(Compact(b)) = ContentOf(b)
         /\ Len(Compact(b).buffer_) = Len(b.buffer_)
<1> DEFINE k == kCheapPrepend
           m == Copy(b.buffer_, b.readIndex_, b.writeIndex_, k)
           c == Compact(b)
<1>1. /\ b.buffer_ \in Seq(Byte) /\ Len(b.buffer_) \in Nat /\ k \in Nat
      /\ b.writeIndex_ \in Nat /\ b.readIndex_ \in Nat
      /\ b.readIndex_ <= b.writeIndex_ /\ b.writeIndex_ <= Len(b.buffer_)
  BY SizeAssumption DEF WellFormed, SizeAssumption
<1>2. \A i \in 1..Len(b.buffer_) :
        m[i] = IF i \in k + 1 .. k + (b.writeIndex_ - b.readIndex_)
               THEN b.buffer_[b.readIndex_ + (i - k)] ELSE b.buffer_[i]
  BY <1>1 DEF Copy
<1>3. \A i \in 1..Len(b.buffer_) : m[i] \in Byte
  <2>1. TAKE i \in 1..Len(b.buffer_)
  <2>2. CASE i \in k + 1 .. k + (b.writeIndex_ - b.readIndex_)
    <3>1. b.readIndex_ + (i - k) \in 1..Len(b.buffer_)
      BY <1>1, <2>2
    <3>2. QED
      BY <1>1, <1>2, <2>2, <3>1, SMTT(30)
  <2>3. CASE i \notin k + 1 .. k + (b.writeIndex_ - b.readIndex_)
    BY <1>1, <1>2, <2>3
  <2>4. QED
    BY <2>2, <2>3
<1>4. m \in [1..Len(b.buffer_) -> Byte]
  <2>1. m = [i \in 1..Len(b.buffer_) |-> m[i]]
    BY DEF Copy
  <2>2. QED
    BY <1>3, <2>1
<1>5. m \in Seq(Byte) /\ Len(m) = Len(b.buffer_)
  BY <1>1, <1>4, FunctionIsSequence
<1>6. /\ c.buffer_ = m /\ c.readIndex_ = k
      /\ c.writeIndex_ = k + (b.writeIndex_ - b.readIndex_)
      /\ c \in [buffer_ : Seq(Byte), readIndex_ : Nat, writeIndex_ : Nat]
  BY <1>1, <1>5 DEF Compact, readableBytes
<1>7. WellFormed(c) /\ readableBytes(c) = readableBytes(b)
  BY <1>1, <1>5, <1>6 DEF WellFormed, readableBytes
<1>8. \A i \in 1..readableBytes(b) :
        c.buffer_[c.readIndex_ + i] = b.buffer_[b.readIndex_ + i]
  <2>1. TAKE i \in 1..readableBytes(b)
  <2>2. /\ k + i \in 1..Len(b.buffer_)
        /\ k + i \in k + 1 .. k + (b.writeIndex_ - b.readIndex_)
        /\ (k + i) - k = i
    BY <1>1 DEF readableBytes
  <2>3. QED
    BY <1>2, <1>6, <2>2
<1>9. ContentOf(c) = ContentOf(b)
  BY <1>7, <1>8 DEF ContentOf
<1>10. QED
  BY <1>1, <1>5, <1>6, <1>7, <1>9, SMTT(30) DEF writableBytes, prependableBytes
-----------------------------------------------------------------------------
(* makeSpace() makes room and keeps the content; if it enlarges the vector *)
(* then there was little to gain by moving the content.                    *)
LEMMA MakeSpaceFacts ==
  ASSUME NEW b, WellFormed(b), NEW len \in Nat, writableBytes(b) < len
  PROVE  /\ WellFormed(makeSpace(b, len))
         /\ writableBytes(makeSpace(b, len)) >= len
         /\ readableBytes(makeSpace(b, len)) = readableBytes(b)
         /\ ContentOf(makeSpace(b, len)) = ContentOf(b)
         /\ \/ Len(makeSpace(b, len).buffer_) = Len(b.buffer_)
            \/ Len(makeSpace(b, len).buffer_) <= kCheapPrepend + readableBytes(b) + len + len
<1>1. /\ Len(b.buffer_) \in Nat /\ kCheapPrepend \in Nat
      /\ b.writeIndex_ \in Nat /\ b.readIndex_ \in Nat
      /\ b.readIndex_ <= b.writeIndex_ /\ b.writeIndex_ <= Len(b.buffer_)
  BY SizeAssumption DEF WellFormed, SizeAssumption
<1>2. CASE writableBytes(b) + prependableBytes(b) < len + kCheapPrepend
  <2>1. makeSpace(b, len) = Enlarge(b, len)
    BY <1>2 DEF makeSpace
  <2>2. b.writeIndex_ + len <= kCheapPrepend + readableBytes(b) + len + len
    BY <1>1, <1>2 DEF writableBytes, prependableBytes, readableBytes
  <2>3. QED
    BY <2>1, <2>2, EnlargeFacts
<1>3. CASE ~(writableBytes(b) + prependableBytes(b) < len + kCheapPrepend)
  <2>1. makeSpace(b, len) = Compact(b)
    BY <1>3 DEF makeSpace
  <2>2. /\ kCheapPrepend <= b.readIndex_
        /\ writableBytes(b) + prependableBytes(b) - kCheapPrepend >= len
    BY <1>1, <1>3 DEF writableBytes, prependableBytes
  <2>3. QED
    BY <2>1, <2>2, CompactFacts
<1>4. QED
  BY <1>2, <1>3

(* Bytes stored at the write index follow the content.                     *)
LEMMA FilledFacts ==
  ASSUME NEW b, WellFormed(b), NEW data \in Seq(Byte), Len(data) <= writableBytes(b)
  PROVE  /\ WellFormed(Filled(b, data))
         /\ ContentOf(Filled(b, data)) = ContentOf(b) \o data
         /\ readableBytes(Filled(b, data)) = readableBytes(b) + Len(data)
         /\ Len(Filled(b, data).buffer_) = Len(b.buffer_)
<1> DEFINE f == Filled(b, data)
           s == Store(b.buffer_, b.writeIndex_, data)
<1>1. /\ b.buffer_ \in Seq(Byte) /\ Len(b.buffer_) \in Nat /\ Len(data) \in Nat
      /\ b.writeIndex_ \in Nat /\ b.readIndex_ \in Nat
      /\ b.readIndex_ <= b.writeIndex_
      /\ b.writeIndex_ + Len(data) <= Len(b.buffer_)
  BY DEF WellFormed, writableBytes
<1>2. /\ s \in Seq(Byte) /\ Len(s) = Len(b.buffer_)
      /\ \A i \in 1..Len(b.buffer_) :
           s[i] = IF i \in b.writeIndex_ + 1 .. b.writeIndex_ + Len(data)
                  THEN data[i - b.writeIndex_] ELSE b.buffer_[i]
  BY <1>1, StoreFacts
<1>3. /\ f.buffer_ = s /\ f.readIndex_ = b.readIndex_
      /\ f.writeIndex_ = b.writeIndex_ + Len(data)
      /\ f \in [buffer_ : Seq(Byte), readIndex_ : Nat, writeIndex_ : Nat]
  BY <1>1, <1>2 DEF Filled
<1>4. WellFormed(f) /\ readableBytes(f) = readableBytes(b) + Len(data)
  BY <1>1, <1>2, <1>3, SizeAssumption DEF WellFormed, readableBytes, SizeAssumption
<1>5. /\ ContentOf(b) \in Seq(Byte) /\ Len(ContentOf(b)) = readableBytes(b)
      /\ readableBytes(b) \in Nat
      /\ \A i \in 1..readableBytes(b) : ContentOf(b)[i] = b.buffer_[b.readIndex_ + i]
  BY ContentType
<1>6. /\ ContentOf(f) \in Seq(Byte) /\ Len(ContentOf(f)) = readableBytes(b) + Len(data)
      /\ \A i \in 1..(readableBytes(b) + Len(data)) : ContentOf(f)[i] = s[b.readIndex_ + i]
  BY <1>3, <1>4, ContentType
<1>7. \A i \in 1..(readableBytes(b) + Len(data)) :
        ContentOf(f)[i] = (ContentOf(b) \o data)[i]
  <2>1. TAKE i \in 1..(readableBytes(b) + Len(data))
  <2>2. b.readIndex_ + i \in 1..Len(b.buffer_)
    BY <1>1 DEF readableBytes
  <2>3. CASE i <= readableBytes(b)
    <3>1. s[b.readIndex_ + i] = b.buffer_[b.readIndex_ + i]
      <4>1. b.readIndex_ + i \notin b.writeIndex_ + 1 .. b.writeIndex_ + Len(data)
        BY <1>1, <2>3 DEF readableBytes
      <4>2. QED
        BY <1>2, <2>2, <4>1
    <3>2. (ContentOf(b) \o data)[i] = ContentOf(b)[i]
      BY <1>1, <1>5, <2>3
    <3>3. QED
      BY <1>5, <1>6, <2>3, <3>1, <3>2
  <2>4. CASE ~(i <= readableBytes(b))
    <3>1. s[b.readIndex_ + i] = data[i - readableBytes(b)]
      <4>1. (b.readIndex_ + i) - b.writeIndex_ = i - readableBytes(b)
        BY <1>1 DEF readableBytes
      <4>2. b.readIndex_ + i \in b.writeIndex_ + 1 .. b.writeIndex_ + Len(data)
        BY <1>1, <2>4 DEF readableBytes
      <4>3. QED
        BY <1>2, <2>2, <4>1, <4>2
    <3>2. (ContentOf(b) \o data)[i] = data[i - readableBytes(b)]
      BY <1>1, <1>5, <2>4, SMTT(30)
    <3>3. QED
      BY <1>6, <3>1, <3>2
  <2>5. QED
    BY <2>3, <2>4
<1>8. ContentOf(f) = ContentOf(b) \o data
  <2>1. Len(ContentOf(b) \o data) = Len(ContentOf(b)) + Len(data)
    BY <1>5
  <2>2. ContentOf(b) \o data \in Seq(Byte)
    BY <1>5
  <2>3. QED
    BY <1>5, <1>6, <1>7, <2>1, <2>2, SameSequence
<1>9. QED
  BY <1>2, <1>3, <1>4, <1>8

(* append() appends, and bounds the growth of the vector.                  *)
LEMMA AppendedFacts ==
  ASSUME NEW b, WellFormed(b), NEW data \in Seq(Byte)
  PROVE  /\ WellFormed(Appended(b, data))
         /\ ContentOf(Appended(b, data)) = ContentOf(b) \o data
         /\ readableBytes(Appended(b, data)) = readableBytes(b) + Len(data)
         /\ \/ Len(Appended(b, data).buffer_) = Len(b.buffer_)
            \/ Len(Appended(b, data).buffer_)
                 <= kCheapPrepend + readableBytes(b) + Len(data) + Len(data)
<1> DEFINE m == IF writableBytes(b) < Len(data) THEN makeSpace(b, Len(data)) ELSE b
<1>1. Len(data) \in Nat /\ writableBytes(b) \in Int
  BY DEF WellFormed, writableBytes
<1>2. /\ WellFormed(m) /\ Len(data) <= writableBytes(m)
      /\ ContentOf(m) = ContentOf(b) /\ readableBytes(m) = readableBytes(b)
      /\ \/ Len(m.buffer_) = Len(b.buffer_)
         \/ Len(m.buffer_) <= kCheapPrepend + readableBytes(b) + Len(data) + Len(data)
  <2>1. CASE writableBytes(b) < Len(data)
    <3>1. m = makeSpace(b, Len(data))
      BY <2>1
    <3>2. WellFormed(m) /\ writableBytes(m) \in Int /\ writableBytes(m) >= Len(data)
      BY <1>1, <2>1, <3>1, MakeSpaceFacts DEF WellFormed, writableBytes
    <3>3. QED
      BY <1>1, <2>1, <3>1, <3>2, MakeSpaceFacts
  <2>2. CASE ~(writableBytes(b) < Len(data))
    BY <1>1, <2>2
  <2>3. QED
    BY <2>1, <2>2
<1>3. Appended(b, data) = Filled(m, data)
  BY DEF Appended
<1> HIDE DEF m
<1>4. QED
  BY <1>2, <1>3, FilledFacts
-----------------------------------------------------------------------------
(* The inductive invariant.                                                *)
Inv == TypeOK /\ IndexOrder /\ CapacityBounded

(* The invariant makes the Buffer well formed and gives its content a type.*)
LEMMA InvFacts ==
  ASSUME Inv
  PROVE  WellFormed(buf) /\ Content \in Seq(Byte) /\ Len(Content) = readableBytes(buf)
                         /\ readableBytes(buf) \in Nat
<1>1. WellFormed(buf)
  BY DEF Inv, TypeOK, IndexOrder, WellFormed
<1>2. QED
  BY <1>1, ContentType DEF Content

(* A well-formed Buffer of bounded size is what the invariant asks for.    *)
LEMMA InvIntro ==
  ASSUME Inv, WellFormed(buf'),
         \/ Len(buf'.buffer_) = Len(buf.buffer_)
         \/ Len(buf'.buffer_) <= kCheapPrepend + MaxReadable + MaxChunk,
         call' \in [op : {"none", "back", "front", "take"}, data : Seq(Byte)]
  PROVE  Inv'
  BY DEF Inv, TypeOK, IndexOrder, CapacityBounded, WellFormed

(* retrieve() of less than is readable drops the front of the content.     *)
LEMMA RetrieveFacts ==
  ASSUME NEW b, WellFormed(b), NEW len \in Nat, len < readableBytes(b)
  PROVE  LET r == [b EXCEPT !.readIndex_ = b.readIndex_ + len] IN
         /\ WellFormed(r)
         /\ r.buffer_ = b.buffer_
         /\ ContentOf(r) = SubSeq(ContentOf(b), len + 1, Len(ContentOf(b)))
<1> DEFINE r == [b EXCEPT !.readIndex_ = b.readIndex_ + len]
           c == SubSeq(ContentOf(b), len + 1, Len(ContentOf(b)))
<1>1. /\ b.buffer_ \in Seq(Byte) /\ Len(b.buffer_) \in Nat
      /\ b.writeIndex_ \in Nat /\ b.readIndex_ \in Nat
      /\ b.readIndex_ + len <= b.writeIndex_
  BY DEF WellFormed, readableBytes
<1>2. /\ r.buffer_ = b.buffer_ /\ r.writeIndex_ = b.writeIndex_
      /\ r.readIndex_ = b.readIndex_ + len
      /\ r \in [buffer_ : Seq(Byte), readIndex_ : Nat, writeIndex_ : Nat]
  BY <1>1 DEF WellFormed
<1>3. WellFormed(r) /\ readableBytes(r) = readableBytes(b) - len
  BY <1>1, <1>2 DEF WellFormed, readableBytes
<1>4. /\ ContentOf(b) \in Seq(Byte) /\ Len(ContentOf(b)) = readableBytes(b)
      /\ readableBytes(b) \in Nat
      /\ \A i \in 1..readableBytes(b) : ContentOf(b)[i] = b.buffer_[b.readIndex_ + i]
  BY ContentType
<1>5. /\ ContentOf(r) \in Seq(Byte) /\ Len(ContentOf(r)) = readableBytes(b) - len
      /\ \A i \in 1..(readableBytes(b) - len) :
           ContentOf(r)[i] = b.buffer_[b.readIndex_ + len + i]
  BY <1>2, <1>3, ContentType
<1>6. /\ c \in Seq(Byte) /\ Len(c) = readableBytes(b) - len
      /\ \A i \in 1..(readableBytes(b) - len) : c[i] = ContentOf(b)[len + i]
  BY <1>4
<1>7. \A i \in 1..(readableBytes(b) - len) : ContentOf(r)[i] = c[i]
  <2>1. TAKE i \in 1..(readableBytes(b) - len)
  <2>2. len + i \in 1..readableBytes(b)
    BY <1>4
  <2>3. b.readIndex_ + (len + i) = b.readIndex_ + len + i
    BY <1>1
  <2>4. QED
    BY <1>4, <1>5, <1>6, <2>2, <2>3
<1>8. ContentOf(r) = c
  BY <1>5, <1>6, <1>7, SameSequence
<1>9. QED
  BY <1>2, <1>3, <1>8

(* retrieveAll() leaves an empty Buffer.                                   *)
LEMMA RetrievedAllFacts ==
  ASSUME NEW b, WellFormed(b)
  PROVE  /\ WellFormed(RetrievedAll(b))
         /\ RetrievedAll(b).buffer_ = b.buffer_
         /\ ContentOf(RetrievedAll(b)) = <<>>
<1> DEFINE r == RetrievedAll(b)
<1>1. WellFormed(r) /\ r.buffer_ = b.buffer_ /\ readableBytes(r) = 0
  BY SizeAssumption DEF WellFormed, RetrievedAll, readableBytes, SizeAssumption
<1>2. ContentOf(r) \in Seq(Byte) /\ Len(ContentOf(r)) = 0
  BY <1>1, ContentType
<1>3. QED
  BY <1>1, <1>2

(* prepend() puts data in front of the content.                            *)
LEMMA PrefixedFacts ==
  ASSUME NEW b, WellFormed(b), NEW data \in Seq(Byte), Len(data) <= prependableBytes(b)
  PROVE  /\ WellFormed(Prefixed(b, data))
         /\ Len(Prefixed(b, data).buffer_) = Len(b.buffer_)
         /\ ContentOf(Prefixed(b, data)) = data \o ContentOf(b)
<1> DEFINE p == Prefixed(b, data)
           at == b.readIndex_ - Len(data)
           s == Store(b.buffer_, at, data)
           n == Len(data) + readableBytes(b)
<1>1. /\ b.buffer_ \in Seq(Byte) /\ Len(b.buffer_) \in Nat /\ Len(data) \in Nat
      /\ b.writeIndex_ \in Nat /\ b.readIndex_ \in Nat /\ at \in Nat
      /\ b.readIndex_ <= b.writeIndex_ /\ b.writeIndex_ <= Len(b.buffer_)
  BY DEF WellFormed, prependableBytes
<1>2. /\ s \in Seq(Byte) /\ Len(s) = Len(b.buffer_)
      /\ \A i \in 1..Len(b.buffer_) :
           s[i] = IF i \in at + 1 .. at + Len(data) THEN data[i - at] ELSE b.buffer_[i]
  BY <1>1, StoreFacts, SMTT(30)
<1>3. /\ p.buffer_ = s /\ p.readIndex_ = at /\ p.writeIndex_ = b.writeIndex_
      /\ p \in [buffer_ : Seq(Byte), readIndex_ : Nat, writeIndex_ : Nat]
  BY <1>1, <1>2 DEF Prefixed
<1>4. WellFormed(p) /\ readableBytes(p) = n
  BY <1>1, <1>2, <1>3 DEF WellFormed, readableBytes
<1>5. /\ ContentOf(b) \in Seq(Byte) /\ Len(ContentOf(b)) = readableBytes(b)
      /\ readableBytes(b) \in Nat
      /\ \A i \in 1..readableBytes(b) : ContentOf(b)[i] = b.buffer_[b.readIndex_ + i]
  BY ContentType
<1>6. /\ ContentOf(p) \in Seq(Byte) /\ Len(ContentOf(p)) = n
      /\ \A i \in 1..n : ContentOf(p)[i] = s[at + i]
  BY <1>3, <1>4, ContentType
<1>7. /\ data \o ContentOf(b) \in Seq(Byte) /\ Len(data \o ContentOf(b)) = n
  BY <1>5
<1>8. \A i \in 1..n : ContentOf(p)[i] = (data \o ContentOf(b))[i]
  <2>1. TAKE i \in 1..n
  <2>2. at + i \in 1..Len(b.buffer_)
    BY <1>1, SMTT(30) DEF readableBytes
  <2>3. CASE i <= Len(data)
    <3>1. at + i \in at + 1 .. at + Len(data) /\ (at + i) - at = i
      BY <1>1, <2>3, SMTT(30)
    <3>2. s[at + i] = data[i]
      BY <1>2, <2>2, <3>1
    <3>3. (data \o ContentOf(b))[i] = data[i]
      BY <1>1, <1>5, <2>3
    <3>4. QED
      BY <1>6, <3>2, <3>3
  <2>4. CASE ~(i <= Len(data))
    <3>1. /\ at + i \notin at + 1 .. at + Len(data)
          /\ at + i = b.readIndex_ + (i - Len(data))
          /\ i - Len(data) \in 1..readableBytes(b)
      BY <1>1, <1>5, <2>4
    <3>2. s[at + i] = ContentOf(b)[i - Len(data)]
      BY <1>2, <1>5, <2>2, <3>1
    <3>3. (data \o ContentOf(b))[i] = ContentOf(b)[i - Len(data)]
      BY <1>1, <1>5, <2>4
    <3>4. QED
      BY <1>6, <3>2, <3>3
  <2>5. QED
    BY <2>3, <2>4
<1>9. ContentOf(p) = data \o ContentOf(b)
  BY <1>6, <1>7, <1>8, SameSequence
<1>10. QED
  BY <1>2, <1>3, <1>4, <1>9
-----------------------------------------------------------------------------
(* What one call does to a Buffer that satisfies the invariant: it keeps   *)
(* the invariant and is a step of the queue of bytes.                      *)

(* append() keeps the invariant and puts data at the back.                 *)
LEMMA AppendStep ==
  ASSUME Inv, NEW data \in Chunks, append(data)
  PROVE  Inv' /\ BQ!PutBack(data)
<1>1. WellFormed(buf) /\ readableBytes(buf) \in Nat
  BY InvFacts
<1>2. data \in Seq(Byte) /\ Len(data) \in Nat /\ Len(data) <= MaxChunk
  BY ChunkType
<1>3. /\ buf' = Appended(buf, data)
      /\ call' = [op |-> "back", data |-> data]
      /\ readableBytes(buf) + Len(data) <= MaxReadable
  BY DEF append, Called
<1>4. /\ WellFormed(buf') /\ Content' = Content \o data
      /\ \/ Len(buf'.buffer_) = Len(buf.buffer_)
         \/ Len(buf'.buffer_) <= kCheapPrepend + readableBytes(buf) + Len(data) + Len(data)
  BY <1>1, <1>2, <1>3, AppendedFacts DEF Content
<1>5. \/ Len(buf'.buffer_) = Len(buf.buffer_)
      \/ Len(buf'.buffer_) <= kCheapPrepend + MaxReadable + MaxChunk
  <2>1. Len(buf'.buffer_) \in Nat
    BY <1>4 DEF WellFormed
  <2>2. QED
    BY <1>1, <1>2, <1>3, <1>4, <2>1, SizeAssumption DEF SizeAssumption
<1>6. Inv'
  BY <1>2, <1>3, <1>4, <1>5, InvIntro
<1>7. QED
  BY <1>3, <1>4, <1>6 DEF BQ!PutBack, BQ!Called

(* prepend() keeps the invariant and puts data at the front.               *)
LEMMA PrependStep ==
  ASSUME Inv, NEW data \in Chunks, prepend(data)
  PROVE  Inv' /\ BQ!PutFront(data)
<1>1. WellFormed(buf)
  BY InvFacts
<1>2. data \in Seq(Byte)
  BY ChunkType
<1>3. /\ buf' = Prefixed(buf, data)
      /\ call' = [op |-> "front", data |-> data]
      /\ Len(data) <= prependableBytes(buf)
  BY DEF prepend, Called
<1>4. /\ WellFormed(buf') /\ Content' = data \o Content
      /\ Len(buf'.buffer_) = Len(buf.buffer_)
  BY <1>1, <1>2, <1>3, PrefixedFacts DEF Content
<1>5. Inv'
  BY <1>2, <1>3, <1>4, InvIntro
<1>6. QED
  BY <1>3, <1>4, <1>5 DEF BQ!PutFront, BQ!Called

(* Taking everything out is a step of the queue.                           *)
LEMMA TakeAllStep ==
  ASSUME Inv, buf' = RetrievedAll(buf), Called("take", Content)
  PROVE  Inv' /\ BQ!TakeFront(Len(Content))
<1>1. WellFormed(buf) /\ Content \in Seq(Byte)
  BY InvFacts
<1>2. WellFormed(buf') /\ buf'.buffer_ = buf.buffer_ /\ Content' = <<>>
  BY <1>1, RetrievedAllFacts DEF Content
<1>3. call' = [op |-> "take", data |-> Content]
  BY DEF Called
<1>4. Inv'
  BY <1>1, <1>2, <1>3, InvIntro
<1>5. /\ SubSeq(Content, Len(Content) + 1, Len(Content)) = <<>>
      /\ SubSeq(Content, 1, Len(Content)) = Content
  BY <1>1
<1>6. QED
  BY <1>2, <1>3, <1>4, <1>5 DEF BQ!TakeFront, BQ!Called

(* retrieve() keeps the invariant and takes bytes from the front.          *)
LEMMA RetrieveStep ==
  ASSUME Inv, NEW len \in Nat, retrieve(len)
  PROVE  Inv' /\ \E n \in 0..Len(Content) : BQ!TakeFront(n)
<1>1. /\ WellFormed(buf) /\ Content \in Seq(Byte) /\ readableBytes(buf) \in Nat
      /\ Len(Content) = readableBytes(buf)
  BY InvFacts
<1>2. CASE len < readableBytes(buf)
  <2>1. /\ buf' = [buf EXCEPT !.readIndex_ = buf.readIndex_ + len]
        /\ call' = [op |-> "take", data |-> SubSeq(Content, 1, len)]
    BY <1>2 DEF retrieve, Called
  <2>2. /\ WellFormed(buf') /\ buf'.buffer_ = buf.buffer_
        /\ Content' = SubSeq(Content, len + 1, Len(Content))
    BY <1>1, <1>2, <2>1, RetrieveFacts DEF Content
  <2>3. SubSeq(Content, 1, len) \in Seq(Byte)
    BY <1>1, <1>2
  <2>4. Inv'
    BY <2>1, <2>2, <2>3, InvIntro
  <2>5. BQ!TakeFront(len) /\ len \in 0..Len(Content)
    BY <1>1, <1>2, <2>1, <2>2 DEF BQ!TakeFront, BQ!Called
  <2>6. QED
    BY <2>4, <2>5
<1>3. CASE ~(len < readableBytes(buf))
  <2>1. buf' = RetrievedAll(buf) /\ Called("take", Content)
    BY <1>3 DEF retrieve
  <2>2. QED
    BY <1>1, <2>1, TakeAllStep
<1>4. QED
  BY <1>2, <1>3

(* The bytes of one readv(): w of them went to the vector, l to extrabuf.  *)
LEMMA SplitRead ==
  ASSUME NEW r \in Nat, NEW w \in Nat, NEW n \in Nat, NEW f, NEW l,
         NEW m \in Nat, NEW c \in Nat,
         f = r + w, l = n - w, ~(n <= w), r + n <= m, n <= c
  PROVE  /\ f + l = r + n /\ f + l <= m
         /\ f \in Nat /\ l \in Nat /\ l <= c
  OBVIOUS

(* readFd() keeps the invariant and puts all that was read at the back,    *)
(* whether it went through extrabuf or not.                                *)
LEMMA ReadFdStep ==
  ASSUME Inv, NEW data \in Chunks, readFd(data)
  PROVE  Inv' /\ BQ!PutBack(data)
<1> DEFINE d == DirectPart(data)
           x == ExtraPart(data)
           w == writableBytes(buf)
<1>1. /\ WellFormed(buf) /\ readableBytes(buf) \in Nat
      /\ Content \in Seq(Byte)
  BY InvFacts
<1>2. data \in Seq(Byte) /\ Len(data) \in Nat /\ Len(data) <= MaxChunk /\ w \in Nat
  BY <1>1, ChunkType DEF WellFormed, writableBytes
<1>3. /\ call' = [op |-> "back", data |-> data]
      /\ readableBytes(buf) + Len(data) <= MaxReadable
  BY DEF readFd, Called
<1>4. CASE Len(data) <= w
  <2>1. buf' = Filled(buf, data)
    BY <1>4 DEF readFd
  <2>2. WellFormed(buf') /\ Content' = Content \o data /\ Len(buf'.buffer_) = Len(buf.buffer_)
    BY <1>1, <1>2, <1>4, <2>1, FilledFacts DEF Content
  <2>3. Inv'
    BY <1>2, <1>3, <2>2, InvIntro
  <2>4. QED
    BY <1>3, <2>2, <2>3 DEF BQ!PutBack, BQ!Called
<1>5. CASE ~(Len(data) <= w)
  <2> DEFINE f == Filled(buf, d)
  <2>1. buf' = Appended(f, x)
    BY <1>5 DEF readFd
  <2>2. /\ d \in Seq(Byte) /\ Len(d) = w
        /\ x \in Seq(Byte) /\ Len(x) = Len(data) - w
    BY <1>2, <1>5 DEF DirectPart, ExtraPart
  <2>3. d \o x = data
    <3>1. d \o x \in Seq(Byte) /\ Len(d \o x) = Len(data)
      BY <1>2, <2>2
    <3>2. ASSUME NEW i \in 1..Len(data) PROVE (d \o x)[i] = data[i]
      <4>1. CASE i <= w
        <5>1. (d \o x)[i] = d[i]
          BY <1>2, <2>2, <4>1
        <5>2. d[i] = data[i]
          BY <1>2, <1>5, <4>1 DEF DirectPart
        <5>3. QED
          BY <5>1, <5>2
      <4>2. CASE ~(i <= w)
        <5>1. (d \o x)[i] = x[i - w]
          BY <1>2, <2>2, <4>2
        <5>2. x[i - w] = data[w + 1 + (i - w) - 1]
          BY <1>2, <1>5, <4>2, SMTT(30) DEF ExtraPart
        <5>3. w + 1 + (i - w) - 1 = i
          BY <1>2
        <5>4. QED
          BY <5>1, <5>2, <5>3
      <4>3. QED
        BY <4>1, <4>2
    <3>3. QED
      BY <1>2, <3>1, <3>2, SameSequence
  <2>4. /\ WellFormed(f) /\ ContentOf(f) = Content \o d
        /\ readableBytes(f) = readableBytes(buf) + w
        /\ Len(f.buffer_) = Len(buf.buffer_)
    BY <1>1, <1>2, <2>2, FilledFacts, SMTT(30) DEF Content
  <2>s. /\ readableBytes(f) + Len(x) <= MaxReadable
        /\ readableBytes(f) \in Nat /\ Len(x) \in Nat /\ Len(x) <= MaxChunk
    <3> HIDE DEF f, d, x, w
    <3>1. /\ MaxReadable \in Nat /\ MaxChunk \in Nat
      BY SizeAssumption DEF SizeAssumption
    <3>2. /\ readableBytes(buf) \in Nat /\ w \in Nat /\ Len(data) \in Nat
          /\ readableBytes(buf) + Len(data) <= MaxReadable /\ Len(data) <= MaxChunk
      BY <1>1, <1>2, <1>3
    <3>3. readableBytes(f) = readableBytes(buf) + w /\ Len(x) = Len(data) - w
      BY <2>2, <2>4
    <3>4. ~(Len(data) <= w)
      BY <1>5
    <3>5. QED
      BY <3>1, <3>2, <3>3, <3>4, SplitRead
  <2> HIDE DEF f, d, x, w
  <2>5. /\ WellFormed(buf') /\ Content' = (Content \o d) \o x
        /\ \/ Len(buf'.buffer_) = Len(buf.buffer_)
           \/ Len(buf'.buffer_) <= kCheapPrepend + readableBytes(f) + Len(x) + Len(x)
    BY <2>1, <2>2, <2>4, AppendedFacts DEF Content
  <2>6. (Content \o d) \o x = Content \o data
    <3>1. (Content \o d) \o x = Content \o (d \o x)
      BY <1>1, <2>2, SMTT(30)
    <3>2. QED
      BY <2>3, <3>1
  <2>7. \/ Len(buf'.buffer_) = Len(buf.buffer_)
        \/ Len(buf'.buffer_) <= kCheapPrepend + MaxReadable + MaxChunk
    <3>1. Len(buf'.buffer_) \in Nat
      BY <2>5 DEF WellFormed
    <3>2. /\ kCheapPrepend \in Nat /\ MaxReadable \in Nat /\ MaxChunk \in Nat
      BY SizeAssumption DEF SizeAssumption
    <3>3. kCheapPrepend + readableBytes(f) + Len(x) + Len(x)
            <= kCheapPrepend + MaxReadable + MaxChunk
      BY <2>s, <3>2
    <3>4. QED
      BY <2>5, <2>s, <3>1, <3>2, <3>3
  <2>8. Inv'
    BY <1>2, <1>3, <2>5, <2>7, InvIntro
  <2>9. QED
    BY <1>3, <2>5, <2>6, <2>8 DEF BQ!PutBack, BQ!Called
<1>6. QED
  BY <1>4, <1>5

(* Every call keeps the invariant and is a call of the queue of bytes.     *)
LEMMA BufferStep ==
  Inv /\ [Next]_vars => Inv' /\ [BQ!Next]_<<Content, call>>
<1> SUFFICES ASSUME Inv, [Next]_vars PROVE Inv' /\ [BQ!Next]_<<Content, call>>
  OBVIOUS
<1>1. ASSUME NEW data \in Chunks, append(data) \/ prepend(data) \/ readFd(data)
      PROVE  Inv' /\ BQ!Next
  BY <1>1, AppendStep, PrependStep, ReadFdStep DEF BQ!Next
<1>2. ASSUME NEW len \in 0..MaxReadable, retrieve(len) PROVE Inv' /\ BQ!Next
  BY <1>2, RetrieveStep, SizeAssumption DEF BQ!Next, SizeAssumption
<1>3. CASE retrieveAll
  <2>1. Inv' /\ BQ!TakeFront(Len(Content)) /\ Len(Content) \in 0..Len(Content)
    BY <1>3, TakeAllStep, InvFacts DEF retrieveAll
  <2>2. QED
    BY <2>1 DEF BQ!Next
<1>4. CASE UNCHANGED vars
  BY <1>4 DEF vars, Inv, TypeOK, IndexOrder, CapacityBounded, Content, ContentOf,
              readableBytes
<1>5. QED
  BY <1>1, <1>2, <1>3, <1>4 DEF Next

(* The empty Buffer of the constructor satisfies the invariant.            *)
LEMMA BufferInit == Init => Inv /\ BQ!Init
<1> SUFFICES ASSUME Init PROVE Inv /\ BQ!Init
  OBVIOUS
<1> DEFINE n == kCheapPrepend + kInitialSize
           z == [i \in 1..n |-> Zero]
<1>1. n \in Nat /\ kCheapPrepend \in Nat /\ kCheapPrepend <= n
  BY SizeAssumption DEF SizeAssumption
<1>2. z \in Seq(Byte) /\ Len(z) = n
  <2>1. z \in [1..n -> Byte]
    BY ByteAssumption DEF ByteAssumption
  <2>2. QED
    BY <1>1, <2>1, FunctionIsSequence
<1>3. /\ buf = [buffer_ |-> z, readIndex_ |-> kCheapPrepend, writeIndex_ |-> kCheapPrepend]
      /\ call = [op |-> "none", data |-> <<>>]
  BY DEF Init
<1> HIDE DEF z, n
<1>4. WellFormed(buf) /\ readableBytes(buf) = 0
  BY <1>1, <1>2, <1>3 DEF WellFormed, readableBytes
<1>5. Len(buf.buffer_) = kCheapPrepend + kInitialSize
  BY <1>2, <1>3 DEF n
<1>6. TypeOK
  BY <1>1, <1>2, <1>3 DEF TypeOK
<1>7. Inv
  BY <1>1, <1>4, <1>5, <1>6 DEF Inv, WellFormed, IndexOrder, CapacityBounded, n
<1>8. Content = <<>>
  BY <1>4, ContentType DEF Content
<1>9. QED
  BY <1>3, <1>7, <1>8 DEF BQ!Init, BQ!Called

(* The vector holds only bytes, the indices stay in order inside it, and   *)
(* its size is bounded, whatever the sequence of calls.                    *)
THEOREM BufferSafety == Spec => [](TypeOK /\ IndexOrder /\ CapacityBounded)
<1>1. Init => Inv
  BY BufferInit
<1>2. Inv /\ [Next]_vars => Inv'
  BY BufferStep
<1>3. Spec => []Inv
  BY <1>1, <1>2, PTL DEF Spec
<1>4. QED
  BY <1>3, PTL DEF Inv

(* The vector does not grow with the bytes that pass through it: makeSpace *)
(* reuses what was read (Buffer.cpp).                                      *)
THEOREM CapacityBoundedHolds == Spec => []CapacityBounded
BY BufferSafety, PTL

(* A Buffer implements the queue of bytes, for every alphabet, capacity    *)
(* and chunk size, and whatever is read through extrabuf.                  *)
THEOREM ByteQueueRefinement == Spec => ImplementsByteQueue
<1>1. Init => Inv /\ BQ!Init
  BY BufferInit
<1>2. Inv /\ [Next]_vars => Inv' /\ [BQ!Next]_<<Content, call>>
  BY BufferStep
<1>3. QED
  BY <1>1, <1>2, PTL DEF Spec, ImplementsByteQueue, BQ!Spec
=============================================================================
