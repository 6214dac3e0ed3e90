------------------------------- MODULE Buffer -------------------------------
(***************************************************************************)
(* Buffer (src/tcp/Buffer.cpp): a vector of bytes with a read and a write  *)
(* index.  The bytes between the indices are the content; makeSpace()      *)
(* either moves them to the front of the vector or enlarges it.  The       *)
(* vector is a sequence, so that the byte at index i of the code is        *)
(* buffer_[i + 1] here.                                                    *)
(*                                                                         *)
(* The int32 operations are not separate actions: readInt32() is a         *)
(* retrieve of four bytes, prependInt32() a prepend of four bytes.         *)
(***************************************************************************)
EXTENDS Integers, Sequences

CONSTANTS
  Byte,           \* the byte values told apart
  Zero,           \* the byte vector::resize fills with
  Poison,         \* the result of an overlapping std::copy towards higher
                  \* indices, which is undefined; no byte value
  kCheapPrepend,
  kInitialSize,
  ExtraSize,      \* sizeof(extrabuf), the stack buffer of readFd()
  MaxChunk,       \* bound: bytes in one append(), prepend() or readv()
  MaxReadable     \* bound: bytes readable at any time

ASSUME ByteAssumption == Zero \in Byte /\ Poison \notin Byte
ASSUME SizeAssumption ==
  /\ kCheapPrepend \in Nat
  /\ kInitialSize \in Nat
  /\ ExtraSize \in Nat
  /\ MaxChunk \in Nat
  /\ MaxReadable \in Nat

VARIABLES
  buf,            \* the three members of a Buffer
  call            \* history: the last call, with the bytes it put into the
                  \* Buffer or took out of it

vars == <<buf, call>>

Chunks == UNION {[1..n -> Byte] : n \in 0..MaxChunk}

readableBytes(b) == b.writeIndex_ - b.readIndex_
writableBytes(b) == Len(b.buffer_) - b.writeIndex_
prependableBytes(b) == b.readIndex_

(* The bytes between the two indices.                                      *)
ContentOf(b) == [i \in 1..readableBytes(b) |-> b.buffer_[b.readIndex_ + i]]
Content == ContentOf(buf)

Called(op, data) == call' = [op |-> op, data |-> data]

Init ==
  /\ buf = [buffer_     |-> [i \in 1..(kCheapPrepend + kInitialSize) |-> Zero],
            readIndex_  |-> kCheapPrepend,
            writeIndex_ |-> kCheapPrepend]
  /\ call = [op |-> "none", data |-> <<>>]

-----------------------------------------------------------------------------
(* std::copy of data to index at.                                          *)
Store(mem, at, data) ==
  [i \in 1..Len(mem) |->
     IF i \in at + 1 .. at + Len(data) THEN data[i - at] ELSE mem[i]]

(* std::copy of the bytes first <= i < last to index dest, in place.       *)
Copy(mem, first, last, dest) ==
  [i \in 1..Len(mem) |->
     IF i \notin dest + 1 .. dest + (last - first) THEN mem[i]
     ELSE IF first < dest /\ dest < last THEN Poison
     ELSE mem[first + (i - dest)]]

Resize(mem, n) ==
  [i \in 1..n |-> IF i \in 1..Len(mem) THEN mem[i] ELSE Zero]

Enlarge(b, len) == [b EXCEPT !.buffer_ = Resize(b.buffer_, b.writeIndex_ + len)]

Compact(b) ==
  [buffer_     |-> Copy(b.buffer_, b.readIndex_, b.writeIndex_, kCheapPrepend),
   readIndex_  |-> kCheapPrepend,
   writeIndex_ |-> kCheapPrepend + readableBytes(b)]

(* Mutants: the room kept for prepend() is forgotten; space that was freed *)
(* at the front is never used again.                                       *)
MakeSpaceForgetsPrepend(b, len) ==
  IF writableBytes(b) + prependableBytes(b) < len THEN Enlarge(b, len) ELSE Compact(b)
MakeSpaceNeverCompacts(b, len) == Enlarge(b, len)

makeSpace(b, len) ==
  IF writableBytes(b) + prependableBytes(b) < len + kCheapPrepend
  THEN Enlarge(b, len)
  ELSE Compact(b)

(* Bytes are stored at beginWrite() and writeIndex_ moves behind them.     *)
Filled(b, data) ==
  [buffer_     |-> Store(b.buffer_, b.writeIndex_, data),
   readIndex_  |-> b.readIndex_,
   writeIndex_ |-> b.writeIndex_ + Len(data)]

(* append(), on a Buffer b.                                                *)
Appended(b, data) ==
  Filled(IF writableBytes(b) < Len(data) THEN makeSpace(b, Len(data)) ELSE b, data)

RetrievedAll(b) == [buffer_     |-> b.buffer_,
                    readIndex_  |-> kCheapPrepend,
                    writeIndex_ |-> kCheapPrepend]

-----------------------------------------------------------------------------
append(data) ==
  /\ readableBytes(buf) + Len(data) <= MaxReadable
  /\ buf' = Appended(buf, data)
  /\ Called("back", data)

(* retrieve(), retrieveUntil() and, for a len that is readable,            *)
(* retrieveAsString(), whose result is the string at peek().               *)
retrieve(len) ==
  IF len < readableBytes(buf)
  THEN /\ buf' = [buf EXCEPT !.readIndex_ = buf.readIndex_ + len]
       /\ Called("take", SubSeq(Content, 1, len))
  ELSE /\ buf' = RetrievedAll(buf)
       /\ Called("take", Content)

retrieveAll ==
  /\ buf' = RetrievedAll(buf)
  /\ Called("take", Content)

Prefixed(b, data) ==
  [buffer_     |-> Store(b.buffer_, b.readIndex_ - Len(data), data),
   readIndex_  |-> b.readIndex_ - Len(data),
   writeIndex_ |-> b.writeIndex_]

(* prepend(), for a caller that respects its assertion.                    *)
prepend(data) ==
  /\ Len(data) <= prependableBytes(buf)
  /\ readableBytes(buf) + Len(data) <= MaxReadable
  /\ buf' = Prefixed(buf, data)
  /\ Called("front", data)

(* The bytes readv() stores in the vector; the rest goes to extrabuf.      *)
DirectPart(data) == SubSeq(data, 1, writableBytes(buf))
ExtraPart(data) == SubSeq(data, writableBytes(buf) + 1, Len(data))

(* Mutant: extrabuf is forgotten.                                          *)
ReadFdDropsExtra(data) ==
  /\ readableBytes(buf) + Len(data) <= MaxReadable
  /\ buf' = Filled(buf, IF Len(data) <= writableBytes(buf) THEN data ELSE DirectPart(data))
  /\ Called("back", data)

(* readFd(): readv() returned data.  extrabuf is only offered when the     *)
(* vector has less room than extrabuf.  When it was used, the vector is    *)
(* full (writeIndex_ = buffer_.size()) and the rest is appended.  An error *)
(* or an end of file leaves the Buffer as it is.                           *)
readFd(data) ==
  /\ readableBytes(buf) + Len(data) <= MaxReadable
  /\ Len(data) <= writableBytes(buf)
                    + (IF writableBytes(buf) < ExtraSize THEN ExtraSize ELSE 0)
  /\ buf' = IF Len(data) <= writableBytes(buf)
            THEN Filled(buf, data)
            ELSE Appended(Filled(buf, DirectPart(data)), ExtraPart(data))
  /\ Called("back", data)

Next ==
  \/ \E data \in Chunks : append(data) \/ prepend(data) \/ readFd(data)
  \/ \E len \in 0..MaxReadable : retrieve(len)
  \/ retrieveAll

Spec == Init /\ [][Next]_vars

-----------------------------------------------------------------------------
(* Type correctness; that every byte of the vector is in Byte says that no *)
(* overlapping copy was ever made in the undefined direction.              *)
TypeOK ==
  /\ buf \in [buffer_ : Seq(Byte), readIndex_ : Nat, writeIndex_ : Nat]
  /\ call \in [op : {"none", "back", "front", "take"}, data : Seq(Byte)]

(* The indices stay in order and inside the vector, whose first            *)
(* kCheapPrepend bytes always exist: no operation reads or writes outside  *)
(* the vector, and none makes readableBytes() wrap around.                 *)
IndexOrder ==
  /\ buf.readIndex_ <= buf.writeIndex_
  /\ buf.writeIndex_ <= Len(buf.buffer_)
  /\ kCheapPrepend <= Len(buf.buffer_)

(* The vector does not grow with the number of bytes that pass through it: *)
(* it is never larger than what was readable at once, one chunk, and the   *)
(* room for prepend().                                                     *)
CapacityBounded ==
  \/ Len(buf.buffer_) <= kCheapPrepend + kInitialSize
  \/ Len(buf.buffer_) <= kCheapPrepend + MaxReadable + MaxChunk

BQ == INSTANCE ByteQueue WITH Data <- Chunks, content <- Content

(* Whatever the Buffer moves, enlarges or reads through extrabuf, its      *)
(* content is the queue of the bytes that were put in: none is lost,       *)
(* repeated, reordered or made up, and what is taken out is its front.     *)
ImplementsByteQueue == BQ!Spec
=============================================================================
