----------------------------- MODULE ByteQueue -----------------------------
(***************************************************************************)
(* What a Buffer promises its users: a queue of bytes that grows at the    *)
(* back, shrinks and, within limits it chooses itself, grows at the front. *)
(***************************************************************************)
EXTENDS Naturals, Sequences

CONSTANT Data       \* the byte strings that may be written in one call

VARIABLES
  content,          \* the readable bytes, oldest first
  call              \* the last call and the bytes it put in or took out

Called(op, data) == [op |-> op, data |-> data]

Init ==
  /\ content = <<>>
  /\ call = Called("none", <<>>)

PutBack(data) ==
  /\ content' = content \o data
  /\ call' = Called("back", data)

PutFront(data) ==
  /\ content' = data \o content
  /\ call' = Called("front", data)

TakeFront(n) ==
  /\ content' = SubSeq(content, n + 1, Len(content))
  /\ call' = Called("take", SubSeq(content, 1, n))

Next ==
  \/ \E data \in Data : PutBack(data) \/ PutFront(data)
  \/ \E n \in 0..Len(content) : TakeFront(n)

Spec == Init /\ [][Next]_<<content, call>>
=============================================================================
