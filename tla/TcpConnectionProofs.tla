------------------------ MODULE TcpConnectionProofs ------------------------
(***************************************************************************)
(* Proofs about TcpConnection.tla, for any messages, files, foreign        *)
(* threads, watermarks and send buffer: the order of the byte stream, the  *)
(* watermarks, and the life of the connection from its establishment to    *)
(* the removal of its channel.                                             *)
(***************************************************************************)
EXTENDS TcpConnection, SequenceTheorems, TLAPS

-----------------------------------------------------------------------------
(* Concatenation under a name that the provers do not open.                *)
Cat(a, b) == a \o b

LEMMA CatType ==
  ASSUME NEW S, NEW a \in Seq(S), NEW b \in Seq(S)
  PROVE  Cat(a, b) \in Seq(S)
BY DEF Cat

LEMMA CatAssociative ==
  ASSUME NEW S, NEW a \in Seq(S), NEW b \in Seq(S), NEW c \in Seq(S)
  PROVE  Cat(Cat(a, b), c) = Cat(a, Cat(b, c))
BY ConcatAssociative DEF Cat

LEMMA CatEmpty ==
  ASSUME NEW S, NEW a \in Seq(S)
  PROVE  Cat(a, <<>>) = a /\ Cat(<<>>, a) = a
BY DEF Cat

-----------------------------------------------------------------------------
Bytes == Messages \X (1..MsgLen)
Notices == {Plain("writeComplete"), Plain("lowWaterMark"), Plain("highWaterMark")}

(* What foreign threads queue, and what is in the queue at all.            *)
CallerJobs ==
  {j \in Jobs : /\ j.op \in {"idle", "send", "sendFile", "shutdown", "forceClose"}
                /\ j.op = "send" => j.arg \in Messages
                /\ j.op = "sendFile" => j.arg \in Files}
QueueJobs ==
  {j \in Jobs : /\ j.op = "send" => j.arg \in Messages
                /\ j.op = "sendFile" => j.arg \in Files}

-----------------------------------------------------------------------------
(* The inductive invariant, in two parts.  The first is about what the     *)
(* handlers work on.                                                       *)
ConnTypes ==
  /\ state_ \in States
  /\ events_ \subseteq {"in", "out"} /\ inEpoll_ \in BOOLEAN
  /\ outputBuffer_ \in Seq(Bytes) /\ aboveHighWaterMark_ \in BOOLEAN
  /\ fileFd_ \in Files \cup {NoFile} /\ fileLeft \in 0..FileSize
  /\ room \in 0..SndBuf /\ wrClosed \in BOOLEAN
  /\ peer \in {"open", "closed", "reset"} /\ rxData \in BOOLEAN /\ soError \in BOOLEAN
  /\ serverAlive \in BOOLEAN /\ inMap \in BOOLEAN /\ closing \in Nat
  /\ wire \in Seq(Bytes) /\ accepted \in Seq(Bytes)
  /\ openFiles \subseteq Files /\ downs \in 0..2 /\ revived \in BOOLEAN

Stream == Cat(wire, outputBuffer_) = accepted

(* A channel that is not in epoll asks for nothing.                        *)
ChannelInEpoll == ~inEpoll_ => events_ = {}

(* Who was told that the connection is down is told no more.               *)
ToldDown == ~revived /\ downs > 0 => downs = 1 /\ state_ = "kDisconnected"

ConnInv ==
  ConnTypes /\ Stream /\ WatermarksAgree /\ ChannelInEpoll /\ ToldDown /\ OutputIsWatched

(* The second is about what is queued: the connection is established by    *)
(* the first functor, before anything else happens to it, and the removal  *)
(* of its channel is on its way as long as it is in epoll.                 *)
LoopTypes ==
  /\ phase \in {"poll", "dispatch", "functors"}
  /\ revents \subseteq {"hup", "err", "in", "out"}
  /\ functors \in Seq(QueueJobs) /\ batch \in 0..Len(functors)
  /\ caller \in [Threads -> CallerJobs]
  /\ fresh \subseteq Messages \cup Files

Untouched ==
  state_ = "kConnecting" =>
    /\ ~inEpoll_ /\ revents = {} /\ ~revived /\ downs = 0
    /\ outputBuffer_ = <<>> /\ fileFd_ = NoFile
    /\ Len(functors) > 0 /\ functors[1].op = "connectEstablished"
    /\ \A t \in Threads : caller[t] = Plain("idle")

EstablishedOnce ==
  \A i \in 1..Len(functors) :
    functors[i].op = "connectEstablished" => i = 1 /\ state_ = "kConnecting"

Destroys(q) == \E i \in 1..Len(q) : q[i].op = "connectDestroyed"
Gone == state_ = "kDisconnected" /\ ~inEpoll_

RemovalOwed == revived \/ inMap \/ closing > 0 \/ Destroys(functors) \/ Gone

QueueInv == LoopTypes /\ Untouched /\ EstablishedOnce /\ RemovalOwed

ConnectionInv == ConnInv /\ QueueInv

-----------------------------------------------------------------------------
(* The functor queue.                                                      *)
Others == {j \in QueueJobs : j.op # "connectEstablished"}

(* r is q with functors behind it that do not establish the connection.    *)
Grown(q, r) ==
  /\ r \in Seq(QueueJobs) /\ Len(q) <= Len(r)
  /\ \A i \in 1..Len(q) : r[i] = q[i]
  /\ \A i \in 1..Len(r) : i > Len(q) => r[i].op # "connectEstablished"

LEMMA PlainJobs ==
  \A op \in {"writeComplete", "lowWaterMark", "highWaterMark", "forceClose", "connectDestroyed"} :
    Plain(op) \in Others /\ Plain(op).op = op
BY DEF Others, QueueJobs, Jobs, Plain, Job

LEMMA GrownSame ==
  ASSUME NEW q \in Seq(QueueJobs)
  PROVE  Grown(q, q)
BY DEF Grown

LEMMA GrownCat ==
  ASSUME NEW q \in Seq(QueueJobs), NEW x \in Seq(Others)
  PROVE  Grown(q, Cat(q, x))
<1>1. x \in Seq(QueueJobs) /\ Len(x) \in Nat /\ Len(q) \in Nat
  <2>1. Others \subseteq QueueJobs
    BY DEF Others
  <2> QED BY <2>1, SeqMonotonic, LenProperties
<1>2. \A i \in 1..Len(x) : x[i].op # "connectEstablished"
  BY ElementOfSeq DEF Others
<1>3. PICK r : r = q \o x
  OBVIOUS
<1>4. /\ r \in Seq(QueueJobs) /\ Len(r) = Len(q) + Len(x)
      /\ \A i \in 1..(Len(q) + Len(x)) : r[i] = IF i <= Len(q) THEN q[i] ELSE x[i - Len(q)]
  BY <1>1, <1>3, ConcatProperties
<1>5. \A i \in 1..Len(r) : i > Len(q) => r[i].op # "connectEstablished"
  <2> SUFFICES ASSUME NEW i \in 1..Len(r), i > Len(q) PROVE r[i].op # "connectEstablished"
    OBVIOUS
  <2>1. r[i] = x[i - Len(q)] /\ i - Len(q) \in 1..Len(x)
    BY <1>1, <1>4
  <2> QED BY <1>2, <2>1
<1> QED BY <1>1, <1>3, <1>4, <1>5 DEF Grown, Cat

LEMMA GrownTwice ==
  ASSUME NEW q \in Seq(QueueJobs), NEW x \in Seq(Others), NEW y \in Seq(Others)
  PROVE  Grown(q, Cat(Cat(q, x), y))
<1>1. Cat(x, y) \in Seq(Others)
  BY CatType
<1>2. x \in Seq(QueueJobs) /\ y \in Seq(QueueJobs)
  <2>1. Others \subseteq QueueJobs
    BY DEF Others
  <2> QED BY <2>1, SeqMonotonic
<1>3. Cat(Cat(q, x), y) = Cat(q, Cat(x, y))
  BY <1>2, CatAssociative
<1> QED BY <1>1, <1>3, GrownCat

(* Notices are queued or not.                                              *)
WithNotices(q, A, a, B, b) ==
  q \o (IF A THEN <<Plain(a)>> ELSE <<>>) \o (IF B THEN <<Plain(b)>> ELSE <<>>)

LEMMA GrownNotices ==
  ASSUME NEW q \in Seq(QueueJobs), NEW a, NEW b,
         a \in {"writeComplete", "lowWaterMark", "highWaterMark"},
         b \in {"writeComplete", "lowWaterMark", "highWaterMark"}, NEW A, NEW B
  PROVE  Grown(q, WithNotices(q, A, a, B, b))
<1>1. PICK x : x = (IF A THEN <<Plain(a)>> ELSE <<>>)
  OBVIOUS
<1>2. PICK y : y = (IF B THEN <<Plain(b)>> ELSE <<>>)
  OBVIOUS
<1>3. Plain(a) \in Others /\ Plain(b) \in Others
  BY PlainJobs
<1>4. <<Plain(a)>> \in Seq(Others) /\ <<Plain(b)>> \in Seq(Others) /\ <<>> \in Seq(Others)
  BY <1>3
<1>5. x \in Seq(Others) /\ y \in Seq(Others)
  BY <1>1, <1>2, <1>4
<1>6. Grown(q, Cat(Cat(q, x), y))
  BY <1>5, GrownTwice
<1> QED BY <1>1, <1>2, <1>6 DEF Cat, WithNotices

LEMMA GrownAppend ==
  ASSUME NEW q \in Seq(QueueJobs), NEW j \in Others
  PROVE  Grown(q, Append(q, j)) /\ Append(q, j)[Len(q) + 1] = j /\ Len(Append(q, j)) = Len(q) + 1
<1>1. <<j>> \in Seq(Others) /\ j \in QueueJobs
  BY DEF Others
<1>2. Append(q, j) = q \o <<j>>
  BY <1>1, AppendIsConcat
<1>3. Grown(q, Append(q, j))
  BY <1>1, <1>2, GrownCat DEF Cat
<1>4. Append(q, j)[Len(q) + 1] = j /\ Len(Append(q, j)) = Len(q) + 1
  BY <1>1, AppendProperties
<1> QED BY <1>3, <1>4

-----------------------------------------------------------------------------
(* Parts of sequences.                                                     *)
LEMMA SplitSeq ==
  ASSUME NEW S, NEW x \in Seq(S), NEW n \in 0..Len(x)
  PROVE  /\ SubSeq(x, 1, n) \in Seq(S) /\ SubSeq(x, n + 1, Len(x)) \in Seq(S)
         /\ Len(SubSeq(x, n + 1, Len(x))) = Len(x) - n
         /\ Cat(SubSeq(x, 1, n), SubSeq(x, n + 1, Len(x))) = x
<1>1. Len(x) \in Nat /\ n \in Nat /\ n <= Len(x) /\ \A i \in 1..Len(x) : x[i] \in S
  OBVIOUS
<1>2. SubSeq(x, 1, n) \in Seq(S)
  BY <1>1, SubSeqProperties
<1>3. SubSeq(x, n + 1, Len(x)) \in Seq(S) /\ Len(SubSeq(x, n + 1, Len(x))) = Len(x) - n
  <2>1. n + 1 \in Int /\ Len(x) \in Int /\ \A i \in (n + 1)..Len(x) : x[i] \in S
    BY <1>1
  <2>2. /\ SubSeq(x, n + 1, Len(x)) \in Seq(S)
        /\ Len(SubSeq(x, n + 1, Len(x)))
             = IF n + 1 <= Len(x) THEN Len(x) - (n + 1) + 1 ELSE 0
    BY <2>1, SubSeqProperties
  <2>3. (IF n + 1 <= Len(x) THEN Len(x) - (n + 1) + 1 ELSE 0) = Len(x) - n
    BY <1>1
  <2> QED BY <2>2, <2>3
<1>4. SubSeq(x, 1, n) \o SubSeq(x, n + 1, Len(x)) = SubSeq(x, 1, Len(x))
  <2>1. 1 \in 1..(Len(x) + 1) /\ n \in (1 - 1)..Len(x) /\ Len(x) \in n..Len(x)
    BY <1>1
  <2> QED BY <2>1, ConcatAdjacentSubSeq, Zenon
<1>5. SubSeq(x, 1, Len(x)) = x
  BY SubSeqFull
<1> QED BY <1>2, <1>3, <1>4, <1>5 DEF Cat

LEMMA UnitsType ==
  ASSUME NEW m \in Messages
  PROVE  Units(m) \in Seq(Bytes) /\ Len(Units(m)) = MsgLen
<1>1. MsgLen \in Nat /\ \A i \in 1..MsgLen : <<m, i>> \in Bytes
  BY LengthAssumption DEF Bytes
<1> QED BY <1>1 DEF Units

-----------------------------------------------------------------------------
(* The handlers.  Each keeps ConnInv, and leaves the rest as Handled says. *)
Handled(q) ==
  /\ Grown(q, functors')
  /\ state_' # "kConnecting"
  /\ Gone => Gone'
  /\ inMap' = inMap /\ closing' >= closing

DrainsFirst ==
  NotRevived /\ Alive' /\ wrClosed' /\ ~wrClosed => outputBuffer_' = <<>> /\ fileFd_' = NoFile

SendsWhole == openFiles \subseteq openFiles' \/ fileLeft' = 0 \/ Broken' \/ ~Alive'

Fine(q) == ConnInv' /\ Handled(q) /\ DrainsFirst /\ SendsWhole

(* A handler that returns at once.                                         *)
LEMMA NothingHandled ==
  ASSUME ConnInv, state_ # "kConnecting", NEW q \in Seq(QueueJobs), functors' = q,
         UNCHANGED <<connVars, sockVars, serverVars, histVars, revived>>
  PROVE  Fine(q)
<1> USE DEF connVars, sockVars, serverVars, histVars
<1>1. ConnInv'
  BY DEF ConnInv, ConnTypes, Stream, WatermarksAgree, ChannelInEpoll, ToldDown, OutputIsWatched,
         NotRevived, Alive, IsWriting
<1>2. Handled(q)
  BY GrownSame DEF Handled, Gone, ConnInv, ConnTypes
<1>3. DrainsFirst /\ SendsWhole
  BY DEF DrainsFirst, SendsWhole
<1> QED BY <1>1, <1>2, <1>3 DEF Fine

LEMMA ErrorHandled ==
  ASSUME ConnInv, state_ # "kConnecting", NEW q \in Seq(QueueJobs), handleError(q),
         UNCHANGED revived
  PROVE  Fine(q)
<1> USE DEF handleError, connVars, serverVars, histVars
<1>1. ConnInv'
  <2>1. ConnTypes'
    BY DEF ConnInv, ConnTypes
  <2>2. Stream' /\ WatermarksAgree' /\ ChannelInEpoll' /\ ToldDown' /\ OutputIsWatched'
    BY DEF ConnInv, Stream, WatermarksAgree, ChannelInEpoll, ToldDown, OutputIsWatched,
           NotRevived, Alive, IsWriting
  <2> QED BY <2>1, <2>2 DEF ConnInv
<1>2. Handled(q)
  BY GrownSame DEF Handled, Gone, ConnInv, ConnTypes
<1>3. DrainsFirst /\ SendsWhole
  BY DEF DrainsFirst, SendsWhole
<1> QED BY <1>1, <1>2, <1>3 DEF Fine

LEMMA CloseHandled ==
  ASSUME ConnInv, state_ # "kConnecting", NEW q \in Seq(QueueJobs), handleClose(q),
         UNCHANGED revived
  PROVE  Fine(q)
<1> USE DEF connVars, sockVars, serverVars, histVars
<1>1. CASE state_ = "kDisconnected"
  BY <1>1, NothingHandled DEF handleClose
<1>2. CASE state_ # "kDisconnected"
  <2>1. /\ state_' = "kDisconnected" /\ fileFd_' = NoFile /\ openFiles' = openFiles \ {fileFd_}
        /\ events_' = {} /\ inEpoll_' = TRUE /\ TellDown /\ functors' = q
        /\ closing' = (IF serverAlive THEN closing + 1 ELSE closing)
        /\ UNCHANGED <<outputBuffer_, aboveHighWaterMark_, fileLeft, serverAlive, inMap,
                       sockVars, wire, accepted>>
    BY <1>2 DEF handleClose, disableAll, updateChannel
  <2>2. ConnTypes'
    BY <2>1 DEF ConnInv, ConnTypes, States, TellDown
  <2>3. Stream' /\ WatermarksAgree' /\ ChannelInEpoll' /\ OutputIsWatched'
    BY <2>1 DEF ConnInv, Stream, WatermarksAgree, ChannelInEpoll, OutputIsWatched, Alive
  <2>4. ToldDown'
    BY <1>2, <2>1 DEF ConnInv, ConnTypes, ToldDown, TellDown
  <2>5. Handled(q)
    BY <1>2, <2>1, GrownSame DEF Handled, Gone, ConnInv, ConnTypes
  <2>6. DrainsFirst /\ SendsWhole
    BY <2>1 DEF DrainsFirst, SendsWhole, Alive
  <2> QED BY <2>2, <2>3, <2>4, <2>5, <2>6 DEF Fine, ConnInv
<1> QED BY <1>1, <1>2

LEMMA ForceCloseHandled ==
  ASSUME ConnInv, state_ # "kConnecting", NEW q \in Seq(QueueJobs), forceCloseInLoop(q),
         UNCHANGED revived
  PROVE  Fine(q)
BY CloseHandled, NothingHandled DEF forceCloseInLoop

LEMMA DestroyHandled ==
  ASSUME ConnInv, state_ # "kConnecting", NEW q \in Seq(QueueJobs), connectDestroyed(q),
         UNCHANGED revived
  PROVE  Fine(q) /\ Gone'
<1> USE DEF sockVars, serverVars
<1>1. state_' = "kDisconnected" /\ events_' = {} /\ inEpoll_' = FALSE
  BY DEF connectDestroyed, removeChannel, Alive, ConnInv, ConnTypes, States
<1>2. /\ functors' = q
      /\ UNCHANGED <<outputBuffer_, aboveHighWaterMark_, fileFd_, fileLeft,
                     sockVars, serverVars, wire, accepted, openFiles>>
  BY DEF connectDestroyed
<1>3. downs' \in 0..2 /\ (state_ = "kDisconnected" => downs' = downs)
                      /\ (downs' > 0 => downs > 0 \/ downs' = 1)
  BY DEF connectDestroyed, TellDown, Alive, ConnInv, ConnTypes
<1>4. ConnTypes'
  BY <1>1, <1>2, <1>3 DEF ConnInv, ConnTypes, States
<1>5. Stream' /\ WatermarksAgree' /\ ChannelInEpoll' /\ OutputIsWatched'
  BY <1>1, <1>2 DEF ConnInv, Stream, WatermarksAgree, ChannelInEpoll, OutputIsWatched, Alive
<1>6. ToldDown'
  BY <1>1, <1>3 DEF ConnInv, ToldDown
<1>7. Handled(q) /\ Gone'
  BY <1>1, <1>2, GrownSame DEF Handled, Gone, ConnInv, ConnTypes
<1>8. DrainsFirst /\ SendsWhole
  BY <1>1, <1>2 DEF DrainsFirst, SendsWhole, Alive
<1> QED BY <1>4, <1>5, <1>6, <1>7, <1>8 DEF Fine, ConnInv

LEMMA ReadHandled ==
  ASSUME ConnInv, state_ # "kConnecting", NEW q \in Seq(QueueJobs), handleRead(q),
         UNCHANGED revived
  PROVE  Fine(q)
<1>1. CASE /\ rxData' = FALSE /\ functors' = q
           /\ UNCHANGED <<connVars, room, wrClosed, peer, soError, serverVars, histVars>>
  <2> USE DEF connVars, serverVars, histVars
  <2>1. ConnInv'
    <3>1. ConnTypes'
      BY <1>1 DEF ConnInv, ConnTypes
    <3>2. Stream' /\ WatermarksAgree' /\ ChannelInEpoll' /\ ToldDown' /\ OutputIsWatched'
      BY <1>1 DEF ConnInv, Stream, WatermarksAgree, ChannelInEpoll, ToldDown, OutputIsWatched,
                  NotRevived, Alive, IsWriting
    <3> QED BY <3>1, <3>2 DEF ConnInv
  <2>2. Handled(q)
    BY <1>1, GrownSame DEF Handled, Gone, ConnInv, ConnTypes
  <2>3. DrainsFirst /\ SendsWhole
    BY <1>1 DEF DrainsFirst, SendsWhole
  <2> QED BY <2>1, <2>2, <2>3 DEF Fine
<1> QED BY <1>1, ErrorHandled, CloseHandled DEF handleRead

(* shutdownInLoop(), alone or called by shutdown().                        *)
LEMMA ShutdownHandled ==
  ASSUME ConnInv, state_ # "kConnecting", NEW q \in Seq(QueueJobs), shutdownInLoop(q),
         state_' = state_ \/ (state_ = "kConnected" /\ state_' = "kDisconnecting"),
         UNCHANGED revived
  PROVE  Fine(q)
<1> USE DEF shutdownInLoop, serverVars, histVars
<1>0. wrClosed' = (wrClosed \/ ~IsWriting) /\ functors' = q
      /\ UNCHANGED <<events_, inEpoll_, outputBuffer_, aboveHighWaterMark_, fileFd_,
                     fileLeft, room, peer, rxData, soError, serverVars, histVars>>
  OBVIOUS
<1>1. ConnTypes'
  <2>1. wrClosed' \in BOOLEAN
    BY <1>0
  <2> QED BY <1>0, <2>1 DEF ConnInv, ConnTypes, States
<1>2. Stream' /\ WatermarksAgree' /\ ChannelInEpoll' /\ ToldDown'
  BY DEF ConnInv, Stream, WatermarksAgree, ChannelInEpoll, ToldDown
<1>3. OutputIsWatched'
  BY DEF ConnInv, OutputIsWatched, NotRevived, Alive, IsWriting
<1>4. Handled(q)
  BY GrownSame DEF Handled, Gone, ConnInv, ConnTypes
<1>5. DrainsFirst
  <2> SUFFICES ASSUME NotRevived, Alive', wrClosed', ~wrClosed
               PROVE  outputBuffer_ = <<>> /\ fileFd_ = NoFile
    BY DEF DrainsFirst
  <2>1. ~IsWriting /\ Alive
    BY DEF Alive
  <2> QED BY <2>1 DEF ConnInv, OutputIsWatched
<1>6. SendsWhole
  BY DEF SendsWhole
<1> QED BY <1>1, <1>2, <1>3, <1>4, <1>5, <1>6 DEF Fine, ConnInv

LEMMA SendFileHandled ==
  ASSUME ConnInv, state_ # "kConnecting", NEW q \in Seq(QueueJobs), NEW f \in Files,
         sendFileInLoop(f, q), UNCHANGED revived
  PROVE  Fine(q)
<1> USE DEF sockVars, serverVars
<1>1. CASE state_ = "kDisconnected"
  BY <1>1, NothingHandled DEF sendFileInLoop, histVars
<1>2. CASE state_ # "kDisconnected"
  <2>1. /\ functors' = q /\ fileFd_' = f /\ fileLeft' = FileSize /\ openFiles' = openFiles \cup {f}
        /\ UNCHANGED <<state_, outputBuffer_, aboveHighWaterMark_, sockVars, serverVars,
                       wire, accepted, downs>>
    BY <1>2 DEF sendFileInLoop
  <2>2. "out" \in events_' /\ inEpoll_' /\ inEpoll_' \in BOOLEAN /\ events_' \subseteq {"in", "out"}
    <3>1. CASE IsWriting
      BY <1>2, <3>1 DEF sendFileInLoop, IsWriting, ConnInv, ConnTypes, ChannelInEpoll
    <3>2. CASE ~IsWriting
      BY <1>2, <3>2 DEF sendFileInLoop, enableWriting, updateChannel, ConnInv, ConnTypes
    <3> QED BY <3>1, <3>2
  <2>3. FileSize \in Nat
    BY LengthAssumption
  <2>4. ConnTypes'
    BY <2>1, <2>2, <2>3 DEF ConnInv, ConnTypes
  <2>5. Stream' /\ WatermarksAgree' /\ ChannelInEpoll' /\ ToldDown'
    BY <2>1, <2>2 DEF ConnInv, Stream, WatermarksAgree, ChannelInEpoll, ToldDown
  <2>6. OutputIsWatched'
    BY <2>2 DEF OutputIsWatched, IsWriting
  <2>7. Handled(q)
    BY <1>2, <2>1, GrownSame DEF Handled, Gone, ConnInv, ConnTypes
  <2>8. DrainsFirst /\ SendsWhole
    BY <2>1 DEF DrainsFirst, SendsWhole
  <2> QED BY <2>4, <2>5, <2>6, <2>7, <2>8 DEF Fine, ConnInv
<1> QED BY <1>1, <1>2

(* What sendInLoop() wrote and queued of a message is the message.         *)
LEMMA SendSplits ==
  ASSUME NEW S, NEW w \in Seq(S), NEW b \in Seq(S), NEW x \in Seq(S), NEW y \in Seq(S),
         NEW d \in Seq(S), Cat(x, y) = d, b = <<>> \/ x = <<>>
  PROVE  Cat(Cat(w, x), Cat(b, y)) = Cat(Cat(w, b), d)
<1>1. CASE b = <<>>
  <2>1. Cat(b, y) = y /\ Cat(w, b) = w
    BY <1>1, CatEmpty
  <2> QED BY <2>1, CatAssociative
<1>2. CASE x = <<>>
  <2>1. Cat(w, x) = w /\ y = d
    BY <1>2, CatEmpty
  <2> QED BY <2>1, CatAssociative
<1> QED BY <1>1, <1>2

LEMMA SendHandled ==
  ASSUME ConnInv, state_ # "kConnecting", NEW q \in Seq(QueueJobs), NEW m \in Messages,
         sendInLoop(m, q), UNCHANGED revived
  PROVE  Fine(q)
<1>1. CASE state_ = "kDisconnected"
  BY <1>1, NothingHandled DEF sendInLoop
<1>2. CASE state_ # "kDisconnected"
  <2> DEFINE data   == Units(m)
             fault  == nothingQueued /\ Broken
             n      == IF nothingQueued /\ ~fault THEN MinOf(MsgLen, room) ELSE 0
             queued == ~fault /\ n < MsgLen
             rest   == SubSeq(data, n + 1, MsgLen)
             output == outputBuffer_ \o rest
             high   == queued /\ ~aboveHighWaterMark_ /\ Len(output) >= highWaterMark_
  <2>1. /\ IF queued
           THEN outputBuffer_' = output /\ enableWriting
           ELSE UNCHANGED <<outputBuffer_, events_, inEpoll_>>
        /\ aboveHighWaterMark_' = (aboveHighWaterMark_ \/ high)
        /\ functors' = q \o (IF n = MsgLen THEN <<Plain("writeComplete")>> ELSE <<>>)
                         \o (IF high THEN <<Plain("highWaterMark")>> ELSE <<>>)
        /\ wire' = wire \o SubSeq(data, 1, n)
        /\ room' = room - n
        /\ soError' = (soError /\ ~fault)
        /\ accepted' = IF fault THEN accepted ELSE accepted \o data
        /\ UNCHANGED <<state_, fileFd_, fileLeft, wrClosed, peer, rxData,
                       serverVars, openFiles, downs>>
    BY <1>2, Zenon DEF sendInLoop
  <2>2. /\ MsgLen \in Nat \ {0} /\ room \in Nat /\ SndBuf \in Nat /\ room <= SndBuf
        /\ lowWaterMark_ \in Nat /\ highWaterMark_ \in Nat /\ lowWaterMark_ < highWaterMark_
    BY LengthAssumption, WatermarkAssumption DEF ConnInv, ConnTypes
  <2>3. data \in Seq(Bytes) /\ Len(data) = MsgLen
    BY UnitsType
  <2>4. n \in 0..MsgLen /\ n <= room
    BY <2>2 DEF MinOf
  <2>5. n # 0 => outputBuffer_ = <<>>
    BY DEF nothingQueued
  <2>6. ~queued /\ ~fault => n = MsgLen
    BY <2>2, <2>4
  <2>7. fault => n = 0 /\ ~queued
    OBVIOUS
  <2>8. high => queued
    OBVIOUS
  <2> HIDE DEF data, fault, n, queued
  <2>9. /\ SubSeq(data, 1, n) \in Seq(Bytes) /\ rest \in Seq(Bytes) /\ Len(rest) = MsgLen - n
        /\ Cat(SubSeq(data, 1, n), rest) = data
    BY <2>3, <2>4, SplitSeq
  <2> HIDE DEF rest
  <2>10. output \in Seq(Bytes) /\ output = Cat(outputBuffer_, rest)
         /\ Len(output) = Len(outputBuffer_) + (MsgLen - n)
    <3>1. output = Cat(outputBuffer_, rest)
      BY Zenon DEF Cat
    <3>2. outputBuffer_ \in Seq(Bytes)
      BY DEF ConnInv, ConnTypes
    <3>3. output \in Seq(Bytes) /\ Len(output) = Len(outputBuffer_) + Len(rest)
      BY <2>9, <3>2, ConcatProperties
    <3> QED BY <2>9, <3>1, <3>3
  <2> HIDE DEF output, high
  <2>11. Grown(q, functors')
    <3>1. functors' = WithNotices(q, n = MsgLen, "writeComplete", high, "highWaterMark")
      BY <2>1, Zenon DEF WithNotices
    <3> QED BY <3>1, GrownNotices
  <2>12. n = 0 => SubSeq(data, 1, n) = <<>>
    BY <2>4, SubSeqEmpty
  <2>13. PICK x : x = SubSeq(data, 1, n)
    OBVIOUS
  <2>14. wire' = Cat(wire, x) /\ x \in Seq(Bytes) /\ wire \in Seq(Bytes)
         /\ outputBuffer_ \in Seq(Bytes) /\ Cat(x, rest) = data /\ (n = 0 => x = <<>>)
    BY <2>1, <2>9, <2>12, <2>13 DEF Cat, ConnInv, ConnTypes
  <2>15. ~fault => outputBuffer_' = Cat(outputBuffer_, rest)
    <3>1. CASE queued
      BY <2>1, <2>10, <3>1
    <3>2. CASE ~queued /\ ~fault
      <4>1. n = MsgLen /\ outputBuffer_' = outputBuffer_
        BY <2>1, <2>6, <3>2
      <4>2. rest = <<>>
        BY <2>2, <2>9, <4>1, EmptySeq
      <4> QED BY <2>14, <4>1, <4>2, CatEmpty
    <3> QED BY <3>1, <3>2
  <2>16. Stream'
    <3>0. Cat(wire, outputBuffer_) = accepted
      BY DEF ConnInv, Stream
    <3>1. CASE fault
      <4>1. wire' = wire /\ outputBuffer_' = outputBuffer_ /\ accepted' = accepted
        BY <2>1, <2>7, <2>14, <3>1, CatEmpty
      <4> QED BY <3>0, <4>1 DEF Stream
    <3>2. CASE ~fault
      <4>1. accepted' = Cat(accepted, data)
        BY <2>1, <3>2 DEF Cat
      <4>2. Cat(Cat(wire, x), Cat(outputBuffer_, rest)) = Cat(Cat(wire, outputBuffer_), data)
        <5>1. outputBuffer_ = <<>> \/ x = <<>>
          BY <2>5, <2>14
        <5> QED BY <2>3, <2>9, <2>14, <5>1, SendSplits
      <4> QED BY <2>14, <2>15, <3>0, <3>2, <4>1, <4>2 DEF Stream
    <3> QED BY <3>1, <3>2
  <2>17. outputBuffer_' = outputBuffer_ \/ (queued /\ outputBuffer_' = output)
    BY <2>1
  <2>18. ConnTypes'
    <3>1. wire' \in Seq(Bytes) /\ outputBuffer_' \in Seq(Bytes)
      BY <2>10, <2>14, <2>17, CatType
    <3>2. accepted' \in Seq(Bytes)
      BY <3>1, <2>16, CatType DEF Stream
    <3>3. aboveHighWaterMark_' \in BOOLEAN /\ soError' \in BOOLEAN
      BY <2>1, Zenon
    <3>4. room' \in 0..SndBuf
      BY <2>1, <2>2, <2>4
    <3>5. events_' \subseteq {"in", "out"} /\ inEpoll_' \in BOOLEAN
      BY <2>1 DEF enableWriting, updateChannel, ConnInv, ConnTypes
    <3> QED BY <2>1, <3>1, <3>2, <3>3, <3>4, <3>5 DEF ConnInv, ConnTypes, serverVars
  <2>19. WatermarksAgree'
    <3>0. Len(outputBuffer_) \in Nat /\ MsgLen - n \in Nat
      BY <2>2, <2>4, <2>14
    <3>1. CASE ~queued
      <4>1. outputBuffer_' = outputBuffer_ /\ (aboveHighWaterMark_' <=> aboveHighWaterMark_)
        BY <2>1, <2>8, <3>1, Zenon
      <4> QED BY <4>1 DEF ConnInv, WatermarksAgree
    <3>2. CASE queued
      <4>1. outputBuffer_' = output
        BY <2>1, <3>2
      <4>2. aboveHighWaterMark_' <=> aboveHighWaterMark_ \/ Len(output) >= highWaterMark_
        BY <2>1, <3>2, Zenon DEF high
      <4>3. aboveHighWaterMark_ => Len(outputBuffer_) > lowWaterMark_
        BY DEF ConnInv, WatermarksAgree
      <4>4. Len(output) >= Len(outputBuffer_) /\ Len(output) \in Nat
        BY <2>10, <3>0
      <4> QED BY <2>2, <3>0, <4>1, <4>2, <4>3, <4>4 DEF WatermarksAgree
    <3> QED BY <3>1, <3>2
  <2>20. /\ queued => "out" \in events_' /\ inEpoll_'
         /\ ~queued => UNCHANGED <<outputBuffer_, events_, inEpoll_>>
    BY <2>1 DEF enableWriting, updateChannel
  <2>21. ChannelInEpoll' /\ OutputIsWatched'
    BY <2>1, <2>20 DEF ConnInv, ChannelInEpoll, OutputIsWatched, NotRevived, Alive, IsWriting
  <2>22. ToldDown'
    BY <2>1 DEF ConnInv, ToldDown
  <2>23. Handled(q)
    BY <1>2, <2>1, <2>11 DEF Handled, Gone, ConnInv, ConnTypes, serverVars
  <2>24. DrainsFirst /\ SendsWhole
    BY <2>1 DEF DrainsFirst, SendsWhole
  <2> QED BY <2>16, <2>18, <2>19, <2>21, <2>22, <2>23, <2>24 DEF Fine, ConnInv
<1> QED BY <1>1, <1>2

LEMMA WriteFailsHandled ==
  ASSUME ConnInv, state_ # "kConnecting", NEW q \in Seq(QueueJobs), handleWriteFails(q),
         UNCHANGED revived
  PROVE  Fine(q)
<1>1. /\ Broken /\ functors' = q /\ soError' = FALSE
      /\ \/ UNCHANGED <<fileFd_, openFiles>>
         \/ fileFd_' = NoFile /\ openFiles' = openFiles \ {fileFd_}
      /\ UNCHANGED <<state_, events_, inEpoll_, outputBuffer_, aboveHighWaterMark_, fileLeft,
                     room, wrClosed, peer, rxData, serverVars, wire, accepted, downs>>
  BY DEF handleWriteFails
<1>2. ConnTypes'
  BY <1>1 DEF ConnInv, ConnTypes, serverVars
<1>3. Stream' /\ WatermarksAgree' /\ ChannelInEpoll' /\ ToldDown'
  BY <1>1 DEF ConnInv, Stream, WatermarksAgree, ChannelInEpoll, ToldDown
<1>4. OutputIsWatched'
  BY <1>1 DEF ConnInv, OutputIsWatched, NotRevived, Alive, IsWriting
<1>5. Handled(q)
  BY <1>1, GrownSame DEF Handled, Gone, ConnInv, ConnTypes, serverVars
<1>6. DrainsFirst /\ SendsWhole
  BY <1>1 DEF DrainsFirst, SendsWhole, Broken
<1> QED BY <1>2, <1>3, <1>4, <1>5, <1>6 DEF Fine, ConnInv

LEMMA WriteProgressHandled ==
  ASSUME ConnInv, state_ # "kConnecting", NEW q \in Seq(QueueJobs), IsWriting,
         handleWriteProgress(q), UNCHANGED revived
  PROVE  Fine(q)
<1> DEFINE n      == MinOf(Len(outputBuffer_), room)
           output == SubSeq(outputBuffer_, n + 1, Len(outputBuffer_))
           k      == IF output = <<>> /\ fileFd_ # NoFile THEN MinOf(fileLeft, room - n) ELSE 0
           low    == lowWaterReached(output)
           done   == drained(output, fileLeft - k)
<1>1. /\ outputBuffer_' = output
      /\ wire' = wire \o SubSeq(outputBuffer_, 1, n)
      /\ room' = (room - n) - k
      /\ aboveHighWaterMark_' = (aboveHighWaterMark_ /\ ~low)
      /\ functors' = q \o (IF low THEN <<Plain("lowWaterMark")>> ELSE <<>>)
                       \o (IF done THEN <<Plain("writeComplete")>> ELSE <<>>)
      /\ fileLeft' = fileLeft - k
      /\ IF done
         THEN /\ disableWriting
              /\ fileFd_' = NoFile
              /\ openFiles' = openFiles \ {fileFd_}
              /\ wrClosed' = shutdownIfWaiting
         ELSE UNCHANGED <<events_, inEpoll_, fileFd_, openFiles, wrClosed>>
      /\ UNCHANGED <<state_, peer, rxData, soError, serverVars, accepted, downs>>
  BY Zenon DEF handleWriteProgress
<1>2. /\ outputBuffer_ \in Seq(Bytes) /\ Len(outputBuffer_) \in Nat /\ wire \in Seq(Bytes)
      /\ room \in Nat /\ SndBuf \in Nat /\ room <= SndBuf
      /\ fileLeft \in Nat /\ FileSize \in Nat /\ fileLeft <= FileSize
      /\ lowWaterMark_ \in Nat /\ highWaterMark_ \in Nat /\ lowWaterMark_ < highWaterMark_
  BY LengthAssumption, WatermarkAssumption DEF ConnInv, ConnTypes
<1>3. n \in 0..Len(outputBuffer_) /\ n <= room
  BY <1>2 DEF MinOf
<1>4. done => output = <<>> /\ (fileFd_ = NoFile \/ fileLeft - k = 0)
  BY Zenon DEF drained
<1>5. low <=> aboveHighWaterMark_ /\ Len(output) <= lowWaterMark_
  BY Zenon DEF lowWaterReached
<1> HIDE DEF n, low, done
<1>6. k \in Nat /\ k <= fileLeft /\ k <= room - n
  <2>1. room - n \in Nat
    BY <1>2, <1>3
  <2> QED BY <1>2, <2>1 DEF MinOf
<1> HIDE DEF k
<1>7. /\ SubSeq(outputBuffer_, 1, n) \in Seq(Bytes) /\ output \in Seq(Bytes)
      /\ Len(output) = Len(outputBuffer_) - n
      /\ Cat(SubSeq(outputBuffer_, 1, n), output) = outputBuffer_
  BY <1>2, <1>3, SplitSeq
<1> HIDE DEF output
<1>8. PICK x : x = SubSeq(outputBuffer_, 1, n)
  OBVIOUS
<1>9. wire' = Cat(wire, x) /\ x \in Seq(Bytes) /\ Cat(x, output) = outputBuffer_
  BY <1>1, <1>7, <1>8 DEF Cat
<1>10. Stream'
  <2>1. Cat(Cat(wire, x), output) = Cat(wire, Cat(x, output))
    BY <1>2, <1>7, <1>9, CatAssociative
  <2> QED BY <1>1, <1>9, <2>1 DEF ConnInv, Stream
<1>11. Grown(q, functors')
  <2>1. functors' = WithNotices(q, low, "lowWaterMark", done, "writeComplete")
    BY <1>1, Zenon DEF WithNotices
  <2> QED BY <2>1, GrownNotices
<1>12. /\ done => /\ events_' = events_ \ {"out"} /\ inEpoll_' = TRUE /\ fileFd_' = NoFile
                  /\ openFiles' = openFiles \ {fileFd_} /\ wrClosed' = shutdownIfWaiting
       /\ ~done => UNCHANGED <<events_, inEpoll_, fileFd_, openFiles, wrClosed>>
  BY <1>1 DEF disableWriting, updateChannel
<1>13. ConnTypes'
  <2>1. wire' \in Seq(Bytes) /\ outputBuffer_' \in Seq(Bytes)
    BY <1>1, <1>2, <1>7, <1>9, CatType
  <2>2. aboveHighWaterMark_' \in BOOLEAN
    BY <1>1, Zenon
  <2>3. shutdownIfWaiting \in BOOLEAN
    BY Zenon DEF shutdownIfWaiting
  <2>4. room' \in 0..SndBuf /\ fileLeft' \in 0..FileSize
    BY <1>1, <1>2, <1>3, <1>6
  <2>5. /\ events_' \subseteq {"in", "out"} /\ inEpoll_' \in BOOLEAN /\ openFiles' \subseteq Files
        /\ fileFd_' \in Files \cup {NoFile}
    BY <1>12 DEF ConnInv, ConnTypes
  <2>6. wrClosed' \in BOOLEAN
    BY <1>12, <2>3 DEF ConnInv, ConnTypes
  <2> QED BY <1>1, <2>1, <2>2, <2>4, <2>5, <2>6 DEF ConnInv, ConnTypes, serverVars
<1>14. WatermarksAgree'
  <2>1. aboveHighWaterMark_' <=> aboveHighWaterMark_ /\ ~(Len(output) <= lowWaterMark_)
    BY <1>1, <1>5, Zenon
  <2>2. ~aboveHighWaterMark_ => Len(outputBuffer_) < highWaterMark_
    BY DEF ConnInv, WatermarksAgree
  <2>3. Len(output) <= Len(outputBuffer_) /\ Len(output) \in Nat /\ outputBuffer_' = output
    BY <1>1, <1>2, <1>3, <1>7
  <2> QED BY <1>2, <2>1, <2>2, <2>3 DEF WatermarksAgree
<1>15. ChannelInEpoll' /\ ToldDown'
  BY <1>1, <1>12 DEF ConnInv, ChannelInEpoll, ToldDown
<1>16. OutputIsWatched'
  <2>1. IsWriting /\ inEpoll_
    BY DEF IsWriting, ConnInv, ChannelInEpoll
  <2>2. CASE done
    BY <1>1, <1>4, <1>12, <2>2 DEF OutputIsWatched
  <2>3. CASE ~done
    BY <1>12, <2>1, <2>3 DEF OutputIsWatched, IsWriting
  <2> QED BY <2>2, <2>3
<1>17. Handled(q)
  <2>1. inEpoll_
    BY DEF IsWriting, ConnInv, ChannelInEpoll
  <2> QED BY <1>1, <1>11, <2>1 DEF Handled, Gone, ConnInv, ConnTypes, serverVars
<1>18. DrainsFirst
  BY <1>1, <1>4, <1>12 DEF DrainsFirst
<1>19. SendsWhole
  <2>1. NoFile \notin openFiles
    BY NoFileAssumption DEF ConnInv, ConnTypes
  <2> QED BY <1>1, <1>4, <1>12, <2>1 DEF SendsWhole
<1> QED BY <1>10, <1>13, <1>14, <1>15, <1>16, <1>17, <1>18, <1>19 DEF Fine, ConnInv

LEMMA WriteHandled ==
  ASSUME ConnInv, state_ # "kConnecting", NEW q \in Seq(QueueJobs), handleWrite(q),
         UNCHANGED revived
  PROVE  Fine(q)
BY WriteFailsHandled, WriteProgressHandled, NothingHandled DEF handleWrite

-----------------------------------------------------------------------------
(* What a step of Next does.                                               *)
Good == ConnInv' /\ QueueInv' /\ DrainsFirst /\ SendsWhole

(* A handler that ran with q keeps the queue in order.                     *)
LEMMA QueueKept ==
  ASSUME QueueInv, state_ # "kConnecting", NEW q \in Seq(QueueJobs), Handled(q),
         ConnTypes, ConnTypes',
         \A i \in 1..Len(q) : q[i].op # "connectEstablished",
         Destroys(functors) => Destroys(q) \/ Gone',
         phase' \in {"poll", "dispatch", "functors"}, revents' \subseteq revents,
         batch' \in 0..Len(q), UNCHANGED <<caller, revived>>, fresh' \subseteq fresh
  PROVE  QueueInv'
<1>1. /\ functors' \in Seq(QueueJobs) /\ Len(q) <= Len(functors')
      /\ Len(q) \in Nat /\ Len(functors') \in Nat
      /\ \A i \in 1..Len(q) : functors'[i] = q[i]
      /\ \A i \in 1..Len(functors') : i > Len(q) => functors'[i].op # "connectEstablished"
  BY DEF Handled, Grown
<1>2. LoopTypes'
  BY <1>1 DEF QueueInv, LoopTypes
<1>3. Untouched'
  BY DEF Handled, Untouched
<1>4. EstablishedOnce'
  <2> SUFFICES ASSUME NEW i \in 1..Len(functors') PROVE functors'[i].op # "connectEstablished"
    BY DEF EstablishedOnce
  <2>1. i <= Len(q) => i \in 1..Len(q)
    BY <1>1
  <2>2. i > Len(q) \/ i <= Len(q)
    BY <1>1
  <2> QED BY <1>1, <2>1, <2>2
<1>5. RemovalOwed'
  <2>1. Destroys(q) => Destroys(functors')
    <3>1. \A i \in 1..Len(q) : i \in 1..Len(functors')
      BY <1>1
    <3> QED BY <1>1, <3>1 DEF Destroys
  <2>2. closing \in Nat /\ closing' \in Nat /\ inMap' = inMap /\ closing' >= closing /\ (Gone => Gone')
    BY DEF ConnTypes, Handled
  <2>3. revived \/ inMap \/ closing > 0 \/ Destroys(functors) \/ Gone
    BY DEF QueueInv, RemovalOwed
  <2>4. closing > 0 => closing' > 0
    BY <2>2
  <2> QED BY <2>1, <2>2, <2>3, <2>4 DEF RemovalOwed
<1> QED BY <1>2, <1>3, <1>4, <1>5 DEF QueueInv

LEMMA NotEstablishing ==
  ASSUME QueueInv, state_ # "kConnecting"
  PROVE  /\ \A i \in 1..Len(functors) : functors[i].op # "connectEstablished"
         /\ functors \in Seq(QueueJobs) /\ batch \in 0..Len(functors)
BY DEF QueueInv, EstablishedOnce, LoopTypes

(* The loop dispatches an event.                                           *)
LEMMA EventStep == ConnectionInv /\ HandleEvent => Good
<1> SUFFICES ASSUME ConnectionInv, HandleEvent PROVE Good
  OBVIOUS
<1>0. ConnInv /\ QueueInv
  BY DEF ConnectionInv
<1>1. state_ # "kConnecting"
  BY <1>0 DEF HandleEvent, QueueInv, Untouched
<1>2. revents' \subseteq revents /\ UNCHANGED <<phase, batch, caller, fresh, revived>>
  BY DEF HandleEvent, callVars
<1>3. /\ \A i \in 1..Len(functors) : functors[i].op # "connectEstablished"
      /\ functors \in Seq(QueueJobs) /\ batch \in 0..Len(functors)
  BY <1>0, <1>1, NotEstablishing
<1>4. Fine(functors)
  BY <1>0, <1>1, <1>2, <1>3, CloseHandled, ErrorHandled, ReadHandled, WriteHandled DEF HandleEvent
<1>5. QueueInv'
  BY <1>0, <1>1, <1>2, <1>3, <1>4, QueueKept DEF Fine, ConnInv, QueueInv, LoopTypes
<1> QED BY <1>4, <1>5 DEF Good, Fine

(* The first functor, and what is behind it.                               *)
LEMMA FirstFunctor ==
  ASSUME QueueInv, batch > 0
  PROVE  /\ Head(functors) \in QueueJobs /\ Head(functors) = functors[1]
         /\ Tail(functors) \in Seq(QueueJobs) /\ batch - 1 \in 0..Len(Tail(functors))
         /\ \A i \in 1..Len(Tail(functors)) : Tail(functors)[i].op # "connectEstablished"
         /\ Destroys(functors) => Head(functors).op = "connectDestroyed" \/ Destroys(Tail(functors))
<1>1. functors \in Seq(QueueJobs) /\ batch \in 0..Len(functors) /\ Len(functors) \in Nat
  BY DEF QueueInv, LoopTypes
<1>2. functors # <<>> /\ Len(functors) > 0
  BY <1>1
<1>3. /\ Head(functors) \in QueueJobs /\ Head(functors) = functors[1]
      /\ Tail(functors) \in Seq(QueueJobs) /\ Len(Tail(functors)) = Len(functors) - 1
      /\ \A i \in 1..(Len(functors) - 1) : Tail(functors)[i] = functors[i + 1]
  BY <1>1, <1>2
<1>4. batch - 1 \in 0..Len(Tail(functors))
  BY <1>1, <1>3
<1>5. ASSUME NEW i \in 1..Len(Tail(functors)) PROVE Tail(functors)[i].op # "connectEstablished"
  <2>1. i + 1 \in 1..Len(functors) /\ i + 1 # 1 /\ i \in 1..(Len(functors) - 1)
    BY <1>1, <1>3
  <2> QED BY <1>3, <2>1 DEF QueueInv, EstablishedOnce
<1>6. Destroys(functors) => Head(functors).op = "connectDestroyed" \/ Destroys(Tail(functors))
  <2> SUFFICES ASSUME NEW i \in 1..Len(functors), functors[i].op = "connectDestroyed", i # 1
               PROVE  Destroys(Tail(functors))
    BY <1>3 DEF Destroys
  <2>1. i - 1 \in 1..(Len(functors) - 1) /\ (i - 1) + 1 = i
    BY <1>1
  <2>2. Tail(functors)[i - 1].op = "connectDestroyed"
    BY <1>3, <2>1
  <2> QED BY <1>3, <2>1, <2>2 DEF Destroys
<1> QED BY <1>3, <1>4, <1>5, <1>6

(* The connection is established.                                          *)
LEMMA EstablishStep ==
  ASSUME ConnectionInv, batch > 0, Head(functors).op = "connectEstablished",
         connectEstablished(Tail(functors)), batch' = batch - 1,
         UNCHANGED <<phase, revents, callVars>>
  PROVE  Good
<1> USE DEF connectEstablished, enableReading, updateChannel, callVars, sockVars, serverVars, histVars
<1>0. ConnInv /\ QueueInv
  BY DEF ConnectionInv
<1>1. /\ functors' \in Seq(QueueJobs) /\ batch' \in 0..Len(functors')
      /\ \A i \in 1..Len(functors') : functors'[i].op # "connectEstablished"
      /\ Destroys(functors) => Destroys(functors')
      /\ Head(functors) = functors[1]
  BY <1>0, FirstFunctor
<1>2. state_ = "kConnecting"
  <2>1. 1 \in 1..Len(functors)
    BY <1>0 DEF QueueInv, LoopTypes
  <2> QED BY <1>0, <1>1, <2>1 DEF QueueInv, EstablishedOnce
<1>3. ~inEpoll_ /\ ~revived /\ downs = 0 /\ outputBuffer_ = <<>> /\ fileFd_ = NoFile
  BY <1>0, <1>2 DEF QueueInv, Untouched
<1>4. ConnTypes'
  BY <1>0 DEF ConnInv, ConnTypes, States
<1>5. Stream' /\ WatermarksAgree' /\ ChannelInEpoll' /\ ToldDown' /\ OutputIsWatched'
  BY <1>0, <1>3 DEF ConnInv, Stream, WatermarksAgree, ChannelInEpoll, ToldDown, OutputIsWatched
<1>6. LoopTypes' /\ Untouched'
  BY <1>0, <1>1 DEF QueueInv, LoopTypes, Untouched
<1>7. EstablishedOnce'
  BY <1>1 DEF EstablishedOnce
<1>8. RemovalOwed'
  BY <1>0, <1>1, <1>2 DEF QueueInv, RemovalOwed, Gone
<1>9. DrainsFirst /\ SendsWhole
  BY DEF DrainsFirst, SendsWhole
<1> QED BY <1>4, <1>5, <1>6, <1>7, <1>8, <1>9 DEF Good, ConnInv, QueueInv

(* The loop runs a functor.                                                *)
LEMMA FunctorStep == ConnectionInv /\ RunFunctor => Good
<1> SUFFICES ASSUME ConnectionInv, RunFunctor PROVE Good
  OBVIOUS
<1>0. ConnInv /\ QueueInv
  BY DEF ConnectionInv
<1>1. PICK job, q : job = Head(functors) /\ q = Tail(functors)
  OBVIOUS
<1>2. /\ batch > 0 /\ batch' = batch - 1 /\ UNCHANGED <<phase, revents, caller, fresh, revived>>
      /\ \/ job.op = "connectEstablished" /\ connectEstablished(q)
         \/ job.op = "send" /\ sendInLoop(job.arg, q)
         \/ job.op = "sendFile" /\ sendFileInLoop(job.arg, q)
         \/ job.op = "shutdown" /\ shutdownInLoop(q) /\ UNCHANGED state_
         \/ job.op = "forceClose" /\ forceCloseInLoop(q)
         \/ job.op = "connectDestroyed" /\ connectDestroyed(q)
         \/ /\ job.op \in {"writeComplete", "lowWaterMark", "highWaterMark"}
            /\ functors' = q
            /\ UNCHANGED <<connVars, sockVars, serverVars, histVars>>
  BY <1>1, Zenon DEF RunFunctor, callVars
<1>3. /\ job \in QueueJobs /\ job = functors[1]
      /\ q \in Seq(QueueJobs) /\ batch - 1 \in 0..Len(q)
      /\ \A i \in 1..Len(q) : q[i].op # "connectEstablished"
      /\ Destroys(functors) => job.op = "connectDestroyed" \/ Destroys(q)
  BY <1>0, <1>1, <1>2, FirstFunctor
<1>4. CASE job.op = "connectEstablished"
  BY <1>1, <1>2, <1>4, EstablishStep DEF callVars
<1>5. CASE job.op # "connectEstablished"
  <2>1. state_ # "kConnecting"
    BY <1>0, <1>3, <1>5 DEF QueueInv, Untouched
  <2>2. /\ job.op = "send" => job.arg \in Messages
        /\ job.op = "sendFile" => job.arg \in Files
    BY <1>3 DEF QueueJobs
  <2>3. CASE job.op = "connectDestroyed"
    <3>1. connectDestroyed(q)
      BY <1>2, <2>3
    <3>2. Fine(q) /\ Gone'
      BY <1>0, <1>2, <1>3, <2>1, <3>1, DestroyHandled
    <3> QED BY <1>0, <1>2, <1>3, <2>1, <3>2, QueueKept DEF Fine, Good, ConnInv, QueueInv, LoopTypes
  <2>4. CASE job.op # "connectDestroyed"
    <3>1. Fine(q)
      BY <1>0, <1>2, <1>3, <1>5, <2>1, <2>2, <2>4, SendHandled, SendFileHandled, ShutdownHandled,
         ForceCloseHandled, NothingHandled
    <3> QED BY <1>0, <1>2, <1>3, <2>1, <2>4, <3>1, QueueKept DEF Fine, Good, ConnInv, QueueInv, LoopTypes
  <2> QED BY <2>3, <2>4
<1> QED BY <1>4, <1>5
-----------------------------------------------------------------------------
(* Steps that touch no handler: functors may be queued behind the others.  *)
LEMMA QueueGrows ==
  ASSUME QueueInv, Grown(functors, functors'), phase' \in {"poll", "dispatch", "functors"},
         revents' \subseteq {"hup", "err", "in", "out"}, batch' \in 0..Len(functors),
         caller' \in [Threads -> CallerJobs], fresh' \subseteq fresh,
         state_ = "kConnecting" => state_' = "kConnecting"
  PROVE  /\ LoopTypes' /\ EstablishedOnce'
         /\ Destroys(functors) => Destroys(functors')
         /\ Len(functors) > 0 => Len(functors') > 0 /\ functors'[1] = functors[1]
<1>1. /\ functors \in Seq(QueueJobs) /\ functors' \in Seq(QueueJobs)
      /\ Len(functors) <= Len(functors') /\ Len(functors) \in Nat /\ Len(functors') \in Nat
      /\ \A i \in 1..Len(functors) : functors'[i] = functors[i]
      /\ \A i \in 1..Len(functors') : i > Len(functors) => functors'[i].op # "connectEstablished"
  BY DEF Grown, QueueInv, LoopTypes
<1>2. LoopTypes'
  BY <1>1 DEF QueueInv, LoopTypes
<1>3. EstablishedOnce'
  <2> SUFFICES ASSUME NEW i \in 1..Len(functors'), functors'[i].op = "connectEstablished"
               PROVE  i = 1 /\ state_' = "kConnecting"
    BY DEF EstablishedOnce
  <2>1. i \in 1..Len(functors)
    BY <1>1
  <2>2. functors[i].op = "connectEstablished"
    BY <1>1, <2>1
  <2> QED BY <2>1, <2>2 DEF QueueInv, EstablishedOnce
<1>4. Destroys(functors) => Destroys(functors')
  <2>1. \A i \in 1..Len(functors) : i \in 1..Len(functors')
    BY <1>1
  <2> QED BY <1>1, <2>1 DEF Destroys
<1>5. Len(functors) > 0 => Len(functors') > 0 /\ functors'[1] = functors[1]
  BY <1>1
<1> QED BY <1>2, <1>3, <1>4, <1>5

(* Nothing that ConnInv is about changes, except what the peer did.        *)
LEMMA ConnUntouched ==
  ASSUME ConnInv, UNCHANGED <<connVars, histVars, revived, wrClosed>>,
         room' \in 0..SndBuf, peer' \in {"open", "closed", "reset"},
         rxData' \in BOOLEAN, soError' \in BOOLEAN,
         serverAlive' \in BOOLEAN, inMap' \in BOOLEAN, closing' \in Nat
  PROVE  ConnInv' /\ DrainsFirst /\ SendsWhole
<1> USE DEF connVars, histVars
<1>1. ConnTypes'
  BY DEF ConnInv, ConnTypes
<1>2. Stream' /\ WatermarksAgree' /\ ChannelInEpoll' /\ ToldDown' /\ OutputIsWatched'
  BY DEF ConnInv, Stream, WatermarksAgree, ChannelInEpoll, ToldDown, OutputIsWatched,
         NotRevived, Alive, IsWriting
<1>3. DrainsFirst /\ SendsWhole
  BY DEF DrainsFirst, SendsWhole
<1> QED BY <1>1, <1>2, <1>3 DEF ConnInv

(* Nothing changes that either part is about, except in the loop.          *)
LEMMA LoopMoves ==
  ASSUME ConnectionInv, UNCHANGED <<connVars, functors, caller, revived, serverVars, histVars>>,
         wrClosed' = wrClosed, room' \in 0..SndBuf, peer' \in {"open", "closed", "reset"},
         rxData' \in BOOLEAN, soError' \in BOOLEAN,
         phase' \in {"poll", "dispatch", "functors"},
         revents' \subseteq {"hup", "err", "in", "out"},
         state_ = "kConnecting" => revents' = {},
         batch' \in 0..Len(functors), fresh' \subseteq fresh
  PROVE  Good
<1>0. ConnInv /\ QueueInv
  BY DEF ConnectionInv
<1>1. ConnInv' /\ DrainsFirst /\ SendsWhole
  BY <1>0, ConnUntouched DEF serverVars, ConnInv, ConnTypes
<1>2. functors \in Seq(QueueJobs) /\ caller \in [Threads -> CallerJobs]
  BY <1>0 DEF QueueInv, LoopTypes
<1>3. LoopTypes' /\ EstablishedOnce'
  BY <1>0, <1>2, GrownSame, QueueGrows DEF connVars
<1>4. Untouched' /\ RemovalOwed'
  BY <1>0 DEF QueueInv, Untouched, RemovalOwed, Gone, connVars, serverVars, histVars
<1> QED BY <1>1, <1>3, <1>4 DEF Good, QueueInv

LEMMA LoopStepGood ==
  ConnectionInv /\ (Poll \/ SwapFunctors \/ FunctorsDone) => Good
<1> SUFFICES ASSUME ConnectionInv, Poll \/ SwapFunctors \/ FunctorsDone PROVE Good
  OBVIOUS
<1> USE DEF callVars, sockVars
<1>1. /\ room \in 0..SndBuf /\ peer \in {"open", "closed", "reset"}
      /\ rxData \in BOOLEAN /\ soError \in BOOLEAN
      /\ phase \in {"poll", "dispatch", "functors"} /\ revents \subseteq {"hup", "err", "in", "out"}
      /\ batch \in 0..Len(functors) /\ functors \in Seq(QueueJobs)
      /\ state_ = "kConnecting" => revents = {} /\ ~inEpoll_
  BY DEF ConnectionInv, ConnInv, ConnTypes, QueueInv, LoopTypes, Untouched
<1>2. /\ UNCHANGED <<connVars, functors, caller, fresh, revived, serverVars, histVars>>
      /\ UNCHANGED <<room, wrClosed, peer, rxData, soError>>
  BY DEF Poll, SwapFunctors, FunctorsDone
<1>3. /\ Reported \subseteq {"hup", "err", "in", "out"}
      /\ ~inEpoll_ => Reported = {}
  BY DEF Reported
<1>4. /\ phase' \in {"poll", "dispatch", "functors"} /\ revents' \subseteq {"hup", "err", "in", "out"}
      /\ state_ = "kConnecting" => revents' = {}
      /\ batch' \in 0..Len(functors)
  <2>1. Len(functors) \in 0..Len(functors)
    BY <1>1
  <2>2. CASE Poll
    BY <1>1, <1>3, <2>2 DEF Poll
  <2>3. CASE SwapFunctors
    BY <1>1, <2>1, <2>3 DEF SwapFunctors
  <2>4. CASE FunctorsDone
    BY <1>1, <2>4 DEF FunctorsDone
  <2> QED BY <2>2, <2>3, <2>4
<1> QED BY <1>1, <1>2, <1>4, LoopMoves

(* The application calls on the loop's thread.                             *)
LEMMA OwnCallGood == ConnectionInv /\ OwnCall => Good
<1> SUFFICES ASSUME ConnectionInv, OwnCall PROVE Good
  OBVIOUS
<1> USE DEF callVars, loopVars
<1>0. ConnInv /\ QueueInv
  BY DEF ConnectionInv
<1>1. state_ # "kConnecting"
  BY DEF OwnCall, OwnSend, OwnSendFile, OwnShutdown, OwnForceClose, Alive
<1>2. /\ \A i \in 1..Len(functors) : functors[i].op # "connectEstablished"
      /\ functors \in Seq(QueueJobs) /\ batch \in 0..Len(functors)
  BY <1>0, <1>1, NotEstablishing
<1>3. /\ UNCHANGED <<phase, revents, batch, caller, revived>> /\ fresh' \subseteq fresh
      /\ phase \in {"poll", "dispatch", "functors"}
  BY <1>0 DEF OwnCall, OwnSend, OwnSendFile, OwnShutdown, OwnForceClose, QueueInv, LoopTypes
<1>4. ASSUME Fine(functors) PROVE Good
  BY <1>0, <1>1, <1>2, <1>3, <1>4, QueueKept DEF Good, Fine, ConnInv
<1>5. ASSUME NEW m \in Messages, OwnSend(m) PROVE Good
  <2>1. Fine(functors)
    BY <1>0, <1>1, <1>2, <1>3, <1>5, SendHandled DEF OwnSend
  <2> QED BY <1>4, <2>1
<1>6. ASSUME NEW f \in Files, OwnSendFile(f) PROVE Good
  <2>1. Fine(functors)
    BY <1>0, <1>1, <1>2, <1>3, <1>6, SendFileHandled DEF OwnSendFile
  <2> QED BY <1>4, <2>1
<1>7. CASE OwnShutdown
  <2>1. Fine(functors)
    BY <1>0, <1>1, <1>2, <1>3, <1>7, ShutdownHandled DEF OwnShutdown
  <2> QED BY <1>4, <2>1
<1>8. CASE OwnForceClose
  <2>1. Grown(functors, functors')
    BY <1>2, <1>8, PlainJobs, GrownAppend DEF OwnForceClose
  <2>2. /\ Alive /\ state_' = "kDisconnecting"
        /\ UNCHANGED <<events_, inEpoll_, outputBuffer_, aboveHighWaterMark_, fileFd_,
                       fileLeft, room, wrClosed, peer, rxData, soError, serverAlive, inMap,
                       closing, wire, accepted, openFiles, downs, revived>>
    BY <1>8 DEF OwnForceClose, sockVars, serverVars, histVars
  <2>3. ConnTypes'
    BY <1>0, <2>2 DEF ConnInv, ConnTypes, States
  <2>4. Stream' /\ WatermarksAgree' /\ ChannelInEpoll' /\ ToldDown' /\ OutputIsWatched'
    BY <1>0, <2>2 DEF ConnInv, Stream, WatermarksAgree, ChannelInEpoll, ToldDown, OutputIsWatched,
                      NotRevived, Alive, IsWriting
  <2>5. Handled(functors)
    BY <1>0, <2>1, <2>2 DEF Handled, Gone, Alive, ConnInv, ConnTypes
  <2>6. DrainsFirst /\ SendsWhole
    BY <2>2 DEF DrainsFirst, SendsWhole
  <2> QED BY <1>4, <2>3, <2>4, <2>5, <2>6 DEF Fine, ConnInv
<1> QED BY <1>5, <1>6, <1>7, <1>8 DEF OwnCall
(* A foreign thread tests state_.                                          *)
LEMMA ForeignTestGood ==
  ASSUME ConnectionInv, NEW t \in Threads, ForeignTest(t)
  PROVE  Good
<1>0. ConnInv /\ QueueInv
  BY DEF ConnectionInv
<1>1. /\ state_ # "kConnecting"
      /\ UNCHANGED <<connVars, phase, revents, batch, functors, revived, sockVars, serverVars, histVars>>
  BY DEF ForeignTest, Alive, loopVars
<1>2. fresh' \subseteq fresh /\ \E j \in CallerJobs : caller' = [caller EXCEPT ![t] = j]
  <2>1. /\ \A m \in Messages : Job("send", m) \in CallerJobs
        /\ \A f \in Files : Job("sendFile", f) \in CallerJobs
        /\ Plain("shutdown") \in CallerJobs /\ Plain("forceClose") \in CallerJobs
    BY DEF CallerJobs, Jobs, Job, Plain
  <2> QED BY <2>1 DEF ForeignTest
<1>3. caller \in [Threads -> CallerJobs] /\ functors \in Seq(QueueJobs)
      /\ batch \in 0..Len(functors)
      /\ phase \in {"poll", "dispatch", "functors"} /\ revents \subseteq {"hup", "err", "in", "out"}
  BY <1>0 DEF QueueInv, LoopTypes
<1>4. caller' \in [Threads -> CallerJobs]
  BY <1>2, <1>3
<1>5. ConnInv' /\ DrainsFirst /\ SendsWhole
  BY <1>0, <1>1, ConnUntouched DEF sockVars, serverVars, ConnInv, ConnTypes
<1>6. LoopTypes' /\ EstablishedOnce'
  BY <1>0, <1>1, <1>2, <1>3, <1>4, GrownSame, QueueGrows
<1>7. Untouched' /\ RemovalOwed'
  BY <1>0, <1>1 DEF QueueInv, Untouched, RemovalOwed, Gone, connVars, serverVars
<1> QED BY <1>5, <1>6, <1>7 DEF Good, QueueInv

(* A foreign thread sets state_ and queues its functor.                    *)
LEMMA ForeignQueueGood ==
  ASSUME ConnectionInv, NEW t \in Threads, ForeignQueue(t)
  PROVE  Good
<1>0. ConnInv /\ QueueInv
  BY DEF ConnectionInv
<1>1. state_ # "kConnecting" /\ state_ \in States
  BY <1>0 DEF ForeignQueue, QueueInv, Untouched, ConnInv, ConnTypes
<1>2. /\ UNCHANGED <<events_, inEpoll_, outputBuffer_, aboveHighWaterMark_, fileFd_, fileLeft,
                     phase, revents, batch, fresh, room, wrClosed, peer, rxData, soError,
                     serverAlive, inMap, closing, wire, accepted, openFiles, downs>>
      /\ functors' = Append(functors, caller[t])
      /\ caller' = [caller EXCEPT ![t] = Plain("idle")]
      /\ \/ state_' = "kDisconnecting" /\ revived' = (revived \/ state_ = "kDisconnected")
         \/ state_' = state_ /\ revived' = revived
  BY Zenon DEF ForeignQueue, loopVars, sockVars, serverVars, histVars
<1>3. /\ caller \in [Threads -> CallerJobs] /\ functors \in Seq(QueueJobs)
      /\ batch \in 0..Len(functors) /\ revived \in BOOLEAN
      /\ phase \in {"poll", "dispatch", "functors"} /\ revents \subseteq {"hup", "err", "in", "out"}
  BY <1>0 DEF QueueInv, LoopTypes, ConnInv, ConnTypes
<1>4. caller' \in [Threads -> CallerJobs]
  <2>1. Plain("idle") \in CallerJobs
    BY DEF CallerJobs, Jobs, Job, Plain
  <2> QED BY <1>2, <1>3, <2>1
<1>5. Grown(functors, functors')
  <2>1. caller[t] \in Others
    BY <1>3 DEF CallerJobs, Others, QueueJobs
  <2> QED BY <1>2, <1>3, <2>1, GrownAppend
<1>6. /\ revived' \in BOOLEAN /\ state_' \in States /\ state_' # "kConnecting"
      /\ revived => revived'
      /\ ~revived' => ~revived
      /\ state_ = "kDisconnected" => state_' = "kDisconnected" \/ revived'
      /\ Alive' /\ ~revived' => Alive
  <2>1. CASE state_' = "kDisconnecting" /\ revived' = (revived \/ state_ = "kDisconnected")
    <3>1. revived' \in BOOLEAN /\ (revived' <=> revived \/ state_ = "kDisconnected")
      BY <2>1, Zenon
    <3> QED BY <1>1, <2>1, <3>1 DEF States, Alive
  <2>2. CASE state_' = state_ /\ revived' = revived
    BY <1>1, <1>3, <2>2 DEF Alive
  <2> QED BY <1>2, <2>1, <2>2
<1>7. ConnInv'
  <2>1. ConnTypes'
    BY <1>0, <1>2, <1>6 DEF ConnInv, ConnTypes
  <2>2. Stream' /\ WatermarksAgree' /\ ChannelInEpoll'
    BY <1>0, <1>2 DEF ConnInv, Stream, WatermarksAgree, ChannelInEpoll
  <2>3. ToldDown'
    BY <1>0, <1>2, <1>6 DEF ConnInv, ToldDown
  <2>4. OutputIsWatched'
    BY <1>0, <1>2, <1>6 DEF ConnInv, OutputIsWatched, NotRevived, IsWriting
  <2> QED BY <2>1, <2>2, <2>3, <2>4 DEF ConnInv
<1>8. DrainsFirst /\ SendsWhole
  BY <1>2 DEF DrainsFirst, SendsWhole
<1>9. QueueInv'
  <2>1. LoopTypes' /\ EstablishedOnce' /\ (Destroys(functors) => Destroys(functors'))
    BY <1>0, <1>1, <1>2, <1>3, <1>4, <1>5, QueueGrows
  <2>2. Untouched'
    BY <1>6 DEF Untouched
  <2>3. RemovalOwed'
    BY <1>0, <1>2, <1>6, <2>1 DEF QueueInv, RemovalOwed, Gone
  <2> QED BY <2>1, <2>2, <2>3 DEF QueueInv
<1> QED BY <1>7, <1>8, <1>9 DEF Good

(* TcpServer lets the connection go: connectDestroyed() is queued.         *)
LEMMA ServerGood == ConnectionInv /\ (ServerRemoves \/ ServerDestroyed) => Good
<1> SUFFICES ASSUME ConnectionInv, ServerRemoves \/ ServerDestroyed PROVE Good
  OBVIOUS
<1>0. ConnInv /\ QueueInv
  BY DEF ConnectionInv
<1>1. /\ UNCHANGED <<connVars, phase, revents, batch, caller, fresh, revived, sockVars, histVars>>
      /\ serverAlive' \in BOOLEAN /\ inMap' = FALSE
  BY <1>0 DEF ServerRemoves, ServerDestroyed, loopVars, callVars, ConnInv, ConnTypes
<1>2. closing \in Nat /\ closing' \in Nat
  BY <1>0 DEF ServerRemoves, ServerDestroyed, ConnInv, ConnTypes
<1>3. /\ functors \in Seq(QueueJobs) /\ caller \in [Threads -> CallerJobs]
      /\ batch \in 0..Len(functors) /\ inMap \in BOOLEAN
      /\ phase \in {"poll", "dispatch", "functors"} /\ revents \subseteq {"hup", "err", "in", "out"}
  BY <1>0 DEF QueueInv, LoopTypes, ConnInv, ConnTypes
<1>4. ConnInv' /\ DrainsFirst /\ SendsWhole
  BY <1>0, <1>1, <1>2, ConnUntouched DEF sockVars, ConnInv, ConnTypes
<1>5. \/ functors' = Append(functors, Plain("connectDestroyed"))
      \/ functors' = functors /\ ~inMap /\ closing' = closing
  BY DEF ServerRemoves, ServerDestroyed
<1>6. Grown(functors, functors') /\ (functors' # functors => Destroys(functors'))
  <2>1. CASE functors' = functors
    BY <1>3, <2>1, GrownSame
  <2>2. CASE functors' = Append(functors, Plain("connectDestroyed"))
    <3>1. Plain("connectDestroyed") \in Others /\ Plain("connectDestroyed").op = "connectDestroyed"
      BY PlainJobs
    <3>2. /\ Grown(functors, functors') /\ functors'[Len(functors) + 1].op = "connectDestroyed"
          /\ Len(functors') = Len(functors) + 1
      BY <1>3, <2>2, <3>1, GrownAppend
    <3>3. Len(functors) + 1 \in 1..Len(functors')
      BY <1>3, <3>2
    <3> QED BY <3>2, <3>3 DEF Destroys
  <2> QED BY <1>5, <2>1, <2>2
<1>7. /\ LoopTypes' /\ EstablishedOnce' /\ (Destroys(functors) => Destroys(functors'))
      /\ Len(functors) > 0 => Len(functors') > 0 /\ functors'[1] = functors[1]
  BY <1>0, <1>1, <1>3, <1>6, QueueGrows DEF connVars
<1>8. Untouched'
  BY <1>0, <1>1, <1>7 DEF QueueInv, Untouched, connVars, histVars
<1>9. RemovalOwed'
  <2>1. Gone' = Gone /\ revived' = revived
    BY <1>1 DEF Gone, connVars
  <2>2. CASE functors' # functors
    BY <1>6, <2>2 DEF RemovalOwed
  <2>3. CASE functors' = functors
    <3>1. ~inMap /\ closing' = closing
      <4>1. Append(functors, Plain("connectDestroyed")) # functors
        <5>1. Plain("connectDestroyed") \in Others
          BY PlainJobs
        <5>2. Len(Append(functors, Plain("connectDestroyed"))) = Len(functors) + 1
          BY <1>3, <5>1, GrownAppend
        <5>3. Len(functors) \in Nat
          BY <1>3
        <5> QED BY <5>2, <5>3
      <4> QED BY <1>5, <2>3, <4>1
    <3> QED BY <1>0, <1>7, <2>1, <3>1 DEF QueueInv, RemovalOwed
  <2> QED BY <2>2, <2>3
<1> QED BY <1>4, <1>7, <1>8, <1>9 DEF Good, QueueInv

(* The peer acts, or nothing happens.                                      *)
LEMMA PeerGood ==
  ConnectionInv /\ (PeerReads \/ PeerSends \/ PeerCloses \/ PeerResets \/ UNCHANGED vars) => Good
<1> SUFFICES ASSUME ConnectionInv,
                    PeerReads \/ PeerSends \/ PeerCloses \/ PeerResets \/ UNCHANGED vars
             PROVE  Good
  OBVIOUS
<1>1. /\ room \in 0..SndBuf /\ peer \in {"open", "closed", "reset"}
      /\ rxData \in BOOLEAN /\ soError \in BOOLEAN
      /\ phase \in {"poll", "dispatch", "functors"} /\ revents \subseteq {"hup", "err", "in", "out"}
      /\ batch \in 0..Len(functors)
      /\ state_ = "kConnecting" => revents = {}
  BY DEF ConnectionInv, ConnInv, ConnTypes, QueueInv, LoopTypes, Untouched
<1>2. UNCHANGED <<connVars, phase, revents, batch, functors, caller, fresh, revived, wrClosed,
                  serverVars, histVars>>
  BY DEF PeerReads, PeerSends, PeerCloses, PeerResets, vars, loopVars, callVars, sockVars
<1>3. /\ room' \in 0..SndBuf /\ peer' \in {"open", "closed", "reset"}
      /\ rxData' \in BOOLEAN /\ soError' \in BOOLEAN
  <2>1. CASE PeerReads
    <3>1. SndBuf \in Nat /\ room < SndBuf /\ room' = room + 1
      BY <2>1, LengthAssumption DEF PeerReads
    <3>2. room' \in 0..SndBuf
      BY <1>1, <3>1
    <3> QED BY <1>1, <2>1, <3>2 DEF PeerReads
  <2>2. CASE PeerSends \/ PeerCloses \/ PeerResets
    BY <1>1, <2>2 DEF PeerSends, PeerCloses, PeerResets
  <2>3. CASE UNCHANGED vars
    BY <1>1, <2>3 DEF vars, sockVars
  <2> QED BY <2>1, <2>2, <2>3
<1> QED BY <1>1, <1>2, <1>3, LoopMoves

-----------------------------------------------------------------------------
LEMMA InitConnection == Init => ConnectionInv
<1> SUFFICES ASSUME Init PROVE ConnectionInv
  OBVIOUS
<1>0. /\ wire = <<>> /\ outputBuffer_ = <<>> /\ accepted = <<>>
      /\ <<>> \in Seq(Bytes) /\ Cat(<<>>, <<>>) = <<>>
  <2>1. <<>> \in Seq(Bytes)
    OBVIOUS
  <2>2. Cat(<<>>, <<>>) = <<>>
    BY <2>1, CatEmpty
  <2> QED BY <2>1, <2>2 DEF Init
<1>1. ConnTypes
  <2>1. /\ room = SndBuf /\ SndBuf \in 0..SndBuf /\ fileLeft = 0 /\ 0 \in 0..FileSize
    BY LengthAssumption DEF Init
  <2>2. /\ state_ = "kConnecting" /\ events_ = {} /\ fileFd_ = NoFile /\ peer = "open"
        /\ closing = 0 /\ openFiles = {} /\ downs = 0
    BY DEF Init
  <2>3. /\ inEpoll_ \in BOOLEAN /\ aboveHighWaterMark_ \in BOOLEAN /\ wrClosed \in BOOLEAN
        /\ rxData \in BOOLEAN /\ soError \in BOOLEAN /\ serverAlive \in BOOLEAN
        /\ inMap \in BOOLEAN /\ revived \in BOOLEAN
    BY Zenon DEF Init
  <2>4. wire \in Seq(Bytes) /\ outputBuffer_ \in Seq(Bytes) /\ accepted \in Seq(Bytes)
    BY <1>0, Zenon
  <2> QED BY <2>1, <2>2, <2>3, <2>4 DEF ConnTypes, States
<1>2. Stream
  BY <1>0 DEF Stream
<1> USE DEF Init
<1>3. WatermarksAgree /\ ChannelInEpoll /\ ToldDown /\ OutputIsWatched
  BY WatermarkAssumption DEF WatermarksAgree, ChannelInEpoll, ToldDown, OutputIsWatched, Alive
<1>4. Plain("idle") \in CallerJobs /\ Plain("connectEstablished") \in QueueJobs
      /\ Plain("connectEstablished").op = "connectEstablished"
  BY DEF CallerJobs, QueueJobs, Jobs, Plain, Job
<1>5. /\ functors \in Seq(QueueJobs) /\ Len(functors) = 1
      /\ functors[1] = Plain("connectEstablished")
  BY <1>4
<1>6. LoopTypes
  BY <1>4, <1>5 DEF LoopTypes
<1>7. Untouched
  BY <1>4, <1>5 DEF Untouched
<1>8. EstablishedOnce /\ RemovalOwed
  BY <1>5 DEF EstablishedOnce, RemovalOwed
<1> QED BY <1>1, <1>2, <1>3, <1>6, <1>7, <1>8 DEF ConnectionInv, ConnInv, QueueInv

LEMMA NextGood == ConnectionInv /\ [Next]_vars => Good
<1> SUFFICES ASSUME ConnectionInv, [Next]_vars PROVE Good
  OBVIOUS
<1>1. CASE LoopStep
  BY <1>1, LoopStepGood, EventStep, FunctorStep DEF LoopStep
<1>2. CASE OwnCall
  BY <1>2, OwnCallGood
<1>3. ASSUME NEW t \in Threads, ForeignTest(t) \/ ForeignQueue(t) PROVE Good
  BY <1>3, ForeignTestGood, ForeignQueueGood
<1>4. CASE ServerRemoves \/ ServerDestroyed
  BY <1>4, ServerGood
<1>5. CASE PeerReads \/ PeerSends \/ PeerCloses \/ PeerResets \/ UNCHANGED vars
  BY <1>5, PeerGood
<1> QED BY <1>1, <1>2, <1>3, <1>4, <1>5 DEF Next

LEMMA AlwaysConnectionInv == Spec => []ConnectionInv
<1>1. ConnectionInv /\ [Next]_vars => ConnectionInv'
  BY NextGood DEF Good, ConnectionInv
<1> QED BY <1>1, InitConnection, PTL DEF Spec
-----------------------------------------------------------------------------
(* Type correctness of the connection, its queue and its socket: a partial *)
(* write never takes more than there is or than the socket has room for.   *)
THEOREM ConnectionTypeCorrect == Spec => []TypeOK
<1>1. ConnectionInv => TypeOK
  <2> SUFFICES ASSUME ConnectionInv PROVE TypeOK
    OBVIOUS
  <2>1. ConnTypes /\ LoopTypes
    BY DEF ConnectionInv, ConnInv, QueueInv
  <2>2. functors \in Seq(Jobs) /\ caller \in [Threads -> Jobs]
    <3>1. QueueJobs \subseteq Jobs /\ CallerJobs \subseteq Jobs
      BY DEF QueueJobs, CallerJobs
    <3>2. functors \in Seq(Jobs)
      BY <2>1, <3>1, SeqMonotonic DEF LoopTypes
    <3>3. caller \in [Threads -> Jobs]
      BY <2>1, <3>1 DEF LoopTypes
    <3> QED BY <3>2, <3>3
  <2> QED BY <2>1, <2>2 DEF TypeOK, ConnTypes, LoopTypes, Bytes
<1> QED BY <1>1, AlwaysConnectionInv, PTL

(* The byte stream keeps its order: whatever sendInLoop() wrote directly,  *)
(* queued or split over several handleWrite(), what is on the wire and     *)
(* what is queued are together what was taken, byte for byte.              *)
THEOREM StreamOrderHolds == Spec => []StreamOrder
<1>1. ConnectionInv => StreamOrder
  BY DEF ConnectionInv, ConnInv, Stream, StreamOrder, Cat
<1> QED BY <1>1, AlwaysConnectionInv, PTL

(* The flag behind highWaterMarkCallback_ and lowWaterMarkCallback_ agrees *)
(* with the queued output after every sendInLoop() and handleWrite().      *)
THEOREM WatermarksAgreeHolds == Spec => []WatermarksAgree
<1>1. ConnectionInv => WatermarksAgree
  BY DEF ConnectionInv, ConnInv
<1> QED BY <1>1, AlwaysConnectionInv, PTL

(* A live connection that has output or a file left asks epoll for         *)
(* EPOLLOUT: enableWriting() and disableWriting() never leave data behind. *)
THEOREM OutputIsWatchedHolds == Spec => []OutputIsWatched
<1>1. ConnectionInv => OutputIsWatched
  BY DEF ConnectionInv, ConnInv
<1> QED BY <1>1, AlwaysConnectionInv, PTL

(* handleClose() and connectDestroyed() between them tell the application  *)
(* once that the connection is down, however they are ordered.             *)
THEOREM DownOnceHolds == Spec => []DownOnce
<1>1. ConnectionInv => DownOnce
  BY DEF ConnectionInv, ConnInv, ConnTypes, ToldDown, DownOnce, NotRevived
<1> QED BY <1>1, AlwaysConnectionInv, PTL

(* When the map, the base loop, the functor queue and the foreign calls    *)
(* have all let go of the connection, connectDestroyed() has taken its     *)
(* channel out of epoll.                                                   *)
THEOREM RemovedBeforeReleaseHolds == Spec => []RemovedBeforeRelease
<1>1. ConnectionInv => RemovedBeforeRelease
  <2> SUFFICES ASSUME ConnectionInv, NotRevived, Released PROVE ~inEpoll_
    BY DEF RemovedBeforeRelease
  <2>1. ~Destroys(functors)
    BY DEF Released, Destroys
  <2> QED BY <2>1 DEF ConnectionInv, QueueInv, RemovalOwed, Gone, Released, NotRevived
<1> QED BY <1>1, AlwaysConnectionInv, PTL

(* Neither shutdownInLoop() nor the end of handleWrite() shuts the socket  *)
(* down for writing while output or a file is left.                        *)
THEOREM ShutdownAfterDrainHolds == Spec => ShutdownAfterDrain
<1>1. ConnectionInv /\ [Next]_vars => [DrainsFirst]_vars
  BY NextGood DEF Good
<1> QED BY <1>1, AlwaysConnectionInv, PTL DEF Spec, ShutdownAfterDrain, DrainsFirst

(* A descriptor that sendFileInLoop() took is closed when its file is sent *)
(* to the end, or when the connection failed or went down, never between.  *)
THEOREM FileSentWholeHolds == Spec => FileSentWhole
<1>1. ConnectionInv /\ [Next]_vars => [SendsWhole]_vars
  BY NextGood DEF Good
<1> QED BY <1>1, AlwaysConnectionInv, PTL DEF Spec, FileSentWhole, SendsWhole
=============================================================================
