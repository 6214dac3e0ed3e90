--------------------------- MODULE TcpConnection ---------------------------
(***************************************************************************)
(* One TcpConnection (src/tcp/TcpConnection.cpp) with its Channel and the  *)
(* Epoll entry of that Channel, on the loop that owns it: the handlers the *)
(* loop dispatches, the functors queued for the connection, the calls of   *)
(* the application on the loop's thread and on foreign threads, and the    *)
(* part of TcpServer that removes a closed connection.  The socket and the *)
(* peer are external: a send buffer of SndBuf units that the peer drains,  *)
(* a peer that sends, closes or resets.                                    *)
(*                                                                         *)
(* A message is MsgLen units <<m, 1>>, <<m, 2>>, ... of output, a file is  *)
(* FileSize units.  A handler is one step, since only the loop's thread    *)
(* changes what it works on; what foreign threads share with it is state_, *)
(* which they test in one step and set in another, and the functor queue.  *)
(***************************************************************************)
EXTENDS Naturals, Sequences, FiniteSets

CONSTANTS
  Threads,        \* foreign threads that hold the connection
  Messages,       \* messages, each sent at most once
  Files,          \* file descriptors handed to sendFile(), each at most once
  NoFile,         \* fileFd_ == -1
  MsgLen,
  FileSize,
  SndBuf,         \* room in the socket's send buffer
  lowWaterMark_,
  highWaterMark_,
  MaxQueue        \* bound: functors and removals queued when a call is made

ASSUME NoFileAssumption == NoFile \notin Files
ASSUME LengthAssumption ==
  /\ MsgLen \in Nat \ {0} /\ FileSize \in Nat /\ SndBuf \in Nat \ {0}
  /\ MaxQueue \in Nat
(* The assertion of setOutputBufferWatermarks().                           *)
ASSUME WatermarkAssumption ==
  /\ lowWaterMark_ \in Nat /\ highWaterMark_ \in Nat
  /\ lowWaterMark_ < highWaterMark_

VARIABLES
  state_,
  events_, inEpoll_,     \* of channel_
  outputBuffer_,
  aboveHighWaterMark_,
  fileFd_, fileLeft,     \* fileLeft is fileSize_ - fileOffset_
  phase,                 \* "poll", "dispatch" or "functors" of loop()
  revents,               \* callbacks of this dispatch that are still to run
  functors,              \* queued functors of this connection, oldest first
  batch,                 \* how many of them this iteration swapped out
  caller,                \* what each foreign thread is about to do
  fresh,                 \* messages and files not sent yet
  room, wrClosed,        \* socket: free send buffer, SHUT_WR done
  peer, rxData, soError, \* peer state, unread input, pending socket error
  serverAlive, inMap,    \* TcpServer exists, and has the connection in its map
  closing,               \* removals queued on the base loop by closeCallback_
  wire,                  \* history: units of messages written to the socket
  accepted,              \* history: units of messages taken by sendInLoop()
  openFiles,             \* history: descriptors taken and not closed
  downs,                 \* history: 0, 1 or more times "down" was told
  revived                \* history: a foreign thread overwrote kDisconnected

connVars   == <<state_, events_, inEpoll_, outputBuffer_, aboveHighWaterMark_,
                fileFd_, fileLeft>>
loopVars   == <<phase, revents, batch>>
callVars   == <<caller, fresh, revived>>
sockVars   == <<room, wrClosed, peer, rxData, soError>>
serverVars == <<serverAlive, inMap, closing>>
histVars   == <<wire, accepted, openFiles, downs>>
vars == <<connVars, loopVars, functors, callVars, sockVars, serverVars, histVars>>

States == {"kConnecting", "kConnected", "kDisconnecting", "kDisconnected"}

Units(m) == [i \in 1..MsgLen |-> <<m, i>>]
Job(op, x) == [op |-> op, arg |-> x]
Plain(op) == Job(op, NoFile)

MinOf(a, b) == IF a < b THEN a ELSE b
IsWriting == "out" \in events_
Alive == state_ \in {"kConnected", "kDisconnecting"}

(* A write() or sendfile() fails for good: EPIPE or ECONNRESET.            *)
Broken == wrClosed \/ peer = "reset"

(* TcpServer::newConnection() has put the connection into its map and      *)
(* queued connectEstablished() on the connection's loop.                   *)
Init ==
  /\ state_ = "kConnecting"
  /\ events_ = {} /\ inEpoll_ = FALSE
  /\ outputBuffer_ = <<>> /\ aboveHighWaterMark_ = FALSE
  /\ fileFd_ = NoFile /\ fileLeft = 0
  /\ phase = "poll" /\ revents = {} /\ batch = 0
  /\ functors = <<Plain("connectEstablished")>>
  /\ caller = [t \in Threads |-> Plain("idle")]
  /\ fresh = Messages \cup Files
  /\ room = SndBuf /\ wrClosed = FALSE
  /\ peer = "open" /\ rxData = FALSE /\ soError = FALSE
  /\ serverAlive = TRUE /\ inMap = TRUE /\ closing = 0
  /\ wire = <<>> /\ accepted = <<>> /\ openFiles = {} /\ downs = 0
  /\ revived = FALSE

-----------------------------------------------------------------------------
(* Channel and Epoll.                                                      *)

(* Channel::update() and Epoll::updateChannel(): ADD or MOD.               *)
updateChannel(evs) == events_' = evs /\ inEpoll_' = TRUE

enableReading  == updateChannel(events_ \cup {"in"})
enableWriting  == updateChannel(events_ \cup {"out"})
disableWriting == updateChannel(events_ \ {"out"})
disableAll     == updateChannel({})

(* Channel::remove(): disableAll(), then Epoll::removeChannel().           *)
removeChannel == events_' = {} /\ inEpoll_' = FALSE

(* What epoll_wait reports.  HUP and ERR are reported whatever events_     *)
(* says; handleEventWithGuard() leaves HUP to the reader when IN is set.   *)
Reported ==
  LET in  == "in" \in events_ /\ (rxData \/ peer # "open" \/ soError)
      out == "out" \in events_ /\ (room > 0 \/ Broken)
      hup == peer = "reset" \/ (peer = "closed" /\ wrClosed)
  IN  IF ~inEpoll_ THEN {}
      ELSE (IF hup /\ ~in THEN {"hup"} ELSE {}) \cup (IF soError THEN {"err"} ELSE {})
             \cup (IF in THEN {"in"} ELSE {}) \cup (IF out THEN {"out"} ELSE {})

-----------------------------------------------------------------------------
(* The functions that run on the loop's thread.  Each leaves q, followed   *)
(* by what it queues, in the functor queue.                                *)

connectEstablished(q) ==
  /\ state_' = "kConnected"
  /\ enableReading
  /\ functors' = q
  /\ UNCHANGED <<outputBuffer_, aboveHighWaterMark_, fileFd_, fileLeft,
                 sockVars, serverVars, histVars>>

(* Mutant: a message is written directly although output is queued.        *)
overtakes == TRUE

(* sendInLoop() may write directly only when nothing is queued.            *)
nothingQueued == ~IsWriting /\ outputBuffer_ = <<>>

(* sendInLoop(): write directly when nothing is queued; what the socket    *)
(* does not take is queued, unless the write failed for good.              *)
sendInLoop(m, q) ==
  LET data   == Units(m)
      direct == nothingQueued
      fault  == direct /\ Broken
      n      == IF direct /\ ~fault THEN MinOf(MsgLen, room) ELSE 0
      queued == ~fault /\ n < MsgLen
      output == outputBuffer_ \o SubSeq(data, n + 1, MsgLen)
      high   == queued /\ ~aboveHighWaterMark_ /\ Len(output) >= highWaterMark_
  IN  IF state_ = "kDisconnected"
      THEN functors' = q /\ UNCHANGED <<connVars, sockVars, serverVars, histVars>>
      ELSE /\ IF queued
              THEN outputBuffer_' = output /\ enableWriting
              ELSE UNCHANGED <<outputBuffer_, events_, inEpoll_>>
           /\ aboveHighWaterMark_' = (aboveHighWaterMark_ \/ high)
           /\ functors' = q \o (IF n = MsgLen THEN <<Plain("writeComplete")>> ELSE <<>>)
                            \o (IF high THEN <<Plain("highWaterMark")>> ELSE <<>>)
           /\ wire' = wire \o SubSeq(data, 1, n)
           /\ room' = room - n
           /\ soError' = (soError /\ ~fault)
           /\ accepted' = IF fault THEN accepted ELSE accepted \o data
           /\ UNCHANGED <<state_, fileFd_, fileLeft, wrClosed, peer, rxData,
                          serverVars, openFiles, downs>>

(* Mutant: EPOLLOUT is not asked for.                                      *)
sendFileInLoopUnwatched(f, q) ==
  /\ functors' = q
  /\ IF state_ = "kDisconnected"
     THEN UNCHANGED <<fileFd_, fileLeft, openFiles>>
     ELSE fileFd_' = f /\ fileLeft' = FileSize /\ openFiles' = openFiles \cup {f}
  /\ UNCHANGED <<state_, events_, inEpoll_, outputBuffer_, aboveHighWaterMark_,
                 sockVars, serverVars, wire, accepted, downs>>

(* sendFileInLoop(): a connection that is down closes the descriptor.      *)
sendFileInLoop(f, q) ==
  /\ functors' = q
  /\ IF state_ = "kDisconnected"
     THEN UNCHANGED <<connVars, openFiles>>
     ELSE /\ fileFd_' = f /\ fileLeft' = FileSize
          /\ openFiles' = openFiles \cup {f}
          /\ IF IsWriting THEN UNCHANGED <<events_, inEpoll_>>
             ELSE enableWriting
          /\ UNCHANGED <<state_, outputBuffer_, aboveHighWaterMark_>>
  /\ UNCHANGED <<sockVars, serverVars, wire, accepted, downs>>

(* Mutant: the output that is still queued is not waited for.              *)
shutdownInLoopAtOnce(q) ==
  /\ functors' = q
  /\ wrClosed' = TRUE
  /\ UNCHANGED <<events_, inEpoll_, outputBuffer_, aboveHighWaterMark_, fileFd_,
                 fileLeft, room, peer, rxData, soError, serverVars, histVars>>

shutdownInLoop(q) ==
  /\ functors' = q
  /\ wrClosed' = (wrClosed \/ ~IsWriting)
  /\ UNCHANGED <<events_, inEpoll_, outputBuffer_, aboveHighWaterMark_, fileFd_,
                 fileLeft, room, peer, rxData, soError, serverVars, histVars>>

(* connectionCallback_ and closeCallback_ are replaced by ~TcpServer().    *)
TellDown == downs' = IF serverAlive /\ downs < 2 THEN downs + 1 ELSE downs

(* Mutant: the test of kDisconnected is dropped.                           *)
handleCloseAgain(q) ==
  /\ functors' = q
  /\ state_' = "kDisconnected"
  /\ fileFd_' = NoFile
  /\ openFiles' = openFiles \ {fileFd_}
  /\ disableAll
  /\ TellDown
  /\ closing' = IF serverAlive THEN closing + 1 ELSE closing
  /\ UNCHANGED <<outputBuffer_, aboveHighWaterMark_, fileLeft, sockVars,
                 serverAlive, inMap, wire, accepted>>

handleClose(q) ==
  /\ functors' = q
  /\ IF state_ = "kDisconnected"
     THEN UNCHANGED <<connVars, serverVars, openFiles, downs>>
     ELSE /\ state_' = "kDisconnected"
          /\ fileFd_' = NoFile
          /\ openFiles' = openFiles \ {fileFd_}
          /\ disableAll
          /\ TellDown
          /\ closing' = IF serverAlive THEN closing + 1 ELSE closing
          /\ UNCHANGED <<outputBuffer_, aboveHighWaterMark_, fileLeft,
                         serverAlive, inMap>>
  /\ UNCHANGED <<sockVars, wire, accepted>>

forceCloseInLoop(q) ==
  IF Alive THEN handleClose(q)
  ELSE functors' = q /\ UNCHANGED <<connVars, sockVars, serverVars, histVars>>

(* Mutant: the channel stays in epoll.                                     *)
connectDestroyedKeepsChannel(q) ==
  /\ functors' = q
  /\ state_' = "kDisconnected"
  /\ IF Alive THEN disableAll /\ TellDown
     ELSE UNCHANGED <<events_, inEpoll_, downs>>
  /\ UNCHANGED <<outputBuffer_, aboveHighWaterMark_, fileFd_, fileLeft,
                 sockVars, serverVars, wire, accepted, openFiles>>

(* connectDestroyed(): fileFd_ is left as it is.                           *)
connectDestroyed(q) ==
  /\ functors' = q
  /\ state_' = IF Alive THEN "kDisconnected" ELSE state_
  /\ IF Alive THEN TellDown ELSE UNCHANGED downs
  /\ removeChannel
  /\ UNCHANGED <<outputBuffer_, aboveHighWaterMark_, fileFd_, fileLeft,
                 sockVars, serverVars, wire, accepted, openFiles>>

(* handleError() reads SO_ERROR, which clears it; nothing is closed.       *)
handleError(q) ==
  /\ soError' = FALSE
  /\ functors' = q
  /\ UNCHANGED <<connVars, room, wrClosed, peer, rxData, serverVars, histVars>>

(* handleRead(): data for messageCallback_, an error, or the end of file.  *)
handleRead(q) ==
  \/ /\ rxData
     /\ rxData' = FALSE
     /\ functors' = q
     /\ UNCHANGED <<connVars, room, wrClosed, peer, soError, serverVars, histVars>>
  \/ /\ ~rxData
     /\ soError \/ peer = "open"
     /\ handleError(q)
  \/ /\ ~rxData /\ ~soError /\ peer # "open"
     /\ handleClose(q)

-----------------------------------------------------------------------------
(* handleWrite(), when a write or a sendfile fails for good: the output    *)
(* stays queued, a file is given up.                                       *)
handleWriteFails(q) ==
  /\ Broken
  /\ outputBuffer_ # <<>> \/ fileFd_ # NoFile
  /\ functors' = q
  /\ soError' = FALSE
  /\ IF outputBuffer_ = <<>>
     THEN fileFd_' = NoFile /\ openFiles' = openFiles \ {fileFd_}
     ELSE UNCHANGED <<fileFd_, openFiles>>
  /\ UNCHANGED <<state_, events_, inEpoll_, outputBuffer_, aboveHighWaterMark_,
                 fileLeft, room, wrClosed, peer, rxData, serverVars, wire,
                 accepted, downs>>

(* Mutants: the low water mark is missed by one; it is not looked at.      *)
lowWaterMissed(output) == aboveHighWaterMark_ /\ Len(output) < lowWaterMark_
lowWaterIgnored(output) == FALSE

lowWaterReached(output) == aboveHighWaterMark_ /\ Len(output) <= lowWaterMark_

(* Mutants: a file that is still being sent is forgotten; the end of the   *)
(* file is not noticed.                                                    *)
drainedBufferOnly(output, left) == output = <<>>
drainedNoFile(output, left) == output = <<>> /\ fileFd_ = NoFile

(* All output is written: handleWrite() stops watching for EPOLLOUT.       *)
drained(output, left) == output = <<>> /\ (fileFd_ = NoFile \/ left = 0)

(* Mutant: the shutdown that waited for the output is forgotten.           *)
shutdownForgotten == wrClosed

(* Once writing is disabled, shutdownInLoop() does shut down.              *)
shutdownIfWaiting == wrClosed \/ state_ = "kDisconnecting"

(* handleWrite(), otherwise: queued output first, then the file, each as   *)
(* far as the socket takes it.                                             *)
handleWriteProgress(q) ==
  LET n      == MinOf(Len(outputBuffer_), room)
      output == SubSeq(outputBuffer_, n + 1, Len(outputBuffer_))
      k      == IF output = <<>> /\ fileFd_ # NoFile THEN MinOf(fileLeft, room - n) ELSE 0
      low    == lowWaterReached(output)
      done   == drained(output, fileLeft - k)
  IN  /\ ~Broken \/ (outputBuffer_ = <<>> /\ fileFd_ = NoFile)
      /\ outputBuffer_' = output
      /\ wire' = wire \o SubSeq(outputBuffer_, 1, n)
      /\ room' = (room - n) - k
      /\ aboveHighWaterMark_' = (aboveHighWaterMark_ /\ ~low)
      /\ functors' = q \o (IF low THEN <<Plain("lowWaterMark")>> ELSE <<>>)
                       \o (IF done THEN <<Plain("writeComplete")>> ELSE <<>>)
      /\ fileLeft' = fileLeft - k
      /\ IF done
         THEN /\ disableWriting
              /\ fileFd_' = NoFile
              /\ openFiles' = openFiles \ {fileFd_}
              /\ wrClosed' = shutdownIfWaiting
         ELSE UNCHANGED <<events_, inEpoll_, fileFd_, openFiles, wrClosed>>
      /\ UNCHANGED <<state_, peer, rxData, soError, serverVars, accepted, downs>>

handleWrite(q) ==
  \/ IsWriting /\ (handleWriteFails(q) \/ handleWriteProgress(q))
  \/ /\ ~IsWriting
     /\ functors' = q
     /\ UNCHANGED <<connVars, sockVars, serverVars, histVars>>

-----------------------------------------------------------------------------
(* The loop's iteration, as far as this connection sees it.                *)

(* epoll_wait returns for an event of this channel or a wakeup that came   *)
(* with a functor.                                                         *)
Poll ==
  /\ phase = "poll"
  /\ Reported # {} \/ functors # <<>>
  /\ phase' = "dispatch"
  /\ revents' = Reported
  /\ UNCHANGED <<connVars, batch, functors, callVars, sockVars, serverVars, histVars>>

(* handleEventWithGuard(): the callbacks in the order HUP, ERR, IN, OUT.   *)
HandleEvent ==
  /\ phase = "dispatch"
  /\ \/ /\ "hup" \in revents
        /\ revents' = revents \ {"hup"}
        /\ handleClose(functors)
     \/ /\ "hup" \notin revents /\ "err" \in revents
        /\ revents' = revents \ {"err"}
        /\ handleError(functors)
     \/ /\ revents \cap {"hup", "err"} = {} /\ "in" \in revents
        /\ revents' = revents \ {"in"}
        /\ handleRead(functors)
     \/ /\ revents = {"out"}
        /\ revents' = {}
        /\ handleWrite(functors)
  /\ UNCHANGED <<phase, batch, callVars>>

SwapFunctors ==
  /\ phase = "dispatch"
  /\ revents = {}
  /\ phase' = "functors"
  /\ batch' = Len(functors)
  /\ UNCHANGED <<connVars, revents, functors, callVars, sockVars, serverVars, histVars>>

(* One functor of the batch.  The three callbacks of the application leave *)
(* the connection alone, unless they call it (OwnCall).                    *)
RunFunctor ==
  /\ phase = "functors"
  /\ batch > 0
  /\ batch' = batch - 1
  /\ LET job == Head(functors)
         q   == Tail(functors)
     IN  \/ job.op = "connectEstablished" /\ connectEstablished(q)
         \/ job.op = "send" /\ sendInLoop(job.arg, q)
         \/ job.op = "sendFile" /\ sendFileInLoop(job.arg, q)
         \/ job.op = "shutdown" /\ shutdownInLoop(q) /\ UNCHANGED state_
         \/ job.op = "forceClose" /\ forceCloseInLoop(q)
         \/ job.op = "connectDestroyed" /\ connectDestroyed(q)
         \/ /\ job.op \in {"writeComplete", "lowWaterMark", "highWaterMark"}
            /\ functors' = q
            /\ UNCHANGED <<connVars, sockVars, serverVars, histVars>>
  /\ UNCHANGED <<phase, revents, callVars>>

FunctorsDone ==
  /\ phase = "functors"
  /\ batch = 0
  /\ phase' = "poll"
  /\ UNCHANGED <<connVars, revents, batch, functors, callVars, sockVars,
                 serverVars, histVars>>

-----------------------------------------------------------------------------
(* Calls of the application on the loop's thread, from any callback.       *)

OwnTurn == phase # "poll" /\ Len(functors) < MaxQueue

OwnSend(m) ==
  /\ OwnTurn /\ m \in fresh
  /\ state_ = "kConnected"
  /\ fresh' = fresh \ {m}
  /\ sendInLoop(m, functors)
  /\ UNCHANGED <<loopVars, caller, revived>>

OwnSendFile(f) ==
  /\ OwnTurn /\ f \in fresh
  /\ state_ = "kConnected"
  /\ fresh' = fresh \ {f}
  /\ sendFileInLoop(f, functors)
  /\ UNCHANGED <<loopVars, caller, revived>>

OwnShutdown ==
  /\ OwnTurn
  /\ state_ = "kConnected"
  /\ state_' = "kDisconnecting"
  /\ shutdownInLoop(functors)
  /\ UNCHANGED <<loopVars, callVars>>

OwnForceClose ==
  /\ OwnTurn
  /\ Alive
  /\ state_' = "kDisconnecting"
  /\ functors' = Append(functors, Plain("forceClose"))
  /\ UNCHANGED <<events_, inEpoll_, outputBuffer_, aboveHighWaterMark_, fileFd_,
                 fileLeft, loopVars, callVars, sockVars, serverVars, histVars>>

-----------------------------------------------------------------------------
(* Calls of foreign threads: state_ is tested, then the rest happens.      *)

ForeignTest(t) ==
  /\ caller[t] = Plain("idle")
  /\ Len(functors) < MaxQueue /\ closing < MaxQueue
  /\ \/ /\ state_ = "kConnected"
        /\ \E m \in Messages \cap fresh :
             caller' = [caller EXCEPT ![t] = Job("send", m)] /\ fresh' = fresh \ {m}
     \/ /\ state_ = "kConnected"
        /\ \E f \in Files \cap fresh :
             caller' = [caller EXCEPT ![t] = Job("sendFile", f)] /\ fresh' = fresh \ {f}
     \/ /\ state_ = "kConnected"
        /\ caller' = [caller EXCEPT ![t] = Plain("shutdown")]
        /\ UNCHANGED fresh
     \/ /\ Alive
        /\ caller' = [caller EXCEPT ![t] = Plain("forceClose")]
        /\ UNCHANGED fresh
  /\ UNCHANGED <<connVars, loopVars, functors, revived, sockVars, serverVars, histVars>>

(* shutdown() and forceClose() set state_ whatever it has become, then the *)
(* functor is queued.                                                      *)
ForeignQueue(t) ==
  /\ caller[t] # Plain("idle")
  /\ IF caller[t].op \in {"shutdown", "forceClose"}
     THEN /\ state_' = "kDisconnecting"
          /\ revived' = (revived \/ state_ = "kDisconnected")
     ELSE UNCHANGED <<state_, revived>>
  /\ functors' = Append(functors, caller[t])
  /\ caller' = [caller EXCEPT ![t] = Plain("idle")]
  /\ UNCHANGED <<events_, inEpoll_, outputBuffer_, aboveHighWaterMark_, fileFd_,
                 fileLeft, loopVars, fresh, sockVars, serverVars, histVars>>

-----------------------------------------------------------------------------
(* TcpServer, on the base loop.                                            *)

(* Mutant: the connection is erased, and never destroyed.                  *)
ServerErasesOnly ==
  /\ closing > 0
  /\ closing' = closing - 1
  /\ inMap' = FALSE
  /\ UNCHANGED <<connVars, loopVars, functors, callVars, sockVars, serverAlive, histVars>>

(* The functor closeCallback_ queued: erase, then queue connectDestroyed().*)
ServerRemoves ==
  /\ closing > 0
  /\ closing' = closing - 1
  /\ inMap' = FALSE
  /\ functors' = Append(functors, Plain("connectDestroyed"))
  /\ UNCHANGED <<connVars, loopVars, callVars, sockVars, serverAlive, histVars>>

(* ~TcpServer(): the callbacks are replaced, connectDestroyed() is queued. *)
ServerDestroyed ==
  /\ serverAlive
  /\ serverAlive' = FALSE
  /\ inMap' = FALSE
  /\ functors' = IF inMap THEN Append(functors, Plain("connectDestroyed")) ELSE functors
  /\ UNCHANGED <<connVars, loopVars, callVars, sockVars, closing, histVars>>

-----------------------------------------------------------------------------
(* The peer.                                                               *)

PeerReads ==
  /\ room < SndBuf
  /\ room' = room + 1
  /\ UNCHANGED <<connVars, loopVars, functors, callVars, wrClosed, peer, rxData,
                 soError, serverVars, histVars>>

PeerSends ==
  /\ peer = "open" /\ ~rxData
  /\ rxData' = TRUE
  /\ UNCHANGED <<connVars, loopVars, functors, callVars, room, wrClosed, peer,
                 soError, serverVars, histVars>>

PeerCloses ==
  /\ peer = "open"
  /\ peer' = "closed"
  /\ UNCHANGED <<connVars, loopVars, functors, callVars, room, wrClosed, rxData,
                 soError, serverVars, histVars>>

PeerResets ==
  /\ peer # "reset"
  /\ peer' = "reset" /\ soError' = TRUE
  /\ UNCHANGED <<connVars, loopVars, functors, callVars, room, wrClosed, rxData,
                 serverVars, histVars>>

-----------------------------------------------------------------------------
LoopStep == Poll \/ HandleEvent \/ SwapFunctors \/ RunFunctor \/ FunctorsDone

OwnCall ==
  \/ \E m \in Messages : OwnSend(m)
  \/ \E f \in Files : OwnSendFile(f)
  \/ OwnShutdown
  \/ OwnForceClose

Next ==
  \/ LoopStep
  \/ OwnCall
  \/ \E t \in Threads : ForeignTest(t) \/ ForeignQueue(t)
  \/ ServerRemoves
  \/ ServerDestroyed
  \/ PeerReads \/ PeerSends \/ PeerCloses \/ PeerResets

Spec == Init /\ [][Next]_vars

(* The loop's thread, the base loop and a thread inside a call go on, and  *)
(* the peer keeps reading.                                                 *)
Fairness ==
  /\ WF_vars(LoopStep)
  /\ WF_vars(ServerRemoves)
  /\ \A t \in Threads : WF_vars(ForeignQueue(t))
  /\ WF_vars(PeerReads)

FairSpec == Spec /\ Fairness

-----------------------------------------------------------------------------
Jobs == [op : {"idle", "connectEstablished", "send", "sendFile", "shutdown",
               "forceClose", "connectDestroyed", "writeComplete", "lowWaterMark",
               "highWaterMark"},
         arg : Messages \cup Files \cup {NoFile}]

(* Type correctness of every variable.                                     *)
TypeOK ==
  /\ state_ \in States
  /\ events_ \subseteq {"in", "out"} /\ inEpoll_ \in BOOLEAN
  /\ outputBuffer_ \in Seq(Messages \X (1..MsgLen))
  /\ aboveHighWaterMark_ \in BOOLEAN
  /\ fileFd_ \in Files \cup {NoFile} /\ fileLeft \in 0..FileSize
  /\ phase \in {"poll", "dispatch", "functors"}
  /\ revents \subseteq {"hup", "err", "in", "out"}
  /\ functors \in Seq(Jobs) /\ batch \in 0..Len(functors)
  /\ caller \in [Threads -> Jobs]
  /\ fresh \subseteq Messages \cup Files
  /\ room \in 0..SndBuf /\ wrClosed \in BOOLEAN
  /\ peer \in {"open", "closed", "reset"}
  /\ rxData \in BOOLEAN /\ soError \in BOOLEAN
  /\ serverAlive \in BOOLEAN /\ inMap \in BOOLEAN /\ closing \in Nat
  /\ wire \in Seq(Messages \X (1..MsgLen))
  /\ accepted \in Seq(Messages \X (1..MsgLen))
  /\ openFiles \subseteq Files /\ downs \in 0..2 /\ revived \in BOOLEAN

(* What went to the socket, followed by what is queued, is what            *)
(* sendInLoop() took, in that order: direct writes never overtake queued   *)
(* output, and partial writes neither lose nor repeat a byte.              *)
StreamOrder == wire \o outputBuffer_ = accepted

(* The flag that pauses producers agrees with the output that is queued:   *)
(* a producer told to pause has more than lowWaterMark_ queued, and as     *)
(* long as it was not told, less than highWaterMark_ is.                   *)
WatermarksAgree ==
  IF aboveHighWaterMark_ THEN Len(outputBuffer_) > lowWaterMark_
                         ELSE Len(outputBuffer_) < highWaterMark_

(* shutdown() and forceClose() on a foreign thread may overwrite           *)
(* kDisconnected, since they test state_ and set it in two steps.  The     *)
(* four properties below are about connections this did not happen to.     *)
NotRevived == ~revived

(* A connection that is not down watches for EPOLLOUT whenever it has      *)
(* something to write: no output is stuck in outputBuffer_ or fileFd_.     *)
OutputIsWatched ==
  NotRevived /\ Alive /\ (outputBuffer_ # <<>> \/ fileFd_ # NoFile)
    => IsWriting /\ inEpoll_

(* As long as a connection is not down, SHUT_WR is never sent over output  *)
(* it had taken before: a graceful shutdown drains first.                  *)
ShutdownAfterDrain ==
  [][NotRevived /\ Alive' /\ wrClosed' /\ ~wrClosed
       => outputBuffer_' = <<>> /\ fileFd_' = NoFile]_vars

(* A file that was taken is sent to its end: its descriptor is closed      *)
(* before that only when the socket failed or the connection went down.    *)
FileSentWhole ==
  [][openFiles \subseteq openFiles' \/ fileLeft' = 0 \/ Broken' \/ ~Alive']_vars

(* The application is told at most once that the connection is down, by    *)
(* whichever of handleClose() and connectDestroyed() comes first.          *)
DownOnce == NotRevived => downs <= 1

(* Nobody holds the connection any more except, perhaps, idle users.       *)
Released ==
  /\ ~inMap /\ closing = 0
  /\ functors = <<>> /\ phase = "poll"
  /\ \A t \in Threads : caller[t] = Plain("idle")

(* By the time the server and the queues have let go of the connection its *)
(* channel has left epoll, so that no event can reach a freed Channel.     *)
RemovedBeforeRelease == NotRevived /\ Released => ~inEpoll_

(* shutdown() on a connection whose peer keeps reading reaches SHUT_WR, or *)
(* the connection goes down: queued output cannot hold it up forever.      *)
ShutdownCompletes ==
  (state_ = "kDisconnecting") ~> (wrClosed \/ state_ = "kDisconnected")

(* A peer that closes or resets an established connection is noticed, and  *)
(* the channel leaves epoll.                                               *)
PeerCloseRemoves ==
  (state_ # "kConnecting" /\ peer # "open") ~> (state_ = "kDisconnected" /\ ~inEpoll_)

(* A producer that was told to pause is told to go on, or the connection   *)
(* goes down.                                                              *)
ProducersResume == aboveHighWaterMark_ ~> (~aboveHighWaterMark_ \/ ~Alive)

(* A file transfer ends when the peer keeps reading, behind whatever       *)
(* output is queued, or the connection goes down.                          *)
TransferEnds == (fileFd_ # NoFile) ~> (fileFd_ = NoFile \/ ~Alive)
=============================================================================
