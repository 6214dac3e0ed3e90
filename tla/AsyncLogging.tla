---------------------------- MODULE AsyncLogging ----------------------------
(***************************************************************************)
(* The asynchronous log (src/base/AsyncLogging.cpp) with its LogFile:      *)
(* producers append records under mutex_, a background thread swaps the    *)
(* filled buffers out and writes them without the lock, and main() starts  *)
(* and stops that thread.                                                  *)
(*                                                                         *)
(* A buffer is the sequence of its records, NULL a moved unique_ptr.  What *)
(* runs under mutex_ is one step.  LogFile::append() is one step per       *)
(* buffer; the file may roll, and the new file may fail to open.           *)
(***************************************************************************)
EXTENDS Naturals, Sequences, SequencesExt

CONSTANTS
  Records,      \* log records, each appended at most once
  RecordSize,   \* bytes of each record
  BufferSize,   \* kLargeBuffer
  rollSize_,    \* of LogFile
  NULL

(* Logger builds a record in a small buffer: it fits into an empty one.    *)
ASSUME SizeAssumption ==
  /\ BufferSize \in Nat /\ rollSize_ \in Nat
  /\ RecordSize \in [Records -> 1..(BufferSize - 1)]
ASSUME NullAssumption == NULL \notin Seq(Records)

VARIABLES
  currentBuffer_, nextBuffer_, buffers_, running_,   \* of AsyncLogging
  pc,                        \* where threadFunc() is
  newBuffer1, newBuffer2,    \* its locals
  buffersToWrite,
  toAppend,                  \* buffers of the for loop still to be written
  fileOpen, writtenBytes_,   \* of LogFile: fp_ is not null, bytes since the roll
  main,                      \* where the thread that calls start and stop is
  disk,                      \* records in the log files, in order
  logged,                    \* history: records appended, in order
  loggedAtStop               \* history: logged when stop() was called

frontVars == <<currentBuffer_, nextBuffer_, buffers_>>
backVars  == <<newBuffer1, newBuffer2, buffersToWrite, toAppend>>
fileVars  == <<fileOpen, writtenBytes_, disk>>
histVars  == <<logged, loggedAtStop>>
vars == <<frontVars, running_, pc, backVars, fileVars, main, histVars>>

(* length() of a buffer.                                                   *)
length(b) == FoldSeq(LAMBDA r, n : RecordSize[r] + n, 0, b)

avail(b) == BufferSize - length(b)

(* FixedBuffer::append(): what does not fit is dropped.                    *)
Put(b, r) == IF avail(b) > RecordSize[r] THEN Append(b, r) ELSE b

Init ==
  /\ currentBuffer_ = <<>> /\ nextBuffer_ = <<>> /\ buffers_ = <<>>
  /\ running_ = FALSE
  /\ pc = "unstarted"
  /\ newBuffer1 = NULL /\ newBuffer2 = NULL
  /\ buffersToWrite = <<>> /\ toAppend = <<>>
  /\ fileOpen = FALSE /\ writtenBytes_ = 0 /\ disk = <<>>
  /\ main = "created"
  /\ logged = <<>> /\ loggedAtStop = <<>>

-----------------------------------------------------------------------------
(* Mutant: a buffer with one byte left is taken for one with room.         *)
hasRoomOffByOne(r) == avail(currentBuffer_) >= RecordSize[r]

hasRoom(r) == avail(currentBuffer_) > RecordSize[r]

(* append(): a full buffer goes to buffers_ and the spare one is taken.    *)
append(r) ==
  /\ r \notin Range(logged)
  /\ logged' = Append(logged, r)
  /\ IF hasRoom(r)
     THEN /\ currentBuffer_' = Put(currentBuffer_, r)
          /\ UNCHANGED <<nextBuffer_, buffers_>>
     ELSE /\ buffers_' = Append(buffers_, currentBuffer_)
          /\ currentBuffer_' = Put(IF nextBuffer_ = NULL THEN <<>> ELSE nextBuffer_, r)
          /\ nextBuffer_' = NULL
  /\ UNCHANGED <<running_, pc, backVars, fileVars, main, loggedAtStop>>

-----------------------------------------------------------------------------
(* start(): threadFunc() begins, with buffers of its own and a LogFile.    *)
Start ==
  /\ main = "created"
  /\ main' = "started"
  /\ running_' = TRUE
  /\ pc' = "test"
  /\ newBuffer1' = <<>> /\ newBuffer2' = <<>>
  /\ fileOpen' \in BOOLEAN
  /\ UNCHANGED <<frontVars, buffersToWrite, toAppend, writtenBytes_, disk, histVars>>

(* stop(): running_ is cleared, the thread is notified and joined.         *)
Stop ==
  /\ main = "started"
  /\ main' = "joining"
  /\ running_' = FALSE
  /\ loggedAtStop' = logged
  /\ UNCHANGED <<frontVars, pc, backVars, fileVars, logged>>

Join ==
  /\ main = "joining"
  /\ pc = "exited"
  /\ main' = "stopped"
  /\ UNCHANGED <<frontVars, running_, pc, backVars, fileVars, histVars>>

-----------------------------------------------------------------------------
(* while (running_)                                                        *)
TestRunning ==
  /\ pc = "test"
  /\ pc' = IF running_ THEN "lock" ELSE "exited"
  /\ UNCHANGED <<frontVars, running_, backVars, fileVars, main, histVars>>

spareTaken == nextBuffer_ = NULL

(* Mutant: the buffer that is not full yet is left out.                    *)
fullBuffers == buffers_

allBuffers == Append(buffers_, currentBuffer_)

(* The critical section after the wait: the current buffer is queued, and  *)
(* all queued buffers are taken.                                           *)
swapBuffers ==
  /\ buffersToWrite' = allBuffers
  /\ toAppend' = buffersToWrite'
  /\ buffers_' = <<>>
  /\ currentBuffer_' = newBuffer1
  /\ newBuffer1' = NULL
  /\ IF spareTaken THEN nextBuffer_' = newBuffer2 /\ newBuffer2' = NULL
     ELSE UNCHANGED <<nextBuffer_, newBuffer2>>
  /\ pc' = "write"

LockAndSwap ==
  /\ pc = "lock"
  /\ buffers_ # <<>>
  /\ swapBuffers
  /\ UNCHANGED <<running_, fileVars, main, histVars>>

LockAndWait ==
  /\ pc = "lock"
  /\ buffers_ = <<>>
  /\ pc' = "waiting"
  /\ UNCHANGED <<frontVars, running_, backVars, fileVars, main, histVars>>

(* Mutant: the wait ends only when a buffer is full.                       *)
WaitEndsWhenFull ==
  /\ pc = "waiting"
  /\ buffers_ # <<>>
  /\ swapBuffers
  /\ UNCHANGED <<running_, fileVars, main, histVars>>

(* wait_for() returns on a notification, after flushInterval_ or for no    *)
(* reason: nothing is tested again.                                        *)
WaitEnds ==
  /\ pc = "waiting"
  /\ swapBuffers
  /\ UNCHANGED <<running_, fileVars, main, histVars>>

openAfter(roll, opened) == fileOpen /\ (roll => opened)

(* LogFile::append(): roll when the day changed or the file is full; a     *)
(* file that could not be opened takes nothing, and is never tried again.  *)
LogFileAppend(b) ==
  \E dayChanged, opened \in BOOLEAN :
    LET roll == dayChanged \/ writtenBytes_ > rollSize_
    IN  /\ fileOpen' = openAfter(roll, opened)
        /\ disk' = IF fileOpen' THEN disk \o b ELSE disk
        /\ writtenBytes_' = IF ~fileOpen THEN writtenBytes_
                            ELSE (IF roll THEN 0 ELSE writtenBytes_)
                                 + (IF fileOpen' THEN length(b) ELSE 0)

WriteBuffer ==
  /\ pc = "write"
  /\ toAppend # <<>>
  /\ LogFileAppend(Head(toAppend))
  /\ toAppend' = Tail(toAppend)
  /\ UNCHANGED <<frontVars, running_, pc, newBuffer1, newBuffer2, buffersToWrite,
                 main, histVars>>

(* Mutant: a buffer is taken back with what was written in it.             *)
resetForgotten(b) == b

(* FixedBuffer::reset().                                                   *)
reset(b) == <<>>

(* flush(), then the two buffers of the thread are refilled from those     *)
(* just written, of which at most two are kept.                            *)
Refill ==
  LET kept  == SubSeq(buffersToWrite, 1, Min({2, Len(buffersToWrite)}))
      rest1 == IF newBuffer1 = NULL THEN Front(kept) ELSE kept
  IN  /\ pc = "write"
      /\ toAppend = <<>>
      /\ newBuffer1' = IF newBuffer1 = NULL THEN reset(Last(kept)) ELSE newBuffer1
      /\ newBuffer2' = IF newBuffer2 = NULL THEN reset(Last(rest1)) ELSE newBuffer2
      /\ buffersToWrite' = <<>>
      /\ pc' = "test"
      /\ UNCHANGED <<frontVars, running_, toAppend, fileVars, main, histVars>>

ThreadStep ==
  \/ TestRunning
  \/ LockAndSwap \/ LockAndWait \/ WaitEnds
  \/ WriteBuffer
  \/ Refill

Next ==
  \/ \E r \in Records : append(r)
  \/ Start \/ Stop \/ Join
  \/ ThreadStep

Spec == Init /\ [][Next]_vars

(* The background thread goes on (wait_for() has a timeout), and so does   *)
(* main() inside stop().                                                   *)
Fairness == WF_vars(ThreadStep) /\ WF_vars(Join)

FairSpec == Spec /\ Fairness

-----------------------------------------------------------------------------
Buffers == Seq(Records)

(* Type correctness; no buffer ever holds BufferSize bytes or more, and    *)
(* the buffer producers write to is never a moved one.                     *)
TypeOK ==
  /\ currentBuffer_ \in Buffers /\ length(currentBuffer_) < BufferSize
  /\ nextBuffer_ \in Buffers \cup {NULL}
  /\ buffers_ \in Seq(Buffers)
  /\ running_ \in BOOLEAN
  /\ pc \in {"unstarted", "test", "lock", "waiting", "write", "exited"}
  /\ newBuffer1 \in Buffers \cup {NULL} /\ newBuffer2 \in Buffers \cup {NULL}
  /\ buffersToWrite \in Seq(Buffers) /\ toAppend \in Seq(Buffers)
  /\ fileOpen \in BOOLEAN /\ writtenBytes_ \in Nat /\ disk \in Buffers
  /\ main \in {"created", "started", "joining", "stopped"}
  /\ logged \in Buffers /\ loggedAtStop \in Buffers

(* The assertions at the head of the loop (AsyncLogging.cpp:68-70): in     *)
(* every round the thread has both of its buffers back, and empty; and the *)
(* refill (AsyncLogging.cpp:96-105) never takes back() of an empty vector. *)
BuffersReturned ==
  /\ pc \in {"test", "lock", "waiting"} =>
       newBuffer1 = <<>> /\ newBuffer2 = <<>> /\ buffersToWrite = <<>>
  /\ pc = "write" =>
       Len(buffersToWrite) >= (IF newBuffer1 = NULL THEN 1 ELSE 0)
                              + (IF newBuffer2 = NULL THEN 1 ELSE 0)

(* What is being written and what is buffered, in that order.              *)
Buffered == FlattenSeq(toAppend) \o FlattenSeq(buffers_) \o currentBuffer_

(* The log is a beginning of what was logged, once each and in the order   *)
(* of append(), whether or not a roll failed; as long as the file is open, *)
(* what it lacks is exactly what is buffered.                              *)
LogOrder ==
  /\ IsPrefix(disk, logged)
  /\ fileOpen => disk \o Buffered = logged

(* A record reaches the file, unless the log is stopped or the file could  *)
(* not be opened.                                                          *)
RecordsReachDisk ==
  \A r \in Records :
    (r \in Range(logged) /\ main = "started")
      ~> (r \in Range(disk) \/ ~running_ \/ ~fileOpen)

(* stop() returns.                                                         *)
StopReturns == (main = "joining") ~> (main = "stopped")

(* README.md:108 says that main() calls stop() "to ensure all buffered     *)
(* logs are safely flushed to disk before the process terminates".         *)
AllFlushedOnStop == main = "stopped" /\ fileOpen => IsPrefix(loggedAtStop, disk)
=============================================================================
