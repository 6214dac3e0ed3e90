------------------------ MODULE EventLoopThreadPool ------------------------
(***************************************************************************)
(* An EventLoopThreadPool and its EventLoopThreads (src/pool): the owner,  *)
(* which is the thread of the base loop, starts the workers one by one,    *)
(* hands their loops out in turn and destroys them in the end.  Of a       *)
(* worker's EventLoop only what the handshake touches is kept: whether the *)
(* object exists, quit_ and the eventfd; EventLoop.tla models the rest.    *)
(* These are the steps of the pool; TcpServer.tla, whose threadPool_ it    *)
(* is, composes them with what runs on the loops.                          *)
(***************************************************************************)
EXTENDS Integers, Sequences, FiniteSets

CONSTANT MaxThreads  \* bound on numThreads_

ASSUME ThreadsAssumption == MaxThreads \in Nat

VARIABLES
  numThreads_, next_,
  loops_,      \* the workers whose loops start() collected
  owner,       \* where the owner is, see OwnerPcs
  cur,         \* the worker start() or the destructors are at
  worker,      \* where each threadFunc() is, see WorkerPcs
  loop_,       \* workers whose EventLoopThread::loop_ is not null
  alive,       \* workers whose EventLoop exists on their stack
  quit_,       \* workers whose loop has quit_ set
  woken,       \* workers whose eventfd is readable
  handed,      \* history: how often each worker's loop was handed out
  forgotten    \* history: workers told to quit before loop() reset quit_

poolVars   == <<numThreads_, next_, loops_, handed>>
threadVars == <<worker, loop_, alive>>
eventVars  == <<quit_, woken, forgotten>>

Workers == 1..MaxThreads

(* "idle" before start(); "create", "check" and "blocked": a worker is to  *)
(* be created, startLoop() tests loop_, it sleeps in cond_.wait();         *)
(* "serving" in loop() of the base loop; "clear" in the body of            *)
(* ~TcpServer(); "destroy", "wakeup" and "join": ~EventLoopThread() tests  *)
(* loop_, is inside quit(), waits in join(); "gone".                       *)
OwnerPcs == {"idle", "create", "check", "blocked", "serving", "clear",
             "destroy", "wakeup", "join", "gone"}

(* "none" before the thread runs; "begin" at the EventLoop of threadFunc(),*)
(* "publish" before loop_ is set, "enter" before loop(); "test", "poll"    *)
(* and "functors" inside it; "left" after it; "cleared" after              *)
(* loop_ = nullptr; "ended".                                               *)
InLoop == {"enter", "test", "poll", "functors"}
WorkerPcs == {"none", "begin", "publish", "left", "cleared", "ended"} \cup InLoop

Collected == {loops_[k] : k \in DOMAIN loops_}

PoolInit ==
  /\ numThreads_ = 0 /\ next_ = 0 /\ loops_ = <<>>
  /\ owner = "idle" /\ cur = 1
  /\ worker = [i \in Workers |-> "none"]
  /\ loop_ = {} /\ alive = {}
  /\ quit_ = {} /\ woken = {}
  /\ handed = [i \in Workers |-> 0]
  /\ forgotten = {}

-----------------------------------------------------------------------------
(* The owner.                                                              *)

setThreadNum(n) ==
  /\ owner = "idle"
  /\ numThreads_' = n
  /\ UNCHANGED <<next_, loops_, handed, owner, cur, threadVars, eventVars>>

(* start(): the workers are created one after the other.                   *)
start ==
  /\ owner = "idle"
  /\ owner' = IF numThreads_ = 0 THEN "serving" ELSE "create"
  /\ UNCHANGED <<poolVars, cur, threadVars, eventVars>>

(* new EventLoopThread and thread_.start().                                *)
CreateThread ==
  /\ owner = "create"
  /\ worker' = [worker EXCEPT ![cur] = "begin"]
  /\ owner' = "check"
  /\ UNCHANGED <<poolVars, cur, loop_, alive, eventVars>>

(* startLoop() returns loop_ and start() collects it.                      *)
Collect ==
  /\ loops_' = Append(loops_, cur)
  /\ IF cur < numThreads_
     THEN owner' = "create" /\ cur' = cur + 1
     ELSE owner' = "serving" /\ cur' = 1
  /\ UNCHANGED <<numThreads_, next_, handed, threadVars, eventVars>>

startLoopReturns ==
  /\ owner = "check" /\ cur \in loop_
  /\ Collect

startLoopWaits ==
  /\ owner = "check" /\ cur \notin loop_
  /\ owner' = "blocked"
  /\ UNCHANGED <<poolVars, cur, threadVars, eventVars>>

(* Mutant: `if` for `while` around cond_.wait().                           *)
SpuriousReturn ==
  /\ owner = "blocked"
  /\ Collect

(* cond_.wait() may return without a notification; the `while` tests again.*)
SpuriousWakeup ==
  /\ owner = "blocked"
  /\ owner' = "check"
  /\ UNCHANGED <<poolVars, cur, threadVars, eventVars>>

(* Mutant: the index wraps one loop early.                                 *)
wrapEarly(n) == IF n + 1 >= Len(loops_) THEN 0 ELSE n

(* next_ after it was incremented to n.                                    *)
wrap(n) == IF n >= Len(loops_) THEN 0 ELSE n

(* getNextLoop() when there are workers, called for every connection.      *)
getNextLoop ==
  /\ handed' = [handed EXCEPT ![loops_[next_ + 1]] = @ + 1]
  /\ next_' = wrap(next_ + 1)
  /\ UNCHANGED <<numThreads_, loops_>>

(* ~EventLoopThreadPool(): its threads_ are destroyed one after the other. *)
DestroyPool ==
  /\ owner = "clear"
  /\ owner' = IF loops_ = <<>> THEN "gone" ELSE "destroy"
  /\ UNCHANGED <<poolVars, cur, threadVars, eventVars>>

NextThread ==
  IF cur < Len(loops_)
  THEN owner' = "destroy" /\ cur' = cur + 1
  ELSE owner' = "gone" /\ UNCHANGED cur

(* Mutant: quit() does not write the eventfd.                              *)
QuitThreadNoWakeup ==
  /\ owner = "destroy" /\ cur \in loop_
  /\ quit_' = quit_ \cup {cur}
  /\ forgotten' = IF worker[cur] = "enter" THEN forgotten \cup {cur} ELSE forgotten
  /\ owner' = "join"
  /\ UNCHANGED <<poolVars, cur, threadVars, woken>>

(* ~EventLoopThread() finds a loop and sets its quit_.  loop_ is null only *)
(* after a loop that one of its own callbacks has quit, and none does.     *)
QuitThread ==
  /\ owner = "destroy" /\ cur \in loop_
  /\ quit_' = quit_ \cup {cur}
  /\ forgotten' = IF worker[cur] = "enter" THEN forgotten \cup {cur} ELSE forgotten
  /\ owner' = "wakeup"
  /\ UNCHANGED <<poolVars, cur, threadVars, woken>>

(* The rest of quit(): wakeup().  The worker may have left loop() and      *)
(* destroyed the EventLoop by now: the descriptor read from it is closed,  *)
(* or is by now another loop's.                                            *)
WakeupThread ==
  /\ owner = "wakeup"
  /\ IF cur \in alive
     THEN woken' = woken \cup {cur}
     ELSE \E S \in {{}} \cup {{j} : j \in alive} : woken' = woken \cup S
  /\ owner' = "join"
  /\ UNCHANGED <<poolVars, cur, threadVars, quit_, forgotten>>

(* Mutant: nobody waits for the thread.                                    *)
JoinThreadAtOnce ==
  /\ owner = "join"
  /\ NextThread
  /\ UNCHANGED <<poolVars, threadVars, eventVars>>

JoinThread ==
  /\ owner = "join" /\ worker[cur] = "ended"
  /\ NextThread
  /\ UNCHANGED <<poolVars, threadVars, eventVars>>

-----------------------------------------------------------------------------
(* A worker: threadFunc().                                                 *)

(* The EventLoop is constructed and callback_ is called with it.           *)
ConstructLoop(i) ==
  /\ worker[i] = "begin"
  /\ alive' = alive \cup {i}
  /\ worker' = [worker EXCEPT ![i] = "publish"]
  /\ UNCHANGED <<poolVars, owner, cur, loop_, eventVars>>

(* Mutant: nobody is notified.                                             *)
PublishSilently(i) ==
  /\ worker[i] = "publish"
  /\ loop_' = loop_ \cup {i}
  /\ worker' = [worker EXCEPT ![i] = "enter"]
  /\ UNCHANGED <<poolVars, owner, cur, alive, eventVars>>

(* loop_ = &loop and notify_one(), under mutex_.                           *)
Publish(i) ==
  /\ worker[i] = "publish"
  /\ loop_' = loop_ \cup {i}
  /\ owner' = IF owner = "blocked" /\ cur = i THEN "check" ELSE owner
  /\ worker' = [worker EXCEPT ![i] = "enter"]
  /\ UNCHANGED <<poolVars, cur, alive, eventVars>>

(* loop() resets quit_, whatever was asked before.                         *)
EnterLoop(i) ==
  /\ worker[i] = "enter"
  /\ quit_' = quit_ \ {i}
  /\ worker' = [worker EXCEPT ![i] = "test"]
  /\ UNCHANGED <<poolVars, owner, cur, loop_, alive, woken, forgotten>>

TestQuit(i) ==
  /\ worker[i] = "test"
  /\ worker' = [worker EXCEPT ![i] = IF i \in quit_ THEN "left" ELSE "poll"]
  /\ UNCHANGED <<poolVars, owner, cur, loop_, alive, eventVars>>

(* epoll_wait returns for the eventfd, which handleRead() clears.          *)
PollWakeup(i) ==
  /\ worker[i] = "poll" /\ i \in woken
  /\ woken' = woken \ {i}
  /\ worker' = [worker EXCEPT ![i] = "functors"]
  /\ UNCHANGED <<poolVars, owner, cur, loop_, alive, quit_, forgotten>>

(* epoll_wait returns for another channel.                                 *)
PollEvent(i) ==
  /\ worker[i] = "poll"
  /\ worker' = [worker EXCEPT ![i] = "functors"]
  /\ UNCHANGED <<poolVars, owner, cur, loop_, alive, eventVars>>

(* doPendingFunctors() has run what it swapped out.                        *)
FunctorsDone(i) ==
  /\ worker[i] = "functors"
  /\ worker' = [worker EXCEPT ![i] = "test"]
  /\ UNCHANGED <<poolVars, owner, cur, loop_, alive, eventVars>>

(* loop_ = nullptr, under mutex_.                                          *)
ClearLoop(i) ==
  /\ worker[i] = "left"
  /\ loop_' = loop_ \ {i}
  /\ worker' = [worker EXCEPT ![i] = "cleared"]
  /\ UNCHANGED <<poolVars, owner, cur, alive, eventVars>>

(* threadFunc() returns: the EventLoop is destroyed, its eventfd closed.   *)
EndThread(i) ==
  /\ worker[i] = "cleared"
  /\ alive' = alive \ {i}
  /\ woken' = woken \ {i}
  /\ worker' = [worker EXCEPT ![i] = "ended"]
  /\ UNCHANGED <<poolVars, owner, cur, loop_, quit_, forgotten>>

-----------------------------------------------------------------------------
StartStep == CreateThread \/ startLoopReturns \/ startLoopWaits

DestroyStep == QuitThread \/ WakeupThread \/ JoinThread

(* The steps of threadFunc() that need nothing of what the loop serves.    *)
ThreadStep(i) ==
  ConstructLoop(i) \/ Publish(i) \/ EnterLoop(i) \/ TestQuit(i) \/ ClearLoop(i)

-----------------------------------------------------------------------------
(* Type correctness of every variable.                                     *)
PoolTypeOK ==
  /\ numThreads_ \in 0..MaxThreads
  /\ loops_ \in Seq(Workers) /\ Len(loops_) <= numThreads_
  /\ next_ \in Nat /\ (loops_ = <<>> \/ next_ < Len(loops_))
  /\ owner \in OwnerPcs /\ cur \in 1..(MaxThreads + 1)
  /\ worker \in [Workers -> WorkerPcs]
  /\ loop_ \subseteq Workers /\ alive \subseteq Workers
  /\ quit_ \subseteq Workers /\ woken \subseteq alive
  /\ handed \in [Workers -> Nat] /\ forgotten \subseteq Workers

(* What getNextLoop() hands out can be used: until the pool is destroyed   *)
(* every collected loop exists, and its thread is at or inside loop().     *)
CollectedLoopsServe ==
  owner \in {"create", "check", "blocked", "serving", "clear"} =>
    \A i \in Collected : i \in loop_ \cap alive /\ worker[i] \in InLoop

(* Round robin: no worker is handed out twice more than another one.       *)
RoundRobin == \A i, j \in Collected : handed[i] <= handed[j] + 1

(* start() returns: the condition variable loses no notification.          *)
StartReturns == (owner = "create") ~> (owner = "serving")

(* The destructors return: quit() ends every worker, so that join() does.  *)
(* A quit() that comes between loop_ = &loop and the reset of quit_ at the *)
(* start of loop() is the exception: the worker forgets it.                *)
DestructorsReturn == (owner = "destroy") ~> (owner = "gone" \/ forgotten # {})

(* "Destroy worker loops before the state used by their callbacks": when   *)
(* ~TcpServer() has returned, no worker is inside its loop any more.       *)
WorkersEndFirst == owner = "gone" => \A i \in Workers : worker[i] \notin InLoop
=============================================================================
