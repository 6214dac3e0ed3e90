-------------------------- MODULE TcpServerProofs --------------------------
(***************************************************************************)
(* Proofs about TcpServer.tla and the thread pool in it, for any number of *)
(* threads and connections: round robin, that every collected loop serves, *)
(* that no worker is inside its loop when the server is gone, and that the *)
(* server holds every connection a poller still knows.                     *)
(***************************************************************************)
EXTENDS TcpServer, SequenceTheorems, TLAPS

-----------------------------------------------------------------------------
(* What a queue holds, and that each x in it is followed by a y.           *)
Has(s, x) == \E i \in DOMAIN s : s[i] = x
Followed(s, x, y) ==
  \A i \in DOMAIN s : s[i] = x => \E j \in DOMAIN s : i < j /\ s[j] = y

(* An element is queued.                                                   *)
LEMMA AppendHas ==
  ASSUME NEW S, NEW s \in Seq(S), NEW x \in S, NEW y
  PROVE  /\ Append(s, x) \in Seq(S)
         /\ Has(Append(s, x), y) <=> Has(s, y) \/ y = x
<1>1. /\ Append(s, x) \in Seq(S) /\ Len(s) \in Nat
      /\ DOMAIN s = 1..Len(s) /\ DOMAIN Append(s, x) = 1..(Len(s) + 1)
      /\ \A i \in 1..Len(s) : Append(s, x)[i] = s[i]
      /\ Append(s, x)[Len(s) + 1] = x
  OBVIOUS
<1> QED BY <1>1 DEF Has

LEMMA AppendFollowed ==
  ASSUME NEW S, NEW s \in Seq(S), NEW w \in S, NEW x, NEW y, x # w
  PROVE  /\ Followed(s, x, y) => Followed(Append(s, w), x, y)
         /\ w = y => Followed(Append(s, w), x, y)
         /\ ~Has(s, x) => Followed(Append(s, w), x, y)
<1>1. /\ Append(s, w) \in Seq(S) /\ Len(s) \in Nat
      /\ DOMAIN s = 1..Len(s) /\ DOMAIN Append(s, w) = 1..(Len(s) + 1)
      /\ \A i \in 1..Len(s) : Append(s, w)[i] = s[i]
      /\ Append(s, w)[Len(s) + 1] = w
  OBVIOUS
<1>2. Followed(s, x, y) => Followed(Append(s, w), x, y)
  BY <1>1 DEF Followed
<1>3. w = y => Followed(Append(s, w), x, y)
  BY <1>1 DEF Followed
<1>4. ~Has(s, x) => Followed(Append(s, w), x, y)
  BY <1>1 DEF Has, Followed
<1> QED BY <1>2, <1>3, <1>4

(* The oldest element is taken out.                                        *)
LEMMA TailHas ==
  ASSUME NEW S, NEW s \in Seq(S), s # <<>>, NEW y
  PROVE  /\ Tail(s) \in Seq(S) /\ Head(s) \in S /\ Len(Tail(s)) = Len(s) - 1
         /\ Has(Tail(s), y) => Has(s, y)
         /\ Has(s, y) => Has(Tail(s), y) \/ y = Head(s)
         /\ Has(s, Head(s))
<1>1. /\ Tail(s) \in Seq(S) /\ Head(s) \in S /\ Len(s) \in Nat \ {0}
      /\ DOMAIN s = 1..Len(s) /\ DOMAIN Tail(s) = 1..(Len(s) - 1)
      /\ Len(Tail(s)) = Len(s) - 1
      /\ \A i \in 1..(Len(s) - 1) : Tail(s)[i] = s[i + 1]
      /\ s[1] = Head(s)
  OBVIOUS
<1>2. Has(s, y) => Has(Tail(s), y) \/ y = Head(s)
  <2> SUFFICES ASSUME NEW i \in 1..Len(s), s[i] = y, i # 1 PROVE Has(Tail(s), y)
    BY <1>1 DEF Has
  <2>1. i - 1 \in 1..(Len(s) - 1) /\ s[(i - 1) + 1] = y
    BY <1>1
  <2> QED BY <1>1, <2>1 DEF Has
<1> QED BY <1>1, <1>2 DEF Has

LEMMA TailFollowed ==
  ASSUME NEW S, NEW s \in Seq(S), s # <<>>, NEW x, NEW y, Followed(s, x, y)
  PROVE  /\ Followed(Tail(s), x, y)
         /\ Head(s) = x => Has(Tail(s), y)
<1>1. /\ Tail(s) \in Seq(S) /\ Len(s) \in Nat \ {0}
      /\ DOMAIN s = 1..Len(s) /\ DOMAIN Tail(s) = 1..(Len(s) - 1)
      /\ \A i \in 1..(Len(s) - 1) : Tail(s)[i] = s[i + 1]
      /\ s[1] = Head(s)
  OBVIOUS
<1>2. ASSUME NEW i \in 1..Len(s), s[i] = x
      PROVE  \E j \in 1..(Len(s) - 1) : i <= j /\ Tail(s)[j] = y
  <2>1. PICK k \in 1..Len(s) : i < k /\ s[k] = y
    BY <1>1, <1>2 DEF Followed
  <2>2. k - 1 \in 1..(Len(s) - 1) /\ s[(k - 1) + 1] = y /\ i <= k - 1
    BY <1>1, <2>1
  <2> QED BY <1>1, <2>2
<1>3. Followed(Tail(s), x, y)
  <2> SUFFICES ASSUME NEW i \in 1..(Len(s) - 1), Tail(s)[i] = x
               PROVE  \E j \in 1..(Len(s) - 1) : i < j /\ Tail(s)[j] = y
    BY <1>1 DEF Followed
  <2>1. i + 1 \in 1..Len(s) /\ s[i + 1] = x
    BY <1>1
  <2>2. PICK j \in 1..(Len(s) - 1) : i + 1 <= j /\ Tail(s)[j] = y
    BY <1>2, <2>1
  <2>3. Len(s) \in Nat /\ i < j
    BY <1>1, <2>2
  <2> QED BY <2>2, <2>3
<1>4. Head(s) = x => Has(Tail(s), y)
  <2>1. 1 \in 1..Len(s)
    BY <1>1
  <2> QED BY <1>1, <1>2, <2>1 DEF Has
<1> QED BY <1>3, <1>4

-----------------------------------------------------------------------------
Starting == {"create", "check", "blocked"}
BeforeDestroy == {"idle", "serving", "clear"} \cup Starting
Destroying == {"destroy", "wakeup", "join"}

(* The variables that the invariant is about.                              *)
coreVars == <<poolVars, owner, cur, worker, loop_, alive, quit_>>

-----------------------------------------------------------------------------
(* The inductive invariant, part by part.                                  *)

Types ==
  /\ numThreads_ \in 0..MaxThreads
  /\ cur \in Nat \ {0}
  /\ next_ \in Nat
  /\ loops_ \in Seq(Workers)
  /\ handed \in [Workers -> Nat]
  /\ owner \in OwnerPcs
  /\ worker \in [Workers -> WorkerPcs]
  /\ loop_ \subseteq Workers /\ alive \subseteq Workers /\ quit_ \subseteq Workers

(* Worker k is the k-th that start() collects.                             *)
LoopsInOrder == \A k \in 1..Len(loops_) : loops_[k] = k

(* How far start() is.                                                     *)
StartPhase ==
  /\ owner = "idle" => loops_ = <<>>
  /\ owner \in {"idle", "serving", "clear"} => cur = 1
  /\ owner \in Starting => Len(loops_) + 1 = cur /\ cur <= numThreads_
  /\ owner \in {"idle"} \cup Starting =>
       next_ = 0 /\ \A i \in Workers : handed[i] = 0

(* The workers up to next_ were handed out once more than the others.      *)
EvenlyHanded ==
  /\ loops_ # <<>> => next_ < Len(loops_)
  /\ \E q \in Nat : \A i \in 1..Len(loops_) :
       handed[i] = IF i <= next_ THEN q + 1 ELSE q

(* A thread exists for the collected workers and for the one that start()  *)
(* waits for.                                                              *)
ThreadsStarted ==
  \A i \in Workers :
    worker[i] # "none" => i <= Len(loops_) \/ (owner \in {"check", "blocked"} /\ i = cur)

(* loop_ and alive follow threadFunc().                                    *)
LoopLife ==
  \A i \in Workers :
    /\ worker[i] = "publish" => i \in alive
    /\ worker[i] \in InLoop => i \in loop_ \cap alive
    /\ i \in loop_ => worker[i] \in InLoop \cup {"left"}

(* No loop is left before the destructors, which go from worker to worker. *)
DestroyPhase ==
  /\ owner \in BeforeDestroy =>
       quit_ = {} /\ \A i \in Workers : worker[i] \notin {"left", "cleared", "ended"}
  /\ owner \in BeforeDestroy => \A i \in 1..Len(loops_) : worker[i] \in InLoop
  /\ owner \in Destroying =>
       cur <= Len(loops_) /\ \A i \in 1..(cur - 1) : worker[i] = "ended"
  /\ owner = "gone" => \A i \in 1..Len(loops_) : worker[i] = "ended"

PoolInv ==
  /\ Types
  /\ LoopsInOrder
  /\ StartPhase
  /\ EvenlyHanded
  /\ ThreadsStarted
  /\ LoopLife
  /\ DestroyPhase

(* Besides, a connection has one of the loops.                             *)
LoopOfType == loopOf \in [Conns -> LoopIds]

-----------------------------------------------------------------------------
(* Steps that leave the variables of the invariant alone preserve it.      *)
LEMMA CoreUnchanged ==
  ASSUME PoolInv, UNCHANGED coreVars
  PROVE  PoolInv'
<1> USE DEF PoolInv, Types, coreVars, poolVars
<1>1. LoopsInOrder' /\ StartPhase' /\ EvenlyHanded' /\ ThreadsStarted' /\ LoopLife'
  BY DEF LoopsInOrder, StartPhase, EvenlyHanded, ThreadsStarted, LoopLife,
         InLoop, Starting
<1>2. Types'
  BY ThreadsAssumption DEF StartPhase, Starting, OwnerPcs, WorkerPcs, InLoop,
         Workers
<1>3. DestroyPhase'
  BY DEF DestroyPhase, StartPhase, ThreadsStarted, LoopLife, Starting,
         BeforeDestroy, Destroying, InLoop, Workers, OwnerPcs, WorkerPcs
<1> QED BY <1>1, <1>2, <1>3

-----------------------------------------------------------------------------
(* The owner.                                                              *)

(* setThreadNum() comes before start().                                    *)
LEMMA SetThreadNumKeeps ==
  ASSUME PoolInv, NEW n \in 0..MaxThreads, setThreadNum(n)
  PROVE  PoolInv'
<1> USE DEF PoolInv, Types, poolVars, threadVars, eventVars, setThreadNum
<1>1. LoopsInOrder' /\ EvenlyHanded' /\ LoopLife'
  BY DEF LoopsInOrder, EvenlyHanded, LoopLife, InLoop
<1>2. Types'
  BY ThreadsAssumption DEF StartPhase, Starting, OwnerPcs, WorkerPcs, InLoop,
         Workers
<1>3. StartPhase'
  BY DEF StartPhase, DestroyPhase, Starting
<1>4. ThreadsStarted'
  BY DEF ThreadsStarted, StartPhase, Starting
<1>5. DestroyPhase'
  BY DEF DestroyPhase, StartPhase, ThreadsStarted, LoopLife, Starting,
         BeforeDestroy, Destroying, InLoop, Workers, OwnerPcs, WorkerPcs
<1> QED BY <1>1, <1>2, <1>3, <1>4, <1>5

(* start() begins with the first worker, or serves at once.                *)
LEMMA StartKeeps ==
  ASSUME PoolInv, start
  PROVE  PoolInv'
<1> USE DEF PoolInv, Types, poolVars, threadVars, eventVars, start
<1>1. LoopsInOrder' /\ EvenlyHanded' /\ LoopLife'
  BY DEF LoopsInOrder, EvenlyHanded, LoopLife, InLoop
<1>2. Types'
  BY ThreadsAssumption DEF StartPhase, Starting, OwnerPcs, WorkerPcs, InLoop,
         Workers
<1>3. StartPhase'
  BY DEF StartPhase, DestroyPhase, Starting
<1>4. ThreadsStarted'
  BY DEF ThreadsStarted, StartPhase, Starting
<1>5. DestroyPhase'
  BY DEF DestroyPhase, StartPhase, ThreadsStarted, LoopLife, Starting,
         BeforeDestroy, Destroying, InLoop, Workers, OwnerPcs, WorkerPcs
<1> QED BY <1>1, <1>2, <1>3, <1>4, <1>5

(* startLoop() waits for its worker.                                       *)
LEMMA StartLoopWaitsKeeps ==
  ASSUME PoolInv, startLoopWaits
  PROVE  PoolInv'
<1> USE DEF PoolInv, Types, poolVars, threadVars, eventVars, startLoopWaits
<1>1. LoopsInOrder' /\ EvenlyHanded' /\ LoopLife'
  BY DEF LoopsInOrder, EvenlyHanded, LoopLife, InLoop
<1>2. Types'
  BY ThreadsAssumption DEF StartPhase, Starting, OwnerPcs, WorkerPcs, InLoop,
         Workers
<1>3. StartPhase'
  BY DEF StartPhase, DestroyPhase, Starting
<1>4. ThreadsStarted'
  BY DEF ThreadsStarted, StartPhase, Starting
<1>5. DestroyPhase'
  BY DEF DestroyPhase, StartPhase, ThreadsStarted, LoopLife, Starting,
         BeforeDestroy, Destroying, InLoop, Workers, OwnerPcs, WorkerPcs
<1> QED BY <1>1, <1>2, <1>3, <1>4, <1>5

(* The wait ends without a notification.                                   *)
LEMMA SpuriousWakeupKeeps ==
  ASSUME PoolInv, SpuriousWakeup
  PROVE  PoolInv'
<1> USE DEF PoolInv, Types, poolVars, threadVars, eventVars, SpuriousWakeup
<1>1. LoopsInOrder' /\ EvenlyHanded' /\ LoopLife'
  BY DEF LoopsInOrder, EvenlyHanded, LoopLife, InLoop
<1>2. Types'
  BY ThreadsAssumption DEF StartPhase, Starting, OwnerPcs, WorkerPcs, InLoop,
         Workers
<1>3. StartPhase'
  BY DEF StartPhase, DestroyPhase, Starting
<1>4. ThreadsStarted'
  BY DEF ThreadsStarted, StartPhase, Starting
<1>5. DestroyPhase'
  BY DEF DestroyPhase, StartPhase, ThreadsStarted, LoopLife, Starting,
         BeforeDestroy, Destroying, InLoop, Workers, OwnerPcs, WorkerPcs
<1> QED BY <1>1, <1>2, <1>3, <1>4, <1>5

(* ~EventLoopThreadPool() begins with the first worker.                    *)
LEMMA DestroyPoolKeeps ==
  ASSUME PoolInv, DestroyPool
  PROVE  PoolInv'
<1> USE DEF PoolInv, Types, poolVars, threadVars, eventVars, DestroyPool
<1>1. LoopsInOrder' /\ EvenlyHanded' /\ LoopLife'
  BY DEF LoopsInOrder, EvenlyHanded, LoopLife, InLoop
<1>2. Types'
  BY ThreadsAssumption DEF StartPhase, Starting, OwnerPcs, WorkerPcs, InLoop,
         Workers
<1>3. StartPhase'
  BY DEF StartPhase, DestroyPhase, Starting
<1>4. ThreadsStarted'
  BY DEF ThreadsStarted, StartPhase, Starting
<1>5. DestroyPhase'
  BY DEF DestroyPhase, StartPhase, ThreadsStarted, LoopLife, Starting,
         BeforeDestroy, Destroying, InLoop, Workers, OwnerPcs, WorkerPcs
<1> QED BY <1>1, <1>2, <1>3, <1>4, <1>5

(* The destructor sets quit_ of its worker's loop.                         *)
LEMMA QuitThreadKeeps ==
  ASSUME PoolInv, QuitThread
  PROVE  PoolInv'
<1> USE DEF PoolInv, Types, poolVars, threadVars, eventVars, QuitThread
<1>1. LoopsInOrder' /\ EvenlyHanded' /\ LoopLife'
  BY DEF LoopsInOrder, EvenlyHanded, LoopLife, InLoop
<1>2. Types'
  BY ThreadsAssumption DEF StartPhase, Starting, OwnerPcs, WorkerPcs, InLoop,
         Workers
<1>3. StartPhase'
  BY DEF StartPhase, DestroyPhase, Starting
<1>4. ThreadsStarted'
  BY DEF ThreadsStarted, StartPhase, Starting
<1>5. DestroyPhase'
  BY DEF DestroyPhase, StartPhase, ThreadsStarted, LoopLife, Starting,
         BeforeDestroy, Destroying, InLoop, Workers, OwnerPcs, WorkerPcs
<1> QED BY <1>1, <1>2, <1>3, <1>4, <1>5

(* The destructor writes the eventfd.                                      *)
LEMMA WakeupThreadKeeps ==
  ASSUME PoolInv, WakeupThread
  PROVE  PoolInv'
<1> USE DEF PoolInv, Types, poolVars, threadVars, eventVars, WakeupThread
<1>1. LoopsInOrder' /\ EvenlyHanded' /\ LoopLife'
  BY DEF LoopsInOrder, EvenlyHanded, LoopLife, InLoop
<1>2. Types'
  BY ThreadsAssumption DEF StartPhase, Starting, OwnerPcs, WorkerPcs, InLoop,
         Workers
<1>3. StartPhase'
  BY DEF StartPhase, DestroyPhase, Starting
<1>4. ThreadsStarted'
  BY DEF ThreadsStarted, StartPhase, Starting
<1>5. DestroyPhase'
  BY DEF DestroyPhase, StartPhase, ThreadsStarted, LoopLife, Starting,
         BeforeDestroy, Destroying, InLoop, Workers, OwnerPcs, WorkerPcs
<1> QED BY <1>1, <1>2, <1>3, <1>4, <1>5

(* join() returns: all workers up to cur have ended.                       *)
LEMMA JoinThreadKeeps ==
  ASSUME PoolInv, JoinThread
  PROVE  PoolInv'
<1> USE DEF PoolInv, Types, poolVars, threadVars, eventVars, JoinThread
<1>1. LoopsInOrder' /\ EvenlyHanded' /\ LoopLife'
  BY DEF LoopsInOrder, EvenlyHanded, LoopLife, InLoop
<1>2. Types'
  <2>1. Len(loops_) \in Nat
    OBVIOUS
  <2>2. cur' \in Nat \ {0} /\ owner' \in OwnerPcs
    BY <2>1 DEF NextThread, OwnerPcs
  <2> QED BY <2>2
<1>3. StartPhase'
  BY DEF StartPhase, Starting, NextThread
<1>4. ThreadsStarted'
  BY DEF ThreadsStarted, NextThread
<1>5. DestroyPhase'
  BY DEF NextThread, DestroyPhase, StartPhase, ThreadsStarted, LoopLife,
         Starting, BeforeDestroy, Destroying, InLoop, Workers, OwnerPcs,
         WorkerPcs
<1> QED BY <1>1, <1>2, <1>3, <1>4, <1>5

(* ~TcpServer() begins.                                                    *)
LEMMA DestroyServerKeeps ==
  ASSUME PoolInv, DestroyServer
  PROVE  PoolInv'
<1> USE DEF PoolInv, Types, poolVars, threadVars, eventVars, DestroyServer
<1>1. LoopsInOrder' /\ EvenlyHanded' /\ LoopLife'
  BY DEF LoopsInOrder, EvenlyHanded, LoopLife, InLoop
<1>2. Types'
  BY ThreadsAssumption DEF StartPhase, Starting, OwnerPcs, WorkerPcs, InLoop,
         Workers
<1>3. StartPhase'
  BY DEF StartPhase, DestroyPhase, Starting
<1>4. ThreadsStarted'
  BY DEF ThreadsStarted, StartPhase, Starting
<1>5. DestroyPhase'
  BY DEF DestroyPhase, StartPhase, ThreadsStarted, LoopLife, Starting,
         BeforeDestroy, Destroying, InLoop, Workers, OwnerPcs, WorkerPcs
<1> QED BY <1>1, <1>2, <1>3, <1>4, <1>5

(* The worker that start() creates is the first without a thread.          *)
LEMMA CreateThreadKeeps ==
  ASSUME PoolInv, CreateThread
  PROVE  PoolInv'
<1> USE DEF PoolInv, Types, poolVars, threadVars, eventVars, CreateThread
<1>1. LoopsInOrder' /\ EvenlyHanded'
  BY DEF LoopsInOrder, EvenlyHanded
<1>2. Types'
  BY ThreadsAssumption DEF StartPhase, Starting, OwnerPcs, WorkerPcs, InLoop,
         Workers
<1>3. StartPhase'
  BY DEF StartPhase, DestroyPhase, Starting
<1>4. ThreadsStarted'
  BY DEF ThreadsStarted, StartPhase, Starting
<1>5. LoopLife'
  BY DEF LoopLife, InLoop, ThreadsStarted, StartPhase, Starting
<1>6. DestroyPhase'
  BY DEF DestroyPhase, StartPhase, ThreadsStarted, LoopLife, Starting,
         BeforeDestroy, Destroying, InLoop, Workers, OwnerPcs, WorkerPcs
<1> QED BY <1>1, <1>2, <1>3, <1>4, <1>5, <1>6

(* startLoop() returns only with a loop whose worker is at loop().         *)
LEMMA StartLoopReturnsKeeps ==
  ASSUME PoolInv, startLoopReturns
  PROVE  PoolInv'
<1> USE DEF PoolInv, Types, poolVars, threadVars, eventVars,
          startLoopReturns, Collect
<1>1. LoopLife'
  BY DEF LoopLife, InLoop
<1>2. Types'
  BY ThreadsAssumption DEF StartPhase, Starting, OwnerPcs, WorkerPcs, InLoop,
         Workers
<1>3. StartPhase'
  BY DEF StartPhase, DestroyPhase, Starting
<1>4. ThreadsStarted'
  BY DEF ThreadsStarted, StartPhase, Starting
<1>5. DestroyPhase'
  BY DEF DestroyPhase, StartPhase, ThreadsStarted, LoopLife, Starting,
         BeforeDestroy, Destroying, InLoop, Workers, OwnerPcs, WorkerPcs
<1>6. LoopsInOrder'
  BY DEF LoopsInOrder, StartPhase, Starting
<1>7. EvenlyHanded'
  <2>1. next_' = 0 /\ Len(loops_') = cur /\ cur <= MaxThreads
    BY ThreadsAssumption DEF StartPhase, Starting
  <2>2. \A i \in 1..Len(loops_') : handed'[i] = IF i <= next_' THEN 0 + 1 ELSE 0
    BY <2>1, ThreadsAssumption DEF StartPhase, Starting, Workers
  <2> QED BY <2>1, <2>2 DEF EvenlyHanded
<1> QED BY <1>1, <1>2, <1>3, <1>4, <1>5, <1>6, <1>7

-----------------------------------------------------------------------------
(* The workers.                                                            *)

(* The EventLoop exists before it is published.                            *)
LEMMA ConstructLoopKeeps ==
  ASSUME PoolInv, NEW i \in Workers, ConstructLoop(i)
  PROVE  PoolInv'
<1> USE DEF PoolInv, Types, poolVars, threadVars, eventVars, ConstructLoop
<1>1. LoopsInOrder' /\ StartPhase' /\ EvenlyHanded'
  BY DEF LoopsInOrder, StartPhase, EvenlyHanded, Starting
<1>2. Types'
  BY ThreadsAssumption DEF StartPhase, Starting, OwnerPcs, WorkerPcs, InLoop,
         Workers
<1>3. ThreadsStarted'
  BY DEF ThreadsStarted, StartPhase, Starting
<1>4. LoopLife'
  BY DEF LoopLife, InLoop
<1>5. DestroyPhase'
  BY DEF DestroyPhase, StartPhase, ThreadsStarted, LoopLife, Starting,
         BeforeDestroy, Destroying, InLoop, Workers, OwnerPcs, WorkerPcs
<1> QED BY <1>1, <1>2, <1>3, <1>4, <1>5

(* loop_ is set while the loop exists.                                     *)
LEMMA PublishKeeps ==
  ASSUME PoolInv, NEW i \in Workers, Publish(i)
  PROVE  PoolInv'
<1> USE DEF PoolInv, Types, poolVars, threadVars, eventVars, Publish
<1>1. LoopsInOrder' /\ StartPhase' /\ EvenlyHanded'
  BY DEF LoopsInOrder, StartPhase, EvenlyHanded, Starting
<1>2. Types'
  BY ThreadsAssumption DEF StartPhase, Starting, OwnerPcs, WorkerPcs, InLoop,
         Workers
<1>3. ThreadsStarted'
  BY DEF ThreadsStarted, StartPhase, Starting
<1>4. LoopLife'
  BY DEF LoopLife, InLoop
<1>5. DestroyPhase'
  BY DEF DestroyPhase, StartPhase, ThreadsStarted, LoopLife, Starting,
         BeforeDestroy, Destroying, InLoop, Workers, OwnerPcs, WorkerPcs
<1> QED BY <1>1, <1>2, <1>3, <1>4, <1>5

(* loop() is entered with loop_ set.                                       *)
LEMMA EnterLoopKeeps ==
  ASSUME PoolInv, NEW i \in Workers, EnterLoop(i)
  PROVE  PoolInv'
<1> USE DEF PoolInv, Types, poolVars, threadVars, eventVars, EnterLoop
<1>1. LoopsInOrder' /\ StartPhase' /\ EvenlyHanded'
  BY DEF LoopsInOrder, StartPhase, EvenlyHanded, Starting
<1>2. Types'
  BY ThreadsAssumption DEF StartPhase, Starting, OwnerPcs, WorkerPcs, InLoop,
         Workers
<1>3. ThreadsStarted'
  BY DEF ThreadsStarted, StartPhase, Starting
<1>4. LoopLife'
  BY DEF LoopLife, InLoop
<1>5. DestroyPhase'
  BY DEF DestroyPhase, StartPhase, ThreadsStarted, LoopLife, Starting,
         BeforeDestroy, Destroying, InLoop, Workers, OwnerPcs, WorkerPcs
<1> QED BY <1>1, <1>2, <1>3, <1>4, <1>5

(* A worker leaves loop() only when quit_ is set.                          *)
LEMMA TestQuitKeeps ==
  ASSUME PoolInv, NEW i \in Workers, TestQuit(i)
  PROVE  PoolInv'
<1> USE DEF PoolInv, Types, poolVars, threadVars, eventVars, TestQuit
<1>1. LoopsInOrder' /\ StartPhase' /\ EvenlyHanded'
  BY DEF LoopsInOrder, StartPhase, EvenlyHanded, Starting
<1>2. Types'
  BY ThreadsAssumption DEF StartPhase, Starting, OwnerPcs, WorkerPcs, InLoop,
         Workers
<1>3. ThreadsStarted'
  BY DEF ThreadsStarted, StartPhase, Starting
<1>4. LoopLife'
  BY DEF LoopLife, InLoop
<1>5. DestroyPhase'
  BY DEF DestroyPhase, StartPhase, ThreadsStarted, LoopLife, Starting,
         BeforeDestroy, Destroying, InLoop, Workers, OwnerPcs, WorkerPcs
<1> QED BY <1>1, <1>2, <1>3, <1>4, <1>5

(* The poll returns for the eventfd.                                       *)
LEMMA PollWakeupKeeps ==
  ASSUME PoolInv, NEW i \in Workers, PollWakeup(i)
  PROVE  PoolInv'
<1> USE DEF PoolInv, Types, poolVars, threadVars, eventVars, PollWakeup
<1>1. LoopsInOrder' /\ StartPhase' /\ EvenlyHanded'
  BY DEF LoopsInOrder, StartPhase, EvenlyHanded, Starting
<1>2. Types'
  BY ThreadsAssumption DEF StartPhase, Starting, OwnerPcs, WorkerPcs, InLoop,
         Workers
<1>3. ThreadsStarted'
  BY DEF ThreadsStarted, StartPhase, Starting
<1>4. LoopLife'
  BY DEF LoopLife, InLoop
<1>5. DestroyPhase'
  BY DEF DestroyPhase, StartPhase, ThreadsStarted, LoopLife, Starting,
         BeforeDestroy, Destroying, InLoop, Workers, OwnerPcs, WorkerPcs
<1> QED BY <1>1, <1>2, <1>3, <1>4, <1>5

(* The poll returns for a connection.                                      *)
LEMMA PollEventKeeps ==
  ASSUME PoolInv, NEW i \in Workers, PollEvent(i)
  PROVE  PoolInv'
<1> USE DEF PoolInv, Types, poolVars, threadVars, eventVars, PollEvent
<1>1. LoopsInOrder' /\ StartPhase' /\ EvenlyHanded'
  BY DEF LoopsInOrder, StartPhase, EvenlyHanded, Starting
<1>2. Types'
  BY ThreadsAssumption DEF StartPhase, Starting, OwnerPcs, WorkerPcs, InLoop,
         Workers
<1>3. ThreadsStarted'
  BY DEF ThreadsStarted, StartPhase, Starting
<1>4. LoopLife'
  BY DEF LoopLife, InLoop
<1>5. DestroyPhase'
  BY DEF DestroyPhase, StartPhase, ThreadsStarted, LoopLife, Starting,
         BeforeDestroy, Destroying, InLoop, Workers, OwnerPcs, WorkerPcs
<1> QED BY <1>1, <1>2, <1>3, <1>4, <1>5

(* The iteration ends.                                                     *)
LEMMA FunctorsDoneKeeps ==
  ASSUME PoolInv, NEW i \in Workers, FunctorsDone(i)
  PROVE  PoolInv'
<1> USE DEF PoolInv, Types, poolVars, threadVars, eventVars, FunctorsDone
<1>1. LoopsInOrder' /\ StartPhase' /\ EvenlyHanded'
  BY DEF LoopsInOrder, StartPhase, EvenlyHanded, Starting
<1>2. Types'
  BY ThreadsAssumption DEF StartPhase, Starting, OwnerPcs, WorkerPcs, InLoop,
         Workers
<1>3. ThreadsStarted'
  BY DEF ThreadsStarted, StartPhase, Starting
<1>4. LoopLife'
  BY DEF LoopLife, InLoop
<1>5. DestroyPhase'
  BY DEF DestroyPhase, StartPhase, ThreadsStarted, LoopLife, Starting,
         BeforeDestroy, Destroying, InLoop, Workers, OwnerPcs, WorkerPcs
<1> QED BY <1>1, <1>2, <1>3, <1>4, <1>5

(* loop_ is cleared after loop().                                          *)
LEMMA ClearLoopKeeps ==
  ASSUME PoolInv, NEW i \in Workers, ClearLoop(i)
  PROVE  PoolInv'
<1> USE DEF PoolInv, Types, poolVars, threadVars, eventVars, ClearLoop
<1>1. LoopsInOrder' /\ StartPhase' /\ EvenlyHanded'
  BY DEF LoopsInOrder, StartPhase, EvenlyHanded, Starting
<1>2. Types'
  BY ThreadsAssumption DEF StartPhase, Starting, OwnerPcs, WorkerPcs, InLoop,
         Workers
<1>3. ThreadsStarted'
  BY DEF ThreadsStarted, StartPhase, Starting
<1>4. LoopLife'
  BY DEF LoopLife, InLoop
<1>5. DestroyPhase'
  BY DEF DestroyPhase, StartPhase, ThreadsStarted, LoopLife, Starting,
         BeforeDestroy, Destroying, InLoop, Workers, OwnerPcs, WorkerPcs
<1> QED BY <1>1, <1>2, <1>3, <1>4, <1>5

(* The EventLoop goes after loop_ was cleared.                             *)
LEMMA EndThreadKeeps ==
  ASSUME PoolInv, NEW i \in Workers, EndThread(i)
  PROVE  PoolInv'
<1> USE DEF PoolInv, Types, poolVars, threadVars, eventVars, EndThread
<1>1. LoopsInOrder' /\ StartPhase' /\ EvenlyHanded'
  BY DEF LoopsInOrder, StartPhase, EvenlyHanded, Starting
<1>2. Types'
  BY ThreadsAssumption DEF StartPhase, Starting, OwnerPcs, WorkerPcs, InLoop,
         Workers
<1>3. ThreadsStarted'
  BY DEF ThreadsStarted, StartPhase, Starting
<1>4. LoopLife'
  BY DEF LoopLife, InLoop
<1>5. DestroyPhase'
  BY DEF DestroyPhase, StartPhase, ThreadsStarted, LoopLife, Starting,
         BeforeDestroy, Destroying, InLoop, Workers, OwnerPcs, WorkerPcs
<1> QED BY <1>1, <1>2, <1>3, <1>4, <1>5

-----------------------------------------------------------------------------
(* newConnection() hands out the next loop: the order goes on evenly, also *)
(* where next_ wraps around.                                               *)
LEMMA NewConnectionKeeps ==
  ASSUME PoolInv, NEW c \in Conns, acceptConnection(c)
  PROVE  PoolInv'
<1> USE DEF PoolInv
<1>1. CASE loops_ = <<>>
  <2>1. UNCHANGED coreVars
    BY <1>1 DEF acceptConnection, newConnection, coreVars, threadVars
  <2> QED BY <2>1, CoreUnchanged
<1>2. CASE loops_ # <<>>
  <2> DEFINE k == next_ + 1
  <2>1. /\ getNextLoop /\ owner = "serving"
        /\ UNCHANGED <<owner, cur, threadVars, quit_>>
    BY <1>2 DEF acceptConnection, listening, newConnection
  <2>2. k \in 1..Len(loops_) /\ k \in Workers /\ loops_[k] = k
    BY <1>2 DEF Types, EvenlyHanded, LoopsInOrder
  <2>3. UNCHANGED <<numThreads_, loops_>>
    BY <2>1 DEF getNextLoop
  <2>4. handed' = [handed EXCEPT ![k] = @ + 1]
    BY <2>1, <2>2 DEF getNextLoop
  <2>5. next_' = IF k = Len(loops_) THEN 0 ELSE k
    BY <2>1, <2>2 DEF getNextLoop, wrap, Types
  <2>6. Types'
    BY <2>1, <2>2, <2>3, <2>4, <2>5 DEF Types, threadVars
  <2>7. EvenlyHanded'
    <3>1. PICK q \in Nat : \A i \in 1..Len(loops_) :
                              handed[i] = IF i <= next_ THEN q + 1 ELSE q
      BY DEF EvenlyHanded
    <3>2. Len(loops_) \in Nat /\ next_ \in Nat /\ 1..Len(loops_) \subseteq Workers
      BY DEF Types, LoopsInOrder
    <3>3. \A i \in 1..Len(loops_) : handed'[i] = IF i <= k THEN q + 1 ELSE q
      <4> SUFFICES ASSUME NEW i \in 1..Len(loops_)
                   PROVE  handed'[i] = IF i <= k THEN q + 1 ELSE q
        OBVIOUS
      <4>1. i \in Workers /\ handed[i] = IF i <= next_ THEN q + 1 ELSE q
        BY <3>1, <3>2
      <4>2. handed'[i] = IF i = k THEN handed[i] + 1 ELSE handed[i]
        BY <2>4, <4>1 DEF Types
      <4> QED BY <3>2, <4>1, <4>2
    <3>4. CASE k = Len(loops_)
      <4>1. \A i \in 1..Len(loops_') :
              handed'[i] = IF i <= next_' THEN (q + 1) + 1 ELSE q + 1
        BY <2>3, <2>5, <3>2, <3>3, <3>4
      <4> QED BY <1>2, <2>3, <2>5, <3>2, <3>4, <4>1 DEF EvenlyHanded
    <3>5. CASE k # Len(loops_)
      <4>1. \A i \in 1..Len(loops_') : handed'[i] = IF i <= next_' THEN q + 1 ELSE q
        BY <2>3, <2>5, <3>3, <3>5
      <4>2. next_' < Len(loops_')
        BY <2>2, <2>3, <2>5, <3>2, <3>5
      <4> QED BY <4>1, <4>2 DEF EvenlyHanded
    <3> QED BY <3>4, <3>5
  <2>8. LoopsInOrder' /\ StartPhase'
    BY <2>1, <2>3 DEF LoopsInOrder, StartPhase, Starting
  <2>9. ThreadsStarted' /\ LoopLife' /\ DestroyPhase'
    BY <2>1, <2>3 DEF ThreadsStarted, LoopLife, DestroyPhase, threadVars
  <2> QED BY <2>6, <2>7, <2>8, <2>9
<1> QED BY <1>1, <1>2

-----------------------------------------------------------------------------
(* The invariant holds before start(), and every step preserves it.        *)
LEMMA PoolInvInit == Init => PoolInv
<1> SUFFICES ASSUME Init PROVE PoolInv
  OBVIOUS
<1> USE DEF Init, PoolInit
<1>1. Types
  BY ThreadsAssumption DEF Types, OwnerPcs, WorkerPcs
<1>2. LoopsInOrder /\ StartPhase
  BY DEF LoopsInOrder, StartPhase, Starting
<1>3. EvenlyHanded
  <2>1. \A i \in 1..Len(loops_) : handed[i] = IF i <= next_ THEN 0 + 1 ELSE 0
    OBVIOUS
  <2> QED BY <2>1 DEF EvenlyHanded
<1>4. ThreadsStarted /\ LoopLife /\ DestroyPhase
  BY DEF ThreadsStarted, LoopLife, InLoop, DestroyPhase, Destroying
<1> QED BY <1>1, <1>2, <1>3, <1>4 DEF PoolInv

(* What the workers do, in the loop of the pool or around it.              *)
LEMMA WorkerStepKeeps ==
  ASSUME PoolInv, NEW i \in Workers, WorkerStep(i) \/ WorkerInput(i)
  PROVE  PoolInv'
<1>1. CASE ThreadStep(i)
  BY <1>1, ConstructLoopKeeps, PublishKeeps, EnterLoopKeeps, TestQuitKeeps,
     ClearLoopKeeps DEF ThreadStep
<1>2. CASE WorkerWakeup(i) \/ WorkerInput(i)
  BY <1>2, PollWakeupKeeps, PollEventKeeps DEF WorkerWakeup, WorkerInput
<1>3. CASE WorkerFunctorsDone(i) \/ EndWorker(i)
  BY <1>3, FunctorsDoneKeeps, EndThreadKeeps DEF WorkerFunctorsDone, EndWorker
<1>4. CASE RunFunctor(i) \/ \E c \in Conns : loopOf[c] = i /\ closeCallback(c)
  <2>1. UNCHANGED coreVars
    BY <1>4 DEF RunFunctor, closeCallback, coreVars, threadVars, eventVars
  <2> QED BY <2>1, CoreUnchanged
<1> QED BY <1>1, <1>2, <1>3, <1>4 DEF WorkerStep

(* What the owner does in start() and in the destructors.                  *)
LEMMA OwnerStepKeeps ==
  ASSUME PoolInv, OwnerStep
  PROVE  PoolInv'
<1>1. CASE StartStep
  BY <1>1, CreateThreadKeeps, StartLoopReturnsKeeps, StartLoopWaitsKeeps DEF StartStep
<1>2. CASE \E c \in Conns : DestroyConnection(c)
  <2>1. UNCHANGED coreVars
    BY <1>2 DEF DestroyConnection, coreVars, threadVars
  <2> QED BY <2>1, CoreUnchanged
<1>3. CASE DestroyPool
  BY <1>3, DestroyPoolKeeps
<1>4. CASE DestroyStep
  BY <1>4, QuitThreadKeeps, WakeupThreadKeeps, JoinThreadKeeps DEF DestroyStep
<1> QED BY <1>1, <1>2, <1>3, <1>4 DEF OwnerStep

(* One case for each disjunct of Next.                                     *)
LEMMA PoolInvNext == PoolInv /\ LoopOfType /\ [Next]_vars => PoolInv'
<1> SUFFICES ASSUME PoolInv, LoopOfType, [Next]_vars PROVE PoolInv'
  OBVIOUS
<1>1. CASE \E n \in 0..MaxThreads : setThreadNum(n)
  BY <1>1, SetThreadNumKeeps
<1>2. CASE start \/ SpuriousWakeup
  BY <1>2, StartKeeps, SpuriousWakeupKeeps
<1>3. CASE OwnerStep
  BY <1>3, OwnerStepKeeps
<1>4. CASE BaseStep \/ UNCHANGED vars
  <2>1. UNCHANGED coreVars
    BY <1>4 DEF BaseStep, RunRemove, RunBaseDestroyed, vars, coreVars, threadVars,
                eventVars
  <2> QED BY <2>1, CoreUnchanged
<1>5. CASE DestroyServer
  BY <1>5, DestroyServerKeeps
<1>6. ASSUME NEW c \in Conns, acceptConnection(c) PROVE PoolInv'
  BY <1>6, NewConnectionKeeps
<1>7. ASSUME NEW c \in Conns, CloseOnBase(c) PROVE PoolInv'
  <2>1. UNCHANGED coreVars
    BY <1>7 DEF CloseOnBase, coreVars, threadVars, eventVars
  <2> QED BY <2>1, CoreUnchanged
<1>8. ASSUME NEW c \in Conns, CloseOnWorker(c) PROVE PoolInv'
  <2>1. loopOf[c] \in Workers
    BY <1>8, ThreadsAssumption DEF LoopOfType, LoopIds, Workers, CloseOnWorker
  <2> QED BY <1>8, <2>1, PollEventKeeps DEF CloseOnWorker
<1>9. ASSUME NEW i \in Workers, WorkerStep(i) \/ WorkerInput(i) PROVE PoolInv'
  BY <1>9, WorkerStepKeeps
<1> QED BY <1>1, <1>2, <1>3, <1>4, <1>5, <1>6, <1>7, <1>8, <1>9 DEF Next

(* Only newConnection() gives a connection its loop.                       *)
LEMMA LoopOfTypeNext == PoolInv /\ LoopOfType /\ [Next]_vars => LoopOfType'
<1> SUFFICES ASSUME PoolInv, LoopOfType, [Next]_vars PROVE LoopOfType'
  OBVIOUS
<1> USE DEF LoopOfType
<1>1. ASSUME NEW c \in Conns, acceptConnection(c) PROVE LoopOfType'
  <2>1. CASE loops_ = <<>>
    BY <1>1, <2>1 DEF acceptConnection, newConnection
  <2>2. CASE loops_ # <<>>
    <3>1. loops_[next_ + 1] \in Workers
      BY <2>2 DEF PoolInv, Types, EvenlyHanded
    <3>2. Workers \subseteq LoopIds
      BY ThreadsAssumption DEF Workers, LoopIds
    <3> QED BY <1>1, <2>2, <3>1, <3>2 DEF acceptConnection, newConnection
  <2> QED BY <2>1, <2>2
<1>2. CASE ~\E c \in Conns : acceptConnection(c)
  <2>1. UNCHANGED loopOf
    BY <1>2 DEF Next, vars, connVars, OwnerStep, DestroyConnection, BaseStep, RunRemove,
       RunBaseDestroyed, DestroyServer, CloseOnBase, CloseOnWorker, WorkerStep,
       WorkerInput, WorkerWakeup, RunFunctor, WorkerFunctorsDone, EndWorker, closeCallback
  <2> QED BY <2>1
<1> QED BY <1>1, <1>2

(* PoolInv holds in every reachable state.                                 *)
LEMMA PoolInvariant == Spec => []PoolInv
<1>1. Init => LoopOfType
  BY ThreadsAssumption DEF Init, LoopOfType, LoopIds
<1> QED BY <1>1, PoolInvInit, PoolInvNext, LoopOfTypeNext, PTL DEF Spec

-----------------------------------------------------------------------------
(* Round robin: with any number of worker loops and of connections, and    *)
(* however they are started, getNextLoop() never hands one loop out twice  *)
(* more than another.                                                      *)
THEOREM RoundRobinHolds == Spec => []RoundRobin
<1>1. PoolInv => RoundRobin
  <2> SUFFICES ASSUME PoolInv, NEW i \in Collected, NEW j \in Collected
               PROVE  handed[i] <= handed[j] + 1
    BY DEF RoundRobin
  <2>1. i \in 1..Len(loops_) /\ j \in 1..Len(loops_)
    BY DEF PoolInv, Types, LoopsInOrder, Collected
  <2>2. PICK q \in Nat : \A n \in 1..Len(loops_) :
                            handed[n] = IF n <= next_ THEN q + 1 ELSE q
    BY DEF PoolInv, EvenlyHanded
  <2>3. handed[i] \in {q, q + 1} /\ handed[j] \in {q, q + 1}
    BY <2>1, <2>2
  <2> QED BY <2>3
<1> QED BY <1>1, PoolInvariant, PTL

(* What getNextLoop() hands out can be used: until the destructor of the   *)
(* pool runs, a loop that start() collected exists and its thread is at or *)
(* inside loop(), whatever the condition variable and the workers do.      *)
THEOREM CollectedLoopsServeHolds == Spec => []CollectedLoopsServe
<1>1. PoolInv => CollectedLoopsServe
  <2> SUFFICES ASSUME PoolInv, NEW i \in Collected,
                      owner \in {"create", "check", "blocked", "serving", "clear"}
               PROVE  i \in loop_ \cap alive /\ worker[i] \in InLoop
    BY DEF CollectedLoopsServe
  <2>1. i \in 1..Len(loops_) /\ i \in Workers
    BY DEF PoolInv, Types, LoopsInOrder, Collected
  <2>2. worker[i] \in InLoop
    BY <2>1 DEF PoolInv, DestroyPhase, BeforeDestroy, Starting
  <2> QED BY <2>1, <2>2 DEF PoolInv, LoopLife
<1> QED BY <1>1, PoolInvariant, PTL

(* "Destroy worker loops before the state used by their callbacks": when   *)
(* ~TcpServer() has returned, every worker it started has been joined.     *)
THEOREM WorkersEndFirstHolds == Spec => []WorkersEndFirst
<1>1. PoolInv => WorkersEndFirst
  BY DEF PoolInv, Types, ThreadsStarted, DestroyPhase, WorkersEndFirst, InLoop, Workers
<1> QED BY <1>1, PoolInvariant, PTL

-----------------------------------------------------------------------------
(* Who keeps a registered connection alive: a second inductive invariant,  *)
(* about the connections and the queues of the loops.                      *)

Tasks == [op : {"connectEstablished", "connectDestroyed", "remove"}, conn : Conns]
Established(c) == Task("connectEstablished", c)
Destroyed(c) == Task("connectDestroyed", c)

ServerTypes ==
  /\ state_ \in [Conns -> {"none", "kConnecting", "kConnected", "kDisconnected"}]
  /\ LoopOfType
  /\ connections_ \subseteq Conns /\ registered \subseteq Conns /\ closing \subseteq Conns
  /\ tasks \in [LoopIds -> Seq(Tasks)]
  /\ batch \in [Workers -> Nat]

(* Nothing is known of a connection before it is accepted.                 *)
Unaccepted ==
  \A c \in Conns : state_[c] = "none" =>
    /\ c \notin connections_ \cup registered \cup closing
    /\ \A i \in LoopIds : \A task \in Tasks : task.conn = c => ~Has(tasks[i], task)

(* connectEstablished() is queued on the connection's own loop, a worker's,*)
(* and of a connection that has left the map, connectDestroyed() comes     *)
(* behind it.                                                              *)
EstablishedFirst ==
  /\ \A c \in Conns, i \in LoopIds :
       Has(tasks[i], Established(c)) => i = loopOf[c] /\ i # 0
  /\ \A c \in Conns : c \in connections_
       \/ Followed(tasks[loopOf[c]], Established(c), Destroyed(c))

(* What has left the map and is still registered is about to be destroyed. *)
DestroyedLast ==
  \A c \in registered : c \in connections_ \/ Has(tasks[loopOf[c]], Destroyed(c))

(* A worker swaps the functors out while it runs them, also when one of    *)
(* its connections closes.                                                 *)
Batches ==
  /\ \A i \in Workers : batch[i] <= Len(tasks[i])
  /\ \A i \in Workers : worker[i] # "functors" => batch[i] = 0
  /\ \A c \in closing : loopOf[c] \in Workers /\ worker[loopOf[c]] = "functors"

ServerInv ==
  /\ ServerTypes
  /\ Unaccepted
  /\ EstablishedFirst
  /\ DestroyedLast
  /\ Batches

-----------------------------------------------------------------------------
(* Tasks differ when their calls or their connections do.                  *)
LEMMA TaskFacts ==
  /\ \A c \in Conns : /\ Established(c) \in Tasks /\ Established(c).conn = c
                      /\ Destroyed(c) \in Tasks /\ Destroyed(c).conn = c
                      /\ Task("remove", c) \in Tasks /\ Task("remove", c).conn = c
  /\ \A c, d \in Conns : Established(c) = Established(d) \/ Destroyed(c) = Destroyed(d) => c = d
  /\ \A c, d \in Conns : /\ Established(c) # Destroyed(d)
                         /\ Established(c) # Task("remove", d)
                         /\ Destroyed(c) # Task("remove", d)
  /\ \A task \in Tasks : task.conn \in Conns /\ task = Task(task.op, task.conn)
BY DEF Tasks, Task, Established, Destroyed

(* What queueing a task on loop j, and taking its oldest one, leave.       *)
Pushed(Q, R, j, w) ==
  /\ R \in [LoopIds -> Seq(Tasks)]
  /\ \A i \in LoopIds : \A x : Has(R[i], x) <=> Has(Q[i], x) \/ (i = j /\ x = w)
  /\ \A i \in LoopIds : \A x, y : x # w /\ Followed(Q[i], x, y) => Followed(R[i], x, y)
  /\ \A x, y : x # w /\ y = w => Followed(R[j], x, y)
  /\ \A i \in LoopIds : Len(Q[i]) \in Nat /\ Len(R[i]) \in Nat /\ Len(Q[i]) <= Len(R[i])

Popped(Q, R, j) ==
  /\ R \in [LoopIds -> Seq(Tasks)]
  /\ Head(Q[j]) \in Tasks /\ Has(Q[j], Head(Q[j]))
  /\ \A i \in LoopIds : \A x : Has(R[i], x) => Has(Q[i], x)
  /\ \A i \in LoopIds : \A x : Has(Q[i], x) => Has(R[i], x) \/ (i = j /\ x = Head(Q[j]))
  /\ \A i \in LoopIds : \A x, y : Followed(Q[i], x, y) => Followed(R[i], x, y)
  /\ \A y : Followed(Q[j], Head(Q[j]), y) => Has(R[j], y)
  /\ \A i \in LoopIds : Len(R[i]) = IF i = j THEN Len(Q[i]) - 1 ELSE Len(Q[i])

(* Queueing a task on one of the loops.                                    *)
LEMMA QueuePushed ==
  ASSUME NEW Q \in [LoopIds -> Seq(Tasks)], NEW j \in LoopIds, NEW w \in Tasks,
         NEW R, R = [Q EXCEPT ![j] = Append(@, w)]
  PROVE  Pushed(Q, R, j, w)
<1>1. /\ R[j] = Append(Q[j], w) /\ Q[j] \in Seq(Tasks)
      /\ \A i \in LoopIds : i # j => R[i] = Q[i] /\ Q[i] \in Seq(Tasks)
  OBVIOUS
<1>2. R \in [LoopIds -> Seq(Tasks)]
  OBVIOUS
<1>3. \A i \in LoopIds : \A x : Has(R[i], x) <=> Has(Q[i], x) \/ (i = j /\ x = w)
  BY <1>1, AppendHas
<1>4. \A i \in LoopIds : \A x, y : x # w /\ Followed(Q[i], x, y) => Followed(R[i], x, y)
  BY <1>1, AppendFollowed
<1>5. \A x, y : x # w /\ y = w => Followed(R[j], x, y)
  BY <1>1, AppendFollowed
<1>6. \A i \in LoopIds : Len(Q[i]) \in Nat /\ Len(R[i]) \in Nat /\ Len(Q[i]) <= Len(R[i])
  BY <1>1
<1> QED BY <1>2, <1>3, <1>4, <1>5, <1>6 DEF Pushed

(* Taking the oldest task of one of the loops.                             *)
LEMMA Pop ==
  ASSUME NEW Q \in [LoopIds -> Seq(Tasks)], NEW j \in LoopIds, Q[j] # <<>>,
         NEW R, R = [Q EXCEPT ![j] = Tail(@)]
  PROVE  Popped(Q, R, j)
<1>1. /\ R[j] = Tail(Q[j]) /\ Q[j] \in Seq(Tasks)
      /\ \A i \in LoopIds : i # j => R[i] = Q[i]
  OBVIOUS
<1>2. /\ Tail(Q[j]) \in Seq(Tasks) /\ Head(Q[j]) \in Tasks /\ Has(Q[j], Head(Q[j]))
      /\ Len(Tail(Q[j])) = Len(Q[j]) - 1
  BY <1>1, TailHas
<1>3. R \in [LoopIds -> Seq(Tasks)]
  BY <1>2
<1>4. \A i \in LoopIds : \A x : Has(R[i], x) => Has(Q[i], x)
  BY <1>1, TailHas
<1>5. \A i \in LoopIds : \A x : Has(Q[i], x) => Has(R[i], x) \/ (i = j /\ x = Head(Q[j]))
  BY <1>1, TailHas
<1>6. \A i \in LoopIds : \A x, y : Followed(Q[i], x, y) => Followed(R[i], x, y)
  BY <1>1, TailFollowed
<1>7. \A y : Followed(Q[j], Head(Q[j]), y) => Has(R[j], y)
  BY <1>1, TailFollowed
<1>8. \A i \in LoopIds : Len(R[i]) = IF i = j THEN Len(Q[i]) - 1 ELSE Len(Q[i])
  BY <1>1, <1>2
<1> QED BY <1>2, <1>3, <1>4, <1>5, <1>6, <1>7, <1>8 DEF Popped

-----------------------------------------------------------------------------
(* Steps of the pool, which run no functor and close no connection.        *)
LEMMA PoolStepKeeps ==
  ASSUME ServerInv, UNCHANGED <<connVars, taskVars>>,
         \A i \in Workers : worker[i] = "functors" => worker'[i] = "functors"
  PROVE  ServerInv'
<1> USE DEF ServerInv, connVars, taskVars
<1>1. ServerTypes' /\ Unaccepted' /\ EstablishedFirst' /\ DestroyedLast'
  BY DEF ServerTypes, LoopOfType, Unaccepted, EstablishedFirst, DestroyedLast
<1>2. Batches'
  BY DEF Batches
<1> QED BY <1>1, <1>2

(* A worker goes into its functors with all that are queued.               *)
LEMMA SwapKeeps ==
  ASSUME ServerInv, PoolInv, NEW i \in Workers, WorkerWakeup(i) \/ WorkerInput(i)
  PROVE  ServerInv'
<1> USE DEF ServerInv
<1>1. /\ UNCHANGED <<connVars, tasks>> /\ Swap(i)
      /\ worker' = [worker EXCEPT ![i] = "functors"]
  BY DEF WorkerWakeup, WorkerInput, PollWakeup, PollEvent
<1>2. i \in LoopIds /\ Len(tasks[i]) \in Nat /\ worker \in [Workers -> WorkerPcs]
  BY ThreadsAssumption DEF ServerTypes, LoopIds, Workers, PoolInv, Types
<1>3. ServerTypes'
  BY <1>1, <1>2 DEF ServerTypes, LoopOfType, Swap, connVars
<1>4. Unaccepted' /\ EstablishedFirst' /\ DestroyedLast'
  BY <1>1 DEF Unaccepted, EstablishedFirst, DestroyedLast, connVars
<1>5. Batches'
  BY <1>1, <1>2 DEF Batches, Swap, ServerTypes, connVars
<1> QED BY <1>3, <1>4, <1>5

(* A worker leaves its functors when all are run.                          *)
LEMMA WorkerFunctorsDoneKeeps ==
  ASSUME ServerInv, PoolInv, NEW i \in Workers, WorkerFunctorsDone(i)
  PROVE  ServerInv'
<1> USE DEF ServerInv, WorkerFunctorsDone
<1>1. ServerTypes' /\ Unaccepted' /\ EstablishedFirst' /\ DestroyedLast'
  BY DEF ServerTypes, LoopOfType, Unaccepted, EstablishedFirst, DestroyedLast,
         connVars, taskVars
<1>2. Batches'
  BY DEF Batches, FunctorsDone, connVars, taskVars, PoolInv, Types
<1> QED BY <1>1, <1>2

(* The EventLoop of a worker goes, and with it its epoll and its functors. *)
LEMMA EndWorkerKeeps ==
  ASSUME ServerInv, PoolInv, NEW i \in Workers, EndWorker(i)
  PROVE  ServerInv'
<1> USE DEF ServerInv, EndWorker
<1>1. /\ worker[i] = "cleared" /\ worker' = [worker EXCEPT ![i] = "ended"]
      /\ worker \in [Workers -> WorkerPcs] /\ i \in LoopIds /\ Workers \subseteq LoopIds
      /\ tasks \in [LoopIds -> Seq(Tasks)]
  BY ThreadsAssumption DEF EndThread, PoolInv, Types, LoopIds, Workers, ServerTypes
<1>2. \A x : ~Has(<<>>, x)
  BY DEF Has
<1>3. \A j \in LoopIds : \A x : Has(tasks'[j], x) => Has(tasks[j], x)
  BY <1>1, <1>2
<1>4. ServerTypes'
  BY <1>1 DEF ServerTypes, LoopOfType
<1>5. Unaccepted'
  BY <1>3 DEF Unaccepted
<1>6. EstablishedFirst'
  <2>1. \A c \in Conns : loopOf[c] = i =>
          Followed(tasks'[loopOf[c]], Established(c), Destroyed(c))
    BY <1>1 DEF Followed
  <2>2. \A c \in Conns : loopOf[c] # i => tasks'[loopOf[c]] = tasks[loopOf[c]]
    BY <1>1 DEF ServerTypes, LoopOfType
  <2> QED BY <1>3, <2>1, <2>2 DEF EstablishedFirst
<1>7. DestroyedLast'
  BY <1>1 DEF DestroyedLast, ServerTypes, LoopOfType
<1>8. Batches'
  <2>1. \A j \in Workers : batch[j] <= Len(tasks'[j])
    <3>1. batch[i] = 0 /\ Len(tasks'[i]) = 0
      BY <1>1 DEF Batches
    <3> QED BY <1>1, <3>1 DEF Batches
  <2>2. \A c \in closing : loopOf[c] # i
    BY <1>1 DEF Batches
  <2> QED BY <1>1, <2>1, <2>2 DEF Batches
<1> QED BY <1>4, <1>5, <1>6, <1>7, <1>8

(* A worker runs connectEstablished() or connectDestroyed().               *)
LEMMA RunFunctorKeeps ==
  ASSUME ServerInv, PoolInv, NEW i \in Workers, RunFunctor(i)
  PROVE  ServerInv'
<1> USE DEF ServerInv
<1>1. /\ i \in LoopIds /\ Workers \subseteq LoopIds /\ tasks \in [LoopIds -> Seq(Tasks)]
      /\ worker[i] = "functors" /\ batch[i] > 0 /\ batch[i] <= Len(tasks[i])
      /\ batch' = [batch EXCEPT ![i] = @ - 1] /\ tasks' = [tasks EXCEPT ![i] = Tail(@)]
      /\ UNCHANGED <<worker, loopOf, connections_, closing>>
  BY ThreadsAssumption DEF RunFunctor, threadVars, LoopIds, Workers, ServerTypes, Batches
<1>2. tasks[i] # <<>>
  BY <1>1 DEF ServerTypes
<1>3. Popped(tasks, tasks', i)
  BY <1>1, <1>2, Pop
<1>4. PICK c \in Conns :
        \/ /\ Head(tasks[i]) = Established(c) /\ registered' = registered \cup {c}
           /\ state_' = [state_ EXCEPT ![c] = "kConnected"]
        \/ /\ Head(tasks[i]) = Destroyed(c) /\ registered' = registered \ {c}
           /\ state_' = [state_ EXCEPT ![c] =
                           IF @ = "kConnected" THEN "kDisconnected" ELSE @]
  <2>1. Head(tasks[i]).conn \in Conns
        /\ Head(tasks[i]) = Task(Head(tasks[i]).op, Head(tasks[i]).conn)
    BY <1>3, TaskFacts DEF Popped
  <2> QED BY <2>1 DEF RunFunctor, connectEstablished, connectDestroyed, Established, Destroyed
<1>5. state_[c] # "none" /\ \A d \in Conns : d # c => state_'[d] = state_[d]
  <2>1. Head(tasks[i]).conn = c /\ Head(tasks[i]) \in Tasks
    BY <1>4, TaskFacts
  <2>2. Has(tasks[i], Head(tasks[i]))
    BY <1>3 DEF Popped
  <2>3. state_[c] # "none"
    BY <1>1, <2>1, <2>2 DEF Unaccepted
  <2> QED BY <1>4, <2>3 DEF ServerTypes
<1>6. state_'[c] # "none"
  BY <1>4, <1>5 DEF ServerTypes
<1>7. ServerTypes'
  <2>1. state_' \in [Conns -> {"none", "kConnecting", "kConnected", "kDisconnected"}]
    BY <1>4 DEF ServerTypes
  <2>2. batch' \in [Workers -> Nat]
    BY <1>1 DEF ServerTypes
  <2> QED BY <1>1, <1>3, <1>4, <2>1, <2>2 DEF ServerTypes, LoopOfType, Popped
<1>8. Unaccepted'
  BY <1>1, <1>3, <1>4, <1>5, <1>6 DEF Unaccepted, Popped
<1>9. EstablishedFirst'
  BY <1>1, <1>3 DEF EstablishedFirst, ServerTypes, LoopOfType, Popped
<1>10. DestroyedLast'
  <2>1. ASSUME NEW d \in registered', d # c
        PROVE  d \in connections_ \/ Has(tasks'[loopOf[d]], Destroyed(d))
    <3>1. d \in registered /\ d \in Conns /\ loopOf[d] \in LoopIds
      BY <1>4, <2>1 DEF ServerTypes, LoopOfType
    <3>2. Head(tasks[i]) # Destroyed(d)
      BY <1>4, <2>1, <3>1, TaskFacts
    <3> QED BY <1>3, <3>1, <3>2 DEF DestroyedLast, Popped
  <2>2. ASSUME c \in registered'
        PROVE  c \in connections_ \/ Has(tasks'[loopOf[c]], Destroyed(c))
    <3>1. Head(tasks[i]) = Established(c)
      BY <1>4, <2>2
    <3>2. loopOf[c] = i
      BY <1>1, <1>3, <3>1 DEF EstablishedFirst, Popped
    <3> QED BY <1>3, <3>1, <3>2 DEF EstablishedFirst, Popped
  <2> QED BY <1>1, <2>1, <2>2 DEF DestroyedLast
<1>11. Batches'
  BY <1>1, <1>3 DEF Batches, ServerTypes, Popped
<1> QED BY <1>7, <1>8, <1>9, <1>10, <1>11

(* A worker's connection closes: it is inside handleClose().               *)
LEMMA CloseOnWorkerKeeps ==
  ASSUME ServerInv, PoolInv, NEW c \in Conns, CloseOnWorker(c)
  PROVE  ServerInv'
<1> USE DEF ServerInv, CloseOnWorker
<1>1. loopOf[c] \in Workers /\ worker' = [worker EXCEPT ![loopOf[c]] = "functors"]
  BY ThreadsAssumption DEF ServerTypes, LoopOfType, LoopIds, Workers, PollEvent
<1>2. /\ \A d \in Conns : d # c => state_'[d] = state_[d]
      /\ state_'[c] # "none"
      /\ state_' \in [Conns -> {"none", "kConnecting", "kConnected", "kDisconnected"}]
  BY DEF ServerTypes
<1>3. ServerTypes' /\ EstablishedFirst' /\ DestroyedLast'
  BY <1>2 DEF ServerTypes, LoopOfType, EstablishedFirst, DestroyedLast, taskVars
<1>4. Unaccepted'
  BY <1>2 DEF Unaccepted, taskVars
<1>5. Batches'
  BY <1>1 DEF Batches, taskVars, PoolInv, Types
<1> QED BY <1>3, <1>4, <1>5

-----------------------------------------------------------------------------
(* Queueing what is neither connectEstablished() nor of an unknown         *)
(* connection disturbs nothing.                                            *)
LEMMA PushKeeps ==
  ASSUME ServerInv, NEW c \in Conns, state_[c] # "none", NEW j \in LoopIds,
         NEW w \in {Destroyed(c), Task("remove", c)},
         tasks' = [tasks EXCEPT ![j] = Append(@, w)],
         UNCHANGED <<loopOf, connections_>>, registered' \subseteq registered
  PROVE  /\ tasks' \in [LoopIds -> Seq(Tasks)]
         /\ EstablishedFirst' /\ DestroyedLast'
         /\ \A d \in Conns, i \in LoopIds, task \in Tasks :
              d # c /\ task.conn = d /\ Has(tasks'[i], task) => Has(tasks[i], task)
         /\ \A i \in LoopIds : Len(tasks[i]) \in Nat /\ Len(tasks'[i]) \in Nat
                                /\ Len(tasks[i]) <= Len(tasks'[i])
<1> USE DEF ServerInv
<1>1. tasks \in [LoopIds -> Seq(Tasks)] /\ w \in Tasks /\ w.conn = c
  BY TaskFacts DEF ServerTypes
<1>2. \A d \in Conns : Established(d) # w
  BY TaskFacts
<1>3. Pushed(tasks, tasks', j, w)
  BY <1>1, QueuePushed
<1> USE DEF Pushed
<1>4. EstablishedFirst'
  BY <1>2, <1>3 DEF EstablishedFirst, ServerTypes, LoopOfType
<1>5. DestroyedLast'
  BY <1>3 DEF DestroyedLast, ServerTypes, LoopOfType
<1> QED BY <1>1, <1>3, <1>4, <1>5

(* closeCallback_ queues the removal on the base loop, unless it was       *)
(* replaced.                                                               *)
LEMMA CloseCallbackKeeps ==
  ASSUME ServerInv, PoolInv, NEW c \in Conns, closeCallback(c)
  PROVE  ServerInv'
<1> USE DEF ServerInv, closeCallback
<1>1. /\ loopOf[c] \in Workers /\ worker[loopOf[c]] = "functors" /\ 0 \in LoopIds
      /\ Workers \subseteq LoopIds /\ state_[c] # "none" /\ 0 \notin Workers
      /\ UNCHANGED <<worker, state_, loopOf, connections_, registered>>
  BY ThreadsAssumption DEF Batches, LoopIds, Workers, Unaccepted, threadVars
<1>2. /\ tasks' \in [LoopIds -> Seq(Tasks)]
      /\ EstablishedFirst' /\ DestroyedLast'
      /\ \A d \in Conns, i \in LoopIds, task \in Tasks :
           d # c /\ task.conn = d /\ Has(tasks'[i], task) => Has(tasks[i], task)
      /\ \A i \in LoopIds : Len(tasks[i]) \in Nat
      /\ \A i \in Workers : tasks'[i] = tasks[i]
  <2>1. CASE UNCHANGED tasks
    BY <1>1, <2>1 DEF ServerTypes, EstablishedFirst, DestroyedLast
  <2>2. CASE queueInLoop(0, Task("remove", c))
    <3>1. \A i \in Workers : tasks'[i] = tasks[i]
      BY <1>1, <2>2 DEF queueInLoop, ServerTypes
    <3> QED BY <1>1, <2>2, <3>1, PushKeeps DEF queueInLoop
  <2> QED BY <2>1, <2>2
<1>3. batch' = [batch EXCEPT ![loopOf[c]] = Len(tasks[loopOf[c]])]
  BY DEF Swap
<1>4. ServerTypes'
  BY <1>1, <1>2, <1>3 DEF ServerTypes, LoopOfType
<1>5. Unaccepted'
  BY <1>1, <1>2 DEF Unaccepted
<1>6. Batches'
  BY <1>1, <1>2, <1>3 DEF Batches, ServerTypes
<1> QED BY <1>2, <1>4, <1>5, <1>6

(* A connection leaves the map: connectDestroyed() is queued on its loop,  *)
(* after the removal that asked for it (if any) was taken from tasks.      *)
LEMMA LeaveMapKeeps ==
  ASSUME ServerInv, NEW c \in Conns, NEW Q \in [LoopIds -> Seq(Tasks)],
         \A i \in LoopIds : \A x : Has(Q[i], x) => Has(tasks[i], x),
         \A i \in LoopIds, d \in Conns :
           Has(tasks[i], Destroyed(d)) => Has(Q[i], Destroyed(d)),
         \A i \in LoopIds : \A x, y : Followed(tasks[i], x, y) => Followed(Q[i], x, y),
         tasks' = [Q EXCEPT ![loopOf[c]] = Append(@, Destroyed(c))],
         connections_' = connections_ \ {c}, UNCHANGED loopOf, registered' \subseteq registered
  PROVE  /\ tasks' \in [LoopIds -> Seq(Tasks)]
         /\ EstablishedFirst' /\ DestroyedLast'
         /\ \A d \in Conns, i \in LoopIds, task \in Tasks :
              d # c /\ task.conn = d /\ Has(tasks'[i], task) => Has(tasks[i], task)
         /\ \A i \in LoopIds : Len(Q[i]) \in Nat /\ Len(tasks'[i]) \in Nat
                                /\ Len(Q[i]) <= Len(tasks'[i])
<1> USE DEF ServerInv
<1>1. loopOf[c] \in LoopIds /\ Destroyed(c) \in Tasks /\ Destroyed(c).conn = c
  BY TaskFacts DEF ServerTypes, LoopOfType
<1>2. \A d \in Conns : Established(d) # Destroyed(c)
  BY TaskFacts
<1>3. Pushed(Q, tasks', loopOf[c], Destroyed(c))
  BY <1>1, QueuePushed
<1> USE DEF Pushed
<1>4. EstablishedFirst'
  <2>1. \A d \in Conns, i \in LoopIds :
          Has(tasks'[i], Established(d)) => i = loopOf[d] /\ i # 0
    BY <1>2, <1>3 DEF EstablishedFirst
  <2>2. ASSUME NEW d \in Conns, d \notin connections_'
        PROVE  Followed(tasks'[loopOf[d]], Established(d), Destroyed(d))
    <3>1. CASE d = c
      BY <1>2, <1>3, <3>1
    <3>2. CASE d # c
      BY <1>2, <1>3, <2>2, <3>2 DEF EstablishedFirst, ServerTypes, LoopOfType
    <3> QED BY <3>1, <3>2
  <2> QED BY <2>1, <2>2 DEF EstablishedFirst
<1>5. DestroyedLast'
  <2>1. ASSUME NEW d \in registered, d \notin connections_'
        PROVE  Has(tasks'[loopOf[d]], Destroyed(d))
    <3>1. d \in Conns /\ loopOf[d] \in LoopIds
      BY DEF ServerTypes, LoopOfType
    <3>2. CASE d = c
      BY <1>1, <1>3, <3>2
    <3>3. CASE d # c
      BY <1>3, <2>1, <3>1, <3>3 DEF DestroyedLast
    <3> QED BY <3>2, <3>3
  <2> QED BY <2>1 DEF DestroyedLast
<1> QED BY <1>1, <1>3, <1>4, <1>5

-----------------------------------------------------------------------------
(* The base thread.                                                        *)

(* The base loop runs the removal: c leaves the map.                       *)
LEMMA RunRemoveKeeps ==
  ASSUME ServerInv, RunRemove
  PROVE  ServerInv'
<1> USE DEF ServerInv, RunRemove
<1> DEFINE c == Head(tasks[0]).conn
           Q == [tasks EXCEPT ![0] = Tail(@)]
<1>1. /\ tasks \in [LoopIds -> Seq(Tasks)] /\ 0 \in LoopIds /\ tasks[0] # <<>>
      /\ Workers \subseteq LoopIds /\ 0 \notin Workers
  BY ThreadsAssumption DEF ServerTypes, LoopIds, Workers
<1>2. Popped(tasks, Q, 0)
  BY <1>1, Pop
<1>3. c \in Conns /\ Head(tasks[0]) = Task("remove", c) /\ Head(tasks[0]) \in Tasks
  BY <1>2, TaskFacts DEF Popped
<1>4. state_[c] # "none" /\ loopOf[c] \in LoopIds
  BY <1>1, <1>2, <1>3 DEF Unaccepted, Popped, ServerTypes, LoopOfType
<1>5. /\ tasks' = [Q EXCEPT ![loopOf[c]] = Append(@, Destroyed(c))]
      /\ connections_' = connections_ \ {c}
      /\ UNCHANGED <<worker, state_, loopOf, registered, closing, batch>>
  BY DEF Destroyed, threadVars
<1> HIDE DEF c, Q
<1>6. \A d \in Conns : Destroyed(d) # Head(tasks[0])
  BY <1>3, TaskFacts
<1>7. /\ tasks' \in [LoopIds -> Seq(Tasks)]
      /\ EstablishedFirst' /\ DestroyedLast'
      /\ \A d \in Conns, i \in LoopIds, task \in Tasks :
           d # c /\ task.conn = d /\ Has(tasks'[i], task) => Has(tasks[i], task)
      /\ \A i \in LoopIds : Len(Q[i]) \in Nat /\ Len(tasks'[i]) \in Nat
                             /\ Len(Q[i]) <= Len(tasks'[i])
  <2>1. /\ Q \in [LoopIds -> Seq(Tasks)]
        /\ \A i \in LoopIds : \A x : Has(Q[i], x) => Has(tasks[i], x)
        /\ \A i \in LoopIds, d \in Conns :
             Has(tasks[i], Destroyed(d)) => Has(Q[i], Destroyed(d))
        /\ \A i \in LoopIds : \A x, y : Followed(tasks[i], x, y) => Followed(Q[i], x, y)
    BY <1>2, <1>6 DEF Popped
  <2> QED BY <1>3, <1>5, <2>1, LeaveMapKeeps
<1>8. ServerTypes'
  BY <1>5, <1>7 DEF ServerTypes, LoopOfType
<1>9. Unaccepted'
  BY <1>4, <1>5, <1>7 DEF Unaccepted
<1>10. Batches'
  <2>1. \A i \in Workers : Len(Q[i]) = Len(tasks[i])
    BY <1>1, <1>2 DEF Popped
  <2>2. \A i \in Workers : batch[i] <= Len(tasks'[i])
    <3> SUFFICES ASSUME NEW i \in Workers PROVE batch[i] <= Len(tasks'[i])
      OBVIOUS
    <3>1. batch[i] <= Len(Q[i])
      BY <2>1 DEF Batches
    <3>2. batch[i] \in Nat
      BY DEF ServerTypes
    <3>3. Len(Q[i]) \in Nat /\ Len(tasks'[i]) \in Nat /\ Len(Q[i]) <= Len(tasks'[i])
      BY <1>1, <1>7
    <3> HIDE DEF ServerInv, RunRemove
    <3> QED BY <3>1, <3>2, <3>3
  <2> QED BY <1>5, <2>2 DEF Batches
<1> QED BY <1>7, <1>8, <1>9, <1>10

(* The base loop runs connectDestroyed().                                  *)
LEMMA RunBaseDestroyedKeeps ==
  ASSUME ServerInv, RunBaseDestroyed
  PROVE  ServerInv'
<1> USE DEF ServerInv, RunBaseDestroyed
<1> DEFINE c == Head(tasks[0]).conn
<1>1. /\ tasks \in [LoopIds -> Seq(Tasks)] /\ 0 \in LoopIds /\ tasks[0] # <<>>
      /\ Workers \subseteq LoopIds /\ 0 \notin Workers
      /\ UNCHANGED <<worker, loopOf, connections_, closing, batch>>
  BY ThreadsAssumption DEF ServerTypes, LoopIds, Workers, threadVars
<1>2. Popped(tasks, tasks', 0)
  BY <1>1, Pop
<1>3. c \in Conns /\ Head(tasks[0]) = Destroyed(c) /\ Head(tasks[0]) \in Tasks
  BY <1>2, TaskFacts DEF Popped, Destroyed
<1>4. state_[c] # "none"
  BY <1>1, <1>2, <1>3 DEF Unaccepted, Popped
<1>5. /\ registered' = registered \ {c}
      /\ state_' = [state_ EXCEPT ![c] = IF @ = "kConnected" THEN "kDisconnected" ELSE @]
  BY DEF connectDestroyed
<1> HIDE DEF c
<1> USE DEF Popped
<1>6. ServerTypes'
  BY <1>1, <1>2, <1>3, <1>5 DEF ServerTypes, LoopOfType
<1>7. Unaccepted'
  <2>1. state_'[c] # "none" /\ \A d \in Conns : d # c => state_'[d] = state_[d]
    BY <1>3, <1>4, <1>5 DEF ServerTypes
  <2> QED BY <1>1, <1>2, <1>5, <2>1 DEF Unaccepted
<1>8. EstablishedFirst'
  BY <1>1, <1>2 DEF EstablishedFirst, ServerTypes, LoopOfType
<1>9. DestroyedLast'
  <2>1. \A d \in registered' : d \in registered /\ d \in Conns /\ Destroyed(d) # Head(tasks[0])
    BY <1>3, <1>5, TaskFacts DEF ServerTypes
  <2> QED BY <1>1, <1>2, <2>1 DEF DestroyedLast, ServerTypes, LoopOfType
<1>10. Batches'
  BY <1>1, <1>2 DEF Batches, ServerTypes
<1> QED BY <1>6, <1>7, <1>8, <1>9, <1>10

(* ~TcpServer() takes a connection out of the map.                         *)
LEMMA DestroyConnectionKeeps ==
  ASSUME ServerInv, NEW c \in Conns, DestroyConnection(c)
  PROVE  ServerInv'
<1> USE DEF ServerInv, DestroyConnection
<1>1. /\ tasks \in [LoopIds -> Seq(Tasks)] /\ state_[c] # "none" /\ Workers \subseteq LoopIds
      /\ UNCHANGED <<worker, loopOf, closing, batch>> /\ connections_' = connections_ \ {c}
  BY ThreadsAssumption DEF ServerTypes, Unaccepted, threadVars, LoopIds, Workers
<1>2. CASE loopOf[c] = 0
  <2>1. /\ registered' = registered \ {c} /\ UNCHANGED tasks
        /\ state_' = [state_ EXCEPT ![c] = IF @ = "kConnected" THEN "kDisconnected" ELSE @]
    BY <1>2 DEF destroyInLoop, connectDestroyed
  <2>2. ServerTypes'
    BY <1>1, <2>1 DEF ServerTypes, LoopOfType
  <2>3. Unaccepted'
    <3>1. state_'[c] # "none" /\ \A d \in Conns : d # c => state_'[d] = state_[d]
      BY <1>1, <2>1 DEF ServerTypes
    <3> QED BY <1>1, <2>1, <3>1 DEF Unaccepted
  <2>4. EstablishedFirst'
    <3>1. ~Has(tasks[loopOf[c]], Established(c))
      BY <1>2 DEF EstablishedFirst, ServerTypes, LoopOfType
    <3>2. Followed(tasks[loopOf[c]], Established(c), Destroyed(c))
      BY <3>1 DEF Has, Followed
    <3> QED BY <1>1, <2>1, <3>2 DEF EstablishedFirst
  <2>5. DestroyedLast' /\ Batches'
    BY <1>1, <2>1 DEF DestroyedLast, Batches
  <2> QED BY <2>2, <2>3, <2>4, <2>5
<1>3. CASE loopOf[c] # 0
  <2>1. /\ tasks' = [tasks EXCEPT ![loopOf[c]] = Append(@, Destroyed(c))]
        /\ UNCHANGED <<state_, registered>>
    BY <1>3 DEF destroyInLoop, queueInLoop, Destroyed
  <2>2. /\ tasks' \in [LoopIds -> Seq(Tasks)]
        /\ EstablishedFirst' /\ DestroyedLast'
        /\ \A d \in Conns, i \in LoopIds, task \in Tasks :
             d # c /\ task.conn = d /\ Has(tasks'[i], task) => Has(tasks[i], task)
        /\ \A i \in LoopIds : Len(tasks[i]) \in Nat /\ Len(tasks'[i]) \in Nat
                               /\ Len(tasks[i]) <= Len(tasks'[i])
    BY <1>1, <2>1, LeaveMapKeeps
  <2>3. ServerTypes'
    BY <1>1, <2>1, <2>2 DEF ServerTypes, LoopOfType
  <2>4. Unaccepted'
    BY <1>1, <2>1, <2>2 DEF Unaccepted
  <2>5. Batches'
    BY <1>1, <2>2 DEF Batches, ServerTypes
  <2> QED BY <2>2, <2>3, <2>4, <2>5
<1> QED BY <1>2, <1>3

(* A connection of the base loop closes.                                   *)
LEMMA CloseOnBaseKeeps ==
  ASSUME ServerInv, NEW c \in Conns, CloseOnBase(c)
  PROVE  ServerInv'
<1> USE DEF ServerInv, CloseOnBase
<1>1. /\ tasks \in [LoopIds -> Seq(Tasks)] /\ Workers \subseteq LoopIds
      /\ UNCHANGED <<worker, loopOf, registered, closing, batch>>
      /\ connections_' = connections_ \ {c}
      /\ tasks' = [tasks EXCEPT ![loopOf[c]] = Append(@, Destroyed(c))]
  BY ThreadsAssumption DEF ServerTypes, threadVars, LoopIds, Workers, queueInLoop, Destroyed
<1>2. /\ tasks' \in [LoopIds -> Seq(Tasks)]
      /\ EstablishedFirst' /\ DestroyedLast'
      /\ \A d \in Conns, i \in LoopIds, task \in Tasks :
           d # c /\ task.conn = d /\ Has(tasks'[i], task) => Has(tasks[i], task)
      /\ \A i \in LoopIds : Len(tasks[i]) \in Nat /\ Len(tasks'[i]) \in Nat
                             /\ Len(tasks[i]) <= Len(tasks'[i])
  BY <1>1, LeaveMapKeeps
<1>3. /\ \A d \in Conns : d # c => state_'[d] = state_[d]
      /\ state_'[c] # "none"
      /\ state_' \in [Conns -> {"none", "kConnecting", "kConnected", "kDisconnected"}]
  BY DEF ServerTypes
<1>4. ServerTypes'
  BY <1>1, <1>2, <1>3 DEF ServerTypes, LoopOfType
<1>5. Unaccepted'
  BY <1>1, <1>2, <1>3 DEF Unaccepted
<1>6. Batches'
  BY <1>1, <1>2 DEF Batches, ServerTypes
<1> QED BY <1>2, <1>4, <1>5, <1>6

(* A connection is accepted: nothing was known of it before.               *)
LEMMA AcceptKeeps ==
  ASSUME ServerInv, PoolInv, NEW c \in Conns, acceptConnection(c)
  PROVE  ServerInv'
<1> USE DEF ServerInv
<1>1. /\ state_[c] = "none" /\ connections_' = connections_ \cup {c}
      /\ UNCHANGED <<worker, closing, batch>>
      /\ tasks \in [LoopIds -> Seq(Tasks)] /\ Workers \subseteq LoopIds
  BY ThreadsAssumption
     DEF acceptConnection, newConnection, threadVars, ServerTypes, LoopIds, Workers
<1>2. /\ c \notin connections_ \cup registered \cup closing
      /\ \A i \in LoopIds, task \in Tasks : task.conn = c => ~Has(tasks[i], task)
  BY <1>1 DEF Unaccepted
<1>3. CASE loops_ = <<>>
  <2>1. /\ state_' = [state_ EXCEPT ![c] = "kConnected"] /\ registered' = registered \cup {c}
        /\ UNCHANGED <<loopOf, tasks>>
    BY <1>3 DEF acceptConnection, newConnection, connectEstablished
  <2>2. ServerTypes'
    BY <1>1, <2>1 DEF ServerTypes, LoopOfType
  <2>3. Unaccepted'
    <3>1. state_'[c] # "none" /\ \A d \in Conns : d # c => state_'[d] = state_[d]
      BY <2>1 DEF ServerTypes
    <3> QED BY <1>1, <2>1, <3>1 DEF Unaccepted
  <2>4. EstablishedFirst' /\ DestroyedLast' /\ Batches'
    BY <1>1, <2>1 DEF EstablishedFirst, DestroyedLast, Batches
  <2> QED BY <2>2, <2>3, <2>4
<1>4. CASE loops_ # <<>>
  <2> DEFINE io == loops_[next_ + 1]
  <2>1. io \in Workers /\ io \in LoopIds
    BY <1>1, <1>4 DEF PoolInv, Types, EvenlyHanded
  <2>2. /\ loopOf' = [loopOf EXCEPT ![c] = io]
        /\ state_' = [state_ EXCEPT ![c] = "kConnecting"]
        /\ tasks' = [tasks EXCEPT ![io] = Append(@, Established(c))]
        /\ UNCHANGED registered
    BY <1>4 DEF acceptConnection, newConnection, queueInLoop, Established
  <2> HIDE DEF io
  <2>3. Pushed(tasks, tasks', io, Established(c))
    BY <1>1, <2>1, <2>2, QueuePushed, TaskFacts
  <2>4. /\ loopOf'[c] = io /\ \A d \in Conns : d # c => loopOf'[d] = loopOf[d]
        /\ \A d \in Conns : d # c => state_'[d] = state_[d]
        /\ state_'[c] # "none" /\ \A d \in Conns : loopOf[d] \in LoopIds
        /\ \A d \in Conns : d # c => Established(d) # Established(c)
        /\ \A d \in Conns : Destroyed(d) # Established(c)
        /\ Established(c) \in Tasks /\ Established(c).conn = c
    BY <2>2, TaskFacts DEF ServerTypes, LoopOfType
  <2> USE DEF Pushed
  <2>5. ServerTypes'
    BY <1>1, <2>1, <2>2, <2>3 DEF ServerTypes, LoopOfType
  <2>6. Unaccepted'
    BY <1>1, <2>2, <2>3, <2>4 DEF Unaccepted
  <2>7. EstablishedFirst'
    <3>1. \A d \in Conns, i \in LoopIds :
            Has(tasks'[i], Established(d)) => i = loopOf'[d] /\ i # 0
      <4>1. io # 0
        BY <2>1 DEF Workers
      <4> QED BY <1>2, <2>1, <2>3, <2>4, <4>1 DEF EstablishedFirst
    <3>2. \A d \in Conns : d \in connections_'
            \/ Followed(tasks'[loopOf'[d]], Established(d), Destroyed(d))
      BY <1>1, <2>3, <2>4 DEF EstablishedFirst
    <3> QED BY <3>1, <3>2 DEF EstablishedFirst
  <2>8. DestroyedLast'
    BY <1>1, <1>2, <2>2, <2>3, <2>4 DEF DestroyedLast, ServerTypes
  <2>9. Batches'
    <3>1. \A d \in closing : loopOf'[d] = loopOf[d]
      BY <1>2, <2>4 DEF ServerTypes
    <3>2. \A i \in Workers : batch[i] <= Len(tasks'[i])
      BY <1>1, <2>3 DEF Batches, ServerTypes
    <3> QED BY <1>1, <3>1, <3>2 DEF Batches
  <2> QED BY <2>5, <2>6, <2>7, <2>8, <2>9
<1> QED BY <1>3, <1>4

-----------------------------------------------------------------------------
LEMMA ServerInvInit == Init => ServerInv
<1> SUFFICES ASSUME Init PROVE ServerInv
  OBVIOUS
<1> USE DEF Init
<1>1. ServerTypes
  BY ThreadsAssumption DEF ServerTypes, LoopOfType, LoopIds
<1>2. \A x, y : ~Has(<<>>, x) /\ Followed(<<>>, x, y)
  BY DEF Has, Followed
<1>3. Unaccepted /\ EstablishedFirst /\ DestroyedLast
  BY <1>1, <1>2 DEF Unaccepted, EstablishedFirst, DestroyedLast, ServerTypes, LoopOfType
<1>4. Batches
  BY ThreadsAssumption DEF Batches, Workers, LoopIds
<1> QED BY <1>1, <1>3, <1>4 DEF ServerInv

(* Which steps leave the connections and the queues alone.                 *)
LEMMA QuietKeeps ==
  ASSUME ServerInv, PoolInv, UNCHANGED <<connVars, taskVars>>,
         \/ \E n \in 0..MaxThreads : setThreadNum(n)
         \/ start \/ SpuriousWakeup \/ StartStep \/ DestroyPool \/ DestroyStep \/ DestroyServer
         \/ \E i \in Workers : ThreadStep(i)
         \/ UNCHANGED vars
  PROVE  ServerInv'
<1>1. worker \in [Workers -> WorkerPcs]
  BY DEF PoolInv, Types
<1>2. CASE CreateThread
  <2>1. worker' = [worker EXCEPT ![cur] = "begin"] /\ owner = "create"
    BY <1>2 DEF CreateThread
  <2>2. cur \in Workers => worker[cur] = "none"
    BY <2>1 DEF PoolInv, Types, StartPhase, Starting, ThreadsStarted
  <2> QED BY <1>1, <2>1, <2>2, PoolStepKeeps
<1>3. CASE \E i \in Workers : ThreadStep(i)
  <2>1. PICK i \in Workers : ThreadStep(i)
    BY <1>3
  <2>2. worker[i] # "functors" /\ \A j \in Workers : j # i => worker'[j] = worker[j]
    BY <1>1, <2>1 DEF ThreadStep, ConstructLoop, Publish, EnterLoop, TestQuit, ClearLoop
  <2> QED BY <2>2, PoolStepKeeps
<1>4. CASE UNCHANGED worker
  BY <1>4, PoolStepKeeps
<1>5. ~CreateThread /\ ~(\E i \in Workers : ThreadStep(i)) => UNCHANGED worker
  BY DEF setThreadNum, start, SpuriousWakeup, StartStep, startLoopReturns, Collect,
     startLoopWaits, DestroyPool, DestroyStep, QuitThread, WakeupThread, JoinThread,
     DestroyServer, vars, threadVars
<1> QED BY <1>2, <1>3, <1>4, <1>5

(* One case for each disjunct of Next.                                     *)
LEMMA ServerInvNext == PoolInv /\ ServerInv /\ [Next]_vars => ServerInv'
<1> SUFFICES ASSUME PoolInv, ServerInv, [Next]_vars PROVE ServerInv'
  OBVIOUS
<1>1. CASE /\ \/ \E n \in 0..MaxThreads : setThreadNum(n)
              \/ start \/ SpuriousWakeup
           /\ UNCHANGED <<connVars, taskVars>>
  BY <1>1, QuietKeeps
<1>2. CASE OwnerStep
  BY <1>2, QuietKeeps, DestroyConnectionKeeps DEF OwnerStep
<1>3. CASE BaseStep
  BY <1>3, RunRemoveKeeps, RunBaseDestroyedKeeps DEF BaseStep
<1>4. CASE DestroyServer \/ UNCHANGED vars
  <2>1. UNCHANGED <<connVars, taskVars>>
    BY <1>4 DEF DestroyServer, vars
  <2> QED BY <1>4, <2>1, QuietKeeps
<1>5. ASSUME NEW c \in Conns, acceptConnection(c) \/ CloseOnBase(c) \/ CloseOnWorker(c)
      PROVE  ServerInv'
  BY <1>5, AcceptKeeps, CloseOnBaseKeeps, CloseOnWorkerKeeps
<1>6. ASSUME NEW i \in Workers, WorkerStep(i) \/ WorkerInput(i) PROVE ServerInv'
  BY <1>6, QuietKeeps, SwapKeeps, RunFunctorKeeps, WorkerFunctorsDoneKeeps, EndWorkerKeeps,
     CloseCallbackKeeps DEF WorkerStep
<1> QED BY <1>1, <1>2, <1>3, <1>4, <1>5, <1>6 DEF Next

(* No event meets a freed Channel: with any number of loops, and at any    *)
(* moment of accepting, closing and the destruction of the server, a       *)
(* channel that epoll may report is kept by the map or by a functor.       *)
THEOREM RegisteredIsHeldHolds == Spec => []RegisteredIsHeld
<1>1. ServerInv => RegisteredIsHeld
  <2> SUFFICES ASSUME ServerInv, NEW c \in registered, c \notin connections_
               PROVE  Queued(c)
    BY DEF RegisteredIsHeld
  <2>1. c \in Conns /\ loopOf[c] \in LoopIds /\ Has(tasks[loopOf[c]], Destroyed(c))
    BY DEF ServerInv, ServerTypes, LoopOfType, DestroyedLast
  <2>2. Destroyed(c).conn = c
    BY <2>1, TaskFacts
  <2> QED BY <2>1, <2>2 DEF Has, Queued
<1> QED BY <1>1, ServerInvInit, ServerInvNext, PoolInvariant, PTL DEF Spec
=============================================================================
