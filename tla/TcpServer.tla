----------------------------- MODULE TcpServer -----------------------------
(***************************************************************************)
(* TcpServer and Acceptor (src/tcp) with the EventLoopThreadPool they hand *)
(* connections to: accepting, the closing path from the worker over the    *)
(* base loop and back, and the destruction of the server after the base    *)
(* loop has ended, as main() has it.  The steps of the threads are those   *)
(* of EventLoopThreadPool.tla.                                             *)
(*                                                                         *)
(* A loop is its functor queue: loop 0 is the base loop, which EventLoop   *)
(* shows to be a TaskQueue; of a worker the swap is kept too, because it   *)
(* decides what a loop that quits leaves unrun.  Of a TcpConnection only   *)
(* its life is kept, see TcpConnection.tla for the rest.                   *)
(***************************************************************************)
EXTENDS EventLoopThreadPool

CONSTANT Conns      \* the connections peers open

VARIABLES
  state_,           \* of each connection, "none" before it is accepted
  loopOf,           \* the loop of each connection
  connections_,     \* the connections in the map
  replaced,         \* connections whose callbacks ~TcpServer() replaced
  registered,       \* connections whose channel is in their loop's epoll
  closing,          \* connections of workers inside handleClose()
  tasks,            \* pendingFunctors_ of every loop, oldest first
  batch             \* how many of them each worker has swapped out

connVars == <<state_, loopOf, connections_, replaced, registered, closing>>
taskVars == <<tasks, batch>>
vars == <<poolVars, owner, cur, threadVars, eventVars, connVars, taskVars>>

LoopIds == 0..MaxThreads
Task(op, c) == [op |-> op, conn |-> c]

Init ==
  /\ PoolInit
  /\ state_ = [c \in Conns |-> "none"] /\ loopOf = [c \in Conns |-> 0]
  /\ connections_ = {} /\ replaced = {} /\ registered = {}
  /\ closing = {}
  /\ tasks = [i \in LoopIds |-> <<>>] /\ batch = [i \in Workers |-> 0]

-----------------------------------------------------------------------------
(* Loops.                                                                  *)

queueInLoop(i, task) == tasks' = [tasks EXCEPT ![i] = Append(@, task)]

(* Mutant: the worker is not woken.                                        *)
wakeupForgotten(i) == UNCHANGED woken

(* The wakeup() of queueInLoop() on another thread than loop i's.          *)
wakeup(i) == woken' = IF i = 0 THEN woken ELSE woken \cup {i}

(* connectEstablished() and connectDestroyed(), on the connection's loop.  *)
connectEstablished(c) ==
  /\ state_' = [state_ EXCEPT ![c] = "kConnected"]
  /\ registered' = registered \cup {c}

connectDestroyed(c) ==
  /\ state_' = [state_ EXCEPT ![c] = IF @ = "kConnected" THEN "kDisconnected" ELSE @]
  /\ registered' = registered \ {c}

-----------------------------------------------------------------------------
(* The base thread.                                                        *)

(* runInLoop() runs connectEstablished() at once when the base loop serves *)
(* c.                                                                      *)
newConnection(c) ==
  /\ connections_' = connections_ \cup {c}
  /\ IF loops_ = <<>>
     THEN connectEstablished(c) /\ UNCHANGED <<poolVars, loopOf, tasks, woken>>
     ELSE LET io == loops_[next_ + 1]
          IN  /\ getNextLoop
              /\ loopOf' = [loopOf EXCEPT ![c] = io]
              /\ state_' = [state_ EXCEPT ![c] = "kConnecting"]
              /\ queueInLoop(io, Task("connectEstablished", c))
              /\ wakeup(io)
              /\ UNCHANGED registered
  /\ UNCHANGED <<owner, cur, threadVars, quit_, forgotten, replaced, closing, batch>>

(* Acceptor::listen() is the last call of TcpServer::start().              *)
listening == owner = "serving"

(* One turn of the loop of Acceptor::handleRead() that accepts c.          *)
acceptConnection(c) ==
  /\ listening /\ state_[c] = "none"
  /\ newConnection(c)

(* The functor closeCallback_ queued: erase c, queue connectDestroyed().   *)
RunRemove ==
  /\ owner = "serving" /\ tasks[0] # <<>> /\ Head(tasks[0]).op = "remove"
  /\ LET c == Head(tasks[0]).conn
     IN  /\ connections_' = connections_ \ {c}
         /\ tasks' = [[tasks EXCEPT ![0] = Tail(@)] EXCEPT
                        ![loopOf[c]] = Append(@, Task("connectDestroyed", c))]
         /\ wakeup(loopOf[c])
  /\ UNCHANGED <<poolVars, owner, cur, threadVars, quit_, forgotten, state_,
                 loopOf, replaced, registered, closing, batch>>

(* connectDestroyed() of a connection of the base loop.                    *)
RunBaseDestroyed ==
  /\ owner = "serving" /\ tasks[0] # <<>> /\ Head(tasks[0]).op = "connectDestroyed"
  /\ connectDestroyed(Head(tasks[0]).conn)
  /\ tasks' = [tasks EXCEPT ![0] = Tail(@)]
  /\ UNCHANGED <<poolVars, owner, cur, threadVars, eventVars, loopOf,
                 connections_, replaced, closing, batch>>

(* The base loop has ended and ~TcpServer() begins.                        *)
DestroyServer ==
  /\ owner \in {"idle", "serving"}
  /\ owner' = "clear"
  /\ UNCHANGED <<poolVars, cur, threadVars, eventVars, connVars, taskVars>>

(* Mutant: connectDestroyed() is called on the base thread.                *)
destroyOnBase(c) ==
  /\ connectDestroyed(c)
  /\ UNCHANGED <<tasks, woken>>

(* runInLoop(connectDestroyed).                                            *)
destroyInLoop(c) ==
  IF loopOf[c] = 0
  THEN connectDestroyed(c) /\ UNCHANGED <<tasks, woken>>
  ELSE /\ queueInLoop(loopOf[c], Task("connectDestroyed", c))
       /\ wakeup(loopOf[c])
       /\ UNCHANGED <<state_, registered>>

(* ~TcpServer(), for one connection of the map.                            *)
DestroyConnection(c) ==
  /\ owner = "clear" /\ c \in connections_
  /\ connections_' = connections_ \ {c}
  /\ replaced' = replaced \cup {c}
  /\ destroyInLoop(c)
  /\ UNCHANGED <<poolVars, owner, cur, threadVars, quit_, forgotten, loopOf, closing,
                 batch>>

-----------------------------------------------------------------------------
(* Workers.                                                                *)

Swap(i) == batch' = [batch EXCEPT ![i] = Len(tasks[i])]

(* epoll_wait of worker i returns for the eventfd, or for the input of one *)
(* of its connections.                                                     *)
WorkerWakeup(i) == PollWakeup(i) /\ Swap(i) /\ UNCHANGED <<connVars, tasks>>

WorkerInput(i) ==
  /\ \E c \in registered : loopOf[c] = i /\ state_[c] = "kConnected"
  /\ PollEvent(i) /\ Swap(i)
  /\ UNCHANGED <<connVars, tasks>>

(* handleClose() on the base loop, whose closeCallback_ erases at once.    *)
CloseOnBase(c) ==
  /\ owner = "serving" /\ loopOf[c] = 0
  /\ c \in registered /\ state_[c] = "kConnected"
  /\ state_' = [state_ EXCEPT ![c] = "kDisconnected"]
  /\ connections_' = connections_ \ {c}
  /\ queueInLoop(0, Task("connectDestroyed", c))
  /\ UNCHANGED <<poolVars, owner, cur, threadVars, eventVars, loopOf, replaced,
                 registered, closing, batch>>

(* handleClose() on a worker: the state, and then the callbacks, which     *)
(* ~TcpServer() may replace in between.                                    *)
CloseOnWorker(c) ==
  /\ loopOf[c] # 0
  /\ c \in registered /\ state_[c] = "kConnected"
  /\ PollEvent(loopOf[c])
  /\ state_' = [state_ EXCEPT ![c] = "kDisconnected"]
  /\ closing' = closing \cup {c}
  /\ UNCHANGED <<loopOf, connections_, replaced, registered, taskVars>>

closeCallback(c) ==
  /\ c \in closing
  /\ closing' = closing \ {c}
  /\ IF c \in replaced THEN UNCHANGED tasks ELSE queueInLoop(0, Task("remove", c))
  /\ Swap(loopOf[c])
  /\ UNCHANGED <<poolVars, owner, cur, threadVars, eventVars, state_, loopOf,
                 connections_, replaced, registered>>

(* doPendingFunctors() of worker i.                                        *)
RunFunctor(i) ==
  /\ worker[i] = "functors" /\ batch[i] > 0
  /\ batch' = [batch EXCEPT ![i] = @ - 1]
  /\ tasks' = [tasks EXCEPT ![i] = Tail(@)]
  /\ LET task == Head(tasks[i])
     IN  \/ task.op = "connectEstablished" /\ connectEstablished(task.conn)
         \/ task.op = "connectDestroyed" /\ connectDestroyed(task.conn)
  /\ UNCHANGED <<poolVars, owner, cur, threadVars, eventVars, loopOf,
                 connections_, replaced, closing>>

(* doPendingFunctors() returns.                                            *)
WorkerFunctorsDone(i) ==
  /\ batch[i] = 0 /\ \A c \in closing : loopOf[c] # i
  /\ FunctorsDone(i)
  /\ UNCHANGED <<connVars, taskVars>>

(* The EventLoop is destroyed with its epoll and the functors left in it.  *)
EndWorker(i) ==
  /\ EndThread(i)
  /\ tasks' = [tasks EXCEPT ![i] = <<>>]
  /\ registered' = {c \in registered : loopOf[c] # i}
  /\ UNCHANGED <<state_, loopOf, connections_, replaced, closing, batch>>

-----------------------------------------------------------------------------
BaseStep == RunRemove \/ RunBaseDestroyed

WorkerStep(i) ==
  \/ ThreadStep(i) /\ UNCHANGED <<connVars, taskVars>>
  \/ WorkerWakeup(i) \/ RunFunctor(i) \/ WorkerFunctorsDone(i) \/ EndWorker(i)
  \/ \E c \in Conns : loopOf[c] = i /\ closeCallback(c)

OwnerStep ==
  \/ StartStep /\ UNCHANGED <<connVars, taskVars>>
  \/ \E c \in Conns : DestroyConnection(c)
  \/ connections_ = {} /\ DestroyPool /\ UNCHANGED <<connVars, taskVars>>
  \/ DestroyStep /\ UNCHANGED <<connVars, taskVars>>

Next ==
  \/ /\ \/ \E n \in 0..MaxThreads : setThreadNum(n)
        \/ start \/ SpuriousWakeup
     /\ UNCHANGED <<connVars, taskVars>>
  \/ OwnerStep \/ BaseStep
  \/ DestroyServer
  \/ \E c \in Conns : acceptConnection(c) \/ CloseOnBase(c) \/ CloseOnWorker(c)
  \/ \E i \in Workers : WorkerStep(i) \/ WorkerInput(i)

Spec == Init /\ [][Next]_vars

(* Threads that can run are scheduled: the base thread inside start(), its *)
(* loop and the destructors, and each worker.  No peer, no spurious wakeup *)
(* and no call has to come.                                                *)
Fairness ==
  /\ WF_vars(OwnerStep) /\ WF_vars(BaseStep)
  /\ \A i \in Workers : WF_vars(WorkerStep(i))

FairSpec == Spec /\ Fairness

-----------------------------------------------------------------------------
(* Type correctness of every variable.                                     *)
TypeOK ==
  /\ PoolTypeOK
  /\ state_ \in [Conns -> {"none", "kConnecting", "kConnected", "kDisconnected"}]
  /\ loopOf \in [Conns -> LoopIds]
  /\ connections_ \subseteq Conns /\ replaced \subseteq Conns /\ registered \subseteq Conns
  /\ closing \subseteq Conns
  /\ tasks \in [LoopIds -> Seq([op : {"connectEstablished", "connectDestroyed", "remove"},
                                conn : Conns])]
  /\ batch \in [Workers -> Nat] /\ \A i \in Workers : batch[i] <= Len(tasks[i])

Queued(c) == \E i \in LoopIds : \E k \in DOMAIN tasks[i] : tasks[i][k].conn = c

(* A channel that epoll may report belongs to a connection that the map or *)
(* a queued functor keeps alive (or the handler that runs, through         *)
(* guardThis): no event meets a freed Channel.                             *)
RegisteredIsHeld == \A c \in registered : c \in connections_ \cup closing \/ Queued(c)

(* While the server runs, an accepted connection is established, and one   *)
(* that has closed leaves the map, its epoll and all queues: "0 memory     *)
(* leaks".                                                                 *)
ServedAndReleased ==
  \A c \in Conns :
    /\ (state_[c] = "kConnecting") ~> (state_[c] # "kConnecting" \/ owner # "serving")
    /\ (state_[c] = "kDisconnected")
         ~> ((c \notin connections_ \cup registered /\ ~Queued(c)) \/ owner # "serving")
=============================================================================
