----------------------------- MODULE EventLoop -----------------------------
(***************************************************************************)
(* One EventLoop (src/net/EventLoop.cpp) with its Epoll and wakeup         *)
(* eventfd: the thread that owns the loop, any number of foreign threads   *)
(* that submit functors or ask the loop to quit, and a signal handler that *)
(* calls quit() on the loop's own thread (main.cpp).                       *)
(*                                                                         *)
(* The loop's thread is a program counter over the statements of loop()    *)
(* and doPendingFunctors(), so that every interleaving of those statements *)
(* with the two halves of a foreign queueInLoop() or quit() (change the    *)
(* state; then write the eventfd) is a behaviour of the model.             *)
(***************************************************************************)
EXTENDS Naturals, Sequences, FiniteSets

CONSTANTS
  Threads,       \* threads other than the one that owns the loop
  Functors,      \* the functors that may be submitted, each of them once
  Channels,      \* I/O channels registered with the loop's Epoll
  WakeupChannel, \* wakeupChannel_, the channel of the eventfd
  EventfdMax,    \* largest value of the eventfd counter; a write past it fails
  MaxEvents      \* MAX_EVENTS, the most channels one epoll_wait returns

ASSUME WakeupAssumption == WakeupChannel \notin Channels
ASSUME EventfdAssumption == EventfdMax \in Nat \ {0}
ASSUME MaxEventsAssumption == MaxEvents \in Nat \ {0}

VARIABLES
  loopPc,                  \* where the loop's thread is, see LoopPcs
  quit_,
  callingPendingFunctors_,
  pendingFunctors_,        \* guarded by mutex_
  functors,                \* the local vector of doPendingFunctors()
  activeChannels_,         \* channels of the last poll not dispatched yet
  wakeupFd,                \* counter of the eventfd
  ready,                   \* I/O channels the kernel reports as ready
  caller,                  \* where each foreign thread is, see CallerPcs
  fresh,                   \* functors nobody has created yet
  ran,                     \* history: functors run, in that order
  early,                   \* history: functors the loop's own thread queued
                           \* while it was not inside loop()
  stop                     \* history: pending requests to quit, by origin

kernelVars  == <<wakeupFd, ready>>
historyVars == <<fresh, ran, early, stop>>
vars == <<loopPc, quit_, callingPendingFunctors_, pendingFunctors_, functors,
          activeChannels_, kernelVars, caller, historyVars>>

(***************************************************************************)
(* "outside"  before loop(), or after it returned (loop() may be called    *)
(*            again); "test" at `while (!quit_)`; "enter" the test passed, *)
(*            epoll_wait not yet entered; "wait" inside epoll_wait;        *)
(* "dispatch" iterating over activeChannels_; "handler" inside a callback  *)
(*            of an I/O channel;                                           *)
(* "functors" iterating over the swapped vector; "functor" inside one.     *)
(***************************************************************************)
LoopPcs == {"outside", "test", "enter", "wait", "dispatch", "handler",
            "functors", "functor"}

(* A foreign thread is "idle" or between its change of state and wakeup(). *)
CallerPcs == {"idle", "wakeup"}

(* Who asked to quit: before loop() was entered, a signal handler on the   *)
(* loop's thread while loop() runs, or an ordinary call while loop() runs. *)
StopOrigins == {"early", "signal", "call"}

Running == loopPc # "outside"

(* The loop's thread executes code of the application: thread set-up, a    *)
(* channel callback or a functor.  It may then call the loop.              *)
InUserCode == loopPc \in {"outside", "handler", "functor"}

Readable == ready \cup (IF wakeupFd > 0 THEN {WakeupChannel} ELSE {})

Init ==
  /\ loopPc = "outside"
  /\ quit_ = FALSE
  /\ callingPendingFunctors_ = FALSE
  /\ pendingFunctors_ = <<>>
  /\ functors = <<>>
  /\ activeChannels_ = {}
  /\ wakeupFd = 0
  /\ ready = {}
  /\ caller = [t \in Threads |-> "idle"]
  /\ fresh = Functors
  /\ ran = <<>>
  /\ early = {}
  /\ stop = {}

-----------------------------------------------------------------------------
(* wakeup(): the nonblocking write of 1 fails, and is only logged, when    *)
(* the counter is at its maximum.                                          *)
WriteEventfd == wakeupFd' = IF wakeupFd < EventfdMax THEN wakeupFd + 1 ELSE wakeupFd

Create(f) ==
  /\ f \in fresh
  /\ fresh' = fresh \ {f}

-----------------------------------------------------------------------------
(* The loop's own thread: loop() and doPendingFunctors().                  *)

(* loop() is entered: quit_ is reset whatever was asked before.            *)
StartLoop ==
  /\ loopPc = "outside"
  /\ loopPc' = "test"
  /\ quit_' = FALSE
  /\ UNCHANGED <<callingPendingFunctors_, pendingFunctors_, functors,
                 activeChannels_, kernelVars, caller, historyVars>>

LeaveLoop ==
  /\ loopPc = "test"
  /\ quit_
  /\ loopPc' = "outside"
  /\ stop' = {}
  /\ UNCHANGED <<quit_, callingPendingFunctors_, pendingFunctors_, functors,
                 activeChannels_, kernelVars, caller, fresh, ran, early>>

EnterIteration ==
  /\ loopPc = "test"
  /\ ~quit_
  /\ loopPc' = "enter"
  /\ activeChannels_' = {}
  /\ UNCHANGED <<quit_, callingPendingFunctors_, pendingFunctors_, functors,
                 kernelVars, caller, historyVars>>

CallEpollWait ==
  /\ loopPc = "enter"
  /\ loopPc' = "wait"
  /\ UNCHANGED <<quit_, callingPendingFunctors_, pendingFunctors_, functors,
                 activeChannels_, kernelVars, caller, historyVars>>

(* epoll_wait blocks, without a timeout, until a channel is readable; when *)
(* more than MAX_EVENTS are, it returns that many of them.                 *)
PollReturns ==
  /\ loopPc = "wait"
  /\ Readable # {}
  /\ \E S \in SUBSET Readable :
       /\ S = Readable \/ Cardinality(S) = MaxEvents
       /\ Cardinality(S) <= MaxEvents
       /\ activeChannels_' = S
  /\ loopPc' = "dispatch"
  /\ UNCHANGED <<quit_, callingPendingFunctors_, pendingFunctors_, functors,
                 kernelVars, caller, historyVars>>

(* handleRead(): reading an eventfd returns the counter and clears it.     *)
DispatchWakeup ==
  /\ loopPc = "dispatch"
  /\ WakeupChannel \in activeChannels_
  /\ activeChannels_' = activeChannels_ \ {WakeupChannel}
  /\ wakeupFd' = 0
  /\ UNCHANGED <<loopPc, quit_, callingPendingFunctors_, pendingFunctors_,
                 functors, ready, caller, historyVars>>

(* The callback of an I/O channel; epoll is level-triggered, so the        *)
(* channel stays ready unless the callback consumed what made it ready.    *)
DispatchChannel(c) ==
  /\ loopPc = "dispatch"
  /\ c \in activeChannels_ \ {WakeupChannel}
  /\ activeChannels_' = activeChannels_ \ {c}
  /\ loopPc' = "handler"
  /\ ready' \in {ready, ready \ {c}}
  /\ UNCHANGED <<quit_, callingPendingFunctors_, pendingFunctors_, functors,
                 wakeupFd, caller, historyVars>>

HandlerReturns ==
  /\ loopPc = "handler"
  /\ loopPc' = "dispatch"
  /\ UNCHANGED <<quit_, callingPendingFunctors_, pendingFunctors_, functors,
                 activeChannels_, kernelVars, caller, historyVars>>

(* Mutant: the pending functors are copied, not swapped out.               *)
CopyFunctors ==
  /\ loopPc = "dispatch"
  /\ activeChannels_ = {}
  /\ callingPendingFunctors_' = TRUE
  /\ functors' = pendingFunctors_
  /\ loopPc' = "functors"
  /\ UNCHANGED <<quit_, pendingFunctors_, activeChannels_, kernelVars, caller,
                 historyVars>>

(* doPendingFunctors() up to the swap.  Only the loop's own thread ever    *)
(* reads callingPendingFunctors_, so setting it needs no step of its own.  *)
SwapFunctors ==
  /\ loopPc = "dispatch"
  /\ activeChannels_ = {}
  /\ callingPendingFunctors_' = TRUE
  /\ functors' = pendingFunctors_
  /\ pendingFunctors_' = <<>>
  /\ loopPc' = "functors"
  /\ UNCHANGED <<quit_, activeChannels_, kernelVars, caller, historyVars>>

RunFunctor ==
  /\ loopPc = "functors"
  /\ functors # <<>>
  /\ ran' = Append(ran, Head(functors))
  /\ functors' = Tail(functors)
  /\ loopPc' = "functor"
  /\ UNCHANGED <<quit_, callingPendingFunctors_, pendingFunctors_,
                 activeChannels_, kernelVars, caller, fresh, early, stop>>

FunctorReturns ==
  /\ loopPc = "functor"
  /\ loopPc' = "functors"
  /\ UNCHANGED <<quit_, callingPendingFunctors_, pendingFunctors_, functors,
                 activeChannels_, kernelVars, caller, historyVars>>

FunctorsDone ==
  /\ loopPc = "functors"
  /\ functors = <<>>
  /\ callingPendingFunctors_' = FALSE
  /\ loopPc' = "test"
  /\ UNCHANGED <<quit_, pendingFunctors_, functors, activeChannels_,
                 kernelVars, caller, historyVars>>

-----------------------------------------------------------------------------
(* Calls made by the loop's own thread.                                    *)

(* Mutant: wakeup() only for foreign threads.                              *)
OwnQueueInLoopNoWakeup(f) ==
  /\ InUserCode
  /\ Create(f)
  /\ pendingFunctors_' = Append(pendingFunctors_, f)
  /\ early' = IF Running THEN early ELSE early \cup {f}
  /\ UNCHANGED <<loopPc, quit_, callingPendingFunctors_, functors,
                 activeChannels_, kernelVars, caller, ran, stop>>

(* queueInLoop() on the loop's thread: the eventfd is only written when    *)
(* the functors of this iteration have already been swapped out.           *)
OwnQueueInLoop(f) ==
  /\ InUserCode
  /\ Create(f)
  /\ pendingFunctors_' = Append(pendingFunctors_, f)
  /\ IF callingPendingFunctors_ THEN WriteEventfd ELSE UNCHANGED wakeupFd
  /\ early' = IF Running THEN early ELSE early \cup {f}
  /\ UNCHANGED <<loopPc, quit_, callingPendingFunctors_, functors,
                 activeChannels_, ready, caller, ran, stop>>

(* runInLoop() on the loop's thread runs the functor before it returns.    *)
OwnRunInLoop(f) ==
  /\ InUserCode
  /\ Create(f)
  /\ ran' = Append(ran, f)
  /\ UNCHANGED <<loopPc, quit_, callingPendingFunctors_, pendingFunctors_,
                 functors, activeChannels_, kernelVars, caller, early, stop>>

(* quit() on the loop's thread does not write the eventfd.                 *)
OwnQuit ==
  /\ InUserCode
  /\ quit_' = TRUE
  /\ stop' = stop \cup {IF Running THEN "call" ELSE "early"}
  /\ UNCHANGED <<loopPc, callingPendingFunctors_, pendingFunctors_, functors,
                 activeChannels_, kernelVars, caller, fresh, ran, early>>

(* signalHandler() of main.cpp, when the kernel picks the loop's thread:   *)
(* it can run between any two statements.  isInLoopThread() holds, so      *)
(* nothing is written to the eventfd; an epoll_wait that is already        *)
(* blocked returns EINTR, and Epoll::poll() returns with no channel.       *)
SignalQuit ==
  /\ quit_' = TRUE
  /\ stop' = stop \cup {IF Running THEN "signal" ELSE "early"}
  /\ loopPc' = IF loopPc = "wait" THEN "dispatch" ELSE loopPc
  /\ UNCHANGED <<callingPendingFunctors_, pendingFunctors_, functors,
                 activeChannels_, kernelVars, caller, fresh, ran, early>>

-----------------------------------------------------------------------------
(* Calls made by foreign threads, in two steps each.                       *)

(* Mutants: the eventfd is not written.                                    *)
QueueInLoopNoWakeup(t, f) ==
  /\ caller[t] = "idle"
  /\ Create(f)
  /\ pendingFunctors_' = Append(pendingFunctors_, f)
  /\ UNCHANGED <<loopPc, quit_, callingPendingFunctors_, functors,
                 activeChannels_, kernelVars, caller, ran, early, stop>>
QuitNoWakeup(t) ==
  /\ caller[t] = "idle"
  /\ quit_' = TRUE
  /\ stop' = stop \cup {IF Running THEN "call" ELSE "early"}
  /\ UNCHANGED <<loopPc, callingPendingFunctors_, pendingFunctors_, functors,
                 activeChannels_, kernelVars, caller, fresh, ran, early>>

(* queueInLoop(), and runInLoop(): append under mutex_, then wakeup().     *)
QueueInLoop(t, f) ==
  /\ caller[t] = "idle"
  /\ Create(f)
  /\ pendingFunctors_' = Append(pendingFunctors_, f)
  /\ caller' = [caller EXCEPT ![t] = "wakeup"]
  /\ UNCHANGED <<loopPc, quit_, callingPendingFunctors_, functors,
                 activeChannels_, kernelVars, ran, early, stop>>

Quit(t) ==
  /\ caller[t] = "idle"
  /\ quit_' = TRUE
  /\ stop' = stop \cup {IF Running THEN "call" ELSE "early"}
  /\ caller' = [caller EXCEPT ![t] = "wakeup"]
  /\ UNCHANGED <<loopPc, callingPendingFunctors_, pendingFunctors_, functors,
                 activeChannels_, kernelVars, fresh, ran, early>>

Wakeup(t) ==
  /\ caller[t] = "wakeup"
  /\ WriteEventfd
  /\ caller' = [caller EXCEPT ![t] = "idle"]
  /\ UNCHANGED <<loopPc, quit_, callingPendingFunctors_, pendingFunctors_,
                 functors, activeChannels_, ready, historyVars>>

(* The kernel finds an I/O channel ready.                                  *)
BecomeReady(c) ==
  /\ c \notin ready
  /\ ready' = ready \cup {c}
  /\ UNCHANGED <<loopPc, quit_, callingPendingFunctors_, pendingFunctors_,
                 functors, activeChannels_, wakeupFd, caller, historyVars>>

-----------------------------------------------------------------------------
(* What the loop's thread does by itself once loop() was entered.          *)
LoopStep ==
  \/ LeaveLoop
  \/ EnterIteration
  \/ CallEpollWait
  \/ PollReturns
  \/ DispatchWakeup
  \/ \E c \in Channels : DispatchChannel(c)
  \/ HandlerReturns
  \/ SwapFunctors
  \/ RunFunctor
  \/ FunctorReturns
  \/ FunctorsDone

OwnCall ==
  \/ \E f \in Functors : OwnQueueInLoop(f) \/ OwnRunInLoop(f)
  \/ OwnQuit
  \/ SignalQuit

ForeignStep(t) ==
  \/ \E f \in Functors : QueueInLoop(t, f)
  \/ Quit(t)
  \/ Wakeup(t)

Next ==
  \/ StartLoop
  \/ LoopStep
  \/ OwnCall
  \/ \E t \in Threads : ForeignStep(t)
  \/ \E c \in Channels : BecomeReady(c)

Spec == Init /\ [][Next]_vars

(* A thread that can run is scheduled: the loop's thread between two calls *)
(* of the application, and a foreign thread that is about to write the     *)
(* eventfd.  Nobody is obliged to call, to quit or to enter loop().        *)
Fairness ==
  /\ WF_vars(LoopStep)
  /\ \A t \in Threads : WF_vars(Wakeup(t))

FairSpec == Spec /\ Fairness

-----------------------------------------------------------------------------
(* Type correctness of every variable.                                     *)
TypeOK ==
  /\ loopPc \in LoopPcs
  /\ quit_ \in BOOLEAN
  /\ callingPendingFunctors_ \in BOOLEAN
  /\ pendingFunctors_ \in Seq(Functors)
  /\ functors \in Seq(Functors)
  /\ activeChannels_ \subseteq Channels \cup {WakeupChannel}
  /\ wakeupFd \in 0..EventfdMax
  /\ ready \subseteq Channels
  /\ caller \in [Threads -> CallerPcs]
  /\ fresh \subseteq Functors
  /\ ran \in Seq(Functors)
  /\ early \subseteq Functors
  /\ stop \subseteq StopOrigins

(* The loop will be woken: the eventfd is readable or about to be.         *)
WakeupDue == wakeupFd > 0 \/ \E t \in Threads : caller[t] = "wakeup"

(* No lost wakeup.  Whenever the loop's thread is not on its way to the    *)
(* swap of doPendingFunctors(), a functor in pendingFunctors_ comes with a *)
(* wakeup that is due, so that epoll_wait cannot block over it: the        *)
(* condition `!isInLoopThread() || callingPendingFunctors_` of             *)
(* queueInLoop() is exactly strong enough.  The functors the loop's own    *)
(* thread queues outside loop() are the exception (early).                 *)
NoLostWakeup ==
  \/ loopPc \in {"dispatch", "handler"}
  \/ WakeupDue
  \/ \A i \in DOMAIN pendingFunctors_ : pendingFunctors_[i] \in early

(* callingPendingFunctors_ is raised exactly while doPendingFunctors()     *)
(* iterates over the functors it swapped out, and that vector is empty     *)
(* everywhere else: no functor of one iteration survives into the next.    *)
FunctorPhase ==
  /\ callingPendingFunctors_ <=> loopPc \in {"functors", "functor"}
  /\ functors # <<>> => callingPendingFunctors_

(* The loop implements the task queue of TaskQueue.tla: the functors that  *)
(* doPendingFunctors() has swapped out, followed by the pending ones, are  *)
(* the queue.                                                              *)
TQ == INSTANCE TaskQueue WITH
        Tasks <- Functors, queue <- functors \o pendingFunctors_, done <- ran

(* queueInLoop(), the swap and the iteration over the swapped functors     *)
(* neither lose, nor repeat, nor reorder a functor.                        *)
ImplementsTaskQueue == TQ!Spec

HasRun(f) == \E i \in DOMAIN ran : ran[i] = f
IsPending(f) == \E i \in DOMAIN pendingFunctors_ : pendingFunctors_[i] = f

(* A functor that waits in the queue of a running loop is run, or the loop *)
(* is told to quit; functors queued early are left out.                    *)
QueuedFunctorRuns ==
  \A f \in Functors :
    (Running /\ IsPending(f) /\ f \notin early) ~> (HasRun(f) \/ quit_ \/ ~Running)

(* quit() called by a callback, a functor or another thread while loop()   *)
(* runs makes loop() return.                                               *)
QuitEndsLoop == ("call" \in stop) ~> ("call" \notin stop)

(* README.md, "Graceful Shutdown": signals "break the loop via             *)
(* EventLoop::quit()".  A signal handled by the loop's own thread.         *)
SignalEndsLoop == (stop = {"signal"}) ~> (stop # {"signal"})
=============================================================================
