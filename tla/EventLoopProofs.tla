-------------------------- MODULE EventLoopProofs --------------------------
(***************************************************************************)
(* Proofs about EventLoop for any number of threads, functors and I/O      *)
(* channels and any eventfd limit.                                         *)
(***************************************************************************)
EXTENDS EventLoop, TLAPS

(* Every step of the loop's thread, of a foreign thread and of the kernel  *)
(* leaves the state well typed.                                            *)
LEMMA TypeStep == TypeOK /\ [Next]_vars => TypeOK'
<1> SUFFICES ASSUME TypeOK, [Next]_vars PROVE TypeOK'
  OBVIOUS
<1> USE WakeupAssumption, EventfdAssumption
    DEF TypeOK, LoopPcs, CallerPcs, StopOrigins, kernelVars, historyVars
<1>1. CASE StartLoop
  BY <1>1 DEF StartLoop
<1>2. CASE LoopStep
  <2>1. CASE LeaveLoop
    BY <2>1 DEF LeaveLoop
  <2>2. CASE EnterIteration
    BY <2>2 DEF EnterIteration
  <2>3. CASE CallEpollWait
    BY <2>3 DEF CallEpollWait
  <2>4. CASE PollReturns
    BY <2>4 DEF PollReturns, Readable
  <2>5. CASE DispatchWakeup
    BY <2>5 DEF DispatchWakeup
  <2>6. ASSUME NEW c \in Channels, DispatchChannel(c) PROVE TypeOK'
    BY <2>6 DEF DispatchChannel
  <2>7. CASE HandlerReturns
    BY <2>7 DEF HandlerReturns
  <2>8. CASE SwapFunctors
    BY <2>8 DEF SwapFunctors
  <2>9. CASE RunFunctor
    BY <2>9 DEF RunFunctor
  <2>10. CASE FunctorReturns
    BY <2>10 DEF FunctorReturns
  <2>11. CASE FunctorsDone
    BY <2>11 DEF FunctorsDone
  <2>12. QED
    BY <1>2, <2>1, <2>2, <2>3, <2>4, <2>5, <2>6, <2>7, <2>8, <2>9, <2>10, <2>11
       DEF LoopStep
<1>3. CASE OwnCall
  <2>1. ASSUME NEW f \in Functors, OwnQueueInLoop(f) PROVE TypeOK'
    BY <2>1 DEF OwnQueueInLoop, Create, WriteEventfd
  <2>2. ASSUME NEW f \in Functors, OwnRunInLoop(f) PROVE TypeOK'
    BY <2>2 DEF OwnRunInLoop, Create
  <2>3. CASE OwnQuit
    BY <2>3 DEF OwnQuit
  <2>4. CASE SignalQuit
    BY <2>4 DEF SignalQuit
  <2>5. QED
    BY <1>3, <2>1, <2>2, <2>3, <2>4 DEF OwnCall
<1>4. ASSUME NEW t \in Threads, ForeignStep(t) PROVE TypeOK'
  <2>1. ASSUME NEW f \in Functors, QueueInLoop(t, f) PROVE TypeOK'
    BY <2>1 DEF QueueInLoop, Create
  <2>2. CASE Quit(t)
    BY <2>2 DEF Quit
  <2>3. CASE Wakeup(t)
    BY <2>3 DEF Wakeup, WriteEventfd
  <2>4. QED
    BY <1>4, <2>1, <2>2, <2>3 DEF ForeignStep
<1>5. ASSUME NEW c \in Channels, BecomeReady(c) PROVE TypeOK'
  BY <1>5 DEF BecomeReady
<1>6. CASE UNCHANGED vars
  BY <1>6 DEF vars
<1>7. QED
  BY <1>1, <1>2, <1>3, <1>4, <1>5, <1>6 DEF Next

(* Type correctness: every reachable state of the loop is well typed; in   *)
(* particular the eventfd counter never passes its limit.                  *)
THEOREM TypeCorrect == Spec => []TypeOK
<1>1. Init => TypeOK
  <2>1. Init => wakeupFd \in 0..EventfdMax
    BY EventfdAssumption DEF EventfdAssumption, Init
  <2>2. Init => pendingFunctors_ \in Seq(Functors) /\ functors \in Seq(Functors)
                  /\ ran \in Seq(Functors)
    BY DEF Init
  <2>3. QED
    BY <2>1, <2>2 DEF Init, TypeOK, LoopPcs, CallerPcs, StopOrigins
<1>2. QED
  BY <1>1, TypeStep, PTL DEF Spec

-----------------------------------------------------------------------------
(* doPendingFunctors() is the only place where functors is not empty.      *)
LEMMA FunctorPhaseStep == TypeOK /\ FunctorPhase /\ [Next]_vars => FunctorPhase'
<1> SUFFICES ASSUME TypeOK, FunctorPhase, [Next]_vars PROVE FunctorPhase'
  OBVIOUS
<1> USE DEF TypeOK, FunctorPhase
<1>1. CASE StartLoop
  BY <1>1 DEF StartLoop
<1>2. CASE LoopStep
  BY <1>2 DEF LoopStep, LeaveLoop, EnterIteration, CallEpollWait, PollReturns,
     DispatchWakeup, DispatchChannel, HandlerReturns, SwapFunctors, RunFunctor,
     FunctorReturns, FunctorsDone
<1>3. CASE OwnCall
  BY <1>3 DEF OwnCall, OwnQueueInLoop, OwnRunInLoop, OwnQuit, SignalQuit
<1>4. ASSUME NEW t \in Threads, ForeignStep(t) PROVE FunctorPhase'
  BY <1>4 DEF ForeignStep, QueueInLoop, Quit, Wakeup
<1>5. ASSUME NEW c \in Channels, BecomeReady(c) PROVE FunctorPhase'
  BY <1>5 DEF BecomeReady
<1>6. CASE UNCHANGED vars
  BY <1>6 DEF vars
<1>7. QED
  BY <1>1, <1>2, <1>3, <1>4, <1>5, <1>6 DEF Next

(* callingPendingFunctors_ tells exactly when a batch of functors runs.    *)
THEOREM FunctorPhaseInvariant == Spec => []FunctorPhase
<1>1. Init => FunctorPhase
  BY DEF Init, FunctorPhase
<1>2. QED
  BY <1>1, FunctorPhaseStep, TypeCorrect, PTL DEF Spec

-----------------------------------------------------------------------------
(* A write to the eventfd makes it readable, at its limit too.             *)
LEMMA WriteMakesReadable == TypeOK /\ WriteEventfd => wakeupFd' > 0
  BY EventfdAssumption DEF EventfdAssumption, TypeOK, WriteEventfd

(* One step keeps the wakeup that is due for the pending functors.         *)
LEMMA NoLostWakeupStep ==
  TypeOK /\ FunctorPhase /\ NoLostWakeup /\ [Next]_vars => NoLostWakeup'
<1> SUFFICES ASSUME TypeOK, FunctorPhase, NoLostWakeup, [Next]_vars
             PROVE  NoLostWakeup'
  OBVIOUS
<1> USE DEF NoLostWakeup, WakeupDue, kernelVars, historyVars
<1>1. CASE StartLoop
  BY <1>1 DEF StartLoop
<1>2. CASE LoopStep
  <2>1. CASE LeaveLoop \/ EnterIteration \/ CallEpollWait
    BY <2>1 DEF LeaveLoop, EnterIteration, CallEpollWait
  <2>2. CASE PollReturns \/ DispatchWakeup \/ HandlerReturns
    BY <2>2 DEF PollReturns, DispatchWakeup, HandlerReturns
  <2>3. ASSUME NEW c \in Channels, DispatchChannel(c) PROVE NoLostWakeup'
    BY <2>3 DEF DispatchChannel
  <2>4. CASE SwapFunctors
    BY <2>4 DEF SwapFunctors
  <2>5. CASE RunFunctor \/ FunctorReturns \/ FunctorsDone
    BY <2>5 DEF RunFunctor, FunctorReturns, FunctorsDone
  <2>6. QED
    BY <1>2, <2>1, <2>2, <2>3, <2>4, <2>5 DEF LoopStep
<1>3. CASE OwnCall
  <2>1. ASSUME NEW f \in Functors, OwnQueueInLoop(f) PROVE NoLostWakeup'
    <3>1. CASE loopPc = "handler"
      BY <2>1, <3>1 DEF OwnQueueInLoop
    <3>2. CASE loopPc = "functor"
      <4>1. WriteEventfd
        BY <2>1, <3>2 DEF OwnQueueInLoop, FunctorPhase
      <4>2. QED
        BY <4>1, WriteMakesReadable
    <3>3. CASE loopPc = "outside"
      <4>1. /\ pendingFunctors_' = Append(pendingFunctors_, f)
            /\ early' = early \cup {f}
            /\ UNCHANGED <<wakeupFd, caller>>
        BY <2>1, <3>3 DEF OwnQueueInLoop, FunctorPhase, Running, TypeOK
      <4>2. CASE WakeupDue
        BY <4>1, <4>2
      <4>3. CASE \A i \in DOMAIN pendingFunctors_ : pendingFunctors_[i] \in early
        <5>1. pendingFunctors_ \in Seq(Functors) /\ f \in Functors
          BY <2>1 DEF TypeOK
        <5>2. \A i \in DOMAIN pendingFunctors_' : pendingFunctors_'[i] \in early'
          BY <4>1, <4>3, <5>1
        <5>3. QED
          BY <5>2
      <4>4. QED
        BY <3>3, <4>2, <4>3
    <3>4. QED
      BY <2>1, <3>1, <3>2, <3>3 DEF OwnQueueInLoop, InUserCode
  <2>2. ASSUME NEW f \in Functors, OwnRunInLoop(f) PROVE NoLostWakeup'
    BY <2>2 DEF OwnRunInLoop
  <2>3. CASE OwnQuit \/ SignalQuit
    BY <2>3 DEF OwnQuit, SignalQuit
  <2>4. QED
    BY <1>3, <2>1, <2>2, <2>3 DEF OwnCall
<1>4. ASSUME NEW t \in Threads, ForeignStep(t) PROVE NoLostWakeup'
  <2>1. ASSUME NEW f \in Functors, QueueInLoop(t, f) PROVE NoLostWakeup'
    BY <2>1 DEF QueueInLoop, TypeOK
  <2>2. CASE Quit(t)
    BY <2>2 DEF Quit, TypeOK
  <2>3. CASE Wakeup(t)
    BY <2>3, WriteMakesReadable DEF Wakeup
  <2>4. QED
    BY <1>4, <2>1, <2>2, <2>3 DEF ForeignStep
<1>5. ASSUME NEW c \in Channels, BecomeReady(c) PROVE NoLostWakeup'
  BY <1>5 DEF BecomeReady
<1>6. CASE UNCHANGED vars
  BY <1>6 DEF vars
<1>7. QED
  BY <1>1, <1>2, <1>3, <1>4, <1>5, <1>6 DEF Next

(* No wakeup is lost, for any number of threads submitting functors and    *)
(* whatever the callbacks and functors themselves queue.                   *)
THEOREM NoLostWakeupInvariant == Spec => []NoLostWakeup
<1>1. Init => NoLostWakeup
  BY DEF Init, NoLostWakeup
<1>2. QED
  BY <1>1, NoLostWakeupStep, TypeCorrect, FunctorPhaseInvariant, PTL DEF Spec

-----------------------------------------------------------------------------
(* Appending to the pending functors appends to the abstract queue.        *)
LEMMA AppendConcat ==
  ASSUME NEW S, NEW s \in Seq(S), NEW u \in Seq(S), NEW x \in S
  PROVE  s \o Append(u, x) = Append(s \o u, x)
  OBVIOUS

(* The oldest task of the abstract queue is the head of functors.          *)
LEMMA HeadTailConcat ==
  ASSUME NEW S, NEW s \in Seq(S), NEW u \in Seq(S), s # <<>>
  PROVE  /\ s \o u # <<>>
         /\ Head(s \o u) = Head(s)
         /\ Tail(s \o u) = Tail(s) \o u
  OBVIOUS

(* Moving the pending functors into an empty vector changes nothing.       *)
LEMMA EmptyConcat ==
  ASSUME NEW S, NEW s \in Seq(S)
  PROVE  <<>> \o s = s /\ s \o <<>> = s
  OBVIOUS

(* Every step of the loop is a step of the task queue, or leaves it alone. *)
LEMMA TaskQueueStep ==
  TypeOK /\ FunctorPhase /\ [Next]_vars => [TQ!Next]_(TQ!tqVars)
<1> SUFFICES ASSUME TypeOK, FunctorPhase, [Next]_vars
             PROVE  [TQ!Next]_(TQ!tqVars)
  OBVIOUS
<1> USE DEF TQ!tqVars, historyVars
<1>t. pendingFunctors_ \in Seq(Functors) /\ functors \in Seq(Functors)
  BY DEF TypeOK
<1>1. CASE StartLoop
  BY <1>1 DEF StartLoop
<1>2. CASE LoopStep
  <2>1. CASE LeaveLoop \/ EnterIteration \/ CallEpollWait \/ PollReturns
    BY <2>1 DEF LeaveLoop, EnterIteration, CallEpollWait, PollReturns
  <2>2. CASE DispatchWakeup \/ HandlerReturns \/ FunctorReturns \/ FunctorsDone
    BY <2>2 DEF DispatchWakeup, HandlerReturns, FunctorReturns, FunctorsDone
  <2>3. ASSUME NEW c \in Channels, DispatchChannel(c)
        PROVE  UNCHANGED TQ!tqVars
    BY <2>3 DEF DispatchChannel
  <2>4. CASE SwapFunctors
    <3>1. functors = <<>>
      BY <2>4 DEF SwapFunctors, FunctorPhase
    <3>2. functors' \o pendingFunctors_' = pendingFunctors_
      BY <1>t, <2>4, EmptyConcat DEF SwapFunctors
    <3>3. functors \o pendingFunctors_ = pendingFunctors_
      BY <1>t, <3>1, EmptyConcat
    <3>4. QED
      BY <2>4, <3>2, <3>3 DEF SwapFunctors
  <2>5. CASE RunFunctor
    <3>1. functors # <<>>
      BY <2>5 DEF RunFunctor
    <3>2. TQ!RunOldest
      BY <1>t, <2>5, <3>1, HeadTailConcat DEF RunFunctor, TQ!RunOldest
    <3>3. QED
      BY <3>2 DEF TQ!Next
  <2>6. QED
    BY <1>2, <2>1, <2>2, <2>3, <2>4, <2>5 DEF LoopStep
<1>3. CASE OwnCall
  <2>1. ASSUME NEW f \in Functors, OwnQueueInLoop(f) PROVE TQ!Submit(f)
    BY <1>t, <2>1, AppendConcat DEF OwnQueueInLoop, Create, TQ!Submit
  <2>2. ASSUME NEW f \in Functors, OwnRunInLoop(f) PROVE TQ!RunAtOnce(f)
    BY <2>2 DEF OwnRunInLoop, Create, TQ!RunAtOnce
  <2>3. CASE OwnQuit \/ SignalQuit
    BY <2>3 DEF OwnQuit, SignalQuit
  <2>4. QED
    BY <1>3, <2>1, <2>2, <2>3 DEF OwnCall, TQ!Next
<1>4. ASSUME NEW t \in Threads, ForeignStep(t)
      PROVE  [TQ!Next]_(TQ!tqVars)
  <2>1. ASSUME NEW f \in Functors, QueueInLoop(t, f) PROVE TQ!Submit(f)
    BY <1>t, <2>1, AppendConcat DEF QueueInLoop, Create, TQ!Submit
  <2>2. CASE Quit(t) \/ Wakeup(t)
    BY <2>2 DEF Quit, Wakeup
  <2>3. QED
    BY <1>4, <2>1, <2>2 DEF ForeignStep, TQ!Next
<1>5. ASSUME NEW c \in Channels, BecomeReady(c) PROVE UNCHANGED TQ!tqVars
  BY <1>5 DEF BecomeReady
<1>6. CASE UNCHANGED vars
  BY <1>6 DEF vars
<1>7. QED
  BY <1>1, <1>2, <1>3, <1>4, <1>5, <1>6 DEF Next

(* The loop implements the FIFO task queue: a functor handed to            *)
(* queueInLoop() or runInLoop() by any thread is neither lost from the     *)
(* queue, nor run twice, nor overtaken by a functor queued after it.       *)
THEOREM TaskQueueRefinement == Spec => ImplementsTaskQueue
<1>1. Init => TQ!Init
  <2>1. <<>> \o <<>> = <<>>
    OBVIOUS
  <2>2. QED
    BY <2>1 DEF Init, TQ!Init
<1>2. QED
  BY <1>1, TaskQueueStep, TypeCorrect, FunctorPhaseInvariant, PTL
     DEF Spec, ImplementsTaskQueue, TQ!Spec
=============================================================================
