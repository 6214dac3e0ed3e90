-------------------------- MODULE TimerQueueProofs --------------------------
(***************************************************************************)
(* Proofs about TimerQueue.tla, for any set of timers, any delays and      *)
(* intervals and any bound on the clock: that the two sets agree, that the *)
(* timerfd is armed for every timer that waits, that no timer fires early  *)
(* and that a cancelled one never fires.                                   *)
(***************************************************************************)
EXTENDS TimerQueue, SequenceTheorems, TLAPS, WellFoundedInduction

-----------------------------------------------------------------------------
(* A set of natural numbers that is not empty has a least element.         *)
LEMMA LeastNatural ==
  ASSUME NEW T, T \subseteq Nat, T # {}
  PROVE  \E x \in T : \A y \in T : x <= y
<1>1. PICK x \in T : \A y \in T : ~(<<y, x>> \in OpToRel(<, Nat))
  BY NatLessThanWellFounded, WFMin, Zenon
<1>2. x \in Nat /\ \A y \in T : y \in Nat /\ ~(y < x)
  BY <1>1 DEF OpToRel
<1>3. \A y \in T : x <= y
  BY <1>2
<1> QED BY <1>3

(* What a queue holds, and that it holds it once.                          *)
Has(s, x) == \E i \in DOMAIN s : s[i] = x
Once(s, x) == \A i, j \in DOMAIN s : s[i] = x /\ s[j] = x => i = j

(* An element is queued.                                                   *)
LEMMA AppendHas ==
  ASSUME NEW S, NEW s \in Seq(S), NEW x \in S, NEW y
  PROVE  /\ Append(s, x) \in Seq(S)
         /\ Has(Append(s, x), y) <=> Has(s, y) \/ y = x
         /\ Once(s, y) /\ (y # x \/ ~Has(s, y)) => Once(Append(s, x), y)
<1>1. /\ Append(s, x) \in Seq(S) /\ Len(s) \in Nat
      /\ DOMAIN s = 1..Len(s) /\ DOMAIN Append(s, x) = 1..(Len(s) + 1)
      /\ \A i \in 1..Len(s) : Append(s, x)[i] = s[i]
      /\ Append(s, x)[Len(s) + 1] = x
  OBVIOUS
<1> QED BY <1>1 DEF Has, Once

(* The oldest element is taken out.                                        *)
LEMMA TailHas ==
  ASSUME NEW S, NEW s \in Seq(S), s # <<>>, NEW y
  PROVE  /\ Tail(s) \in Seq(S) /\ Head(s) \in S /\ Len(Tail(s)) = Len(s) - 1
         /\ Has(Tail(s), y) => Has(s, y)
         /\ Has(s, y) => Has(Tail(s), y) \/ y = Head(s)
         /\ Has(s, Head(s))
         /\ Once(s, y) => Once(Tail(s), y)
         /\ Once(s, Head(s)) => ~Has(Tail(s), Head(s))
<1>1. /\ Tail(s) \in Seq(S) /\ Head(s) \in S /\ Len(s) \in Nat \ {0}
      /\ DOMAIN s = 1..Len(s) /\ DOMAIN Tail(s) = 1..(Len(s) - 1)
      /\ Len(Tail(s)) = Len(s) - 1
      /\ \A i \in 1..(Len(s) - 1) : Tail(s)[i] = s[i + 1]
      /\ s[1] = Head(s)
  OBVIOUS
<1>2. Has(s, y) => Has(Tail(s), y) \/ y = Head(s)
  <2> SUFFICES ASSUME NEW i \in 1..Len(s), s[i] = y, i # 1 PROVE Has(Tail(s), y)
    BY <1>1 DEF Has
  <2>1. i - 1 \in 1..(Len(s) - 1) /\ s[(i - 1) + 1] = y
    BY <1>1
  <2> QED BY <1>1, <2>1 DEF Has
<1> QED BY <1>1, <1>2, SMTT(30) DEF Has, Once

-----------------------------------------------------------------------------
(* Timers whose addTimerInLoop() is still to be run.                       *)
Queued(t) == Has(functors, <<"add", t>>)

-----------------------------------------------------------------------------
(* The inductive invariant, part by part.                                  *)

(* Each id is added once, and nothing is known of it before.               *)
AddedOnce ==
  /\ \A t \in Timers : t \in fresh \/ Queued(t) =>
       t \notin activeTimers_ \cup canceled \cup expired \cup dead
  /\ \A t \in fresh : ~Queued(t)
  /\ \A t \in Timers : Once(functors, <<"add", t>>)

(* Where a timer is: waiting, or in the batch of handleRead().             *)
Batch ==
  /\ pc \in {"idle", "reported"} => expired = {}
  /\ timers_ \cap expired = {}
  /\ activeTimers_ \cap canceled = {}
  /\ uncalled \subseteq activeTimers_ \cup canceled

(* A timer cancelInLoop() ran for is out of the sets, or flagged.          *)
DeadIsOut ==
  /\ dead \cap activeTimers_ = {}
  /\ dead \cap uncalled \subseteq canceled

(* Expirations: set, and no earlier than they may be; After() clamps to    *)
(* MaxInt, which the clock does not reach.                                 *)
Expirations ==
  /\ \A t \in timers_ : expiration[t] # 0
  /\ \A t \in timers_ : expiration[t] = MaxInt \/ notBefore[t] <= expiration[t]
  /\ \A t \in uncalled : now >= notBefore[t]
  /\ \A t \in expired \ (uncalled \cup canceled) : notBefore[t] <= now + Interval[t]

QueueInv ==
  /\ TypeOK
  /\ SetsAgree
  /\ TimerfdArmed
  /\ AddedOnce
  /\ Batch
  /\ DeadIsOut
  /\ Expirations

(* The parts that the calls of a user cannot tell apart from each other.   *)
QueueParts == SetsAgree /\ TimerfdArmed /\ Batch /\ DeadIsOut /\ Expirations

-----------------------------------------------------------------------------
(* A set of timers that is not empty has an earliest expiration.           *)
LEMMA EarliestIsLeast ==
  ASSUME NEW S \in SUBSET Timers, NEW e \in [Timers -> Nat], S # {}
  PROVE  /\ Earliest(S, e) \in Nat
         /\ \E t \in S : Earliest(S, e) = e[t]
         /\ \A t \in S : Earliest(S, e) <= e[t]
<1> DEFINE T == {e[t] : t \in S}
<1>1. T \subseteq Nat /\ T # {}
  OBVIOUS
<1>2. PICK x \in T : \A y \in T : x <= y
  BY <1>1, LeastNatural
<1>3. /\ Earliest(S, e) \in T
      /\ \A t \in S : Earliest(S, e) <= e[t]
  BY <1>2, Zenon DEF Earliest
<1> QED BY <1>1, <1>3

(* now + d is not before now, and never 0.                                 *)
LEMMA AfterIsLater ==
  ASSUME now \in 1..MaxTime, NEW d \in 0..MaxInt
  PROVE  /\ After(d) \in 1..MaxInt
         /\ After(d) = MaxInt \/ After(d) = now + d
BY TimeAssumption DEF After

-----------------------------------------------------------------------------
(* addTimerInLoop() of a timer of which nothing is known yet.              *)
LEMMA AddKeeps ==
  ASSUME TypeOK, QueueParts, NEW t \in Timers,
         t \notin activeTimers_ \cup canceled \cup expired \cup dead,
         addTimerInLoop(t), UNCHANGED <<now, batchVars>>
  PROVE  QueueParts'
<1> DEFINE at == After(Delay[t])
<1> USE DEF QueueParts, TypeOK, addTimerInLoop, batchVars
<1>1. Delay[t] \in 0..MaxInt /\ at \in 1..MaxInt /\ (at = MaxInt \/ at = now + Delay[t])
  BY DelayAssumption, AfterIsLater
<1>2. /\ expiration' = [expiration EXCEPT ![t] = at]
      /\ notBefore' = [notBefore EXCEPT ![t] = now + Delay[t]]
  OBVIOUS
<1> HIDE DEF at
<1>3. SetsAgree' /\ Batch' /\ DeadIsOut'
  BY DEF SetsAgree, Batch, DeadIsOut
<1>4. TimerfdArmed'
  <2> SUFFICES ASSUME pc \in {"idle", "reported"}
               PROVE  armed' # 0 /\ \A u \in timers_' : armed' <= expiration'[u]
    BY DEF TimerfdArmed
  <2>1. armed' = IF earliestChanged(t, at) THEN at ELSE armed
    BY DEF at
  <2>2. CASE timers_ = {}
    BY <1>1, <1>2, <2>1, <2>2 DEF earliestChanged
  <2>3. CASE timers_ # {}
    <3>1. armed # 0 /\ \A u \in timers_ : armed <= expiration[u]
      BY <2>3 DEF TimerfdArmed
    <3>2. /\ Earliest(timers_, expiration) \in Nat
          /\ \E u \in timers_ : Earliest(timers_, expiration) = expiration[u]
          /\ \A u \in timers_ : Earliest(timers_, expiration) <= expiration[u]
      <4>1. expiration \in [Timers -> Nat]
        OBVIOUS
      <4> QED BY <2>3, <4>1, EarliestIsLeast
    <3>3. earliestChanged(t, at) <=> at < Earliest(timers_, expiration)
      BY <2>3 DEF earliestChanged
    <3> QED BY <1>1, <1>2, <2>1, <3>1, <3>2, <3>3, SMTT(30)
  <2> QED BY <2>2, <2>3
<1>5. Expirations'
  <2>1. t \notin uncalled /\ t \notin expired
    OBVIOUS
  <2> QED BY <1>1, <1>2, <2>1, SMTT(30) DEF Expirations
<1> QED BY <1>3, <1>4, <1>5

(* cancelInLoop() of any timer that was added, waiting or in the batch.    *)
LEMMA CancelKeeps ==
  ASSUME TypeOK, QueueParts, NEW t \in Timers,
         cancelInLoop(t), UNCHANGED <<now, batchVars>>
  PROVE  QueueParts'
<1> USE DEF QueueParts, TypeOK, cancelInLoop, batchVars
<1>1. CASE t \notin activeTimers_
  <2>1. UNCHANGED <<queueVars, notBefore>> /\ dead' \subseteq dead \cup {t}
    BY <1>1
  <2>2. SetsAgree' /\ TimerfdArmed' /\ Batch' /\ Expirations'
    BY <2>1 DEF SetsAgree, TimerfdArmed, Batch, Expirations, queueVars
  <2>3. DeadIsOut'
    BY <1>1, <2>1 DEF DeadIsOut, Batch, queueVars
  <2> QED BY <2>2, <2>3
<1>2. CASE t \in activeTimers_
  <2>1. /\ timers_' = timers_ \ {t} /\ activeTimers_' = activeTimers_ \ {t}
        /\ canceled' = canceled \cup {t} /\ UNCHANGED <<expiration, notBefore>>
        /\ dead' \subseteq dead \cup {t}
    BY <1>2 DEF setCanceled
  <2>2. SetsAgree' /\ Batch' /\ DeadIsOut' /\ Expirations'
    BY <2>1 DEF SetsAgree, Batch, DeadIsOut, Expirations
  <2>3. TimerfdArmed'
    <3> SUFFICES ASSUME pc \in {"idle", "reported"}, timers_' # {}
                 PROVE  armed' # 0 /\ \A u \in timers_' : armed' <= expiration'[u]
      BY DEF TimerfdArmed
    <3>1. armed # 0 /\ \A u \in timers_ : armed <= expiration[u]
      BY <2>1 DEF TimerfdArmed
    <3>2. CASE UNCHANGED armed
      BY <2>1, <3>1, <3>2
    <3>3. CASE armed' = Earliest(timers_', expiration)
      <4>1. expiration \in [Timers -> Nat]
        OBVIOUS
      <4>2. timers_' \in SUBSET Timers
        BY <2>1
      <4>3. \E u \in timers_' : armed' = expiration[u]
        BY <3>3, <4>1, <4>2, EarliestIsLeast
      <4>4. \A u \in timers_' : armed' <= expiration[u]
        BY <3>3, <4>1, <4>2, EarliestIsLeast
      <4> QED BY <2>1, <4>3, <4>4 DEF Expirations
    <3> QED BY <1>2, <2>1, <3>2, <3>3
  <2> QED BY <2>2, <2>3
<1> QED BY <1>1, <1>2

-----------------------------------------------------------------------------
(* Steps on the loop's thread and calls of foreign threads, one by one.    *)

(* A fresh timer is added on the loop's thread.                            *)
LEMMA OwnAddKeeps ==
  ASSUME QueueInv, NEW t \in Timers, OwnAdd(t)
  PROVE  QueueInv'
<1> USE DEF QueueInv, OwnAdd
<1>1. t \notin activeTimers_ \cup canceled \cup expired \cup dead
  BY DEF AddedOnce
<1>2. QueueParts'
  BY <1>1, AddKeeps DEF QueueParts
<1>3. TypeOK'
  <2>1. Delay[t] \in 0..MaxInt /\ After(Delay[t]) \in 1..MaxInt
    BY DelayAssumption, AfterIsLater DEF TypeOK
  <2> QED BY <2>1 DEF TypeOK, addTimerInLoop, batchVars
<1>4. AddedOnce'
  BY DEF AddedOnce, Queued, addTimerInLoop, batchVars, TypeOK
<1> QED BY <1>2, <1>3, <1>4 DEF QueueParts

(* The part of cancelInLoop() that AddedOnce is about.                     *)
LEMMA CancelKeepsTypes ==
  ASSUME TypeOK, NEW t \in Timers, cancelInLoop(t),
         UNCHANGED <<now, batchVars, fresh>>,
         functors' \in Seq({"add", "cancel"} \X Timers)
  PROVE  TypeOK'
<1> USE DEF TypeOK, batchVars, cancelInLoop
<1>1. CASE t \notin activeTimers_
  BY <1>1 DEF queueVars
<1>2. CASE t \in activeTimers_
  <2>1. armed' \in 0..MaxInt
    <3>1. CASE UNCHANGED armed
      BY <3>1
    <3>2. CASE armed' = 0
      BY <3>2, TimeAssumption
    <3>3. CASE timers_ \ {t} # {} /\ armed' = Earliest(timers_ \ {t}, expiration)
      <4>1. expiration \in [Timers -> Nat]
        OBVIOUS
      <4>2. \E u \in timers_ \ {t} : armed' = expiration[u]
        BY <3>3, <4>1, EarliestIsLeast
      <4> QED BY <4>2
    <3> QED BY <1>2, <3>1, <3>2, <3>3
  <2> QED BY <1>2, <2>1 DEF setCanceled
<1> QED BY <1>1, <1>2

(* A timer is cancelled on the loop's thread.                              *)
LEMMA OwnCancelKeeps ==
  ASSUME QueueInv, NEW t \in Timers, OwnCancel(t)
  PROVE  QueueInv'
<1> USE DEF QueueInv, OwnCancel
<1>1. QueueParts'
  BY CancelKeeps DEF QueueParts
<1>2. TypeOK'
  <2>1. functors' \in Seq({"add", "cancel"} \X Timers)
    BY DEF TypeOK
  <2> QED BY <2>1, CancelKeepsTypes
<1>3. AddedOnce'
  <2>1. /\ activeTimers_' \subseteq activeTimers_
        /\ canceled' \subseteq canceled \cup activeTimers_
        /\ dead' \subseteq dead \cup {u \in Timers : ~(u \in fresh \/ Queued(u))}
        /\ UNCHANGED <<expired, fresh, functors>>
    BY DEF cancelInLoop, queueVars, setCanceled, batchVars, Queued, Has
  <2> QED BY <2>1 DEF AddedOnce, Queued
<1> QED BY <1>1, <1>2, <1>3 DEF QueueParts

(* Calls of foreign threads only queue a functor.                          *)
LEMMA ForeignKeeps ==
  ASSUME QueueInv, NEW t \in Timers, ForeignAdd(t) \/ ForeignCancel(t)
  PROVE  QueueInv'
<1> USE DEF QueueInv
<1> DEFINE Calls == {"add", "cancel"} \X Timers
<1>1. UNCHANGED <<now, queueVars, batchVars, histVars>>
  BY DEF ForeignAdd, ForeignCancel
<1>2. QueueParts'
  BY <1>1 DEF QueueParts, SetsAgree, TimerfdArmed, Batch, DeadIsOut, Expirations,
              queueVars, batchVars, histVars
<1>3. functors \in Seq(Calls) /\ <<"add", t>> \in Calls /\ <<"cancel", t>> \in Calls
  BY DEF TypeOK
<1>4. PICK op \in {"add", "cancel"} :
        /\ functors' = Append(functors, <<op, t>>)
        /\ op = "add" => t \in fresh /\ fresh' = fresh \ {t}
        /\ op = "cancel" => UNCHANGED fresh
  BY DEF ForeignAdd, ForeignCancel
<1>5. functors' \in Seq(Calls) /\ fresh' \subseteq fresh
  BY <1>3, <1>4
<1> HIDE DEF Calls
<1>6. TypeOK'
  BY <1>1, <1>5 DEF TypeOK, queueVars, batchVars, histVars, Calls
<1>7. \A u \in Timers : /\ Queued(u)' <=> Queued(u) \/ (op = "add" /\ u = t)
                        /\ <<op, t>> = <<"add", u>> <=> op = "add" /\ u = t
  BY <1>3, <1>4, AppendHas DEF Queued
<1>8. ASSUME NEW u \in Timers PROVE Once(functors', <<"add", u>>)
  <2>1. Once(functors, <<"add", u>>)
    BY DEF AddedOnce
  <2>2. <<"add", u>> # <<op, t>> \/ ~Has(functors, <<"add", u>>)
    BY <1>4, <1>7 DEF AddedOnce, Queued
  <2>3. <<op, t>> \in Calls
    BY <1>3, <1>4
  <2> QED BY <1>3, <1>4, <2>1, <2>2, <2>3, AppendHas
<1>9. AddedOnce'
  BY <1>1, <1>4, <1>7, <1>8 DEF AddedOnce, queueVars, batchVars, histVars, TypeOK
<1> QED BY <1>2, <1>6, <1>9 DEF QueueParts

(* The loop runs the oldest functor.                                       *)
LEMMA RunFunctorKeeps ==
  ASSUME QueueInv, RunFunctor
  PROVE  QueueInv'
<1> USE DEF QueueInv, RunFunctor
<1> DEFINE Calls == {"add", "cancel"} \X Timers
<1>1. functors \in Seq(Calls) /\ functors # <<>> /\ functors' = Tail(functors)
  BY DEF TypeOK
<1>2. functors' \in Seq(Calls) /\ Head(functors) \in Calls
  BY <1>1
<1>3. PICK op \in {"add", "cancel"}, t \in Timers : Head(functors) = <<op, t>>
  BY <1>2
<1>4. /\ \A u \in Timers : Queued(u)' => Queued(u)
      /\ \A u \in Timers : Once(functors', <<"add", u>>)
      /\ Has(functors, Head(functors))
      /\ Once(functors, Head(functors)) => ~Has(functors', Head(functors))
  BY <1>1, TailHas DEF Queued, AddedOnce
<1> HIDE DEF Calls
<1>5. CASE op = "add" /\ addTimerInLoop(t)
  <2>1. Queued(t) /\ ~Queued(t)'
    BY <1>3, <1>4, <1>5 DEF Queued, AddedOnce
  <2>2. t \notin activeTimers_ \cup canceled \cup expired \cup dead \cup fresh
    BY <1>3, <2>1 DEF AddedOnce
  <2>3. QueueParts'
    BY <1>3, <1>5, <2>2, AddKeeps DEF QueueParts
  <2>4. TypeOK'
    <3>1. Delay[t] \in 0..MaxInt /\ After(Delay[t]) \in 1..MaxInt
      BY <1>3, DelayAssumption, AfterIsLater DEF TypeOK
    <3>2. armed' \in 0..MaxInt /\ expiration' \in [Timers -> 0..MaxInt]
      BY <1>5, <3>1, SMTT(30) DEF TypeOK, addTimerInLoop
    <3>3. now + Delay[t] \in Nat
      <4>1. now \in Nat
        BY <1>3, TimeAssumption DEF TypeOK
      <4>2. Delay[t] \in Nat
        BY <3>1, TimeAssumption
      <4> QED BY <4>1, <4>2
    <3>4. notBefore' \in [Timers -> Nat]
      BY <1>5, <3>3 DEF TypeOK, addTimerInLoop
    <3> QED BY <1>2, <1>5, <3>2, <3>4 DEF TypeOK, addTimerInLoop, batchVars, Calls
  <2>5. AddedOnce'
    <3>1. /\ activeTimers_' = activeTimers_ \cup {t}
          /\ UNCHANGED <<canceled, expired, dead, fresh>>
      BY <1>5 DEF addTimerInLoop, batchVars
    <3> QED BY <1>4, <2>1, <2>2, <3>1 DEF AddedOnce, TypeOK
  <2> QED BY <2>3, <2>4, <2>5 DEF QueueParts
<1>6. CASE op = "cancel" /\ cancelInLoop(t)
  <2>1. QueueParts'
    BY <1>3, <1>6, CancelKeeps DEF QueueParts
  <2>2. TypeOK'
    BY <1>2, <1>3, <1>6, CancelKeepsTypes DEF Calls
  <2>3. AddedOnce'
    <3>1. /\ activeTimers_' \subseteq activeTimers_
          /\ canceled' \subseteq canceled \cup activeTimers_
          /\ dead' \subseteq dead \cup {u \in Timers : ~(u \in fresh \/ Queued(u))}
          /\ UNCHANGED <<expired, fresh>>
      BY <1>3, <1>6 DEF cancelInLoop, queueVars, setCanceled, batchVars, Queued, Has
    <3> QED BY <1>4, <3>1 DEF AddedOnce, TypeOK
  <2> QED BY <2>1, <2>2, <2>3 DEF QueueParts
<1> QED BY <1>3, <1>5, <1>6

-----------------------------------------------------------------------------
(* handleRead().                                                           *)

(* The poll reports the timerfd, a callback returns, the clock advances.   *)
LEMMA QuietStepKeeps ==
  ASSUME QueueInv, PollReports \/ CallbackReturns \/ Tick
  PROVE  QueueInv'
<1> USE DEF QueueInv, PollReports, CallbackReturns, Tick
<1>1. TypeOK'
  BY TimeAssumption DEF TypeOK, queueVars, batchVars, histVars
<1>2. SetsAgree' /\ DeadIsOut'
  BY DEF SetsAgree, DeadIsOut, queueVars, batchVars, histVars
<1>3. TimerfdArmed' /\ Batch'
  BY DEF TimerfdArmed, Batch, queueVars, batchVars, histVars
<1>4. AddedOnce'
  BY DEF AddedOnce, Queued, queueVars, batchVars, histVars
<1>5. Expirations'
  BY IntervalAssumption, TimeAssumption DEF Expirations, TypeOK, queueVars, batchVars, histVars
<1> QED BY <1>1, <1>2, <1>3, <1>4, <1>5

(* The expired timers leave timers_ for the batch.                         *)
LEMMA HandleReadBeginKeeps ==
  ASSUME QueueInv, HandleReadBegin
  PROVE  QueueInv'
<1> USE DEF QueueInv, HandleReadBegin
<1>1. TypeOK'
  BY TimeAssumption DEF TypeOK, readTimerfd, histVars
<1>2. SetsAgree' /\ Batch' /\ DeadIsOut' /\ TimerfdArmed'
  BY DEF SetsAgree, Batch, DeadIsOut, TimerfdArmed, histVars
<1>3. AddedOnce'
  BY DEF AddedOnce, Queued, SetsAgree, histVars, TypeOK
<1>4. Expirations'
  BY TimeAssumption, SMTT(30) DEF Expirations, isExpired, TypeOK, histVars
<1> QED BY <1>1, <1>2, <1>3, <1>4

(* One callback of the batch, or a cancelled timer that is passed over.    *)
LEMMA NextCallbackKeeps ==
  ASSUME QueueInv, NextCallback
  PROVE  QueueInv'
<1> USE DEF QueueInv
<1>1. PICK t \in uncalled :
        /\ uncalled' = uncalled \ {t}
        /\ \/ t \in canceled /\ UNCHANGED <<pc, fires, notBefore>>
           \/ /\ t \notin canceled /\ pc' = "callback"
              /\ fires' = [fires EXCEPT ![t] = @ + 1]
              /\ notBefore' = [notBefore EXCEPT ![t] = now + Interval[t]]
  BY DEF NextCallback
<1>2. pc = "calling" /\ UNCHANGED <<now, queueVars, expired, functors, fresh, dead>>
  BY DEF NextCallback
<1>3. t \in Timers /\ Interval[t] \in Nat /\ now \in Nat
  BY IntervalAssumption DEF TypeOK
<1>4. TypeOK'
  BY <1>1, <1>2, <1>3, SMTT(30) DEF TypeOK, queueVars
<1>5. SetsAgree' /\ Batch' /\ DeadIsOut' /\ TimerfdArmed'
  BY <1>1, <1>2 DEF SetsAgree, Batch, DeadIsOut, TimerfdArmed, queueVars
<1>6. AddedOnce'
  BY <1>2 DEF AddedOnce, Queued, queueVars
<1>7. Expirations'
  <2>1. t \notin timers_ /\ t \in expired
    BY DEF Batch, TypeOK
  <2>2. \A u \in Timers : u # t => notBefore'[u] = notBefore[u]
    BY <1>1 DEF TypeOK
  <2>3. t \notin canceled => notBefore'[t] = now + Interval[t]
    BY <1>1, <1>3 DEF TypeOK
  <2>4. \A u \in timers_ \cup uncalled' : notBefore'[u] = notBefore[u]
    BY <1>1, <2>1, <2>2 DEF TypeOK
  <2>5. \A u \in expired \ (uncalled' \cup canceled) : notBefore'[u] <= now + Interval[u]
    BY <1>1, <1>3, <2>2, <2>3 DEF Expirations, TypeOK
  <2> QED BY <1>1, <1>2, <2>4, <2>5 DEF Expirations, queueVars
<1> QED BY <1>4, <1>5, <1>6, <1>7

(* Repeating timers go back to timers_ and the timerfd is armed again.     *)
LEMMA HandleReadEndKeeps ==
  ASSUME QueueInv, HandleReadEnd
  PROVE  QueueInv'
<1> USE DEF QueueInv
<1> DEFINE again == {t \in expired \cap activeTimers_ : t \notin canceled /\ Repeating(t)}
<1>1. /\ pc' = "idle" /\ expired' = {} /\ uncalled = {}
      /\ expiration' = [t \in Timers |->
                          IF t \in again THEN After(Interval[t]) ELSE expiration[t]]
      /\ timers_' = timers_ \cup again
      /\ activeTimers_' = staysActive
      /\ armed' = rearmed(timers_', expiration')
      /\ UNCHANGED <<now, canceled, uncalled, functors, fresh, histVars>>
  BY DEF HandleReadEnd
<1>2. \A t \in again : /\ After(Interval[t]) \in 1..MaxInt
                       /\ After(Interval[t]) \in {MaxInt, now + Interval[t]}
                       /\ Interval[t] \in Nat
  BY IntervalAssumption, AfterIsLater, SMTT(30) DEF TypeOK
<1>3. expiration' \in [Timers -> 0..MaxInt] /\ timers_' \subseteq Timers
  BY <1>1, <1>2 DEF TypeOK
<1>4. SetsAgree' /\ Batch' /\ DeadIsOut'
  BY <1>1 DEF SetsAgree, Batch, DeadIsOut, staysActive, histVars
<1>5. AddedOnce'
  BY <1>1 DEF AddedOnce, Queued, staysActive, histVars
<1>6. Expirations'
  <2>1. \A t \in timers_' : \/ t \in again /\ expiration'[t] = After(Interval[t])
                            \/ t \in timers_ /\ expiration'[t] = expiration[t]
    BY <1>1 DEF TypeOK
  <2>2. \A t \in again : notBefore[t] <= now + Interval[t]
    BY <1>1 DEF Expirations
  <2>3. \A t \in timers_' : expiration'[t] # 0
    BY <1>2, <2>1 DEF Expirations
  <2>4. \A t \in timers_' : expiration'[t] = MaxInt \/ notBefore[t] <= expiration'[t]
    BY <1>2, <2>1, <2>2 DEF Expirations
  <2> QED BY <1>1, <2>3, <2>4 DEF Expirations, histVars
<1>7. timers_' # {} => /\ \E t \in timers_' : armed' = expiration'[t]
                       /\ \A t \in timers_' : armed' <= expiration'[t]
  <2> SUFFICES ASSUME timers_' # {}
               PROVE  /\ \E t \in timers_' : armed' = expiration'[t]
                      /\ \A t \in timers_' : armed' <= expiration'[t]
    OBVIOUS
  <2>1. expiration' \in [Timers -> Nat] /\ armed' = Earliest(timers_', expiration')
    BY <1>1, <1>3 DEF rearmed
  <2> QED BY <1>3, <2>1, EarliestIsLeast
<1>8. TimerfdArmed'
  BY <1>6, <1>7 DEF TimerfdArmed, Expirations
<1>9. TypeOK'
  <2>1. armed' \in 0..MaxInt
    BY <1>1, <1>3, <1>7 DEF TypeOK, rearmed
  <2> QED BY <1>1, <1>3, <2>1 DEF TypeOK, staysActive, histVars
<1> QED BY <1>4, <1>5, <1>6, <1>8, <1>9

-----------------------------------------------------------------------------
LEMMA QueueInvInit == Init => QueueInv
<1> SUFFICES ASSUME Init PROVE QueueInv
  OBVIOUS
<1> USE DEF Init
<1>1. TypeOK
  BY TimeAssumption DEF TypeOK
<1>2. SetsAgree /\ TimerfdArmed /\ Batch /\ DeadIsOut /\ Expirations
  BY DEF SetsAgree, TimerfdArmed, Batch, DeadIsOut, Expirations
<1>3. AddedOnce
  BY DEF AddedOnce, Queued, Has, Once
<1> QED BY <1>1, <1>2, <1>3 DEF QueueInv

(* One case for each disjunct of Next.                                     *)
LEMMA QueueInvNext == QueueInv /\ [Next]_vars => QueueInv'
<1> SUFFICES ASSUME QueueInv, [Next]_vars PROVE QueueInv'
  OBVIOUS
<1>1. CASE RunFunctor \/ HandleReadBegin \/ NextCallback \/ HandleReadEnd
  BY <1>1, RunFunctorKeeps, HandleReadBeginKeeps, NextCallbackKeeps, HandleReadEndKeeps
<1>2. CASE PollReports \/ CallbackReturns \/ Tick
  BY <1>2, QuietStepKeeps
<1>3. ASSUME NEW t \in Timers, OwnAdd(t) \/ OwnCancel(t) \/ ForeignAdd(t) \/ ForeignCancel(t)
      PROVE  QueueInv'
  BY <1>3, OwnAddKeeps, OwnCancelKeeps, ForeignKeeps
<1>4. CASE UNCHANGED vars
  <2> USE <1>4 DEF QueueInv, vars, queueVars, batchVars, histVars
  <2>1. TypeOK'
    BY DEF TypeOK
  <2>2. SetsAgree' /\ TimerfdArmed' /\ Batch' /\ DeadIsOut' /\ Expirations'
    BY DEF SetsAgree, TimerfdArmed, Batch, DeadIsOut, Expirations
  <2>3. AddedOnce'
    BY DEF AddedOnce, Queued
  <2> QED BY <2>1, <2>2, <2>3
<1> QED BY <1>1, <1>2, <1>3, <1>4 DEF Next, LoopStep

(* QueueInv holds in every reachable state.                                *)
LEMMA QueueInvariant == Spec => []QueueInv
BY QueueInvInit, QueueInvNext, PTL DEF Spec

-----------------------------------------------------------------------------
(* However timers are added and cancelled, on the loop's thread, in        *)
(* callbacks or from other threads, timers_ and activeTimers_ never        *)
(* disagree but for the batch in flight.                                   *)
THEOREM SetsAgreeHolds == Spec => []SetsAgree
<1>1. QueueInv => SetsAgree
  BY DEF QueueInv
<1> QED BY <1>1, QueueInvariant, PTL

(* No timer that waits is slept over: the timerfd is armed for it, or an   *)
(* earlier one, whenever the loop may poll.                                *)
THEOREM TimerfdArmedHolds == Spec => []TimerfdArmed
<1>1. QueueInv => TimerfdArmed
  BY DEF QueueInv
<1> QED BY <1>1, QueueInvariant, PTL

(* Only NextCallback() runs callbacks: of a timer of the batch that is not *)
(* flagged.                                                                *)
LEMMA FiresFromBatch ==
  ASSUME QueueInv, [Next]_vars, NEW t \in Timers, fires'[t] # fires[t]
  PROVE  t \in uncalled \ canceled
<1>1. CASE NextCallback
  BY <1>1 DEF NextCallback, QueueInv, TypeOK
<1>2. CASE ~NextCallback
  <2>1. UNCHANGED fires
    BY <1>2 DEF Next, LoopStep, RunFunctor, addTimerInLoop, cancelInLoop, PollReports,
         HandleReadBegin, CallbackReturns, HandleReadEnd, OwnAdd, OwnCancel, ForeignAdd,
         ForeignCancel, Tick, vars, histVars
  <2> QED BY <2>1
<1> QED BY <1>1, <1>2

(* A timer fires no earlier than its delay after it was added, nor than    *)
(* its interval after it last fired, although After() clamps.              *)
THEOREM NeverEarlyHolds == Spec => NeverEarly
<1>1. QueueInv /\ [Next]_vars =>
        [\A t \in Timers : fires'[t] # fires[t] => now >= notBefore[t]]_vars
  BY FiresFromBatch DEF QueueInv, Expirations
<1> QED BY <1>1, QueueInvariant, PTL DEF Spec, NeverEarly

(* A cancelled timer never fires again: not in the batch it had expired    *)
(* with, not by being put back, and not through a call that comes late.    *)
THEOREM CancelIsFinalHolds == Spec => CancelIsFinal
<1>1. QueueInv /\ [Next]_vars => [\A t \in dead : fires'[t] = fires[t]]_vars
  BY FiresFromBatch DEF QueueInv, DeadIsOut, TypeOK
<1> QED BY <1>1, QueueInvariant, PTL DEF Spec, CancelIsFinal
=============================================================================
