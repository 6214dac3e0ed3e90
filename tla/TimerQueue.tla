----------------------------- MODULE TimerQueue -----------------------------
(***************************************************************************)
(* TimerQueue (src/net/TimerQueue.cpp) on the loop that owns it: timers    *)
(* added and cancelled on the loop's thread, also from inside a timer's    *)
(* callback, and by foreign threads through the loop's functor queue, with *)
(* one timerfd armed for the earliest expiration.                          *)
(*                                                                         *)
(* Time is counted in ticks, the delay and the interval of a timer are     *)
(* constants (what secondsToMicroseconds() returned for them), and ids are *)
(* drawn from Timers.                                                      *)
(***************************************************************************)
EXTENDS Naturals, Sequences, FiniteSets

CONSTANTS
  Timers,
  Delay,       \* delay of each timer, in ticks
  Interval,    \* 0 for a timer that does not repeat
  MaxInt,      \* INT64_MAX
  MaxTime,     \* bound: the clock stops there
  MaxQueue     \* bound on the functors queued at a time

ASSUME DelayAssumption == Delay \in [Timers -> 0..MaxInt]
ASSUME IntervalAssumption == Interval \in [Timers -> 0..MaxInt]
(* The monotonic clock does not come to INT64_MAX microseconds.            *)
ASSUME TimeAssumption == MaxInt \in Nat /\ MaxTime \in 1..(MaxInt - 1)
ASSUME QueueAssumption == MaxQueue \in Nat

VARIABLES
  now,             \* the monotonic clock
  armed,           \* expiration set in the timerfd, 0 when it is disarmed
  timers_,         \* timers waiting in the ordered set
  activeTimers_,   \* ids that can be cancelled
  expiration,      \* Timer::expiration
  canceled,        \* timers whose flag is set
  expired,         \* the local vector of handleRead()
  uncalled,        \* those of them whose callback is still to be run
  pc,              \* "idle", "reported" by the poll, or where handleRead() is
  functors,        \* addTimerInLoop() and cancelInLoop() calls queued
  fresh,           \* ids not given out yet
  notBefore,       \* history: the time before which a timer must not fire
  fires,           \* history: how often each timer fired
  dead             \* history: timers cancelInLoop() ran for, once added

queueVars == <<armed, timers_, activeTimers_, expiration, canceled>>
batchVars == <<expired, uncalled, pc>>
histVars  == <<notBefore, fires, dead>>
vars == <<now, queueVars, batchVars, functors, fresh, histVars>>

Repeating(t) == Interval[t] > 0

(* Mutant: the sum wraps around.                                           *)
AfterWraps(d) == (now + d) % (MaxInt + 1)

(* now + d, clamped to INT64_MAX.                                          *)
After(d) == IF d > MaxInt - now THEN MaxInt ELSE now + d

(* timers_.begin()->first of a set of timers with expirations e.           *)
Earliest(S, e) == CHOOSE x \in {e[t] : t \in S} : \A t \in S : x <= e[t]

Init ==
  /\ now = 1
  /\ armed = 0
  /\ timers_ = {} /\ activeTimers_ = {} /\ canceled = {}
  /\ expiration = [t \in Timers |-> 0]
  /\ expired = {} /\ uncalled = {} /\ pc = "idle"
  /\ functors = <<>>
  /\ fresh = Timers
  /\ notBefore = [t \in Timers |-> 0]
  /\ fires = [t \in Timers |-> 0]
  /\ dead = {}

-----------------------------------------------------------------------------
(* Mutant: the timerfd is armed for the first timer only.                  *)
earliestChangedIfEmpty(t, at) == timers_ = {}

earliestChanged(t, at) == timers_ = {} \/ at < Earliest(timers_, expiration)

addTimerInLoop(t) ==
  LET at == After(Delay[t])
  IN  /\ expiration' = [expiration EXCEPT ![t] = at]
      /\ timers_' = timers_ \cup {t}
      /\ activeTimers_' = activeTimers_ \cup {t}
      /\ armed' = IF earliestChanged(t, at) THEN at ELSE armed
      /\ notBefore' = [notBefore EXCEPT ![t] = now + Delay[t]]
      /\ UNCHANGED <<canceled, fires, dead>>

(* Mutant: only the waiting timers are looked at.                          *)
setCanceledWaiting(t) == canceled' = IF t \in timers_ THEN canceled \cup {t} ELSE canceled

(* timer->canceled = true, for a timer that waits or is about to be called.*)
setCanceled(t) == canceled' = canceled \cup {t}

cancelInLoop(t) ==
  /\ dead' = IF t \in fresh \/ \E i \in DOMAIN functors : functors[i] = <<"add", t>>
             THEN dead ELSE dead \cup {t}
  /\ IF t \notin activeTimers_
     THEN UNCHANGED <<queueVars>>
     ELSE LET rest == timers_ \ {t}
              earliest == t \in timers_ /\ expiration[t] = Earliest(timers_, expiration)
          IN  /\ setCanceled(t)
              /\ timers_' = rest
              /\ activeTimers_' = activeTimers_ \ {t}
              /\ \/ ~earliest /\ UNCHANGED armed
                 \* timers_.begin() is one of those that expire first
                 \/ earliest /\ armed' = IF rest = {} THEN 0 ELSE Earliest(rest, expiration)
                 \/ /\ earliest /\ UNCHANGED armed
                    /\ \E u \in rest : expiration[u] = expiration[t]
              /\ UNCHANGED expiration
  /\ UNCHANGED <<notBefore, fires>>

-----------------------------------------------------------------------------
(* Calls on the loop's thread: from a functor or another channel's handler,*)
(* which may run between the poll and handleRead(), or from a timer's      *)
(* callback.                                                               *)
OwnTurn == pc \in {"idle", "reported", "callback"}

OwnAdd(t) ==
  /\ OwnTurn
  /\ t \in fresh
  /\ fresh' = fresh \ {t}
  /\ addTimerInLoop(t)
  /\ UNCHANGED <<now, batchVars, functors>>

OwnCancel(t) ==
  /\ OwnTurn
  /\ t \notin fresh
  /\ cancelInLoop(t)
  /\ UNCHANGED <<now, batchVars, functors, fresh>>

(* Calls on a foreign thread.                                              *)
ForeignAdd(t) ==
  /\ t \in fresh
  /\ Len(functors) < MaxQueue
  /\ fresh' = fresh \ {t}
  /\ functors' = Append(functors, <<"add", t>>)
  /\ UNCHANGED <<now, queueVars, batchVars, histVars>>

ForeignCancel(t) ==
  /\ t \notin fresh
  /\ Len(functors) < MaxQueue
  /\ functors' = Append(functors, <<"cancel", t>>)
  /\ UNCHANGED <<now, queueVars, batchVars, fresh, histVars>>

RunFunctor ==
  /\ pc = "idle"
  /\ functors # <<>>
  /\ functors' = Tail(functors)
  /\ \/ Head(functors)[1] = "add" /\ addTimerInLoop(Head(functors)[2])
     \/ Head(functors)[1] = "cancel" /\ cancelInLoop(Head(functors)[2])
  /\ UNCHANGED <<now, batchVars, fresh>>

-----------------------------------------------------------------------------
isExpired(t) == expiration[t] <= now

(* The poll reports the timerfd; handleRead() runs later in the dispatch.  *)
PollReports ==
  /\ pc = "idle"
  /\ armed # 0 /\ armed <= now
  /\ pc' = "reported"
  /\ UNCHANGED <<now, queueVars, expired, uncalled, functors, fresh, histVars>>

(* readTimerfd(): an expired timerfd is disarmed by then and no longer     *)
(* readable; one that was set again after the poll answers EAGAIN.         *)
readTimerfd == armed' = IF armed <= now THEN 0 ELSE armed

(* handleRead() up to the callbacks.                                       *)
HandleReadBegin ==
  /\ pc = "reported"
  /\ readTimerfd
  /\ expired' = {t \in timers_ : isExpired(t)}
  /\ uncalled' = expired'
  /\ timers_' = timers_ \ expired'
  /\ pc' = "calling"
  /\ UNCHANGED <<now, activeTimers_, expiration, canceled, functors, fresh, histVars>>

(* The next callback, in the order of expiration; a timer cancelled by an  *)
(* earlier callback of the batch is passed over.                           *)
NextCallback ==
  /\ pc = "calling"
  /\ \E t \in uncalled :
       /\ expiration[t] = Earliest(uncalled, expiration)
       /\ uncalled' = uncalled \ {t}
       /\ IF t \in canceled
          THEN UNCHANGED <<pc, fires, notBefore>>
          ELSE /\ pc' = "callback"
               /\ fires' = [fires EXCEPT ![t] = @ + 1]
               /\ notBefore' = [notBefore EXCEPT ![t] = now + Interval[t]]
  /\ UNCHANGED <<now, queueVars, expired, functors, fresh, dead>>

CallbackReturns ==
  /\ pc = "callback"
  /\ pc' = "calling"
  /\ UNCHANGED <<now, queueVars, expired, uncalled, functors, fresh, histVars>>

(* Mutant: a timer that fired stays active.                                *)
keepsActive == activeTimers_

staysActive ==
  activeTimers_ \ {t \in expired : t \notin canceled /\ ~Repeating(t)}

(* Mutant: the timerfd is not armed again.                                 *)
notRearmed(S, e) == armed

rearmed(S, e) == IF S = {} THEN armed ELSE Earliest(S, e)

(* handleRead() after the callbacks: repeating timers are put back.        *)
HandleReadEnd ==
  LET again == {t \in expired \cap activeTimers_ : t \notin canceled /\ Repeating(t)}
  IN  /\ pc = "calling"
      /\ uncalled = {}
      /\ pc' = "idle"
      /\ expired' = {}
      /\ expiration' = [t \in Timers |->
                          IF t \in again THEN After(Interval[t]) ELSE expiration[t]]
      /\ timers_' = timers_ \cup again
      /\ activeTimers_' = staysActive
      /\ armed' = rearmed(timers_', expiration')
      /\ UNCHANGED <<now, canceled, uncalled, functors, fresh, histVars>>

Tick ==
  /\ now < MaxTime
  /\ now' = now + 1
  /\ UNCHANGED <<queueVars, batchVars, functors, fresh, histVars>>

LoopStep ==
  \/ RunFunctor
  \/ PollReports
  \/ HandleReadBegin
  \/ NextCallback
  \/ CallbackReturns
  \/ HandleReadEnd

Next ==
  \/ LoopStep
  \/ \E t \in Timers : OwnAdd(t) \/ OwnCancel(t) \/ ForeignAdd(t) \/ ForeignCancel(t)
  \/ Tick

Spec == Init /\ [][Next]_vars

(* The clock advances; the loop polls and runs its functors in turn, and   *)
(* handleRead() goes through its batch.                                    *)
Fairness ==
  /\ WF_vars(Tick)
  /\ WF_vars(RunFunctor)
  /\ WF_vars(PollReports)
  /\ WF_vars(HandleReadBegin \/ NextCallback \/ CallbackReturns \/ HandleReadEnd)

FairSpec == Spec /\ Fairness

-----------------------------------------------------------------------------
(* Type correctness of every variable.                                     *)
TypeOK ==
  /\ now \in 1..MaxTime
  /\ armed \in 0..MaxInt
  /\ timers_ \subseteq Timers /\ activeTimers_ \subseteq Timers
  /\ canceled \subseteq Timers
  /\ expiration \in [Timers -> 0..MaxInt]
  /\ expired \subseteq Timers /\ uncalled \subseteq expired
  /\ pc \in {"idle", "reported", "calling", "callback"}
  /\ functors \in Seq({"add", "cancel"} \X Timers)
  /\ fresh \subseteq Timers
  /\ notBefore \in [Timers -> Nat]
  /\ fires \in [Timers -> Nat]
  /\ dead \subseteq Timers

(* timers_ and activeTimers_ hold the same timers, except for those of the *)
(* batch that is being called: no timer is forgotten by one of the two.    *)
SetsAgree ==
  /\ timers_ \subseteq activeTimers_
  /\ activeTimers_ \subseteq timers_ \cup expired
  /\ timers_ \cap canceled = {}

(* Until handleRead() runs, the timerfd is armed, for no later than the    *)
(* earliest timer that waits: no timer can be slept over.                  *)
TimerfdArmed ==
  pc \in {"idle", "reported"} /\ timers_ # {} =>
    armed # 0 /\ \A t \in timers_ : armed <= expiration[t]

(* A timer fires no earlier than its delay after it was added, and a       *)
(* repeating one no earlier than its interval after it last fired.         *)
NeverEarly == [][\A t \in Timers : fires'[t] # fires[t] => now >= notBefore[t]]_vars

(* Once cancelInLoop() ran for a timer that had been added, the timer does *)
(* not fire again, even if it had already expired with the running batch.  *)
CancelIsFinal == [][\A t \in dead : fires'[t] = fires[t]]_vars

(* A timer that waits fires or is cancelled.                               *)
WaitingTimerLeaves ==
  \A t \in Timers :
    (t \in timers_ /\ expiration[t] <= MaxTime /\ ~Repeating(t)) ~> (t \notin activeTimers_)
=============================================================================
