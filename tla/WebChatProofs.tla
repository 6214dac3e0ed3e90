--------------------------- MODULE WebChatProofs ---------------------------
(***************************************************************************)
(* Proofs about WebChat.tla, for any connections, loops, time out and      *)
(* requests: the timers that the tables know of, how long a connection is  *)
(* left alone, and the order in which a connection gets what requests      *)
(* caused.                                                                 *)
(***************************************************************************)
EXTENDS WebChat, SequenceTheorems, TLAPS

-----------------------------------------------------------------------------
(* Concatenation under a name that the provers do not open.                *)
Cat(a, b) == a \o b

LEMMA CatAssociative ==
  ASSUME NEW S, NEW a \in Seq(S), NEW b \in Seq(S), NEW c \in Seq(S)
  PROVE  Cat(Cat(a, b), c) = Cat(a, Cat(b, c))
BY ConcatAssociative DEF Cat

-----------------------------------------------------------------------------
States == {"kConnecting", "kConnected", "kDisconnecting", "kDisconnected"}
TimerSet == [id : 1..5, kind : {"idle", "forceClose"}, left : 0..Timeout]
TimerIds == [idleTimer : 0..5, forceCloseTimer : 0..5]

-----------------------------------------------------------------------------
(* The inductive invariant about the timers.                               *)
TableTypes ==
  /\ state_ \in [Conns -> States]
  /\ connections_ \subseteq Conns
  /\ idleTimers_ \in [connections_ -> TimerIds]
  /\ parsers_ \in [connections_ -> {"ok", "Error"}]
  /\ timers \in [Conns -> SUBSET TimerSet]
  /\ leaving \subseteq Conns /\ closing \subseteq Conns
  /\ quiet \in [Conns -> 0..(2 * Timeout)]

(* The table has the connections that are up, and those whose callbacks    *)
(* are still to come.                                                      *)
Listed(c) ==
  /\ c \in leaving => state_[c] = "kDisconnected"
  /\ c \in connections_ <=> Alive(c) \/ c \in leaving

(* Where the table keeps the timer.                                        *)
Slot(c, kind) ==
  IF kind = "idle" THEN idleTimers_[c].idleTimer ELSE idleTimers_[c].forceCloseTimer

(* A connection has at most one timer of each kind, the one in the table,  *)
(* and as long as it is connected only the idle one.                       *)
OneTimer(c) ==
  /\ \A t \in timers[c] : c \in connections_ /\ t.id = Slot(c, t.kind)
  /\ \A t, u \in timers[c] : t.kind = u.kind => t = u
  /\ state_[c] = "kConnected" => \A t \in timers[c] : t.kind = "idle"

(* What a timer has left and the ticks without a read make a whole time    *)
(* out, or two of them for the forced close.                               *)
Waited(c) ==
  Alive(c) =>
    \A t \in timers[c] :
      /\ t.kind = "idle" => t.left + quiet[c] >= Timeout
      /\ t.kind = "forceClose" => t.left + quiet[c] >= 2 * Timeout

Timed(c) == Listed(c) /\ OneTimer(c) /\ Waited(c)

TimerInv == TableTypes /\ \A c \in Conns : Timed(c)


-----------------------------------------------------------------------------
(* The inductive invariant about the output.                               *)
(* An item is of the kind that its request named, or one of the answers.   *)
Kinds == STRING \cup {"page", "chat", "ok", "400"}
Items == [kind : Kinds, from : Conns, n : Nat]

OutTypes ==
  /\ todo \in [Conns -> Seq(Items)]
  /\ out \in [Conns -> Seq(Items)] /\ queued \in [Conns -> Seq(Items)]
  /\ asked \in Nat

(* What a sequence holds; everything in s comes before everything in t; a  *)
(* sequence is in order; request numbers rise.                             *)
Elems(s) == {s[i] : i \in 1..Len(s)}
Precedes(x, y) == x.from = y.from => Rank(x) < Rank(y)
Before(s, t) == \A x \in Elems(s), y \in Elems(t) : Precedes(x, y)
Ordered(s) == \A i, j \in 1..Len(s) : i < j => Precedes(s[i], s[j])
Rising(s) == \A i, j \in 1..Len(s) : i < j => s[i].n < s[j].n

(* What r got is in order.  What is queued for it comes from other loops,  *)
(* and a 400 is its own.  All of it was caused by requests that were made, *)
(* and earlier than those its sender has yet to answer.                    *)
Down(r) == state_[r] \in {"kDisconnecting", "kDisconnected"}
OutAt(r) ==
  /\ Ordered(out[r]) /\ Ordered(queued[r]) /\ Before(out[r], queued[r])
  /\ \A x \in Elems(queued[r]) : LoopOf[x.from] # LoopOf[r] /\ x.kind # "400"
  /\ \A x \in Elems(out[r]) : x.kind = "400" => x.from = r /\ Down(r)
  /\ \A x \in Elems(out[r]) \cup Elems(queued[r]) :
       x.n <= asked /\ \A y \in Elems(todo[x.from]) : x.n < y.n

(* What c has yet to answer.                                               *)
TodoAt(c) ==
  /\ \A y \in Elems(todo[c]) : y.from = c /\ y.n <= asked
  /\ Rising(todo[c])

OutInv == OutTypes /\ \A c \in Conns : OutAt(c) /\ TodoAt(c)

-----------------------------------------------------------------------------
(* There is a TimerId left: a connection has at most two timers.           *)
LEMMA NewIdExists ==
  ASSUME TimerInv, NEW c \in Conns
  PROVE  NewId(c) \in 1..5
<1>1. PICK a, b : Stored(c) \subseteq {a, b}
  BY DEF Stored
<1>2. \A t \in timers[c] : t.id \in Stored(c)
  <2> SUFFICES ASSUME NEW t \in timers[c] PROVE t.id \in Stored(c)
    OBVIOUS
  <2>1. c \in connections_ /\ t.id = Slot(c, t.kind) /\ DOMAIN idleTimers_ = connections_
    BY DEF TimerInv, Timed, OneTimer, TableTypes
  <2> QED BY <2>1 DEF Stored, Slot
<1>3. PICK i \in 1..5 : i # a /\ i # b
  <2>1. 1 \in 1..5 /\ 2 \in 1..5 /\ 3 \in 1..5
    OBVIOUS
  <2>2. 1 # 2 /\ 1 # 3 /\ 2 # 3
    OBVIOUS
  <2>3. (1 # a /\ 1 # b) \/ (2 # a /\ 2 # b) \/ (3 # a /\ 3 # b)
    BY <2>2, Zenon
  <2> QED BY <2>1, <2>3, Zenon
<1>4. i \notin Stored(c) /\ \A t \in timers[c] : t.id # i
  BY <1>1, <1>2, <1>3
<1> QED BY <1>4 DEF NewId

LEMMA NewTimer ==
  ASSUME TimerInv, NEW c \in Conns, NEW kind \in {"idle", "forceClose"}
  PROVE  /\ Timer(c, kind) \in TimerSet
         /\ Timer(c, kind).id = NewId(c) /\ Timer(c, kind).kind = kind
         /\ Timer(c, kind).left = Timeout
BY NewIdExists, TimeoutAssumption DEF Timer, TimerSet

(* What a step of Next does to the timers.                                 *)
Patient(c) ==
  /\ state_[c] = "kConnected" /\ state_'[c] = "kDisconnecting" /\ c \notin rejected'
       => quiet[c] >= Timeout
  /\ c \in closing' \ closing => quiet[c] >= 2 * Timeout

TimersGood == TimerInv' /\ \A c \in Conns : Patient(c)

(* Nothing happens to d.                                                   *)
Same(d) ==
  /\ state_'[d] = state_[d] /\ timers'[d] = timers[d] /\ quiet'[d] = quiet[d]
  /\ d \in connections_' <=> d \in connections_
  /\ d \in connections_ => idleTimers_'[d] = idleTimers_[d]
  /\ d \in leaving' <=> d \in leaving
  /\ d \in closing' => d \in closing

LEMMA SameIsGood ==
  ASSUME NEW d, Timed(d), Same(d)
  PROVE  Timed(d)' /\ Patient(d)
<1>1. Listed(d)'
  BY DEF Timed, Listed, Same, Alive
<1>2. OneTimer(d)'
  BY DEF Timed, OneTimer, Same, Slot
<1>3. Waited(d)'
  BY DEF Timed, Waited, Same, Alive
<1>4. Patient(d)
  BY DEF Same, Patient
<1> QED BY <1>1, <1>2, <1>3, <1>4 DEF Timed

(* Only c is touched.                                                      *)
LEMMA OnlyOne ==
  ASSUME TimerInv, NEW c \in Conns, TableTypes', Timed(c)', Patient(c),
         \A d \in Conns \ {c} : Same(d)
  PROVE  TimersGood
BY SameIsGood DEF TimerInv, TimersGood

LEMMA TablesUnchanged ==
  ASSUME TimerInv, UNCHANGED <<state_, tableVars, leaving, quiet>>, closing' \subseteq closing
  PROVE  TimersGood
<1>1. TableTypes'
  BY DEF TimerInv, TableTypes, tableVars
<1>2. \A d \in Conns : Same(d)
  BY DEF Same, tableVars
<1> QED BY <1>1, <1>2, SameIsGood DEF TimerInv, TimersGood

-----------------------------------------------------------------------------
(* A connection comes up.                                                  *)
LEMMA UpTimers ==
  ASSUME TimerInv, NEW c \in Conns, onConnectionUp(c)
  PROVE  TimersGood
<1>0. TableTypes /\ Timed(c)
  BY DEF TimerInv
<1>1. PICK t : t = Timer(c, "idle")
  OBVIOUS
<1>2. t \in TimerSet /\ t.id = NewId(c) /\ t.kind = "idle" /\ t.left = Timeout /\ NewId(c) \in 1..5
  BY <1>1, NewTimer, NewIdExists
<1>3. /\ state_[c] = "kConnecting" /\ state_' = [state_ EXCEPT ![c] = "kConnected"]
      /\ connections_' = connections_ \cup {c}
      /\ timers' = [timers EXCEPT ![c] = {t}]
      /\ idleTimers_' = [d \in DOMAIN idleTimers_ \cup {c} |->
                           IF d = c THEN [idleTimer |-> NewId(c), forceCloseTimer |-> 0]
                           ELSE idleTimers_[d]]
      /\ parsers_' = [d \in DOMAIN parsers_ \cup {c} |-> IF d = c THEN "ok" ELSE parsers_[d]]
      /\ quiet' = [quiet EXCEPT ![c] = 0]
      /\ leaving' = leaving /\ closing' = closing
  BY <1>1 DEF onConnectionUp, With
<1>4. /\ state_ \in [Conns -> States] /\ connections_ \subseteq Conns
      /\ idleTimers_ \in [connections_ -> TimerIds]
      /\ parsers_ \in [connections_ -> {"ok", "Error"}]
      /\ timers \in [Conns -> SUBSET TimerSet]
      /\ leaving \subseteq Conns /\ closing \subseteq Conns
      /\ quiet \in [Conns -> 0..(2 * Timeout)]
  BY <1>0 DEF TableTypes
<1>5. [idleTimer |-> NewId(c), forceCloseTimer |-> 0] \in TimerIds
  BY <1>2 DEF TimerIds
<1>6. TableTypes'
  <2>1. state_' \in [Conns -> States] /\ connections_' \subseteq Conns
    BY <1>3, <1>4 DEF States
  <2>2. idleTimers_' \in [connections_' -> TimerIds]
    BY <1>3, <1>4, <1>5
  <2>3. parsers_' \in [connections_' -> {"ok", "Error"}]
    BY <1>3, <1>4
  <2>4. timers' \in [Conns -> SUBSET TimerSet]
    BY <1>2, <1>3, <1>4
  <2>5. quiet' \in [Conns -> 0..(2 * Timeout)]
    <3>1. 0 \in 0..(2 * Timeout)
      BY TimeoutAssumption
    <3> QED BY <1>3, <1>4, <3>1
  <2> QED BY <1>3, <1>4, <2>1, <2>2, <2>3, <2>4, <2>5 DEF TableTypes
<1>7. /\ state_'[c] = "kConnected" /\ timers'[c] = {t} /\ quiet'[c] = 0 /\ c \in connections_'
      /\ idleTimers_'[c].idleTimer = NewId(c) /\ c \notin leaving'
  BY <1>0, <1>3, <1>4 DEF Timed, Listed
<1>8. Timed(c)'
  <2>1. Listed(c)'
    BY <1>7 DEF Listed, Alive
  <2>2. OneTimer(c)'
    BY <1>2, <1>7 DEF OneTimer, Slot
  <2>3. Waited(c)'
    BY <1>2, <1>7, TimeoutAssumption DEF Waited
  <2> QED BY <2>1, <2>2, <2>3 DEF Timed
<1>9. Patient(c)
  BY <1>3, <1>7 DEF Patient
<1>10. \A d \in Conns \ {c} : Same(d)
  BY <1>3, <1>4 DEF Same
<1> QED BY <1>6, <1>8, <1>9, <1>10, OnlyOne

(* The state of c becomes kDisconnected, the callbacks are to come.        *)
LEMMA CloseTimers ==
  ASSUME TimerInv, NEW c \in Conns, Alive(c), handleClose(c), closing' \subseteq closing
  PROVE  TimersGood
<1>0. TableTypes /\ Timed(c)
  BY DEF TimerInv
<1>1. /\ state_' = [state_ EXCEPT ![c] = "kDisconnected"] /\ leaving' = leaving \cup {c}
      /\ UNCHANGED <<connections_, idleTimers_, parsers_, timers, quiet>>
  BY DEF handleClose, tableVars, histVars
<1>2. TableTypes'
  BY <1>0, <1>1 DEF TableTypes, States
<1>3. /\ state_'[c] = "kDisconnected" /\ \A d \in Conns \ {c} : state_'[d] = state_[d]
  BY <1>0, <1>1 DEF TableTypes
<1>4. Timed(c)'
  <2>1. Listed(c)'
    BY <1>0, <1>1, <1>3 DEF Timed, Listed
  <2>2. OneTimer(c)'
    BY <1>0, <1>1, <1>3 DEF Timed, OneTimer, Slot
  <2>3. Waited(c)'
    BY <1>3 DEF Waited, Alive
  <2> QED BY <2>1, <2>2, <2>3 DEF Timed
<1>5. Patient(c)
  BY <1>3 DEF Patient
<1>6. \A d \in Conns \ {c} : Same(d)
  BY <1>1, <1>3 DEF Same
<1> QED BY <1>2, <1>4, <1>5, <1>6, OnlyOne

(* onConnection() of a connection that is down.                            *)
LEMMA DownTimers ==
  ASSUME TimerInv, NEW c \in Conns, onConnectionDown(c)
  PROVE  TimersGood
<1>0. TableTypes /\ Timed(c)
  BY DEF TimerInv
<1>1. /\ c \in leaving /\ leaving' = leaving \ {c} /\ connections_' = connections_ \ {c}
      /\ timers' = [timers EXCEPT ![c] = Canceled(c, timersToCancel(c))]
      /\ idleTimers_' = [d \in DOMAIN idleTimers_ \ {c} |-> idleTimers_[d]]
      /\ parsers_' = [d \in DOMAIN parsers_ \ {c} |-> parsers_[d]]
      /\ quiet' = [quiet EXCEPT ![c] = 0]
      /\ state_' = state_ /\ closing' = closing
  BY DEF onConnectionDown, Without
<1>2. Canceled(c, timersToCancel(c)) = {}
  BY <1>0 DEF Timed, OneTimer, Slot, Canceled, timersToCancel
<1>3. /\ idleTimers_ \in [connections_ -> TimerIds]
      /\ parsers_ \in [connections_ -> {"ok", "Error"}]
      /\ timers \in [Conns -> SUBSET TimerSet]
      /\ quiet \in [Conns -> 0..(2 * Timeout)] /\ 0 \in 0..(2 * Timeout)
  BY <1>0, TimeoutAssumption DEF TableTypes
<1>4. TableTypes'
  <2>1. idleTimers_' \in [connections_' -> TimerIds] /\ parsers_' \in [connections_' -> {"ok", "Error"}]
    BY <1>1, <1>3
  <2>2. timers' \in [Conns -> SUBSET TimerSet] /\ quiet' \in [Conns -> 0..(2 * Timeout)]
    BY <1>1, <1>2, <1>3
  <2> QED BY <1>0, <1>1, <2>1, <2>2 DEF TableTypes
<1>5. timers'[c] = {} /\ state_[c] = "kDisconnected" /\ c \notin connections_' /\ c \notin leaving'
  BY <1>0, <1>1, <1>2, <1>3 DEF Timed, Listed
<1>6. Timed(c)'
  BY <1>1, <1>5 DEF Timed, Listed, OneTimer, Waited, Alive
<1>7. Patient(c)
  BY <1>1, <1>5 DEF Patient
<1>8. \A d \in Conns \ {c} : Same(d)
  BY <1>1, <1>3 DEF Same
<1> QED BY <1>4, <1>6, <1>7, <1>8, OnlyOne
(* A read: the idle timer of a connected connection starts anew.           *)
LEMMA MessageTimers ==
  ASSUME TimerInv, NEW c \in Conns, NEW paths, NEW malformed \in BOOLEAN,
         onMessage(c, paths, malformed)
  PROVE  TimersGood
<1>0. TableTypes /\ Timed(c)
  BY DEF TimerInv
<1>1. /\ state_ \in [Conns -> States] /\ connections_ \subseteq Conns
      /\ idleTimers_ \in [connections_ -> TimerIds]
      /\ parsers_ \in [connections_ -> {"ok", "Error"}]
      /\ timers \in [Conns -> SUBSET TimerSet]
      /\ leaving \subseteq Conns /\ closing \subseteq Conns
      /\ quiet \in [Conns -> 0..(2 * Timeout)] /\ 0 \in 0..(2 * Timeout)
  BY <1>0, TimeoutAssumption DEF TableTypes
<1>2. Alive(c) /\ c \in connections_ /\ c \notin leaving
  BY <1>0 DEF onMessage, Timed, Listed, Alive
<1>3. /\ UNCHANGED <<connections_, leaving, closing>>
      /\ parsers_' \in [connections_ -> {"ok", "Error"}]
      /\ state_' \in [Conns -> States] /\ \A d \in Conns \ {c} : state_'[d] = state_[d]
      /\ \/ state_' = state_
         \/ state_[c] = "kConnected" /\ state_'[c] = "kDisconnecting" /\ c \in rejected'
  <2>1. CASE malformed
    <3>1. parsers_' \in [connections_ -> {"ok", "Error"}]
      BY <1>1, <2>1 DEF onMessage
    <3>2. \/ state_' = state_
          \/ state_[c] = "kConnected" /\ state_' = [state_ EXCEPT ![c] = "kDisconnecting"]
      BY <2>1 DEF onMessage
    <3>3. c \in rejected' /\ UNCHANGED <<connections_, leaving, closing>>
      BY <2>1 DEF onMessage
    <3> QED BY <1>1, <3>1, <3>2, <3>3 DEF States
  <2>2. CASE ~malformed
    BY <1>1, <2>2 DEF onMessage
  <2> QED BY <2>1, <2>2
<1>4. CASE state_[c] # "kConnected"
  <2>1. UNCHANGED <<timers, idleTimers_, quiet>> /\ state_' = state_
    BY <1>3, <1>4 DEF onMessage
  <2>2. TableTypes'
    BY <1>1, <1>3, <2>1 DEF TableTypes
  <2>3. \A d \in Conns : Same(d)
    BY <1>3, <2>1 DEF Same
  <2> QED BY <2>2, <2>3, SameIsGood DEF TimerInv, TimersGood
<1>5. CASE state_[c] = "kConnected"
  <2>1. PICK t : t = Timer(c, "idle")
    OBVIOUS
  <2>2. t \in TimerSet /\ t.id = NewId(c) /\ t.kind = "idle" /\ t.left = Timeout /\ NewId(c) \in 1..5
    BY <2>1, NewTimer, NewIdExists
  <2>3. /\ timers' = [timers EXCEPT ![c] = Canceled(c, {idleTimers_[c].idleTimer}) \cup {t}]
        /\ idleTimers_' = [idleTimers_ EXCEPT ![c].idleTimer = NewId(c)]
        /\ quiet' = [quiet EXCEPT ![c] = 0]
    BY <1>5, <2>1 DEF onMessage, refreshIdleTimer
  <2>4. Canceled(c, {idleTimers_[c].idleTimer}) = {}
    BY <1>0, <1>5 DEF Timed, OneTimer, Slot, Canceled
  <2>5. timers'[c] = {t} /\ quiet'[c] = 0 /\ idleTimers_'[c].idleTimer = NewId(c)
    BY <1>1, <1>2, <2>3, <2>4 DEF TimerIds
  <2>6. TableTypes'
    <3>0. NewId(c) \in 0..5
      BY <2>2
    <3>1. idleTimers_' \in [connections_ -> TimerIds]
      BY <1>1, <2>3, <3>0 DEF TimerIds
    <3>2. timers' \in [Conns -> SUBSET TimerSet] /\ quiet' \in [Conns -> 0..(2 * Timeout)]
      BY <1>1, <2>2, <2>3, <2>4
    <3> QED BY <1>1, <1>3, <3>1, <3>2 DEF TableTypes
  <2>7. state_'[c] \in {"kConnected", "kDisconnecting"}
    BY <1>3, <1>5
  <2>8. Timed(c)'
    <3>1. Listed(c)'
      BY <1>2, <1>3, <2>7 DEF Listed, Alive
    <3>2. OneTimer(c)'
      BY <1>2, <1>3, <2>2, <2>5 DEF OneTimer, Slot
    <3>3. Waited(c)'
      BY <2>2, <2>5, TimeoutAssumption DEF Waited
    <3> QED BY <3>1, <3>2, <3>3 DEF Timed
  <2>9. Patient(c)
    BY <1>3, <1>5 DEF Patient
  <2>10. \A d \in Conns \ {c} : Same(d)
    BY <1>1, <1>3, <2>3 DEF Same
  <2> QED BY <2>6, <2>8, <2>9, <2>10, OnlyOne
<1> QED BY <1>4, <1>5

(* Time passes.                                                            *)
LEMMA TickTimers == TimerInv /\ Tick => TimersGood
<1> SUFFICES ASSUME TimerInv, Tick PROVE TimersGood
  OBVIOUS
<1> DEFINE Older(t) == [t EXCEPT !.left = IF @ = 0 THEN 0 ELSE @ - 1]
<1>0. TableTypes /\ Timeout \in Nat
  BY TimeoutAssumption DEF TimerInv
<1>1. /\ timers' = [c \in Conns |-> {Older(t) : t \in timers[c]}]
      /\ quiet' = [c \in Conns |-> IF ~Alive(c) \/ quiet[c] = 2 * Timeout
                                     THEN quiet[c] ELSE quiet[c] + 1]
      /\ UNCHANGED <<state_, connections_, idleTimers_, parsers_, leaving, closing>>
  BY DEF Tick
<1>2. \A t \in TimerSet : /\ Older(t) \in TimerSet /\ Older(t).id = t.id /\ Older(t).kind = t.kind
                          /\ Older(t).left + 1 >= t.left
  BY <1>0 DEF TimerSet
<1>3. /\ timers \in [Conns -> SUBSET TimerSet] /\ quiet \in [Conns -> 0..(2 * Timeout)]
  BY <1>0 DEF TableTypes
<1> HIDE DEF Older
<1>4. ASSUME NEW c \in Conns
      PROVE  /\ quiet'[c] \in 0..(2 * Timeout)
             /\ Alive(c) => quiet'[c] = quiet[c] + 1 \/ quiet'[c] = 2 * Timeout
  BY <1>0, <1>1, <1>3
<1>5. TableTypes'
  <2>1. timers' \in [Conns -> SUBSET TimerSet]
    BY <1>1, <1>2, <1>3
  <2>2. quiet' \in [Conns -> 0..(2 * Timeout)]
    BY <1>1, <1>4
  <2> QED BY <1>0, <1>1, <2>1, <2>2 DEF TableTypes
<1>6. ASSUME NEW c \in Conns PROVE Timed(c)' /\ Patient(c)
  <2>0. Timed(c)
    BY DEF TimerInv
  <2>1. timers'[c] = {Older(t) : t \in timers[c]} /\ timers[c] \subseteq TimerSet
    BY <1>1, <1>3
  <2>2. Listed(c)'
    BY <1>1, <2>0 DEF Timed, Listed, Alive
  <2>3. OneTimer(c)'
    BY <1>1, <1>2, <2>0, <2>1 DEF Timed, OneTimer, Slot
  <2>4. Waited(c)'
    <3> SUFFICES ASSUME Alive(c), NEW u \in timers'[c]
                 PROVE  /\ u.kind = "idle" => u.left + quiet'[c] >= Timeout
                        /\ u.kind = "forceClose" => u.left + quiet'[c] >= 2 * Timeout
      BY <1>1 DEF Waited, Alive
    <3>1. PICK t \in timers[c] : u = Older(t)
      BY <2>1
    <3>2. /\ t \in TimerSet /\ u \in TimerSet /\ u.kind = t.kind /\ u.left + 1 >= t.left
      BY <1>2, <2>1, <3>1
    <3>3. u.left \in Nat /\ t.left \in Nat /\ quiet[c] \in Nat
      BY <1>0, <1>3, <3>2 DEF TimerSet
    <3>4. /\ t.kind = "idle" => t.left + quiet[c] >= Timeout
          /\ t.kind = "forceClose" => t.left + quiet[c] >= 2 * Timeout
      BY <2>0 DEF Timed, Waited
    <3>5. quiet'[c] = quiet[c] + 1 \/ quiet'[c] = 2 * Timeout
      BY <1>4
    <3> QED BY <1>0, <3>2, <3>3, <3>4, <3>5
  <2>5. Patient(c)
    BY <1>1 DEF Patient
  <2> QED BY <2>2, <2>3, <2>4, <2>5 DEF Timed
<1> QED BY <1>5, <1>6 DEF TimersGood, TimerInv

(* The idle timer fires.                                                   *)
LEMMA IdleTimers ==
  ASSUME TimerInv, NEW c \in Conns, handleIdleTimeout(c)
  PROVE  TimersGood
<1>0. TableTypes /\ Timed(c)
  BY DEF TimerInv
<1>1. PICK t \in Due(c, "idle") :
        /\ IF state_[c] = "kConnected"
           THEN /\ state_' = [state_ EXCEPT ![c] = "kDisconnecting"]
                /\ timers' = [timers EXCEPT ![c] = (@ \ {t}) \cup {Timer(c, "forceClose")}]
                /\ idleTimers_' = [idleTimers_ EXCEPT
                     ![c] = [idleTimer |-> 0, forceCloseTimer |-> NewId(c)]]
           ELSE /\ timers' = [timers EXCEPT ![c] = @ \ {t}]
                /\ UNCHANGED <<state_, idleTimers_>>
        /\ UNCHANGED <<connections_, parsers_, leaving, closing, quiet>>
  BY DEF handleIdleTimeout, histVars
<1>2. t \in timers[c] /\ t.kind = "idle" /\ t.left = 0
  BY DEF Due
<1>3. /\ state_ \in [Conns -> States] /\ connections_ \subseteq Conns
      /\ idleTimers_ \in [connections_ -> TimerIds]
      /\ timers \in [Conns -> SUBSET TimerSet] /\ quiet \in [Conns -> 0..(2 * Timeout)]
  BY <1>0 DEF TableTypes
<1>4. c \in connections_
  BY <1>0, <1>2 DEF Timed, OneTimer
<1>5. CASE state_[c] = "kConnected"
  <2>1. PICK u : u = Timer(c, "forceClose")
    OBVIOUS
  <2>2. /\ u \in TimerSet /\ u.id = NewId(c) /\ u.kind = "forceClose" /\ u.left = Timeout
        /\ NewId(c) \in 1..5
    BY <2>1, NewTimer, NewIdExists
  <2>3. timers[c] = {t}
    BY <1>0, <1>2, <1>5 DEF Timed, OneTimer
  <2>4. /\ state_'[c] = "kDisconnecting" /\ timers'[c] = {u}
        /\ idleTimers_'[c] = [idleTimer |-> 0, forceCloseTimer |-> NewId(c)]
    BY <1>1, <1>3, <1>4, <1>5, <2>1, <2>3
  <2>5. TableTypes'
    <3>1. state_' \in [Conns -> States] /\ timers' \in [Conns -> SUBSET TimerSet]
      BY <1>1, <1>3, <1>5, <2>1, <2>2 DEF States
    <3>2. idleTimers_' \in [connections_ -> TimerIds]
      BY <1>1, <1>3, <1>5, <2>2 DEF TimerIds
    <3> QED BY <1>0, <1>1, <3>1, <3>2 DEF TableTypes
  <2>6. quiet[c] >= Timeout
    BY <1>0, <1>2, <1>3, <1>5, TimeoutAssumption DEF Timed, Waited, Alive
  <2>7. Timed(c)'
    <3>1. Listed(c)'
      BY <1>0, <1>1, <1>5, <2>4 DEF Timed, Listed, Alive
    <3>2. OneTimer(c)'
      BY <1>1, <1>4, <2>2, <2>4 DEF OneTimer, Slot
    <3>3. Waited(c)'
      <4>1. Timeout + quiet[c] >= 2 * Timeout
        BY <1>3, <2>6, TimeoutAssumption
      <4> QED BY <1>1, <2>2, <2>4, <4>1 DEF Waited
    <3> QED BY <3>1, <3>2, <3>3 DEF Timed
  <2>8. Patient(c)
    BY <1>1, <2>6 DEF Patient
  <2>9. \A d \in Conns \ {c} : Same(d)
    BY <1>1, <1>3, <1>5 DEF Same
  <2> QED BY <2>5, <2>7, <2>8, <2>9, OnlyOne
<1>6. CASE state_[c] # "kConnected"
  <2>1. timers'[c] = timers[c] \ {t} /\ timers' \in [Conns -> SUBSET TimerSet]
    BY <1>1, <1>3, <1>6
  <2>2. TableTypes'
    BY <1>0, <1>1, <1>6, <2>1 DEF TableTypes
  <2>3. Listed(c)'
    BY <1>0, <1>1, <1>6 DEF Timed, Listed, Alive
  <2>4. OneTimer(c)'
    BY <1>0, <1>1, <1>6, <2>1 DEF Timed, OneTimer, Slot
  <2>5. Waited(c)'
    BY <1>0, <1>1, <1>6, <2>1 DEF Timed, Waited, Alive
  <2>6. Patient(c)
    BY <1>1, <1>6 DEF Patient
  <2>7. \A d \in Conns \ {c} : Same(d)
    BY <1>1, <1>3, <1>6 DEF Same
  <2> QED BY <2>2, <2>3, <2>4, <2>5, <2>6, <2>7, OnlyOne DEF Timed
<1> QED BY <1>5, <1>6
(* The timer of the forced close fires.                                    *)
LEMMA ForceCloseTimers ==
  ASSUME TimerInv, NEW c \in Conns, handleForceCloseTimeout(c)
  PROVE  TimersGood
<1>0. TableTypes /\ Timed(c)
  BY DEF TimerInv
<1>1. PICK t \in Due(c, "forceClose") :
        /\ Free(c)
        /\ timers' = [timers EXCEPT ![c] = @ \ {t}]
        /\ IF c \in DOMAIN idleTimers_
           THEN /\ idleTimers_' = [idleTimers_ EXCEPT ![c].forceCloseTimer = 0]
                /\ IF Alive(c)
                   THEN /\ state_' = [state_ EXCEPT ![c] = "kDisconnecting"]
                        /\ closing' = closing \cup {c}
                   ELSE UNCHANGED <<state_, closing>>
           ELSE UNCHANGED <<idleTimers_, state_, closing>>
        /\ UNCHANGED <<connections_, parsers_, leaving, quiet>>
  BY DEF handleForceCloseTimeout, histVars
<1>2. t \in timers[c] /\ t.kind = "forceClose" /\ t.left = 0
  BY DEF Due
<1>3. /\ state_ \in [Conns -> States] /\ connections_ \subseteq Conns
      /\ idleTimers_ \in [connections_ -> TimerIds]
      /\ timers \in [Conns -> SUBSET TimerSet] /\ quiet \in [Conns -> 0..(2 * Timeout)]
  BY <1>0 DEF TableTypes
<1>4. c \in connections_ /\ c \notin leaving /\ Alive(c) /\ state_[c] # "kConnected"
  BY <1>0, <1>1, <1>2 DEF Timed, OneTimer, Listed, Free
<1>5. /\ timers' = [timers EXCEPT ![c] = @ \ {t}]
      /\ idleTimers_' = [idleTimers_ EXCEPT ![c].forceCloseTimer = 0]
      /\ state_' = [state_ EXCEPT ![c] = "kDisconnecting"] /\ closing' = closing \cup {c}
  BY <1>1, <1>3, <1>4
<1>6. /\ timers'[c] = timers[c] \ {t} /\ state_'[c] = "kDisconnecting"
      /\ idleTimers_'[c].idleTimer = idleTimers_[c].idleTimer
  BY <1>3, <1>4, <1>5 DEF TimerIds
<1>7. TableTypes'
  <2>1. state_' \in [Conns -> States] /\ timers' \in [Conns -> SUBSET TimerSet]
    BY <1>3, <1>5 DEF States
  <2>2. idleTimers_' \in [connections_ -> TimerIds]
    <3>1. PICK z \in 0..5 : z = 0
      OBVIOUS
    <3>2. idleTimers_' = [idleTimers_ EXCEPT ![c].forceCloseTimer = z]
      BY <1>5, <3>1
    <3> QED BY <1>3, <3>2 DEF TimerIds
  <2> QED BY <1>0, <1>1, <1>5, <2>1, <2>2 DEF TableTypes
<1>8. \A u \in timers'[c] : u \in timers[c] /\ u.kind = "idle"
  <2> SUFFICES ASSUME NEW u \in timers'[c] PROVE u \in timers[c] /\ u.kind = "idle"
    OBVIOUS
  <2>1. u \in timers[c] /\ u # t /\ u \in TimerSet
    BY <1>3, <1>6
  <2>2. u.kind # t.kind
    BY <1>0, <1>2, <2>1 DEF Timed, OneTimer
  <2> QED BY <1>2, <2>1, <2>2 DEF TimerSet
<1>9. Timed(c)'
  <2>1. Listed(c)'
    BY <1>1, <1>4, <1>6 DEF Listed, Alive
  <2>2. OneTimer(c)'
    BY <1>0, <1>1, <1>4, <1>6, <1>8 DEF Timed, OneTimer, Slot
  <2>3. Waited(c)'
    BY <1>0, <1>1, <1>4, <1>8 DEF Timed, Waited
  <2> QED BY <2>1, <2>2, <2>3 DEF Timed
<1>10. Patient(c)
  <2>1. quiet[c] >= 2 * Timeout
    BY <1>0, <1>2, <1>3, <1>4, TimeoutAssumption DEF Timed, Waited
  <2> QED BY <1>4, <2>1 DEF Patient
<1>11. \A d \in Conns \ {c} : Same(d)
  BY <1>1, <1>3, <1>5 DEF Same
<1> QED BY <1>7, <1>9, <1>10, <1>11, OnlyOne

-----------------------------------------------------------------------------
LEMMA InitTimers == Init => TimerInv
<1> SUFFICES ASSUME Init PROVE TimerInv
  OBVIOUS
<1>1. /\ state_ = [c \in Conns |-> "kConnecting"] /\ connections_ = {}
      /\ idleTimers_ = <<>> /\ parsers_ = <<>> /\ timers = [c \in Conns |-> {}]
      /\ leaving = {} /\ closing = {} /\ quiet = [c \in Conns |-> 0]
  BY DEF Init
<1>2. TableTypes
  <2>1. <<>> \in [{} -> TimerIds] /\ <<>> \in [{} -> {"ok", "Error"}]
    <3>1. DOMAIN <<>> = 1..0 /\ 1..0 = {}
      OBVIOUS
    <3>2. <<>> \in [1..0 -> TimerIds] /\ <<>> \in [1..0 -> {"ok", "Error"}]
      BY <3>1
    <3> QED BY <3>1, <3>2
  <2>2. 0 \in 0..(2 * Timeout)
    BY TimeoutAssumption
  <2> QED BY <1>1, <2>1, <2>2 DEF TableTypes, States
<1>3. \A c \in Conns : Timed(c)
  BY <1>1 DEF Timed, Listed, OneTimer, Waited, Alive
<1> QED BY <1>2, <1>3 DEF TimerInv

LEMMA NextTimers == TimerInv /\ [Next]_vars => TimersGood
<1> SUFFICES ASSUME TimerInv, [Next]_vars PROVE TimersGood
  OBVIOUS
<1>1. CASE Tick
  BY <1>1, TickTimers
<1>2. ASSUME NEW c \in Conns,
             onConnectionUp(c) \/ PeerCloses(c) \/ onConnectionDown(c) \/ forceCloseInLoop(c)
      PROVE  TimersGood
  <2>1. CASE PeerCloses(c)
    BY <2>1, CloseTimers DEF PeerCloses
  <2>2. CASE forceCloseInLoop(c)
    <3>1. CASE Alive(c)
      BY <2>2, <3>1, CloseTimers DEF forceCloseInLoop
    <3>2. CASE ~Alive(c)
      BY <2>2, <3>2, TablesUnchanged DEF forceCloseInLoop, histVars
    <3> QED BY <3>1, <3>2
  <2> QED BY <1>2, <2>1, <2>2, UpTimers, DownTimers
<1>3. ASSUME NEW c \in Conns,
             AnswerPage(c) \/ AnswerChat(c) \/ IgnoreRequest(c) \/ sendInLoop(c)
      PROVE  TimersGood
  BY <1>3, TablesUnchanged DEF AnswerPage, AnswerChat, IgnoreRequest, sendInLoop, histVars
<1>4. ASSUME NEW c \in Conns, handleIdleTimeout(c) \/ handleForceCloseTimeout(c)
      PROVE  TimersGood
  BY <1>4, IdleTimers, ForceCloseTimers
<1>5. ASSUME NEW c \in Conns, NEW paths \in Reads, NEW malformed \in BOOLEAN,
             onMessage(c, paths, malformed)
      PROVE  TimersGood
  BY <1>5, MessageTimers
<1>6. CASE UNCHANGED vars
  BY <1>6, TablesUnchanged DEF vars, histVars
<1> QED BY <1>1, <1>2, <1>3, <1>4, <1>5, <1>6 DEF Next, LoopStep

LEMMA AlwaysTimerInv == Spec => []TimerInv
<1>1. TimerInv /\ [Next]_vars => TimerInv'
  BY NextTimers DEF TimersGood
<1> QED BY <1>1, InitTimers, PTL DEF Spec

(* Every pending timer of a connection is in idleTimers_, and the three    *)
(* tables hold the same connections: onConnection() of a connection that   *)
(* is down cancels whatever handleIdleTimeout() and refreshIdleTimer() had *)
(* started, and the loops hold no timer of a connection that has left.     *)
THEOREM TimersAreKnownHolds == Spec => []TimersAreKnown
<1>1. TimerInv => TimersAreKnown
  <2> SUFFICES ASSUME TimerInv, NEW c \in Conns
               PROVE  /\ \A t \in timers[c] : t.id \in Stored(c)
                      /\ c \in connections_ <=> c \in DOMAIN idleTimers_
                      /\ c \in connections_ <=> c \in DOMAIN parsers_
                      /\ c \in connections_ <=> Alive(c) \/ c \in leaving
    BY DEF TimersAreKnown
  <2>1. DOMAIN idleTimers_ = connections_ /\ DOMAIN parsers_ = connections_
    BY DEF TimerInv, TableTypes
  <2>2. \A t \in timers[c] : t.id \in Stored(c)
    BY <2>1 DEF TimerInv, Timed, OneTimer, Slot, Stored
  <2>3. c \in connections_ <=> Alive(c) \/ c \in leaving
    BY DEF TimerInv, Timed, Listed
  <2> QED BY <2>1, <2>2, <2>3
<1> QED BY <1>1, AlwaysTimerInv, PTL

(* handleIdleTimeout() shuts a connection down only after a whole time out *)
(* without a read, and handleForceCloseTimeout() closes it only after      *)
(* another one, however the reads, the timers and the cancels interleave.  *)
THEOREM PatienceHolds == Spec => Patience
<1>1. TimerInv /\ [Next]_vars => [\A c \in Conns : Patient(c)]_vars
  BY NextTimers DEF TimersGood
<1> QED BY <1>1, AlwaysTimerInv, PTL DEF Spec, Patience, Patient
-----------------------------------------------------------------------------
(* Sequences of items.                                                     *)
LEMMA CatElems ==
  ASSUME NEW s \in Seq(Items), NEW t \in Seq(Items)
  PROVE  /\ Cat(s, t) \in Seq(Items)
         /\ Elems(Cat(s, t)) = Elems(s) \cup Elems(t)
         /\ Ordered(s) /\ Ordered(t) /\ Before(s, t) => Ordered(Cat(s, t))
<1>0. PICK r : r = s \o t
  OBVIOUS
<1>1. /\ r \in Seq(Items) /\ Len(s) \in Nat /\ Len(t) \in Nat /\ Len(r) = Len(s) + Len(t)
      /\ \A i \in 1..(Len(s) + Len(t)) : r[i] = IF i <= Len(s) THEN s[i] ELSE t[i - Len(s)]
  BY <1>0, ConcatProperties, LenProperties
<1>2. /\ \A i \in 1..Len(r) : \/ i \in 1..Len(s) /\ r[i] = s[i]
                              \/ i > Len(s) /\ i - Len(s) \in 1..Len(t) /\ r[i] = t[i - Len(s)]
  BY <1>1
<1>3. Elems(r) = Elems(s) \cup Elems(t)
  <2>1. Elems(r) \subseteq Elems(s) \cup Elems(t)
    BY <1>2 DEF Elems
  <2>2. ASSUME NEW i \in 1..Len(s) PROVE s[i] \in Elems(r)
    <3>1. i \in 1..Len(r) /\ r[i] = s[i]
      BY <1>1
    <3> QED BY <3>1 DEF Elems
  <2>3. ASSUME NEW i \in 1..Len(t) PROVE t[i] \in Elems(r)
    <3>1. PICK k : k = i + Len(s)
      OBVIOUS
    <3>2. k \in 1..Len(r) /\ ~(k <= Len(s)) /\ k - Len(s) = i
      BY <1>1, <3>1
    <3>3. r[k] = t[i]
      BY <1>1, <3>2
    <3> QED BY <3>2, <3>3 DEF Elems
  <2> QED BY <2>1, <2>2, <2>3 DEF Elems
<1>4. ASSUME Ordered(s), Ordered(t), Before(s, t) PROVE Ordered(r)
  <2> SUFFICES ASSUME NEW i \in 1..Len(r), NEW j \in 1..Len(r), i < j PROVE Precedes(r[i], r[j])
    BY DEF Ordered
  <2>1. CASE j \in 1..Len(s)
    <3>1. i \in 1..Len(s) /\ r[i] = s[i] /\ r[j] = s[j]
      BY <1>1, <2>1
    <3> QED BY <1>4, <2>1, <3>1 DEF Ordered
  <2>2. CASE j \notin 1..Len(s) /\ i \in 1..Len(s)
    <3>1. r[i] = s[i] /\ j - Len(s) \in 1..Len(t) /\ r[j] = t[j - Len(s)]
      BY <1>1, <1>2, <2>2
    <3>2. r[i] \in Elems(s) /\ r[j] \in Elems(t)
      BY <2>2, <3>1 DEF Elems
    <3> QED BY <1>4, <3>2 DEF Before
  <2>3. CASE i \notin 1..Len(s)
    <3>1. /\ i - Len(s) \in 1..Len(t) /\ r[i] = t[i - Len(s)]
          /\ j - Len(s) \in 1..Len(t) /\ r[j] = t[j - Len(s)]
          /\ i - Len(s) < j - Len(s)
      BY <1>1, <1>2, <2>3
    <3> QED BY <1>4, <3>1 DEF Ordered
  <2> QED BY <2>1, <2>2, <2>3
<1> QED BY <1>0, <1>1, <1>3, <1>4 DEF Cat

LEMMA OneElem ==
  ASSUME NEW x \in Items
  PROVE  /\ <<x>> \in Seq(Items) /\ Elems(<<x>>) = {x} /\ Ordered(<<x>>)
<1>1. <<x>> \in Seq(Items) /\ Len(<<x>>) = 1 /\ <<x>>[1] = x
  OBVIOUS
<1> QED BY <1>1 DEF Elems, Ordered

LEMMA NoElem ==
  /\ <<>> \in Seq(Items) /\ Elems(<<>>) = {} /\ Ordered(<<>>) /\ Rising(<<>>)
<1>1. <<>> \in Seq(Items) /\ Len(<<>>) = 0
  OBVIOUS
<1> QED BY <1>1 DEF Elems, Ordered, Rising

LEMMA AppendCat ==
  ASSUME NEW s \in Seq(Items), NEW x \in Items
  PROVE  Append(s, x) = Cat(s, <<x>>)
BY AppendIsConcat DEF Cat

LEMMA TailElems ==
  ASSUME NEW s \in Seq(Items), s # <<>>
  PROVE  /\ Tail(s) \in Seq(Items) /\ Head(s) \in Items
         /\ Elems(Tail(s)) \subseteq Elems(s) /\ Head(s) \in Elems(s)
         /\ Ordered(s) => Ordered(Tail(s)) /\ \A y \in Elems(Tail(s)) : Precedes(Head(s), y)
         /\ Rising(s) => Rising(Tail(s)) /\ \A y \in Elems(Tail(s)) : Head(s).n < y.n
<1>0. PICK h, r : h = Head(s) /\ r = Tail(s)
  OBVIOUS
<1>1. /\ r \in Seq(Items) /\ h \in Items /\ Len(s) \in Nat \ {0} /\ Len(r) = Len(s) - 1
      /\ \A i \in 1..(Len(s) - 1) : r[i] = s[i + 1]
      /\ h = s[1]
  BY <1>0
<1>2. \A i \in 1..Len(r) : i + 1 \in 1..Len(s) /\ 1 < i + 1 /\ r[i] = s[i + 1]
  BY <1>1
<1>3. 1 \in 1..Len(s) /\ \A i, j \in 1..Len(r) : i < j => i + 1 < j + 1
  BY <1>1
<1>4. Elems(r) \subseteq Elems(s) /\ h \in Elems(s)
  BY <1>1, <1>2, <1>3 DEF Elems
<1>5. Ordered(s) => Ordered(r) /\ \A y \in Elems(r) : Precedes(h, y)
  BY <1>1, <1>2, <1>3 DEF Elems, Ordered
<1>6. Rising(s) => Rising(r) /\ \A y \in Elems(r) : h.n < y.n
  BY <1>1, <1>2, <1>3 DEF Elems, Rising
<1> QED BY <1>0, <1>1, <1>4, <1>5, <1>6

LEMMA ElemsType ==
  ASSUME NEW s \in Seq(Items)
  PROVE  Elems(s) \subseteq Items
BY ElementOfSeq DEF Elems

(* A later request has the higher rank, whatever it causes.                *)
LEMMA RankBounds ==
  ASSUME NEW x \in Items
  PROVE  /\ Rank(x) \in Nat /\ 3 * x.n <= Rank(x) /\ Rank(x) <= 3 * x.n + 2
         /\ x.kind # "400" => Rank(x) <= 3 * x.n + 1
         /\ x.kind = "chat" => Rank(x) = 3 * x.n
         /\ x.kind = "400" => Rank(x) = 3 * x.n + 2
         /\ x.kind \notin {"chat", "400"} => Rank(x) = 3 * x.n + 1
<1>1. x.n \in Nat
  BY DEF Items
<1> QED BY <1>1 DEF Rank

LEMMA LaterPrecedes ==
  ASSUME NEW x \in Items, NEW y \in Items, x.n < y.n
  PROVE  Precedes(x, y)
<1>1. x.n \in Nat /\ y.n \in Nat
  BY DEF Items
<1>2. Rank(x) \in Nat /\ Rank(y) \in Nat /\ Rank(x) <= 3 * x.n + 2 /\ 3 * y.n <= Rank(y)
  BY RankBounds
<1> QED BY <1>1, <1>2 DEF Precedes

-----------------------------------------------------------------------------
(* Requests are only added with new numbers, or answered.                  *)
Onward ==
  /\ OutTypes' /\ asked <= asked'
  /\ \A d \in Conns : \A y \in Elems(todo'[d]) : y \in Elems(todo[d]) \/ y.n > asked

LEMMA SentStays ==
  ASSUME OutTypes, Onward, NEW r \in Conns, OutAt(r)
  PROVE  \A x \in Elems(out[r]) \cup Elems(queued[r]) :
           /\ x \in Items /\ x.n <= asked'
           /\ \A y \in Elems(todo'[x.from]) : x.n < y.n
<1> SUFFICES ASSUME NEW x \in Elems(out[r]) \cup Elems(queued[r])
             PROVE  /\ x \in Items /\ x.n <= asked'
                    /\ \A y \in Elems(todo'[x.from]) : x.n < y.n
  OBVIOUS
<1>1. x \in Items
  <2>1. out[r] \in Seq(Items) /\ queued[r] \in Seq(Items)
    BY DEF OutTypes
  <2> QED BY <2>1, ElemsType
<1>2. x.from \in Conns /\ x.n \in Nat /\ asked \in Nat /\ asked' \in Nat /\ asked <= asked'
  BY <1>1 DEF Items, OutTypes, Onward
<1>3. x.n <= asked /\ \A y \in Elems(todo[x.from]) : x.n < y.n
  BY DEF OutAt
<1>4. ASSUME NEW y \in Elems(todo'[x.from]) PROVE x.n < y.n
  <2>1. y \in Items
    <3>1. todo'[x.from] \in Seq(Items)
      BY <1>2 DEF Onward, OutTypes
    <3> QED BY <3>1, ElemsType
  <2>2. y.n \in Nat
    BY <2>1 DEF Items
  <2>3. y \in Elems(todo[x.from]) \/ y.n > asked
    BY <1>2 DEF Onward
  <2> QED BY <1>2, <1>3, <2>2, <2>3
<1>5. x.n <= asked'
  BY <1>2, <1>3
<1> QED BY <1>1, <1>4, <1>5

LEMMA OutStays ==
  ASSUME OutTypes, Onward, NEW r \in Conns, OutAt(r), Down(r) => Down(r)',
         out'[r] = out[r] \/ out'[r] = <<>>, queued'[r] = queued[r]
  PROVE  OutAt(r)'
<1>1. \A x \in Elems(out'[r]) : x \in Elems(out[r])
  BY NoElem
<1>2. Ordered(out'[r]) /\ Before(out'[r], queued'[r])
  BY <1>1, NoElem DEF OutAt, Before
<1>3. \A x \in Elems(out'[r]) \cup Elems(queued'[r]) :
         x.n <= asked' /\ \A y \in Elems(todo'[x.from]) : x.n < y.n
  BY <1>1, SentStays
<1> QED BY <1>1, <1>2, <1>3 DEF OutAt

(* News for r, which c caused and which c sends itself.                    *)
News(c, r, x) ==
  /\ x \in Seq(Items) /\ Ordered(x)
  /\ \A e \in Elems(x) :
       /\ e.from = c /\ (e.kind = "400" => c = r /\ Down(r)')
       /\ e.n <= asked' /\ \A y \in Elems(todo'[c]) : e.n < y.n

LEMMA OutGrows ==
  ASSUME OutTypes, Onward, NEW r \in Conns, NEW c \in Conns, OutAt(r), Down(r) => Down(r)',
         NEW x, News(c, r, x), Before(out[r], x), LoopOf[c] = LoopOf[r],
         out'[r] = Cat(out[r], x), queued'[r] = queued[r]
  PROVE  OutAt(r)'
<1>1. out[r] \in Seq(Items) /\ x \in Seq(Items) /\ Ordered(x)
  BY DEF OutTypes, News
<1>2. Elems(out'[r]) = Elems(out[r]) \cup Elems(x) /\ Ordered(out'[r])
  BY <1>1, CatElems DEF OutAt
<1>3. Before(x, queued[r])
  BY DEF Before, Precedes, News, OutAt
<1>4. Before(out'[r], queued'[r])
  BY <1>2, <1>3 DEF Before, OutAt
<1>5. \A e \in Elems(out'[r]) : e.kind = "400" => e.from = r /\ Down(r)'
  BY <1>2 DEF News, OutAt
<1>6. \A e \in Elems(out'[r]) \cup Elems(queued'[r]) :
         e.n <= asked' /\ \A y \in Elems(todo'[e.from]) : e.n < y.n
  BY <1>2, SentStays DEF News
<1> QED BY <1>2, <1>4, <1>5, <1>6 DEF OutAt

(* News for r, which c has queued on the loop of r.                        *)
LEMMA QueueTakes ==
  ASSUME OutTypes, Onward, NEW r \in Conns, NEW c \in Conns, OutAt(r), Down(r) => Down(r)',
         NEW x, News(c, r, x), Before(out[r], x), Before(queued[r], x), LoopOf[c] # LoopOf[r],
         \A e \in Elems(x) : e.kind # "400",
         queued'[r] = Cat(queued[r], x), out'[r] = out[r]
  PROVE  OutAt(r)'
<1>1. queued[r] \in Seq(Items) /\ x \in Seq(Items) /\ Ordered(x)
  BY DEF OutTypes, News
<1>2. Elems(queued'[r]) = Elems(queued[r]) \cup Elems(x) /\ Ordered(queued'[r])
  BY <1>1, CatElems DEF OutAt
<1>3. Before(out'[r], queued'[r])
  BY <1>2 DEF Before, OutAt
<1>4. \A e \in Elems(queued'[r]) : LoopOf[e.from] # LoopOf[r] /\ e.kind # "400"
  BY <1>2 DEF News, OutAt
<1>5. \A e \in Elems(out'[r]) \cup Elems(queued'[r]) :
         e.n <= asked' /\ \A y \in Elems(todo'[e.from]) : e.n < y.n
  BY <1>2, SentStays DEF News
<1> QED BY <1>2, <1>3, <1>4, <1>5 DEF OutAt

(* The requests of d are left, or the first one is answered.               *)
LEMMA TodoStays ==
  ASSUME OutTypes, NEW d \in Conns, TodoAt(d), asked' \in Nat, asked <= asked',
         todo'[d] = todo[d] \/ (todo[d] # <<>> /\ todo'[d] = Tail(todo[d]))
  PROVE  TodoAt(d)' /\ Elems(todo'[d]) \subseteq Elems(todo[d])
<1>1. todo[d] \in Seq(Items)
  BY DEF OutTypes
<1>2. Elems(todo'[d]) \subseteq Elems(todo[d]) /\ Rising(todo'[d])
  BY <1>1, TailElems DEF TodoAt
<1>3. \A y \in Elems(todo[d]) : y.n \in Nat /\ y.n <= asked'
  <2> SUFFICES ASSUME NEW y \in Elems(todo[d]) PROVE y.n \in Nat /\ y.n <= asked'
    OBVIOUS
  <2>1. y.n \in Nat /\ y.n <= asked /\ asked \in Nat
    BY <1>1, ElemsType DEF Items, TodoAt, OutTypes
  <2> QED BY <2>1
<1> QED BY <1>2, <1>3 DEF TodoAt

(* Neither requests nor output are touched, except what goes with c.       *)
LEMMA OutUnchanged ==
  ASSUME OutInv, UNCHANGED <<queued, todo>>, asked' \in Nat, asked <= asked',
         out' \in [Conns -> Seq(Items)],
         \A r \in Conns : out'[r] = out[r] \/ out'[r] = <<>>,
         \A r \in Conns : Down(r) => Down(r)'
  PROVE  OutInv'
<1>1. OutTypes'
  BY DEF OutInv, OutTypes
<1>2. Onward
  BY <1>1 DEF Onward
<1>3. \A r \in Conns : TodoAt(r)'
  BY TodoStays DEF OutInv
<1>4. \A r \in Conns : OutAt(r)'
  BY <1>2, OutStays DEF OutInv
<1> QED BY <1>1, <1>3, <1>4 DEF OutInv
-----------------------------------------------------------------------------
(* A connection that was shut down or is down does not come back.          *)
StaysDown == \A r \in Conns : Down(r) => Down(r)'

LEMMA SetState ==
  ASSUME TableTypes, NEW c \in Conns, NEW v, state_' = [state_ EXCEPT ![c] = v],
         v \in {"kDisconnecting", "kDisconnected"} \/ ~Down(c)
  PROVE  StaysDown
BY DEF TableTypes, StaysDown, Down

(* Steps without requests and output.                                      *)
LEMMA QuietSteps ==
  ASSUME TimerInv, OutInv, NEW c \in Conns,
         \/ onConnectionUp(c) \/ PeerCloses(c) \/ forceCloseInLoop(c) \/ onConnectionDown(c)
         \/ handleIdleTimeout(c) \/ handleForceCloseTimeout(c)
  PROVE  OutInv'
<1>0. TableTypes
  BY DEF TimerInv
<1>1. UNCHANGED <<queued, todo, asked>> /\ asked \in Nat /\ asked <= asked
  <2>1. asked \in Nat
    BY DEF OutInv, OutTypes
  <2>2. asked <= asked
    BY <2>1
  <2> QED BY <2>1, <2>2 DEF onConnectionUp, PeerCloses, forceCloseInLoop, handleClose, onConnectionDown,
                            handleIdleTimeout, handleForceCloseTimeout, outVars
<1>2. /\ out' \in [Conns -> Seq(Items)]
      /\ \A r \in Conns : out'[r] = out[r] \/ out'[r] = <<>>
  <2>1. out \in [Conns -> Seq(Items)] /\ <<>> \in Seq(Items)
    BY NoElem DEF OutInv, OutTypes
  <2>2. out' = out \/ out' = [out EXCEPT ![c] = <<>>]
    BY DEF onConnectionUp, PeerCloses, forceCloseInLoop, handleClose, onConnectionDown,
           handleIdleTimeout, handleForceCloseTimeout, outVars
  <2> QED BY <2>1, <2>2
<1>3. StaysDown
  <2>1. \/ state_' = state_
        \/ state_[c] = "kConnecting" /\ state_' = [state_ EXCEPT ![c] = "kConnected"]
        \/ state_' = [state_ EXCEPT ![c] = "kDisconnected"]
        \/ state_' = [state_ EXCEPT ![c] = "kDisconnecting"]
    BY DEF onConnectionUp, PeerCloses, forceCloseInLoop, handleClose, onConnectionDown,
           handleIdleTimeout, handleForceCloseTimeout
  <2>2. CASE state_' = state_
    BY <2>2 DEF StaysDown, Down
  <2>3. CASE state_' # state_
    BY <1>0, <2>1, <2>3, SetState DEF Down
  <2> QED BY <2>2, <2>3
<1> QED BY <1>1, <1>2, <1>3, OutUnchanged DEF StaysDown

(* The requests that a read completes.                                     *)
LEMMA RequestsType ==
  ASSUME NEW c \in Conns, NEW paths \in Seq(STRING), asked \in Nat
  PROVE  /\ requests(c, paths) \in Seq(Items) /\ Rising(requests(c, paths))
         /\ \A y \in Elems(requests(c, paths)) :
              y.from = c /\ y.n > asked /\ y.n <= asked + Len(paths)
<1>0. PICK q : q = requests(c, paths)
  OBVIOUS
<1>1. /\ Len(paths) \in Nat /\ DOMAIN paths = 1..Len(paths)
      /\ \A i \in 1..Len(paths) : paths[i] \in STRING
  OBVIOUS
<1>2. q = [i \in 1..Len(paths) |-> Item(paths[i], c, asked + i)]
  BY <1>0, <1>1 DEF requests
<1>3. \A i \in 1..Len(paths) :
        /\ Item(paths[i], c, asked + i) \in Items
        /\ Item(paths[i], c, asked + i).from = c /\ Item(paths[i], c, asked + i).n = asked + i
  <2> SUFFICES ASSUME NEW i \in 1..Len(paths)
               PROVE  /\ Item(paths[i], c, asked + i) \in Items
                      /\ Item(paths[i], c, asked + i).from = c
                      /\ Item(paths[i], c, asked + i).n = asked + i
    OBVIOUS
  <2>1. asked + i \in Nat /\ paths[i] \in STRING
    BY <1>1
  <2> QED BY <2>1 DEF Item, Items, Kinds
<1>4. q \in Seq(Items) /\ Len(q) = Len(paths)
  BY <1>1, <1>2, <1>3
<1>5. \A i \in 1..Len(q) : q[i].from = c /\ q[i].n = asked + i
  BY <1>1, <1>2, <1>3, <1>4
<1>6. Rising(q)
  <2> SUFFICES ASSUME NEW i \in 1..Len(q), NEW j \in 1..Len(q), i < j PROVE q[i].n < q[j].n
    BY DEF Rising
  <2>1. q[i].n = asked + i /\ q[j].n = asked + j
    BY <1>5
  <2> QED BY <1>1, <1>4, <2>1
<1>7. ASSUME NEW y \in Elems(q) PROVE y.from = c /\ y.n > asked /\ y.n <= asked + Len(paths)
  <2>1. PICK i \in 1..Len(q) : y = q[i]
    BY DEF Elems
  <2>2. y.from = c /\ y.n = asked + i /\ i \in 1..Len(paths)
    BY <1>4, <1>5, <2>1
  <2> QED BY <1>1, <2>2
<1> QED BY <1>0, <1>4, <1>6, <1>7

(* A read.                                                                 *)
LEMMA MessageOut ==
  ASSUME TimerInv, OutInv, NEW c \in Conns, NEW paths \in Reads, NEW malformed \in BOOLEAN,
         onMessage(c, paths, malformed)
  PROVE  OutInv'
<1>0. TableTypes /\ OutTypes
  BY DEF TimerInv, OutInv
<1>1. /\ paths \in Seq(STRING) /\ Len(paths) \in Nat /\ asked \in Nat
      /\ asked' = asked + Len(paths) /\ asked' \in Nat /\ asked <= asked'
  <2>1. paths \in Seq(STRING) /\ asked \in Nat /\ asked' = asked + Len(paths)
    BY <1>0, RequestsAssumption DEF onMessage, OutTypes
  <2> QED BY <2>1
<1>2. todo[c] = <<>> /\ queued' = queued
  BY DEF onMessage, Free
<1>3. /\ todo \in [Conns -> Seq(Items)] /\ out \in [Conns -> Seq(Items)]
      /\ queued \in [Conns -> Seq(Items)]
  BY <1>0 DEF OutTypes
<1>4. CASE malformed /\ state_[c] # "kConnected"
  <2>1. UNCHANGED <<out, state_, todo>>
    BY <1>4 DEF onMessage
  <2> QED BY <1>1, <1>2, <1>3, <2>1, OutUnchanged DEF Down
<1>5. CASE malformed /\ state_[c] = "kConnected"
  <2>1. PICK z : z = Item("400", c, asked')
    OBVIOUS
  <2>2. z \in Items /\ z.kind = "400" /\ z.from = c /\ z.n = asked'
    <3>1. asked' \in Nat
      BY <1>1
    <3> QED BY <2>1, <3>1 DEF Item, Items, Kinds
  <2>3. /\ out' = [out EXCEPT ![c] = Append(out[c], z)]
        /\ state_' = [state_ EXCEPT ![c] = "kDisconnecting"] /\ todo' = todo
    BY <1>5, <2>1 DEF onMessage
  <2>4. Append(out[c], z) = Cat(out[c], <<z>>) /\ Cat(out[c], <<z>>) \in Seq(Items)
    BY <1>3, <2>2, AppendCat, OneElem, CatElems
  <2>5. /\ out' \in [Conns -> Seq(Items)] /\ out'[c] = Cat(out[c], <<z>>)
        /\ \A r \in Conns \ {c} : out'[r] = out[r]
    BY <1>3, <2>3, <2>4
  <2>6. OutTypes'
    BY <1>1, <1>2, <1>3, <2>3, <2>5 DEF OutTypes
  <2>7. Onward
    BY <1>1, <2>3, <2>6 DEF Onward
  <2>8. StaysDown /\ Down(c)' /\ ~Down(c)
    BY <1>0, <1>5, <2>3, SetState DEF Down, TableTypes
  <2>9. \A r \in Conns : TodoAt(r)'
    BY <1>0, <1>1, <2>3, TodoStays DEF OutInv
  <2>10. \A r \in Conns \ {c} : OutAt(r)'
    BY <1>0, <1>2, <2>5, <2>7, <2>8, OutStays DEF OutInv, StaysDown
  <2>11. Before(out[c], <<z>>)
    <3> SUFFICES ASSUME NEW x \in Elems(out[c]) PROVE Precedes(x, z)
      BY <2>2, OneElem DEF Before
    <3>0. x \in Items
      BY <1>3, ElemsType
    <3>1. x.n \in Nat /\ x.n <= asked
      BY <3>0 DEF Items, OutInv, OutAt
    <3>2. x.kind # "400"
      BY <2>8 DEF OutInv, OutAt
    <3>3. Rank(x) \in Nat /\ Rank(x) <= 3 * x.n + 1 /\ Rank(z) = 3 * asked' + 2
      BY <2>2, <3>0, <3>2, RankBounds
    <3> QED BY <1>1, <3>1, <3>3 DEF Precedes
  <2>12. News(c, c, <<z>>)
    <3>1. z.n <= asked'
      BY <1>1, <2>2
    <3>2. Elems(todo'[c]) = {}
      BY <1>2, <2>3, NoElem
    <3> QED BY <2>2, <2>8, <3>1, <3>2, OneElem DEF News
  <2>13. OutAt(c)'
    BY <1>0, <1>2, <2>5, <2>7, <2>8, <2>11, <2>12, OutGrows DEF OutInv, StaysDown
  <2> QED BY <2>6, <2>9, <2>10, <2>13 DEF OutInv
<1>6. CASE ~malformed
  <2>1. /\ todo' = [todo EXCEPT ![c] = requests(c, paths)] /\ UNCHANGED <<out, state_>>
    BY <1>6 DEF onMessage
  <2>2. PICK q : q = requests(c, paths)
    OBVIOUS
  <2>3. /\ q \in Seq(Items) /\ Rising(q)
        /\ \A y \in Elems(q) : y.from = c /\ y.n > asked /\ y.n <= asked'
    BY <1>1, <2>2, RequestsType
  <2>4. /\ todo' \in [Conns -> Seq(Items)] /\ todo'[c] = q
        /\ \A d \in Conns \ {c} : todo'[d] = todo[d]
    BY <1>3, <2>1, <2>2, <2>3
  <2>5. OutTypes'
    BY <1>1, <1>2, <1>3, <2>1, <2>4 DEF OutTypes
  <2>6. Onward
    BY <1>1, <2>3, <2>4, <2>5 DEF Onward
  <2>7. \A r \in Conns : OutAt(r)'
    BY <1>0, <1>2, <2>1, <2>6, OutStays DEF OutInv, Down
  <2>8. \A d \in Conns \ {c} : TodoAt(d)'
    BY <1>0, <1>1, <2>4, TodoStays DEF OutInv
  <2>9. TodoAt(c)'
    BY <2>3, <2>4 DEF TodoAt
  <2> QED BY <2>5, <2>7, <2>8, <2>9 DEF OutInv
<1> QED BY <1>4, <1>5, <1>6
(* What answers the first request of c is later than all that c caused.    *)
LEMMA AnswerIsLater ==
  ASSUME OutInv, NEW c \in Conns, todo[c] # <<>>, NEW z \in Items, z.from = c,
         z.n = Head(todo[c]).n, NEW r \in Conns
  PROVE  /\ \A x \in Elems(out[r]) \cup Elems(queued[r]) : Precedes(x, z)
         /\ z.n <= asked /\ \A y \in Elems(Tail(todo[c])) : z.n < y.n
<1>1. /\ todo[c] \in Seq(Items) /\ out[r] \in Seq(Items) /\ queued[r] \in Seq(Items)
  BY DEF OutInv, OutTypes
<1>2. /\ Head(todo[c]) \in Elems(todo[c]) /\ \A y \in Elems(Tail(todo[c])) : Head(todo[c]).n < y.n
  BY <1>1, TailElems DEF OutInv, TodoAt
<1>3. z.n <= asked
  BY <1>2 DEF OutInv, TodoAt
<1>4. ASSUME NEW x \in Elems(out[r]) \cup Elems(queued[r]) PROVE Precedes(x, z)
  <2>1. x \in Items
    BY <1>1, ElemsType
  <2>2. CASE x.from = c
    <3>1. x.n < z.n
      BY <1>2, <2>2 DEF OutInv, OutAt
    <3> QED BY <2>1, <3>1, LaterPrecedes
  <2>3. CASE x.from # c
    BY <2>3 DEF Precedes
  <2> QED BY <2>2, <2>3
<1> QED BY <1>2, <1>3, <1>4

(* The first request of c is answered.                                     *)
LEMMA TodoAnswered ==
  ASSUME OutInv, NEW c \in Conns, todo[c] # <<>>, todo' = [todo EXCEPT ![c] = Tail(@)],
         asked' = asked, state_' = state_, out' \in [Conns -> Seq(Items)],
         queued' \in [Conns -> Seq(Items)]
  PROVE  /\ OutTypes' /\ Onward /\ StaysDown /\ todo'[c] = Tail(todo[c])
         /\ \A d \in Conns : TodoAt(d)'
<1>1. OutTypes /\ asked \in Nat /\ asked' \in Nat /\ asked <= asked' /\ todo \in [Conns -> Seq(Items)]
  <2>1. OutTypes /\ asked \in Nat /\ todo \in [Conns -> Seq(Items)]
    BY DEF OutInv, OutTypes
  <2>2. asked <= asked'
    BY <2>1
  <2> QED BY <2>1, <2>2
<1>2. PICK q : q = Tail(todo[c])
  OBVIOUS
<1>3. q \in Seq(Items)
  BY <1>1, <1>2, TailElems
<1>4. /\ todo' \in [Conns -> Seq(Items)] /\ todo'[c] = q
      /\ \A d \in Conns \ {c} : todo'[d] = todo[d]
  <2>1. todo' = [todo EXCEPT ![c] = q]
    BY <1>2
  <2> QED BY <1>1, <1>3, <2>1
<1>5. OutTypes'
  BY <1>1, <1>4 DEF OutTypes
<1>6. \A d \in Conns : TodoAt(d)' /\ Elems(todo'[d]) \subseteq Elems(todo[d])
  BY <1>1, <1>2, <1>4, TodoStays DEF OutInv
<1>7. Onward
  BY <1>1, <1>5, <1>6 DEF Onward
<1>8. StaysDown
  BY DEF StaysDown, Down
<1> QED BY <1>2, <1>4, <1>5, <1>6, <1>7, <1>8

LEMMA IgnoreOut ==
  ASSUME OutInv, NEW c \in Conns, IgnoreRequest(c)
  PROVE  OutInv'
<1>1. /\ todo[c] # <<>> /\ todo' = [todo EXCEPT ![c] = Tail(@)]
      /\ UNCHANGED <<state_, asked, out, queued>>
  BY DEF IgnoreRequest, outVars
<1>2. OutTypes' /\ Onward /\ StaysDown /\ \A d \in Conns : TodoAt(d)'
  BY <1>1, TodoAnswered DEF OutInv, OutTypes
<1>3. \A r \in Conns : OutAt(r)'
  BY <1>1, <1>2, OutStays DEF OutInv, StaysDown
<1> QED BY <1>2, <1>3 DEF OutInv

LEMMA PageOut ==
  ASSUME OutInv, NEW c \in Conns, AnswerPage(c)
  PROVE  OutInv'
<1>0. out \in [Conns -> Seq(Items)] /\ queued \in [Conns -> Seq(Items)] /\ todo[c] \in Seq(Items)
  BY DEF OutInv, OutTypes
<1>1. PICK z : z = Item("page", c, Head(todo[c]).n)
  OBVIOUS
<1>2. /\ todo[c] # <<>> /\ todo' = [todo EXCEPT ![c] = Tail(@)]
      /\ UNCHANGED <<state_, asked, queued>>
      /\ out' = out \/ out' = [out EXCEPT ![c] = Append(out[c], z)]
  BY <1>1 DEF AnswerPage
<1>3. z \in Items /\ z.from = c /\ z.n = Head(todo[c]).n /\ z.kind = "page"
  <2>1. Head(todo[c]) \in Items
    BY <1>0, <1>2, TailElems
  <2>2. PICK n \in Nat : n = Head(todo[c]).n
    BY <2>1 DEF Items
  <2>3. z = Item("page", c, n)
    BY <1>1, <2>2
  <2>4. z \in Items /\ z.from = c /\ z.n = n /\ z.kind = "page"
    BY <2>3 DEF Item, Items, Kinds
  <2> QED BY <2>2, <2>4
<1>4. Append(out[c], z) = Cat(out[c], <<z>>) /\ Cat(out[c], <<z>>) \in Seq(Items)
  BY <1>0, <1>3, AppendCat, OneElem, CatElems
<1>5. /\ out' \in [Conns -> Seq(Items)] /\ \A r \in Conns \ {c} : out'[r] = out[r]
      /\ out'[c] = out[c] \/ out'[c] = Cat(out[c], <<z>>)
  BY <1>0, <1>2, <1>4
<1>6. /\ OutTypes' /\ Onward /\ StaysDown /\ todo'[c] = Tail(todo[c])
      /\ \A d \in Conns : TodoAt(d)'
  BY <1>0, <1>2, <1>5, TodoAnswered
<1>7. \A r \in Conns : out'[r] = out[r] => OutAt(r)'
  BY <1>2, <1>6, OutStays DEF OutInv, StaysDown
<1>8. CASE out'[c] = Cat(out[c], <<z>>)
  <2>1. Before(out[c], <<z>>) /\ News(c, c, <<z>>)
    BY <1>2, <1>3, <1>6, AnswerIsLater, OneElem DEF Before, News
  <2>2. OutAt(c)'
    BY <1>2, <1>6, <1>8, <2>1, OutGrows DEF OutInv, StaysDown
  <2> QED BY <1>5, <1>6, <1>7, <2>2 DEF OutInv
<1>9. CASE out'[c] = out[c]
  BY <1>5, <1>6, <1>7, <1>9 DEF OutInv
<1> QED BY <1>5, <1>8, <1>9

(* A queued send.                                                          *)
LEMMA SendOut ==
  ASSUME OutInv, NEW c \in Conns, sendInLoop(c)
  PROVE  OutInv'
<1>0. /\ OutTypes /\ out \in [Conns -> Seq(Items)] /\ queued \in [Conns -> Seq(Items)]
      /\ asked \in Nat /\ OutAt(c)
  BY DEF OutInv, OutTypes
<1>1. PICK h, q : h = Head(queued[c]) /\ q = Tail(queued[c])
  OBVIOUS
<1>2. /\ queued[c] # <<>> /\ queued' = [queued EXCEPT ![c] = q]
      /\ UNCHANGED <<state_, asked, todo>>
      /\ out' = out \/ out' = [out EXCEPT ![c] = Append(out[c], h)]
  BY <1>1 DEF sendInLoop
<1>3. /\ q \in Seq(Items) /\ h \in Items /\ Elems(q) \subseteq Elems(queued[c])
      /\ h \in Elems(queued[c]) /\ Ordered(q) /\ \A y \in Elems(q) : Precedes(h, y)
  BY <1>0, <1>1, <1>2, TailElems DEF OutAt
<1>4. /\ Append(out[c], h) = Cat(out[c], <<h>>) /\ Cat(out[c], <<h>>) \in Seq(Items)
      /\ <<h>> \in Seq(Items) /\ Elems(<<h>>) = {h} /\ Ordered(<<h>>)
  BY <1>0, <1>3, AppendCat, OneElem, CatElems
<1>5. /\ out' \in [Conns -> Seq(Items)] /\ queued' \in [Conns -> Seq(Items)] /\ queued'[c] = q
      /\ \A r \in Conns \ {c} : out'[r] = out[r] /\ queued'[r] = queued[r]
      /\ out'[c] = out[c] \/ out'[c] = Cat(out[c], <<h>>)
  BY <1>0, <1>2, <1>3, <1>4
<1>6. OutTypes' /\ Onward
  <2>1. OutTypes'
    BY <1>0, <1>2, <1>5 DEF OutTypes
  <2>2. asked <= asked'
    BY <1>0, <1>2
  <2> QED BY <1>2, <2>1, <2>2 DEF Onward
<1>7. \A r \in Conns : TodoAt(r)'
  BY <1>2 DEF OutInv, TodoAt
<1>8. \A r \in Conns \ {c} : OutAt(r)'
  BY <1>0, <1>2, <1>5, <1>6, OutStays DEF OutInv, Down
<1>9. OutAt(c)'
  <2>1. Before(out[c], <<h>>)
    BY <1>0, <1>3, <1>4 DEF OutAt, Before
  <2>2. /\ Elems(out'[c]) \subseteq Elems(out[c]) \cup {h} /\ Ordered(out'[c])
    <3>1. out[c] \in Seq(Items) /\ Ordered(out[c])
      BY <1>0 DEF OutAt
    <3>2. Elems(Cat(out[c], <<h>>)) = Elems(out[c]) \cup {h} /\ Ordered(Cat(out[c], <<h>>))
      BY <1>4, <2>1, <3>1, CatElems, ZenonT(30)
    <3> QED BY <1>5, <3>1, <3>2
  <2>3. Before(out'[c], q)
    BY <1>0, <1>3, <2>2 DEF OutAt, Before
  <2>4. \A x \in Elems(out'[c]) : x.kind = "400" => x.from = c /\ Down(c)'
    BY <1>0, <1>2, <1>3, <2>2 DEF OutAt, Down
  <2>5. \A x \in Elems(out'[c]) \cup Elems(q) :
          x.n <= asked' /\ \A y \in Elems(todo'[x.from]) : x.n < y.n
    BY <1>0, <1>2, <1>3, <2>2 DEF OutAt
  <2> QED BY <1>0, <1>3, <1>5, <2>2, <2>3, <2>4, <2>5 DEF OutAt
<1> QED BY <1>6, <1>7, <1>8, <1>9 DEF OutInv
(* What broadcast() and the reply add to the output of one connection.     *)
LEMMA ChatThenReply ==
  ASSUME NEW chat \in Items, NEW reply \in Items, chat.kind = "chat", reply.kind = "ok",
         chat.n = reply.n, NEW X \in {<<chat>>, <<>>}, NEW Y \in {<<reply>>, <<>>}
  PROVE  /\ X \in Seq(Items) /\ Y \in Seq(Items)
         /\ Cat(X, Y) \in Seq(Items) /\ Ordered(Cat(X, Y))
         /\ Elems(Cat(X, Y)) \subseteq {chat, reply}
<1>1. X \in Seq(Items) /\ Ordered(X) /\ Elems(X) \subseteq {chat}
  <2>1. CASE X = <<chat>>
    BY <2>1, OneElem
  <2>2. CASE X = <<>>
    BY <2>2, NoElem
  <2> QED BY <2>1, <2>2
<1>2. Y \in Seq(Items) /\ Ordered(Y) /\ Elems(Y) \subseteq {reply}
  <2>1. CASE Y = <<reply>>
    BY <2>1, OneElem
  <2>2. CASE Y = <<>>
    BY <2>2, NoElem
  <2> QED BY <2>1, <2>2
<1>3. Precedes(chat, reply)
  <2>1. chat.n \in Nat /\ Rank(chat) = 3 * chat.n /\ Rank(reply) = 3 * chat.n + 1
    BY RankBounds DEF Items
  <2> QED BY <2>1 DEF Precedes
<1>4. Before(X, Y)
  BY <1>1, <1>2, <1>3 DEF Before
<1> QED BY <1>1, <1>2, <1>4, CatElems

LEMMA ChatOut ==
  ASSUME OutInv, NEW c \in Conns, AnswerChat(c)
  PROVE  OutInv'
<1>0. /\ out \in [Conns -> Seq(Items)] /\ queued \in [Conns -> Seq(Items)] /\ todo[c] \in Seq(Items)
      /\ OutTypes
  BY DEF OutInv, OutTypes
<1>1. PICK chat, reply : /\ chat = Item("chat", c, Head(todo[c]).n)
                         /\ reply = Item("ok", c, Head(todo[c]).n)
  OBVIOUS
<1>2. /\ todo[c] # <<>> /\ todo' = [todo EXCEPT ![c] = Tail(@)] /\ UNCHANGED <<state_, asked>>
  BY DEF AnswerChat
<1>3. /\ chat \in Items /\ chat.from = c /\ chat.n = Head(todo[c]).n /\ chat.kind = "chat"
      /\ reply \in Items /\ reply.from = c /\ reply.n = Head(todo[c]).n /\ reply.kind = "ok"
  <2>1. Head(todo[c]) \in Items
    BY <1>0, <1>2, TailElems
  <2>2. PICK n \in Nat : n = Head(todo[c]).n
    BY <2>1 DEF Items
  <2>3. chat = Item("chat", c, n) /\ reply = Item("ok", c, n)
    BY <1>1, <2>2
  <2>4. /\ chat \in Items /\ chat.from = c /\ chat.n = n /\ chat.kind = "chat"
        /\ reply \in Items /\ reply.from = c /\ reply.n = n /\ reply.kind = "ok"
    BY <2>3 DEF Item, Items, Kinds
  <2> QED BY <2>2, <2>4
<1>4. /\ out' = [r \in Conns |->
           IF sentDirectly(c, r)
           THEN Cat(Cat(out[r], IF r \in connections_ THEN <<chat>> ELSE <<>>),
                    IF r = c THEN <<reply>> ELSE <<>>)
           ELSE out[r]]
      /\ queued' = [r \in Conns |->
           IF r \in connections_ /\ sentQueued(c, r) THEN Append(queued[r], chat) ELSE queued[r]]
  BY <1>1, Zenon DEF AnswerChat, Cat
<1>5. ASSUME NEW r \in Conns
      PROVE  \/ out'[r] = out[r] /\ queued'[r] = queued[r]
             \/ /\ LoopOf[r] = LoopOf[c] /\ queued'[r] = queued[r]
                /\ \E x \in {<<chat>>, <<>>}, y \in {<<reply>>, <<>>} :
                     out'[r] = Cat(out[r], Cat(x, y))
             \/ /\ LoopOf[r] # LoopOf[c] /\ out'[r] = out[r]
                /\ queued'[r] = Cat(queued[r], <<chat>>)
  <2>1. CASE sentDirectly(c, r)
    <3>1. LoopOf[r] = LoopOf[c] /\ ~sentQueued(c, r)
      BY <2>1 DEF sentDirectly, sentQueued
    <3>2. PICK x, y : /\ x = (IF r \in connections_ THEN <<chat>> ELSE <<>>)
                      /\ y = (IF r = c THEN <<reply>> ELSE <<>>)
      OBVIOUS
    <3>3. x \in {<<chat>>, <<>>} /\ y \in {<<reply>>, <<>>}
      BY <3>2
    <3>4. out'[r] = Cat(Cat(out[r], x), y) /\ queued'[r] = queued[r]
      BY <1>4, <2>1, <3>1, <3>2
    <3>5. Cat(Cat(out[r], x), y) = Cat(out[r], Cat(x, y))
      <4>1. x \in Seq(Items) /\ y \in Seq(Items) /\ out[r] \in Seq(Items)
        BY <1>0, <1>3, <3>3, OneElem, NoElem
      <4> QED BY <4>1, CatAssociative
    <3> QED BY <3>1, <3>3, <3>4, <3>5
  <2>2. CASE ~sentDirectly(c, r)
    <3>1. out'[r] = out[r]
      BY <1>4, <2>2
    <3>2. CASE r \in connections_ /\ sentQueued(c, r)
      <4>1. queued'[r] = Append(queued[r], chat) /\ LoopOf[r] # LoopOf[c]
        BY <1>4, <3>2 DEF sentQueued
      <4>2. Append(queued[r], chat) = Cat(queued[r], <<chat>>)
        BY <1>0, <1>3, AppendCat
      <4> QED BY <3>1, <4>1, <4>2
    <3>3. CASE ~(r \in connections_ /\ sentQueued(c, r))
      BY <1>4, <3>1, <3>3
    <3> QED BY <3>2, <3>3
  <2> QED BY <2>1, <2>2
<1>6. out' \in [Conns -> Seq(Items)] /\ queued' \in [Conns -> Seq(Items)]
  <2>1. ASSUME NEW r \in Conns PROVE out'[r] \in Seq(Items) /\ queued'[r] \in Seq(Items)
    <3>0. out[r] \in Seq(Items) /\ queued[r] \in Seq(Items)
      BY <1>0
    <3>1. \A x \in {<<chat>>, <<>>}, y \in {<<reply>>, <<>>} : Cat(out[r], Cat(x, y)) \in Seq(Items)
      BY <1>3, <3>0, ChatThenReply, CatElems
    <3>2. Cat(queued[r], <<chat>>) \in Seq(Items)
      BY <1>3, <3>0, OneElem, CatElems
    <3> QED BY <1>5, <3>0, <3>1, <3>2
  <2>2. out' = [r \in Conns |-> out'[r]] /\ queued' = [r \in Conns |-> queued'[r]]
    BY <1>4, Zenon
  <2> QED BY <2>1, <2>2, Zenon
<1>7. /\ OutTypes' /\ Onward /\ StaysDown /\ todo'[c] = Tail(todo[c])
      /\ \A d \in Conns : TodoAt(d)'
  BY <1>2, <1>6, TodoAnswered
<1>8. ASSUME NEW r \in Conns PROVE OutAt(r)'
  <2>0. OutAt(r) /\ (Down(r) => Down(r)')
    BY <1>7 DEF OutInv, StaysDown
  <2>1. /\ \A e \in Elems(out[r]) \cup Elems(queued[r]) : Precedes(e, chat) /\ Precedes(e, reply)
        /\ chat.n <= asked' /\ \A y \in Elems(todo'[c]) : chat.n < y.n
        /\ reply.n <= asked' /\ \A y \in Elems(todo'[c]) : reply.n < y.n
    BY <1>2, <1>3, <1>7, AnswerIsLater
  <2>2. CASE out'[r] = out[r] /\ queued'[r] = queued[r]
    BY <1>0, <1>7, <2>0, <2>2, OutStays
  <2>3. ASSUME NEW x \in {<<chat>>, <<>>}, NEW y \in {<<reply>>, <<>>}, LoopOf[r] = LoopOf[c],
               queued'[r] = queued[r], out'[r] = Cat(out[r], Cat(x, y))
        PROVE  OutAt(r)'
    <3>1. PICK z : z = Cat(x, y)
      OBVIOUS
    <3>2. z \in Seq(Items) /\ Ordered(z) /\ Elems(z) \subseteq {chat, reply}
      BY <1>3, <3>1, ChatThenReply
    <3>3. News(c, r, z) /\ Before(out[r], z)
      BY <1>3, <2>1, <3>2 DEF News, Before
    <3> QED BY <1>0, <1>7, <2>0, <2>3, <3>1, <3>3, OutGrows
  <2>4. CASE LoopOf[r] # LoopOf[c] /\ out'[r] = out[r] /\ queued'[r] = Cat(queued[r], <<chat>>)
    <3>1. <<chat>> \in Seq(Items) /\ Ordered(<<chat>>) /\ Elems(<<chat>>) = {chat}
      BY <1>3, OneElem
    <3>2. /\ News(c, r, <<chat>>) /\ Before(out[r], <<chat>>) /\ Before(queued[r], <<chat>>)
          /\ \A e \in Elems(<<chat>>) : e.kind # "400"
      BY <1>3, <2>1, <3>1 DEF News, Before
    <3> QED BY <1>0, <1>7, <2>0, <2>4, <3>2, QueueTakes
  <2> QED BY <1>5, <2>2, <2>3, <2>4
<1> QED BY <1>7, <1>8 DEF OutInv

-----------------------------------------------------------------------------
LEMMA InitOut == Init => OutInv
<1> SUFFICES ASSUME Init PROVE OutInv
  OBVIOUS
<1>1. /\ \A r \in Conns : todo[r] = <<>> /\ out[r] = <<>> /\ queued[r] = <<>>
      /\ asked = 0
  BY DEF Init
<1>2. OutTypes
  BY NoElem DEF Init, OutTypes
<1>3. \A r \in Conns : OutAt(r) /\ TodoAt(r)
  BY <1>1, NoElem DEF OutAt, TodoAt, Before
<1> QED BY <1>2, <1>3 DEF OutInv

LEMMA NextOut == TimerInv /\ OutInv /\ [Next]_vars => OutInv'
<1> SUFFICES ASSUME TimerInv, OutInv, [Next]_vars PROVE OutInv'
  OBVIOUS
<1>1. CASE Tick \/ UNCHANGED vars
  <2>1. UNCHANGED <<state_, todo, queued, out, asked>>
    BY <1>1 DEF Tick, vars, outVars
  <2>2. asked \in Nat /\ out \in [Conns -> Seq(Items)]
    BY DEF OutInv, OutTypes
  <2>3. asked <= asked'
    BY <2>1, <2>2
  <2> QED BY <2>1, <2>2, <2>3, OutUnchanged DEF Down
<1>2. ASSUME NEW c \in Conns, onConnectionUp(c) \/ PeerCloses(c) \/ LoopStep(c) PROVE OutInv'
  BY <1>2, QuietSteps, PageOut, ChatOut, IgnoreOut, SendOut DEF LoopStep
<1>3. ASSUME NEW c \in Conns, NEW paths \in Reads, NEW malformed \in BOOLEAN,
             onMessage(c, paths, malformed)
      PROVE  OutInv'
  BY <1>3, MessageOut
<1> QED BY <1>1, <1>2, <1>3 DEF Next

LEMMA AlwaysOutInv == Spec => []OutInv
BY InitOut, NextOut, AlwaysTimerInv, PTL DEF Spec

(* What a connection got, followed by what other loops have queued for it, *)
(* is in the order of the requests of each sender: the broadcast before    *)
(* the reply, no answer twice, a 400 behind what its request caused,       *)
(* whichever loops broadcast() and sendInLoop() run on.                    *)
THEOREM RequestOrderHolds == Spec => []RequestOrder
<1>1. OutInv => RequestOrder
  <2> SUFFICES ASSUME OutInv, NEW r \in Conns,
                      NEW i \in DOMAIN (out[r] \o queued[r]), NEW j \in DOMAIN (out[r] \o queued[r]),
                      i < j, (out[r] \o queued[r])[i].from = (out[r] \o queued[r])[j].from
               PROVE  Rank((out[r] \o queued[r])[i]) < Rank((out[r] \o queued[r])[j])
    BY Zenon DEF RequestOrder
  <2>1. PICK all : all = out[r] \o queued[r]
    OBVIOUS
  <2>2. out[r] \in Seq(Items) /\ queued[r] \in Seq(Items)
    BY DEF OutInv, OutTypes
  <2>3. all \in Seq(Items) /\ Ordered(all)
    BY <2>1, <2>2, CatElems DEF OutInv, OutAt, Cat
  <2>4. i \in 1..Len(all) /\ j \in 1..Len(all) /\ i < j /\ all[i].from = all[j].from
    <3>1. DOMAIN all = 1..Len(all)
      BY <2>3
    <3> QED BY <2>1, <3>1, Zenon
  <2>5. Rank(all[i]) < Rank(all[j])
    BY <2>3, <2>4 DEF Ordered, Precedes
  <2> QED BY <2>1, <2>5, Zenon
<1> QED BY <1>1, AlwaysOutInv, PTL
=============================================================================
