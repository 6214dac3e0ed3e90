------------------------------ MODULE WebChat ------------------------------
(***************************************************************************)
(* WebChatServer (main.cpp): its connection tables, the idle and the       *)
(* forced-close timer of every connection, requests, replies and           *)
(* broadcasts.  The connections are spread over worker loops, which run in *)
(* parallel and share the tables under mutex_ and parserMutex_; a handler  *)
(* of a connection runs on the loop of that connection.                    *)
(*                                                                         *)
(* A connection is its state_, a parser is "ok" or "Error" (HttpParser.tla *)
(* models it), a loop's timers are those added and neither run nor         *)
(* cancelled (TimerQueue.tla), output is what sendInLoop() took            *)
(* (TcpConnection.tla), in the order it took it.  15 seconds are Timeout   *)
(* ticks; a timer may run late, never early.                               *)
(***************************************************************************)
EXTENDS Naturals, Sequences

CONSTANTS
  Conns,
  Loops,
  LoopOf,         \* the loop of each connection
  Timeout,        \* ticks of 15.0 seconds
  Reads,          \* the sequences of requests one read may complete
  MaxRequests     \* bound on the requests of all connections

ASSUME LoopAssumption == LoopOf \in [Conns -> Loops]
ASSUME TimeoutAssumption == Timeout \in Nat \ {0}
ASSUME RequestsAssumption == Reads \subseteq Seq(STRING) /\ MaxRequests \in Nat

VARIABLES
  state_,
  connections_, idleTimers_, parsers_,
  timers,       \* of each connection: timers its loop holds
  leaving,      \* handleClose() has set state_, the callbacks are to come
  closing,      \* forceCloseInLoop() is queued
  todo,         \* of each connection: requests onMessage() has yet to answer
  queued,       \* of each connection: sends of other loops that are queued
  out,          \* of each connection: the output it took
  asked,        \* how many requests were made: the number of the last one
  rejected,     \* history: connections that made a malformed request
  quiet         \* history: ticks since a read counted as activity, up to
                \* 2 * Timeout

tableVars == <<connections_, idleTimers_, parsers_, timers>>
outVars   == <<queued, out>>
histVars  == <<rejected, quiet>>
vars == <<state_, tableVars, leaving, closing, todo, outVars, asked, histVars>>

Alive(c) == state_[c] \in {"kConnected", "kDisconnecting"}

(* The loop of c runs no handler at the moment.                            *)
Free(c) ==
  \A d \in Conns : LoopOf[d] = LoopOf[c] => todo[d] = <<>> /\ d \notin leaving

Item(kind, from, n) == [kind |-> kind, from |-> from, n |-> n]

(* operator[] and erase() of the tables.                                   *)
With(f, c, x) == [d \in DOMAIN f \cup {c} |-> IF d = c THEN x ELSE f[d]]
Without(f, c) == [d \in DOMAIN f \ {c} |-> f[d]]

Init ==
  /\ state_ = [c \in Conns |-> "kConnecting"]
  /\ connections_ = {} /\ idleTimers_ = <<>> /\ parsers_ = <<>>
  /\ timers = [c \in Conns |-> {}]
  /\ leaving = {} /\ closing = {}
  /\ todo = [c \in Conns |-> <<>>]
  /\ queued = [c \in Conns |-> <<>>] /\ out = [c \in Conns |-> <<>>]
  /\ asked = 0
  /\ rejected = {} /\ quiet = [c \in Conns |-> 0]

-----------------------------------------------------------------------------
(* Timers.                                                                 *)

(* TimerIds are never used twice: one that is neither pending nor stored   *)
(* stands for the next.  0 is no timer.                                    *)
Stored(c) == IF c \in DOMAIN idleTimers_
             THEN {idleTimers_[c].idleTimer, idleTimers_[c].forceCloseTimer}
             ELSE {}
NewId(c) == CHOOSE i \in 1..5 : i \notin Stored(c) /\ \A t \in timers[c] : t.id # i

Timer(c, kind) == [id |-> NewId(c), kind |-> kind, left |-> Timeout]
Canceled(c, ids) == {t \in timers[c] : t.id \notin ids}

(* Mutant: the old timer is left running.                                  *)
refreshIdleTimerAgain(c) ==
  /\ timers' = [timers EXCEPT ![c] = @ \cup {Timer(c, "idle")}]
  /\ idleTimers_' = [idleTimers_ EXCEPT ![c].idleTimer = NewId(c)]

(* refreshIdleTimer() of a connection that is connected and in the table.  *)
refreshIdleTimer(c) ==
  /\ timers' = [timers EXCEPT ![c] = Canceled(c, {idleTimers_[c].idleTimer})
                                        \cup {Timer(c, "idle")}]
  /\ idleTimers_' = [idleTimers_ EXCEPT ![c].idleTimer = NewId(c)]

-----------------------------------------------------------------------------
(* Connections come and go.                                                *)

(* connectEstablished() and onConnection() of a new connection.            *)
onConnectionUp(c) ==
  /\ state_[c] = "kConnecting" /\ Free(c)
  /\ state_' = [state_ EXCEPT ![c] = "kConnected"]
  /\ connections_' = connections_ \cup {c}
  /\ timers' = [timers EXCEPT ![c] = {Timer(c, "idle")}]
  /\ idleTimers_' = With(idleTimers_, c, [idleTimer |-> NewId(c), forceCloseTimer |-> 0])
  /\ parsers_' = With(parsers_, c, "ok")
  /\ quiet' = [quiet EXCEPT ![c] = 0]
  /\ UNCHANGED <<leaving, closing, todo, outVars, asked, rejected>>

(* handleClose(): first the state, which other loops read in send().       *)
handleClose(c) ==
  /\ state_' = [state_ EXCEPT ![c] = "kDisconnected"]
  /\ leaving' = leaving \cup {c}
  /\ UNCHANGED <<tableVars, todo, outVars, asked, histVars>>

PeerCloses(c) ==
  /\ Alive(c) /\ Free(c)
  /\ handleClose(c)
  /\ UNCHANGED closing

forceCloseInLoop(c) ==
  /\ c \in closing /\ Free(c)
  /\ closing' = closing \ {c}
  /\ IF Alive(c) THEN handleClose(c)
     ELSE UNCHANGED <<state_, tableVars, leaving, todo, outVars, asked, histVars>>

(* Mutant: the timer of the forced close is forgotten.                     *)
timersToCancelIdle(c) == {idleTimers_[c].idleTimer}

timersToCancel(c) == {idleTimers_[c].idleTimer, idleTimers_[c].forceCloseTimer}

(* onConnection() of a connection that is down; its output goes with it.   *)
onConnectionDown(c) ==
  /\ c \in leaving
  /\ leaving' = leaving \ {c}
  /\ connections_' = connections_ \ {c}
  /\ timers' = [timers EXCEPT ![c] = Canceled(c, timersToCancel(c))]
  /\ idleTimers_' = Without(idleTimers_, c)
  /\ parsers_' = Without(parsers_, c)
  /\ out' = [out EXCEPT ![c] = <<>>]
  /\ quiet' = [quiet EXCEPT ![c] = 0]
  /\ UNCHANGED <<state_, closing, todo, queued, asked, rejected>>

-----------------------------------------------------------------------------
(* Requests.                                                               *)

(* Mutant: a later request is put in front.                                *)
requestsReversed(c, paths) ==
  [i \in DOMAIN paths |-> Item(paths[i], c, asked + Len(paths) + 1 - i)]

(* The requests that onMessage() takes from the parser, in order.          *)
requests(c, paths) == [i \in DOMAIN paths |-> Item(paths[i], c, asked + i)]

(* A read that completes some requests (none, when it brings a fragment)   *)
(* and, perhaps, has something malformed behind them, in which case the    *)
(* requests are dropped.  A parser in Error stays there.                   *)
onMessage(c, paths, malformed) ==
  /\ Alive(c) /\ Free(c)
  /\ asked + Len(paths) <= MaxRequests
  /\ parsers_[c] = "Error" => malformed /\ paths = <<>>
  /\ asked' = asked + Len(paths)
  /\ IF state_[c] = "kConnected"
     THEN refreshIdleTimer(c) /\ quiet' = [quiet EXCEPT ![c] = 0]
     ELSE UNCHANGED <<timers, idleTimers_, quiet>>
  /\ IF malformed
     THEN /\ parsers_' = [parsers_ EXCEPT ![c] = "Error"]
          /\ rejected' = rejected \cup {c}
          /\ IF state_[c] = "kConnected"
             THEN /\ out' = [out EXCEPT ![c] = Append(@, Item("400", c, asked'))]
                  /\ state_' = [state_ EXCEPT ![c] = "kDisconnecting"]
             ELSE UNCHANGED <<out, state_>>
          /\ UNCHANGED todo
     ELSE /\ todo' = [todo EXCEPT ![c] = requests(c, paths)]
          /\ UNCHANGED <<parsers_, rejected, out, state_>>
  /\ UNCHANGED <<connections_, leaving, closing, queued>>

(* conn->send() of the items by the loop of c: a connection of that loop   *)
(* takes them at once, others have a functor queued.                       *)
sentDirectly(c, r) == state_[r] = "kConnected" /\ LoopOf[r] = LoopOf[c]
sentQueued(c, r) == state_[r] = "kConnected" /\ LoopOf[r] # LoopOf[c]

(* onMessage() answers the page "/".                                       *)
AnswerPage(c) ==
  /\ todo[c] # <<>> /\ Head(todo[c]).kind = "/"
  /\ todo' = [todo EXCEPT ![c] = Tail(@)]
  /\ out' = IF state_[c] = "kConnected"
            THEN [out EXCEPT ![c] = Append(@, Item("page", c, Head(todo[c]).n))]
            ELSE out
  /\ UNCHANGED <<state_, tableVars, leaving, closing, queued, asked, histVars>>

(* onMessage() answers "/chat": broadcast() under mutex_, then the reply.  *)
AnswerChat(c) ==
  /\ todo[c] # <<>> /\ Head(todo[c]).kind = "/chat"
  /\ todo' = [todo EXCEPT ![c] = Tail(@)]
  /\ LET chat  == Item("chat", c, Head(todo[c]).n)
         reply == Item("ok", c, Head(todo[c]).n)
     IN  /\ out' = [r \in Conns |->
              IF sentDirectly(c, r)
              THEN out[r] \o (IF r \in connections_ THEN <<chat>> ELSE <<>>)
                          \o (IF r = c THEN <<reply>> ELSE <<>>)
              ELSE out[r]]
         /\ queued' = [r \in Conns |->
              IF r \in connections_ /\ sentQueued(c, r) THEN Append(queued[r], chat)
              ELSE queued[r]]
  /\ UNCHANGED <<state_, tableVars, leaving, closing, asked, histVars>>

(* Other paths get no answer.                                              *)
IgnoreRequest(c) ==
  /\ todo[c] # <<>> /\ Head(todo[c]).kind \notin {"/", "/chat"}
  /\ todo' = [todo EXCEPT ![c] = Tail(@)]
  /\ UNCHANGED <<state_, tableVars, leaving, closing, outVars, asked, histVars>>

(* A queued send: sendInLoop() gives up only when the connection is down.  *)
sendInLoop(c) ==
  /\ queued[c] # <<>> /\ Free(c)
  /\ queued' = [queued EXCEPT ![c] = Tail(@)]
  /\ out' = IF state_[c] = "kDisconnected" THEN out
            ELSE [out EXCEPT ![c] = Append(@, Head(queued[c]))]
  /\ UNCHANGED <<state_, tableVars, leaving, closing, todo, asked, histVars>>

-----------------------------------------------------------------------------
(* Time.                                                                   *)

Tick ==
  /\ timers' = [c \in Conns |->
       {[t EXCEPT !.left = IF @ = 0 THEN 0 ELSE @ - 1] : t \in timers[c]}]
  /\ quiet' = [c \in Conns |-> IF ~Alive(c) \/ quiet[c] = 2 * Timeout
                                 THEN quiet[c] ELSE quiet[c] + 1]
  /\ UNCHANGED <<state_, connections_, idleTimers_, parsers_, leaving, closing,
                 todo, outVars, asked, rejected>>

Due(c, kind) == {t \in timers[c] : t.kind = kind /\ t.left = 0}

(* Mutant: a shutdown is not followed up.                                  *)
handleIdleTimeoutOnly(c) ==
  \E t \in Due(c, "idle") :
    /\ Free(c)
    /\ timers' = [timers EXCEPT ![c] = @ \ {t}]
    /\ IF state_[c] = "kConnected"
       THEN /\ state_' = [state_ EXCEPT ![c] = "kDisconnecting"]
            /\ idleTimers_' = [idleTimers_ EXCEPT ![c].idleTimer = 0]
       ELSE UNCHANGED <<state_, idleTimers_>>
    /\ UNCHANGED <<connections_, parsers_, leaving, closing, todo, outVars, asked, histVars>>

(* handleIdleTimeout(): shutdown(), and a timer for the forced close.  A   *)
(* connection that is not kConnected is left alone.                        *)
handleIdleTimeout(c) ==
  \E t \in Due(c, "idle") :
    /\ Free(c)
    /\ IF state_[c] = "kConnected"
       THEN /\ state_' = [state_ EXCEPT ![c] = "kDisconnecting"]
            /\ timers' = [timers EXCEPT ![c] = (@ \ {t}) \cup {Timer(c, "forceClose")}]
            /\ idleTimers_' = [idleTimers_ EXCEPT
                 ![c] = [idleTimer |-> 0, forceCloseTimer |-> NewId(c)]]
       ELSE /\ timers' = [timers EXCEPT ![c] = @ \ {t}]
            /\ UNCHANGED <<state_, idleTimers_>>
    /\ UNCHANGED <<connections_, parsers_, leaving, closing, todo, outVars, asked, histVars>>

(* handleForceCloseTimeout() queues forceCloseInLoop().                    *)
handleForceCloseTimeout(c) ==
  \E t \in Due(c, "forceClose") :
    /\ Free(c)
    /\ timers' = [timers EXCEPT ![c] = @ \ {t}]
    /\ IF c \in DOMAIN idleTimers_
       THEN /\ idleTimers_' = [idleTimers_ EXCEPT ![c].forceCloseTimer = 0]
            /\ IF Alive(c)
               THEN /\ state_' = [state_ EXCEPT ![c] = "kDisconnecting"]
                    /\ closing' = closing \cup {c}
               ELSE UNCHANGED <<state_, closing>>
       ELSE UNCHANGED <<idleTimers_, state_, closing>>
    /\ UNCHANGED <<connections_, parsers_, leaving, todo, outVars, asked, histVars>>

-----------------------------------------------------------------------------
LoopStep(c) ==
  \/ onConnectionDown(c) \/ forceCloseInLoop(c)
  \/ AnswerPage(c) \/ AnswerChat(c) \/ IgnoreRequest(c) \/ sendInLoop(c)
  \/ handleIdleTimeout(c) \/ handleForceCloseTimeout(c)

Next ==
  \/ Tick
  \/ \E c \in Conns :
       \/ onConnectionUp(c) \/ PeerCloses(c) \/ LoopStep(c)
       \/ \E paths \in Reads, malformed \in BOOLEAN : onMessage(c, paths, malformed)

Spec == Init /\ [][Next]_vars

(* Time passes and loops run what is queued or due; no peer has to do      *)
(* anything.                                                               *)
Fairness == WF_vars(Tick) /\ \A c \in Conns : WF_vars(LoopStep(c))

FairSpec == Spec /\ Fairness

-----------------------------------------------------------------------------
(* Patience: a connection is shut down for being idle only after Timeout   *)
(* ticks without a read, and closed by force only Timeout ticks later.     *)
Patience ==
  [][\A c \in Conns :
       /\ state_[c] = "kConnected" /\ state_'[c] = "kDisconnecting" /\ c \notin rejected'
            => quiet[c] >= Timeout
       /\ c \in closing' \ closing => quiet[c] >= 2 * Timeout]_vars

(* The tables agree with each other and with the loops: every timer that   *)
(* is pending can be cancelled through idleTimers_, so that no timer keeps *)
(* a connection that has left.                                             *)
TimersAreKnown ==
  \A c \in Conns :
    /\ \A t \in timers[c] : t.id \in Stored(c)
    /\ c \in connections_ <=> c \in DOMAIN idleTimers_
    /\ c \in connections_ <=> c \in DOMAIN parsers_
    /\ c \in connections_ <=> Alive(c) \/ c \in leaving

(* What a request causes: the broadcast, then the answer; a 400 comes last.*)
Rank(item) == 3 * item.n + (CASE item.kind = "chat" -> 0 [] item.kind = "400" -> 2
                              [] OTHER -> 1)

(* Whatever the loops do in between, a connection gets what another one    *)
(* (or itself) caused in the order of the requests, each of them once.     *)
RequestOrder ==
  \A r \in Conns : \A i, j \in DOMAIN (out[r] \o queued[r]) :
    LET all == out[r] \o queued[r]
    IN  i < j /\ all[i].from = all[j].from => Rank(all[i]) < Rank(all[j])

(* A connection that has fallen silent is heard of again (a read refreshes *)
(* its idle timer) or is closed in the end, by force if need be; one that  *)
(* was rejected is not covered.                                            *)
SilentIsClosed ==
  \A c \in Conns :
    quiet[c] > 0 ~> (quiet[c] = 0 \/ state_[c] = "kDisconnected" \/ c \in rejected)

(* "cleaning up 15-second inactive zombie connections": every connection   *)
(* that has fallen silent is heard of again or is closed in the end.       *)
ZombiesAreClosed ==
  \A c \in Conns : quiet[c] > 0 ~> (quiet[c] = 0 \/ state_[c] = "kDisconnected")
=============================================================================
