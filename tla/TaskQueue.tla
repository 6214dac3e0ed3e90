----------------------------- MODULE TaskQueue -----------------------------
(***************************************************************************)
(* What an EventLoop promises the callers of runInLoop and queueInLoop:    *)
(* tasks that are queued run one at a time, in the order in which they     *)
(* were queued, each of them at most once.  A task handed over by the      *)
(* loop's own thread through runInLoop runs at once and is never queued.   *)
(***************************************************************************)
EXTENDS Sequences

CONSTANT Tasks      \* the tasks that may be submitted, each of them once

VARIABLES
  fresh,            \* tasks nobody has submitted yet
  queue,            \* tasks submitted and not yet run, oldest first
  done              \* the tasks that were run, in the order they were run

tqVars == <<fresh, queue, done>>

Init ==
  /\ fresh = Tasks
  /\ queue = <<>>
  /\ done = <<>>

Submit(task) ==
  /\ task \in fresh
  /\ fresh' = fresh \ {task}
  /\ queue' = Append(queue, task)
  /\ UNCHANGED done

RunOldest ==
  /\ queue # <<>>
  /\ done' = Append(done, Head(queue))
  /\ queue' = Tail(queue)
  /\ UNCHANGED fresh

RunAtOnce(task) ==
  /\ task \in fresh
  /\ fresh' = fresh \ {task}
  /\ done' = Append(done, task)
  /\ UNCHANGED queue

Next ==
  \/ \E task \in Tasks : Submit(task) \/ RunAtOnce(task)
  \/ RunOldest

Spec == Init /\ [][Next]_tqVars
=============================================================================
