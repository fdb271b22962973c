--------------------------- MODULE PeriodicPingFifo ---------------------------
(***************************************************************************)
(* PeriodicPing under the order in which asyncio runs what is ready: first *)
(* in, first out.  A callback enters the ready queue in the step that makes *)
(* it runnable and the event loop runs the one at the head.  Callbacks that *)
(* one step makes runnable together (the handlers awaiting a task that     *)
(* ends) enter in any order.                                               *)
(***************************************************************************)
EXTENDS PeriodicPingContract, Sequences

VARIABLE ready   \* the event loop's queue: handlers and tasks

fifoVars == <<vars, ready>>

(* Handlers and tasks are different callbacks, and there are finitely many.   *)
ASSUME FifoAssumption ==
  Handler \cap Task = {} /\ IsFiniteSet(Handler) /\ IsFiniteSet(Task)

Actor == Handler \cup Task

\* The handlers and tasks that have something to run.
Runnable ==
  {h \in Handler : pc[h] = "called" \/ StopPasses(h)}
  \cup {t \in Task :
          \/ loop[t] \in {"created", "woken"}
          \/ loop[t] = "pinging" /\ work[t] \in {"returned", "raised"}
          \/ t \in doomed}

\* Every order in which the members of S can enter the queue.
Orders(S) ==
  {s \in [1..Cardinality(S) -> S] : \A a \in S : \E i \in DOMAIN s : s[i] = a}

\* The queue after a step, given what it holds of the queue before it.
Enqueued(rest) ==
  \E new \in Orders(Runnable' \ {rest[i] : i \in DOMAIN rest}) :
    ready' = rest \o new

RunHead ==
  /\ ready # <<>>
  /\ \/ Head(ready) \in Handler /\ HandlerStep(Head(ready))
     \/ Head(ready) \in Task /\ LoopStep(Head(ready))
  /\ Enqueued(Tail(ready))

Interrupt == Outside /\ Enqueued(ready)

FifoInit == Init /\ ready = <<>>
FifoNext == RunHead \/ Interrupt
FifoSpec == FifoInit /\ [][FifoNext]_fifoVars

\* The event loop goes on; threads and timers as in PeriodicPing's Fairness.
FifoFairness ==
  /\ WF_fifoVars(RunHead)
  /\ \A t \in Task : /\ WF_fifoVars(WorkerStarts(t) /\ Enqueued(ready))
                     /\ WF_fifoVars(WorkerEnds(t) /\ Enqueued(ready))
                     /\ WF_fifoVars(TimerFires(t) /\ Enqueued(ready))

FairFifoSpec == FifoSpec /\ FifoFairness
===============================================================================
