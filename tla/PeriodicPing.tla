----------------------------- MODULE PeriodicPing -----------------------------
(***************************************************************************)
(* The scheduled-ping service (PeriodicPingService) on the asyncio event   *)
(* loop that runs it.                                                      *)
(*                                                                         *)
(* Three kinds of actor share the service's attributes: the coroutines of  *)
(* the HTTP handlers that start and stop schedules, the loop tasks that    *)
(* _start creates, and the executor threads that run one cycle of pings    *)
(* for a loop (asyncio.to_thread).  Coroutines are cooperative: each       *)
(* action below is what one of them does between two suspension points.    *)
(* The next coroutine to run is any one that is ready; PeriodicPingFifo    *)
(* restricts that to the order asyncio uses.                               *)
(*                                                                         *)
(* A definition marked "Mutant" is a plausible bug: the definition after it *)
(* as it would be with that bug.  The specification does not use it.       *)
(***************************************************************************)
EXTENDS Naturals, FiniteSets

CONSTANTS
  Handler,     \* slots for HTTP requests that are in progress together
  Task,        \* slots for asyncio tasks running _loop(); reused once garbage
  NoTask,      \* None, as a value of self._task
  Selection,   \* the target_ids a request may name
  AllTargets,  \* target_ids = None: every target
  Counts,      \* the counts a repeat request may ask for
  CycleCap,    \* bound: the cycle counters saturate here
  PoolSize     \* threads of the event loop's default executor

ASSUME ConstantsAssumption ==
  /\ NoTask \notin Task
  /\ AllTargets \in Selection
  /\ CycleCap \in Nat /\ PoolSize \in Nat \ {0}
  /\ Counts \subseteq 1..CycleCap

VARIABLES
  task,       \* self._task
  running,    \* self._running
  cfg,        \* self._target_ids and self._max_cycles (which fixes self._mode)
  completed,  \* self._completed
  loop,       \* where each task stands in _loop()
  job,        \* the target_ids in the PingRunRequest a task has built
  doomed,     \* tasks whose cancel() was called and not yet delivered
  work,       \* the to_thread(execute) call of each task, on the executor
  pc,         \* where each HTTP handler stands
  call,       \* what each handler was asked
  on,         \* the task a handler awaits in stop()
  told,       \* `running` in the last schedule_status event published
  pings       \* history: the cycles each task itself has completed

serviceVars == <<task, running, cfg, completed>>
loopVars    == <<loop, job, doomed, work, pings>>
handlerVars == <<pc, call, on>>
vars == <<serviceVars, loopVars, handlerVars, told>>

NoLimit == 0       \* _max_cycles = None: periodic mode
Config  == [targets : Selection, max : Counts \cup {NoLimit}]
Unset   == [targets |-> AllTargets, max |-> NoLimit]

StopCall           == [op |-> "stop", arg |-> Unset]
StartPeriodic(s)   == [op |-> "start", arg |-> [targets |-> s, max |-> NoLimit]]
StartRepeat(s, n)  == [op |-> "start", arg |-> [targets |-> s, max |-> n]]
Call == {StopCall} \cup {StartPeriodic(s) : s \in Selection}
                   \cup {StartRepeat(s, n) : s \in Selection, n \in Counts}

-------------------------------------------------------------------------------
Live(t)  == loop[t] # "done"
Begun(t) == loop[t] \in {"pinging", "sleeping", "woken"}

\* Mutant: stop() without the done() test.
TaskSet == task # NoTask

\* The guard of stop(): self._task is not None and not self._task.done().
TaskLive == task # NoTask /\ Live(task)

\* A slot the task that h creates may take: nothing else refers to the task
\* that had it.
Fresh(t, h) == /\ ~Live(t) /\ work[t] = "none"
               /\ \A g \in Handler \ {h} : on[g] # t

\* Mutant: the counter is never incremented.
Stuck(n) == n

\* Counters are compared with counts of at most CycleCap only, so saturating
\* there loses nothing.
Bump(n) == IF n < CycleCap THEN n + 1 ELSE n

\* Mutant: the status is published before the attribute changes.
PublishStale == told' = running

PublishStatus == told' = running'

\* Mutant: one cycle too many.
CountExceeded(n) == cfg.max # NoLimit /\ n > cfg.max

\* The loop's break condition, for a counter n.
CountReached(n) == cfg.max # NoLimit /\ n >= cfg.max

\* Mutant: the counter of the schedule before is kept.
Reconfigure(c) == cfg' = c /\ running' = TRUE /\ UNCHANGED completed

\* _start()'s assignments.
Configure(c) == cfg' = c /\ running' = TRUE /\ completed' = 0

Init ==
  /\ task = NoTask /\ running = FALSE /\ cfg = Unset /\ completed = 0
  /\ loop = [t \in Task |-> "done"]
  /\ job = [t \in Task |-> AllTargets]
  /\ doomed = {}
  /\ work = [t \in Task |-> "none"]
  /\ pc = [h \in Handler |-> "idle"]
  /\ call = [h \in Handler |-> StopCall]
  /\ on = [h \in Handler |-> NoTask]
  /\ told = FALSE
  /\ pings = [t \in Task |-> 0]

-------------------------------------------------------------------------------
(* HTTP handlers: start_periodic, start_repeat, stop.                      *)

\* A request reaches its route; its handler becomes ready.
Arrive(h) ==
  /\ pc[h] = "idle"
  /\ \E c \in Call : call' = [call EXCEPT ![h] = c]
  /\ pc' = [pc EXCEPT ![h] = "called"]
  /\ UNCHANGED <<serviceVars, loopVars, on, told>>

\* stop() finds a task that is not done: cancel() it and await it.
StopAwaits(h) ==
  /\ pc[h] = "called" /\ TaskLive
  /\ doomed' = doomed \cup {task}
  /\ on' = [on EXCEPT ![h] = task]
  /\ pc' = [pc EXCEPT ![h] = "waiting"]
  /\ UNCHANGED <<serviceVars, loop, job, work, pings, call, told>>

\* Mutant: stop() cancels the task without awaiting it.
PassesAtOnce(h) == \/ pc[h] = "called" /\ ~TaskLive
                   \/ pc[h] = "waiting"

\* The points where stop() runs on to its last two assignments: at once, or
\* when the awaited task is done.
StopPasses(h) == \/ pc[h] = "called" /\ ~TaskLive
                 \/ pc[h] = "waiting" /\ ~Live(on[h])

Return(h) ==
  /\ pc' = [pc EXCEPT ![h] = "idle"]
  /\ on' = [on EXCEPT ![h] = NoTask]
  /\ call' = [call EXCEPT ![h] = StopCall]

\* Mutant: stop() relies on the loop to clear _running.
StopLeavesFlag(h) ==
  /\ call[h].op = "stop" /\ StopPasses(h)
  /\ task' = NoTask
  /\ Return(h)
  /\ UNCHANGED <<running, cfg, completed, loopVars, told>>

\* The rest of stop().
StopReturns(h) ==
  /\ call[h].op = "stop" /\ StopPasses(h)
  /\ task' = NoTask /\ running' = FALSE
  /\ Return(h)
  /\ UNCHANGED <<cfg, completed, loopVars, told>>

\* The rest of stop() and of _start(), which does not suspend again.
StartReturns(h) ==
  /\ call[h].op = "start" /\ StopPasses(h)
  /\ \E t \in Task :
       /\ Fresh(t, h)
       /\ task' = t
       /\ loop' = [loop EXCEPT ![t] = "created"]
       /\ pings' = [pings EXCEPT ![t] = 0]
  /\ Configure(call[h].arg)
  /\ PublishStatus
  /\ Return(h)
  /\ UNCHANGED <<job, doomed, work>>

HandlerStep(h) == StopAwaits(h) \/ StopReturns(h) \/ StartReturns(h)

-------------------------------------------------------------------------------
(* Loop tasks: _loop().                                                    *)

\* Mutant: the loop ends without clearing _running.
FinallyKeepsFlag(t) ==
  /\ loop' = [loop EXCEPT ![t] = "done"]
  /\ job' = [job EXCEPT ![t] = AllTargets]
  /\ UNCHANGED running
  /\ PublishStatus

\* Mutant: the end of the loop is not published.
FinallySilent(t) ==
  /\ loop' = [loop EXCEPT ![t] = "done"]
  /\ job' = [job EXCEPT ![t] = AllTargets]
  /\ running' = FALSE
  /\ UNCHANGED told

\* The finally clause, and the end of the task.
Finally(t) ==
  /\ loop' = [loop EXCEPT ![t] = "done"]
  /\ job' = [job EXCEPT ![t] = AllTargets]
  /\ running' = FALSE
  /\ PublishStatus

\* First step: build the request from the service's attributes, hand the first
\* cycle to the executor.
LoopBegins(t) ==
  /\ loop[t] = "created" /\ t \notin doomed
  /\ loop' = [loop EXCEPT ![t] = "pinging"]
  /\ job' = [job EXCEPT ![t] = cfg.targets]
  /\ work' = [work EXCEPT ![t] = "queued"]
  /\ UNCHANGED <<serviceVars, doomed, pings, handlerVars, told>>

\* A task cancelled before its first step: CancelledError is raised ahead of
\* the try statement, so the finally clause does not run.
CancelledUnbegun(t) ==
  /\ loop[t] = "created" /\ t \in doomed
  /\ loop' = [loop EXCEPT ![t] = "done"]
  /\ doomed' = doomed \ {t}
  /\ UNCHANGED <<serviceVars, job, work, pings, handlerVars, told>>

\* Mutant: _loop() catches CancelledError and goes on.
CancelSwallowed(t) ==
  /\ Begun(t) /\ t \in doomed
  /\ doomed' = doomed \ {t}
  /\ work' = [work EXCEPT ![t] = "none"]
  /\ loop' = [loop EXCEPT ![t] = "sleeping"]
  /\ UNCHANGED <<serviceVars, job, pings, handlerVars, told>>

\* CancelledError raised at one of the two awaits.  A call still queued on the
\* executor is withdrawn; one that is running goes on, without an owner.
Cancelled(t) ==
  /\ Begun(t) /\ t \in doomed
  /\ doomed' = doomed \ {t}
  /\ work' = [work EXCEPT ![t] = IF @ = "running" THEN @ ELSE "none"]
  /\ Finally(t)
  /\ UNCHANGED <<task, cfg, completed, pings, handlerVars>>

\* The cycle's results arrive and are published; the loop ends or sleeps.
CycleEnds(t) ==
  /\ loop[t] = "pinging" /\ work[t] = "returned" /\ t \notin doomed
  /\ work' = [work EXCEPT ![t] = "none"]
  /\ completed' = Bump(completed)
  /\ pings' = [pings EXCEPT ![t] = Bump(@)]
  /\ \/ /\ CountReached(completed')
        /\ Finally(t)
     \/ /\ ~CountReached(completed')
        /\ loop' = [loop EXCEPT ![t] = "sleeping"]
        /\ UNCHANGED <<running, job, told>>
  /\ UNCHANGED <<task, cfg, doomed, handlerVars>>

\* execute() raised (a malformed target id, an SQLite error): the exception
\* leaves _loop() through the finally clause.
CycleRaises(t) ==
  /\ loop[t] = "pinging" /\ work[t] = "raised" /\ t \notin doomed
  /\ work' = [work EXCEPT ![t] = "none"]
  /\ Finally(t)
  /\ UNCHANGED <<task, cfg, completed, doomed, pings, handlerVars>>

NextCycle(t) ==
  /\ loop[t] = "woken" /\ t \notin doomed
  /\ loop' = [loop EXCEPT ![t] = "pinging"]
  /\ work' = [work EXCEPT ![t] = "queued"]
  /\ UNCHANGED <<serviceVars, job, doomed, pings, handlerVars, told>>

LoopStep(t) == \/ LoopBegins(t) \/ CancelledUnbegun(t) \/ Cancelled(t)
               \/ CycleEnds(t) \/ CycleRaises(t) \/ NextCycle(t)

-------------------------------------------------------------------------------
(* The surroundings of the coroutines: executor threads and timers.        *)

\* A free thread takes a queued cycle.
WorkerStarts(t) ==
  /\ work[t] = "queued"
  /\ Cardinality({u \in Task : work[u] = "running"}) < PoolSize
  /\ work' = [work EXCEPT ![t] = "running"]
  /\ UNCHANGED <<serviceVars, loop, job, doomed, pings, handlerVars, told>>

\* Mutant: a thread whose loop was cancelled never returns.
WorkerHangs(t) ==
  /\ work[t] = "running" /\ Live(t)
  /\ \E outcome \in {"returned", "raised"} : work' = [work EXCEPT ![t] = outcome]
  /\ UNCHANGED <<serviceVars, loop, job, doomed, pings, handlerVars, told>>

\* execute() returns or raises; the outcome is dropped if the task has ended.
WorkerEnds(t) ==
  /\ work[t] = "running"
  /\ \E outcome \in IF Live(t) THEN {"returned", "raised"} ELSE {"none"} :
       work' = [work EXCEPT ![t] = outcome]
  /\ UNCHANGED <<serviceVars, loop, job, doomed, pings, handlerVars, told>>

\* asyncio.sleep(self._interval_sec) is over.
TimerFires(t) ==
  /\ loop[t] = "sleeping"
  /\ loop' = [loop EXCEPT ![t] = "woken"]
  /\ UNCHANGED <<serviceVars, job, doomed, work, pings, handlerVars, told>>

Outside == \/ \E h \in Handler : Arrive(h)
           \/ \E t \in Task : WorkerStarts(t) \/ WorkerEnds(t) \/ TimerFires(t)

Next == \/ \E h \in Handler : HandlerStep(h)
        \/ \E t \in Task : LoopStep(t)
        \/ Outside

Spec == Init /\ [][Next]_vars

\* asyncio runs every ready callback and every expired timer; a cycle ends
\* because each ping subprocess is killed at overall_timeout.  Nothing obliges
\* a client to send a request.
Fairness ==
  /\ \A h \in Handler : WF_vars(HandlerStep(h))
  /\ \A t \in Task : /\ WF_vars(LoopStep(t))
                     /\ WF_vars(WorkerStarts(t)) /\ WF_vars(WorkerEnds(t))
                     /\ WF_vars(TimerFires(t))

FairSpec == Spec /\ Fairness

-------------------------------------------------------------------------------
(* Properties.                                                             *)

(* Each attribute and each actor's place in the code has its type; a task   *)
(* whose cancellation is pending is alive, and a handler in stop()'s await  *)
(* awaits a task.                                                           *)
TypeOK ==
  /\ task \in Task \cup {NoTask}
  /\ running \in BOOLEAN /\ told \in BOOLEAN
  /\ cfg \in Config
  /\ completed \in 0..CycleCap
  /\ loop \in [Task -> {"done", "created", "pinging", "sleeping", "woken"}]
  /\ job \in [Task -> Selection]
  /\ doomed \subseteq {t \in Task : Live(t)}
  /\ work \in [Task -> {"none", "queued", "running", "returned", "raised"}]
  /\ pc \in [Handler -> {"idle", "called", "waiting"}]
  /\ call \in [Handler -> Call]
  /\ on \in [Handler -> Task \cup {NoTask}]
  /\ \A h \in Handler : pc[h] = "waiting" <=> on[h] # NoTask
  /\ pings \in [Task -> 0..CycleCap]

(* However requests interleave: status() never reports running with no loop *)
(* alive, except while some handler whose stop() awaited the dead task has  *)
(* yet to clear _running.  What could break it is the loop cancelled before *)
(* its first step, which ends without its finally clause.                   *)
NoPhantomRunning ==
  running => \/ \E t \in Task : Live(t)
             \/ \E h \in Handler : pc[h] = "waiting" /\ ~Live(on[h])

(* However requests interleave: a pending cancellation always has a handler *)
(* awaiting it, so no loop is ever cancelled on behalf of nobody.           *)
DoomedAwaited ==
  \A t \in doomed : \E h \in Handler : pc[h] = "waiting" /\ on[h] = t

(* The class's promise, "only one runs at a time": two loops are never      *)
(* alive together.                                                          *)
SingleLoop == \A t, u \in Task : Live(t) /\ Live(u) => t = u

(* A live loop is the one self._task holds, so that stop() can reach it.    *)
Reachable == \A t \in Task : Live(t) => task = t

(* Between calls status() tells the truth: it reports running exactly when  *)
(* a loop is alive.                                                         *)
StatusTruthful ==
  (\A h \in Handler : pc[h] # "waiting") =>
     (running <=> \E t \in Task : Live(t))

(* The service's shared cycle counter counts the cycles of the live loop    *)
(* and of no other.                                                         *)
CounterOwned == \A t \in Task : Live(t) => completed = pings[t]

(* A live loop pings the targets that status() reports, although it reads   *)
(* the attribute at its first step and not when it is created.              *)
JobIsConfig == \A t \in Task : Begun(t) => job[t] = cfg.targets

(* A repeat schedule that ends by itself has run exactly `count` cycles.    *)
ExactCount ==
  [][\A t \in Task :
       Live(t) /\ ~Live(t)' /\ t \notin doomed /\ work[t] = "returned"
         => pings'[t] = cfg.max]_vars

(* A stop() that returns leaves no loop alive.                              *)
StopStops ==
  [][\A h \in Handler : StopReturns(h) => \A t \in Task : ~Live(t)']_vars

(* Whether a loop ends by itself or is cancelled, the subscribers are told  *)
(* that the schedule is no longer running.                                  *)
EndAnnounced == [][\A t \in Task : Live(t) /\ ~Live(t)' => ~told']_vars

(* What the subscribers were told last is what status() would say.          *)
StreamTruthful == told = running

(* A stop request is answered, whatever the loop it cancels is doing.       *)
StopAnswered ==
  \A h \in Handler :
    (pc[h] = "called" /\ call[h].op = "stop") ~> pc[h] = "idle"

(* A repeat schedule ends without being stopped.                            *)
RepeatEnds == \A t \in Task : (Live(t) /\ cfg.max # NoLimit) ~> ~Live(t)

(* A cycle waiting for an executor thread gets one: cycles that outlive     *)
(* their cancelled loops do not keep the pool occupied for good.            *)
QueuedCycleStarts == \A t \in Task : work[t] = "queued" ~> work[t] # "queued"
===============================================================================
