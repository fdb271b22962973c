-------------------------- MODULE PeriodicPingProofs --------------------------
(* Theorems about PeriodicPing, and at the end about PeriodicPingFifo, for every *)
(* value of their constants.                                                  *)
EXTENDS PeriodicPingFifo, FiniteSetTheorems, TLAPS

(* Whatever a request asks for, its argument is a configuration. *)
LEMMA CallArgument == ASSUME NEW c \in Call PROVE c.arg \in Config
BY ConstantsAssumption
   DEF Call, StopCall, StartPeriodic, StartRepeat, Config, Unset, NoLimit

(* A counter stays within its bound, and below the bound it is exact. *)
LEMMA BumpFacts ==
  ASSUME NEW n \in 0..CycleCap
  PROVE  Bump(n) \in 0..CycleCap /\ (n < CycleCap => Bump(n) = n + 1)
BY ConstantsAssumption DEF Bump

(* A schedule's limit is NoLimit or a positive number. *)
LEMMA LimitFacts ==
  ASSUME NEW c \in Config
  PROVE  c.max \in 0..CycleCap /\ (c.max # NoLimit => 0 < c.max)
<1>1. c.max \in Counts \cup {0}
  BY DEF Config, NoLimit
<1>2. c.max = 0 \/ c.max \in 1..CycleCap
  BY <1>1, ConstantsAssumption
<1>3. CycleCap \in Nat
  BY ConstantsAssumption
<1> QED BY <1>2, <1>3 DEF NoLimit

LEMMA InitTypeOK == Init => TypeOK
<1>1. StopCall \in Call
  BY DEF Call
<1>2. Unset \in Config /\ 0 \in 0..CycleCap
  BY ConstantsAssumption DEF Config, Unset
<1> SUFFICES ASSUME Init PROVE TypeOK
  OBVIOUS
<1>3. /\ call \in [Handler -> Call] /\ cfg \in Config
      /\ completed \in 0..CycleCap /\ pings \in [Task -> 0..CycleCap]
  BY <1>1, <1>2 DEF Init
<1>4. running \in BOOLEAN /\ told \in BOOLEAN /\ job \in [Task -> Selection]
  BY ConstantsAssumption DEF Init
<1>5. /\ doomed \subseteq {t \in Task : Live(t)}
      /\ \A h \in Handler : pc[h] = "waiting" <=> on[h] # NoTask
  BY DEF Init
<1> QED BY <1>3, <1>4, <1>5 DEF Init, TypeOK

(* One handler's step preserves the types. *)
LEMMA HandlerTypeOK ==
  ASSUME TypeOK, NEW h \in Handler, HandlerStep(h) PROVE TypeOK'
<1>1. CASE StopAwaits(h)
  BY <1>1, ConstantsAssumption DEF TypeOK, StopAwaits, TaskLive, Live, serviceVars
<1>2. CASE StopReturns(h)
  <2>1. StopCall \in Call
    BY DEF Call
  <2> QED BY <1>2, <2>1 DEF TypeOK, StopReturns, Return, Live, loopVars
<1>3. CASE StartReturns(h)
  <2>1. PICK t \in Task :
          /\ Fresh(t, h) /\ task' = t
          /\ loop' = [loop EXCEPT ![t] = "created"]
          /\ pings' = [pings EXCEPT ![t] = 0]
    BY <1>3 DEF StartReturns
  <2>2. cfg' \in Config /\ completed' = 0 /\ running' = TRUE
    BY <1>3, CallArgument DEF StartReturns, Configure, TypeOK
  <2>3. 0 \in 0..CycleCap
    BY ConstantsAssumption
  <2>4. doomed' \subseteq {u \in Task : Live(u)'}
    BY <1>3, <2>1 DEF TypeOK, StartReturns, Live
  <2>5. StopCall \in Call
    BY DEF Call
  <2> QED
    BY <1>3, <2>1, <2>2, <2>3, <2>4, <2>5
       DEF TypeOK, StartReturns, Return, PublishStatus
<1> QED BY <1>1, <1>2, <1>3 DEF HandlerStep

(* One loop's step preserves the types. *)
LEMMA LoopTypeOK ==
  ASSUME TypeOK, NEW t \in Task, LoopStep(t) PROVE TypeOK'
<1> USE DEF TypeOK, Live, serviceVars, handlerVars
<1>1. CASE LoopBegins(t)
  BY <1>1 DEF LoopBegins, Config
<1>2. CASE CancelledUnbegun(t)
  BY <1>2 DEF CancelledUnbegun
<1>3. CASE Cancelled(t)
  BY <1>3, ConstantsAssumption DEF Cancelled, Finally, PublishStatus
<1>4. CASE CycleEnds(t)
  <2>1. completed' \in 0..CycleCap /\ pings' \in [Task -> 0..CycleCap]
    BY <1>4, BumpFacts DEF CycleEnds
  <2>2. loop' \in [Task -> {"done", "created", "pinging", "sleeping", "woken"}]
    BY <1>4 DEF CycleEnds, Finally
  <2>3. doomed' \subseteq {u \in Task : Live(u)'}
    BY <1>4 DEF CycleEnds, Finally
  <2>4. /\ running' \in BOOLEAN /\ told' \in BOOLEAN
        /\ job' \in [Task -> Selection]
    <3>1. Finally(t) \/ UNCHANGED <<running, job, told>>
      BY <1>4 DEF CycleEnds
    <3>2. CASE Finally(t)
      BY <3>2, ConstantsAssumption DEF Finally, PublishStatus
    <3> QED BY <3>1, <3>2
  <2>5. /\ UNCHANGED <<task, cfg, pc, call, on>>
        /\ work' = [work EXCEPT ![t] = "none"]
    BY <1>4 DEF CycleEnds
  <2> QED BY <2>1, <2>2, <2>3, <2>4, <2>5
<1>5. CASE CycleRaises(t)
  BY <1>5, ConstantsAssumption DEF CycleRaises, Finally, PublishStatus
<1>6. CASE NextCycle(t)
  BY <1>6 DEF NextCycle
<1> QED BY <1>1, <1>2, <1>3, <1>4, <1>5, <1>6 DEF LoopStep

(* A step of the surroundings preserves the types. *)
LEMMA OutsideTypeOK == TypeOK /\ Outside => TypeOK'
<1> SUFFICES ASSUME TypeOK, Outside PROVE TypeOK'
  OBVIOUS
<1> USE DEF TypeOK, Live, serviceVars, handlerVars, loopVars
<1>1. ASSUME NEW h \in Handler, Arrive(h) PROVE TypeOK'
  BY <1>1 DEF Arrive
<1>2. ASSUME NEW t \in Task, WorkerStarts(t) PROVE TypeOK'
  BY <1>2 DEF WorkerStarts
<1>3. ASSUME NEW t \in Task, WorkerEnds(t) PROVE TypeOK'
  BY <1>3 DEF WorkerEnds
<1>4. ASSUME NEW t \in Task, TimerFires(t) PROVE TypeOK'
  BY <1>4 DEF TimerFires
<1> QED BY <1>1, <1>2, <1>3, <1>4 DEF Outside

LEMMA StutterTypeOK == TypeOK /\ UNCHANGED vars => TypeOK'
BY DEF TypeOK, Live, vars, serviceVars, loopVars, handlerVars

(* Every attribute keeps its type, a cancelled task is alive until the       *)
(* cancellation reaches it, and a handler in stop()'s await awaits a task.   *)
THEOREM TypeCorrect == Spec => []TypeOK
<1>1. TypeOK /\ [Next]_vars => TypeOK'
  BY HandlerTypeOK, LoopTypeOK, OutsideTypeOK, StutterTypeOK DEF Next
<1> QED BY InitTypeOK, <1>1, PTL DEF Spec

-------------------------------------------------------------------------------
(* Overlapping requests: what holds for any number of them.                *)

LEMMA InitOverlap == Init => DoomedAwaited /\ NoPhantomRunning
BY DEF Init, DoomedAwaited, NoPhantomRunning

(* The cancellation a handler asked for is awaited by that handler, and a    *)
(* handler leaves stop()'s await only when the task is done.                 *)
LEMMA DoomedAwaitedStep == TypeOK /\ DoomedAwaited /\ [Next]_vars => DoomedAwaited'
<1> SUFFICES ASSUME TypeOK, DoomedAwaited, [Next]_vars PROVE DoomedAwaited'
  OBVIOUS
<1> USE DEF TypeOK, DoomedAwaited
<1>1. ASSUME NEW h \in Handler, StopAwaits(h) PROVE DoomedAwaited'
  BY <1>1 DEF StopAwaits, TaskLive
<1>2. ASSUME NEW h \in Handler, StopReturns(h) \/ StartReturns(h) PROVE DoomedAwaited'
  <2>1. /\ Return(h) /\ StopPasses(h) /\ UNCHANGED doomed
    BY <1>2 DEF StopReturns, StartReturns, loopVars
  <2>2. ASSUME NEW t \in doomed PROVE on[h] # t
    BY <2>1, <2>2, ConstantsAssumption DEF StopPasses, Live
  <2> QED BY <2>1, <2>2 DEF Return
<1>3. ASSUME NEW t \in Task, LoopStep(t) PROVE DoomedAwaited'
  BY <1>3 DEF LoopStep, LoopBegins, CancelledUnbegun, Cancelled, CycleEnds,
              CycleRaises, NextCycle, handlerVars
<1>4. CASE Outside
  BY <1>4 DEF Outside, Arrive, WorkerStarts, WorkerEnds, TimerFires,
              handlerVars, loopVars
<1>5. CASE UNCHANGED vars
  BY <1>5 DEF vars, loopVars, handlerVars
<1> QED BY <1>1, <1>2, <1>3, <1>4, <1>5 DEF Next, HandlerStep

(* A loop ends either through its finally clause, which clears _running, or  *)
(* cancelled before its first step, and then somebody awaits it.             *)
LEMMA NoPhantomStep ==
  TypeOK /\ DoomedAwaited /\ NoPhantomRunning /\ [Next]_vars => NoPhantomRunning'
<1> SUFFICES ASSUME TypeOK, DoomedAwaited, NoPhantomRunning, [Next]_vars
             PROVE  NoPhantomRunning'
  OBVIOUS
<1> USE DEF TypeOK, NoPhantomRunning, Live
<1>1. ASSUME NEW h \in Handler, StopAwaits(h) PROVE NoPhantomRunning'
  BY <1>1 DEF StopAwaits, TaskLive
<1>2. ASSUME NEW h \in Handler, StopReturns(h) PROVE NoPhantomRunning'
  BY <1>2 DEF StopReturns
<1>3. ASSUME NEW h \in Handler, StartReturns(h) PROVE NoPhantomRunning'
  <2>1. PICK t \in Task : loop' = [loop EXCEPT ![t] = "created"]
    BY <1>3 DEF StartReturns
  <2> QED BY <2>1
<1>4. ASSUME NEW t \in Task, CancelledUnbegun(t) PROVE NoPhantomRunning'
  <2>1. PICK h \in Handler : pc[h] = "waiting" /\ on[h] = t
    BY <1>4 DEF CancelledUnbegun, DoomedAwaited
  <2> QED BY <1>4, <2>1 DEF CancelledUnbegun, handlerVars
<1>5. ASSUME NEW t \in Task, Finally(t) PROVE NoPhantomRunning'
  BY <1>5 DEF Finally
<1>6. ASSUME NEW t \in Task, loop[t] # "done", loop'[t] # "done" PROVE NoPhantomRunning'
  BY <1>6
<1>7. ASSUME NEW t \in Task, LoopStep(t) PROVE NoPhantomRunning'
  BY <1>4, <1>5, <1>6, <1>7
     DEF LoopStep, LoopBegins, Cancelled, CycleEnds, CycleRaises, NextCycle, Begun
<1>8. CASE Outside
  <2>1. ASSUME NEW h \in Handler, Arrive(h) PROVE NoPhantomRunning'
    BY <2>1 DEF Arrive, serviceVars, loopVars
  <2>2. ASSUME NEW t \in Task, WorkerStarts(t) \/ WorkerEnds(t) \/ TimerFires(t)
        PROVE  NoPhantomRunning'
    BY <2>2 DEF WorkerStarts, WorkerEnds, TimerFires, serviceVars, handlerVars
  <2> QED BY <1>8, <2>1, <2>2 DEF Outside
<1>9. CASE UNCHANGED vars
  BY <1>9 DEF vars, serviceVars, loopVars, handlerVars
<1> QED BY <1>1, <1>2, <1>3, <1>7, <1>8, <1>9 DEF Next, HandlerStep

LEMMA OverlapInvariance == Spec => [](DoomedAwaited /\ NoPhantomRunning)
<1> DEFINE IInv == TypeOK /\ DoomedAwaited /\ NoPhantomRunning
<1>1. Init => IInv
  BY InitTypeOK, InitOverlap
<1>2. TypeOK /\ [Next]_vars => TypeOK'
  BY HandlerTypeOK, LoopTypeOK, OutsideTypeOK, StutterTypeOK DEF Next
<1>3. IInv /\ [Next]_vars => IInv'
  BY <1>2, DoomedAwaitedStep, NoPhantomStep
<1>4. IInv => DoomedAwaited /\ NoPhantomRunning
  OBVIOUS
<1> HIDE DEF IInv
<1> QED BY <1>1, <1>3, <1>4, PTL DEF Spec

(* However many requests are in progress: `running` outlives the last loop     *)
(* only while a handler that awaited it is about to clear it.                *)
THEOREM OverlapSafe == Spec => []NoPhantomRunning
BY OverlapInvariance, PTL

(* However many requests are in progress: a cancellation that _loop() has not *)
(* met yet always has a handler awaiting it in stop().                       *)
THEOREM DoomedAwaitedSafe == Spec => []DoomedAwaited
BY OverlapInvariance, PTL

-------------------------------------------------------------------------------
(* One request at a time.                                                  *)

(* Clients wait for the answer to a request before they send the next one.   *)
SerialClients == \A g, h \in Handler : g = h

(* The inductive invariant.  The last three conjuncts are what the promised   *)
(* ones need: a handler can only be awaiting the loop self._task holds, a    *)
(* live loop has not been declared stopped, and a repeat loop that is alive  *)
(* has not reached its count.                                                *)
SerialInv ==
  /\ TypeOK
  /\ Reachable
  /\ CounterOwned
  /\ JobIsConfig
  /\ \A h \in Handler : pc[h] = "waiting" => on[h] = task
  /\ \A t \in Task : Live(t) => running
  /\ \A t \in Task : Live(t) /\ cfg.max # NoLimit => completed < cfg.max

LEMMA InitSerialInv == Init => SerialInv
BY InitTypeOK
   DEF Init, SerialInv, Reachable, CounterOwned, JobIsConfig, Live, Begun

(* When stop() runs on, no loop is alive. *)
LEMMA PassesWhenQuiet ==
  ASSUME SerialInv, NEW h \in Handler, StopPasses(h)
  PROVE  \A t \in Task : ~Live(t)
BY ConstantsAssumption DEF SerialInv, Reachable, StopPasses, TaskLive

LEMMA HandlerSerialInv ==
  ASSUME SerialClients, SerialInv, NEW h \in Handler, HandlerStep(h)
  PROVE  SerialInv'
<1> USE DEF SerialInv, TypeOK, Reachable, CounterOwned, JobIsConfig, Live, Begun
<1>1. TypeOK'
  BY HandlerTypeOK
<1>2. CASE StopAwaits(h)
  BY <1>1, <1>2 DEF StopAwaits, serviceVars, SerialClients
<1>3. CASE StopReturns(h)
  <2>1. \A t \in Task : ~Live(t)
    BY <1>3, PassesWhenQuiet DEF StopReturns
  <2>2. UNCHANGED loop /\ Return(h)
    BY <1>3 DEF StopReturns, loopVars
  <2> QED BY <1>1, <2>1, <2>2 DEF Return, SerialClients
<1>4. CASE StartReturns(h)
  <2>1. \A t \in Task : ~Live(t)
    BY <1>4, PassesWhenQuiet DEF StartReturns
  <2>2. PICK t \in Task :
          /\ task' = t
          /\ loop' = [loop EXCEPT ![t] = "created"]
          /\ pings' = [pings EXCEPT ![t] = 0]
    BY <1>4 DEF StartReturns
  <2>3. /\ Return(h) /\ cfg' = call[h].arg /\ completed' = 0 /\ running' = TRUE
    BY <1>4 DEF StartReturns, Configure
  <2>4. \A u \in Task : Live(u)' => u = t
    BY <2>1, <2>2
  <2>5. \A u \in Task : ~Begun(u)'
    BY <2>1, <2>2
  <2>6. cfg'.max # NoLimit => 0 < cfg'.max
    BY <1>1, LimitFacts
  <2> QED
    BY <1>1, <2>2, <2>3, <2>4, <2>5, <2>6 DEF Return, SerialClients
<1> QED BY <1>2, <1>3, <1>4 DEF HandlerStep

LEMMA LoopSerialInv ==
  ASSUME SerialInv, NEW t \in Task, LoopStep(t) PROVE SerialInv'
<1> USE DEF SerialInv, TypeOK, Reachable, CounterOwned, JobIsConfig, Live, Begun
<1>1. TypeOK'
  BY LoopTypeOK
<1>2. CASE LoopBegins(t)
  BY <1>1, <1>2 DEF LoopBegins, serviceVars, handlerVars
<1>3. CASE CancelledUnbegun(t)
  BY <1>1, <1>3 DEF CancelledUnbegun, serviceVars, handlerVars
<1>4. CASE Finally(t) /\ UNCHANGED <<task, handlerVars>>
  <2>1. \A u \in Task : Live(u) => u = t
    BY <1>4 DEF LoopStep, LoopBegins, CancelledUnbegun, Cancelled, CycleEnds,
                CycleRaises, NextCycle
  <2>2. \A u \in Task : ~Live(u)'
    BY <1>4, <2>1 DEF Finally
  <2> QED BY <1>1, <1>4, <2>2 DEF handlerVars
<1>5. CASE CycleEnds(t) /\ ~CountReached(completed')
  <2>1. loop' = [loop EXCEPT ![t] = "sleeping"] /\ UNCHANGED <<running, job>>
    BY <1>5 DEF CycleEnds, CountReached
  <2>2. /\ completed' = Bump(completed)
        /\ pings' = [pings EXCEPT ![t] = Bump(@)]
        /\ UNCHANGED <<task, cfg, handlerVars>>
    BY <1>5 DEF CycleEnds
  <2>3. Live(t) /\ loop[t] = "pinging"
    BY <1>5 DEF CycleEnds
  <2>4. cfg.max # NoLimit => completed' < cfg.max
    <3>1. cfg.max \in Nat
      BY LimitFacts, ConstantsAssumption
    <3>2. completed' \in Nat
      BY <1>1, ConstantsAssumption
    <3> QED BY <1>5, <3>1, <3>2 DEF CountReached
  <2> QED BY <1>1, <2>1, <2>2, <2>3, <2>4 DEF handlerVars
<1>6. CASE NextCycle(t)
  BY <1>1, <1>6 DEF NextCycle, serviceVars, handlerVars
<1> QED
  BY <1>2, <1>3, <1>4, <1>5, <1>6 DEF LoopStep, Cancelled, CycleEnds, CycleRaises

LEMMA OutsideSerialInv == SerialInv /\ Outside => SerialInv'
<1> SUFFICES ASSUME SerialInv, Outside PROVE SerialInv'
  OBVIOUS
<1> USE DEF SerialInv, TypeOK, Reachable, CounterOwned, JobIsConfig, Live, Begun,
            serviceVars, handlerVars, loopVars
<1>1. TypeOK'
  BY OutsideTypeOK
<1>2. ASSUME NEW h \in Handler, Arrive(h) PROVE SerialInv'
  BY <1>1, <1>2 DEF Arrive
<1>3. ASSUME NEW t \in Task, WorkerStarts(t) \/ WorkerEnds(t) PROVE SerialInv'
  BY <1>1, <1>3 DEF WorkerStarts, WorkerEnds
<1>4. ASSUME NEW t \in Task, TimerFires(t) PROVE SerialInv'
  BY <1>1, <1>4 DEF TimerFires
<1> QED BY <1>2, <1>3, <1>4 DEF Outside

LEMMA StutterSerialInv == SerialInv /\ UNCHANGED vars => SerialInv'
<1> SUFFICES ASSUME SerialInv, UNCHANGED vars PROVE SerialInv'
  OBVIOUS
<1>1. TypeOK'
  BY StutterTypeOK DEF SerialInv
<1> QED
  BY <1>1 DEF SerialInv, Reachable, CounterOwned, JobIsConfig, Live, Begun,
              vars, serviceVars, loopVars, handlerVars

LEMMA SerialInvariance == ASSUME SerialClients PROVE Spec => []SerialInv
<1>1. SerialInv /\ [Next]_vars => SerialInv'
  BY HandlerSerialInv, LoopSerialInv, OutsideSerialInv, StutterSerialInv DEF Next
<1> QED BY InitSerialInv, <1>1, PTL DEF Spec

(* With one request at a time, whatever the loop it meets is doing: the only *)
(* loop alive is the one stop() can reach, status() tells the truth between  *)
(* calls, and the counter it shows is that loop's own.                       *)
THEOREM SerialSafe ==
  ASSUME SerialClients PROVE Spec => [](Reachable /\ StatusTruthful /\ CounterOwned)
<1>1. SerialInv /\ NoPhantomRunning => Reachable /\ StatusTruthful /\ CounterOwned
  BY DEF SerialInv, NoPhantomRunning, StatusTruthful
<1> QED BY <1>1, SerialInvariance, OverlapSafe, PTL

(* A loop pings the targets of the schedule it was created for, which is the  *)
(* one status() shows, though it reads the attribute only at its first step. *)
THEOREM JobIsConfigSafe == ASSUME SerialClients PROVE Spec => []JobIsConfig
<1>1. SerialInv => JobIsConfig
  BY DEF SerialInv
<1> QED BY <1>1, SerialInvariance, PTL

(* A repeat loop that ends by itself has sent exactly `count` cycles: the    *)
(* counter was below the limit before its last cycle and counts its cycles   *)
(* only.                                                                     *)
THEOREM RepeatExact == ASSUME SerialClients PROVE Spec => ExactCount
<1> DEFINE Exact == \A t \in Task :
                      Live(t) /\ ~Live(t)' /\ t \notin doomed /\ work[t] = "returned"
                        => pings'[t] = cfg.max
<1>1. SerialInv /\ Next => Exact
  <2> SUFFICES ASSUME SerialInv, Next, NEW t \in Task,
                      Live(t), ~Live(t)', t \notin doomed, work[t] = "returned"
               PROVE  pings'[t] = cfg.max
    OBVIOUS
  <2>1. loop \in [Task -> {"done", "created", "pinging", "sleeping", "woken"}]
    BY DEF SerialInv, TypeOK
  <2>2. ASSUME NEW h \in Handler, HandlerStep(h) PROVE FALSE
    BY <2>1, <2>2
       DEF HandlerStep, StopAwaits, StopReturns, StartReturns, loopVars, Live
  <2>3. CASE Outside
    BY <2>1, <2>3
       DEF Outside, Arrive, WorkerStarts, WorkerEnds, TimerFires, loopVars, Live
  <2>4. CASE CycleEnds(t)
    <3>1. Finally(t) /\ CountReached(completed')
      BY <2>1, <2>4 DEF CycleEnds, Live
    <3>2. /\ completed \in 0..CycleCap /\ completed < cfg.max
          /\ completed = pings[t] /\ pings \in [Task -> 0..CycleCap]
      BY <3>1 DEF SerialInv, TypeOK, CounterOwned, CountReached
    <3>3. cfg.max \in 0..CycleCap
      BY LimitFacts DEF SerialInv, TypeOK
    <3>4. completed' = completed + 1 /\ pings'[t] = completed + 1
      BY <2>4, <3>2, <3>3, ConstantsAssumption DEF CycleEnds, Bump
    <3> QED BY <3>1, <3>2, <3>3, <3>4, ConstantsAssumption DEF CountReached
  <2>5. ASSUME NEW u \in Task, LoopStep(u), ~CycleEnds(t) PROVE FALSE
    <3>1. u = t
      BY <2>1, <2>5 DEF LoopStep, LoopBegins, CancelledUnbegun, Cancelled,
                        CycleEnds, CycleRaises, NextCycle, Finally, Live
    <3> QED
      BY <2>1, <2>5, <3>1 DEF LoopStep, LoopBegins, CancelledUnbegun, Cancelled,
                              CycleRaises, NextCycle, Live
  <2> QED BY <2>2, <2>3, <2>4, <2>5 DEF Next
<1>2. SerialInv /\ [Next]_vars => [Exact]_vars
  BY <1>1
<1> HIDE DEF Exact
<1>3. Spec => [][Exact]_vars
  BY <1>2, SerialInvariance, PTL DEF Spec
<1> QED BY <1>3 DEF ExactCount, Exact

(* stop() returns to a client only when no loop is alive. *)
THEOREM StopEffective == ASSUME SerialClients PROVE Spec => StopStops
<1> DEFINE Stops == \A h \in Handler : StopReturns(h) => \A t \in Task : ~Live(t)'
<1>1. SerialInv => Stops
  <2> SUFFICES ASSUME SerialInv, NEW h \in Handler, StopReturns(h), NEW t \in Task
               PROVE  ~Live(t)'
    OBVIOUS
  <2>1. ~Live(t)
    BY PassesWhenQuiet DEF StopReturns
  <2> QED BY <2>1 DEF StopReturns, loopVars, Live
<1>2. SerialInv /\ [Next]_vars => [Stops]_vars
  BY <1>1
<1> HIDE DEF Stops
<1>3. Spec => [][Stops]_vars
  BY <1>2, SerialInvariance, PTL DEF Spec
<1> QED BY <1>3 DEF StopStops, Stops

-------------------------------------------------------------------------------
(* The service implements its contract.                                    *)

LEMMA ContractInit == Init => Contract!Init
BY DEF Init, Contract!Init, Busy, Live

(* Steps that leave the live loops, their configuration and their count alone *)
(* are invisible to clients.                                                  *)
LEMMA Invisible ==
  ASSUME UNCHANGED <<cfg, completed>>, \A t \in Task : Live(t)' <=> Live(t)
  PROVE  UNCHANGED Contract!vars
BY DEF Contract!vars, Busy

LEMMA HandlerContract ==
  ASSUME SerialInv, NEW h \in Handler, HandlerStep(h)
  PROVE  [Contract!Next]_(Contract!vars)
<1>1. CASE StopAwaits(h) \/ StopReturns(h)
  BY <1>1, Invisible DEF StopAwaits, StopReturns, loopVars, serviceVars, Live
<1>2. CASE StartReturns(h)
  <2>1. ~Busy
    BY <1>2, PassesWhenQuiet DEF StartReturns, Busy
  <2>2. PICK t \in Task : loop' = [loop EXCEPT ![t] = "created"]
    BY <1>2 DEF StartReturns
  <2>3. Busy'
    BY <2>2 DEF Busy, Live, SerialInv, TypeOK
  <2>4. cfg' \in Config /\ completed' = 0
    BY <1>2, CallArgument DEF StartReturns, Configure, SerialInv, TypeOK
  <2>5. Contract!Start(cfg')
    BY <2>1, <2>3, <2>4 DEF Contract!Start
  <2> QED BY <2>4, <2>5 DEF Contract!Next
<1> QED BY <1>1, <1>2 DEF HandlerStep

LEMMA LoopContract ==
  ASSUME SerialInv, NEW t \in Task, LoopStep(t)
  PROVE  [Contract!Next]_(Contract!vars)
<1>1. loop \in [Task -> {"done", "created", "pinging", "sleeping", "woken"}]
  BY DEF SerialInv, TypeOK
<1>2. Live(t) /\ Busy
  BY DEF LoopStep, LoopBegins, CancelledUnbegun, Cancelled, CycleEnds,
         CycleRaises, NextCycle, Begun, Live, Busy
<1>3. cfg \in Config /\ cfg # NoSchedule
  BY NoScheduleAssumption DEF SerialInv, TypeOK
<1>4. /\ cfg.max \in 0..CycleCap /\ completed \in 0..CycleCap /\ CycleCap \in Nat
      /\ cfg.max # NoLimit => completed < cfg.max
  BY <1>2, <1>3, LimitFacts, ConstantsAssumption DEF SerialInv, TypeOK
<1>5. ASSUME loop' = [loop EXCEPT ![t] = "done"] PROVE ~Busy'
  BY <1>1, <1>5, <1>2 DEF SerialInv, Reachable, Busy, Live
<1>6. CASE LoopBegins(t) \/ NextCycle(t)
  BY <1>1, <1>6, Invisible DEF LoopBegins, NextCycle, serviceVars, Live
<1>7. CASE CancelledUnbegun(t) \/ Cancelled(t) \/ CycleRaises(t)
  <2>1. ~Busy'
    BY <1>5, <1>7 DEF CancelledUnbegun, Cancelled, CycleRaises, Finally
  <2>2. Contract!Halt
    BY <1>2, <1>3, <2>1 DEF Contract!Halt
  <2> QED BY <2>2 DEF Contract!Next
<1>8. CASE CycleEnds(t) /\ CountReached(completed')
  <2>1. ~Busy'
    BY <1>5, <1>8 DEF CycleEnds, Finally
  <2>2. cfg.max # NoLimit /\ completed + 1 = cfg.max
    BY <1>4, <1>8 DEF CycleEnds, CountReached, Bump
  <2>3. Contract!Finish
    BY <1>2, <1>3, <2>1, <2>2 DEF Contract!Finish, NoLimit
  <2> QED BY <2>3 DEF Contract!Next
<1>9. CASE CycleEnds(t) /\ ~CountReached(completed')
  <2>1. loop' = [loop EXCEPT ![t] = "sleeping"] /\ UNCHANGED cfg
    BY <1>9 DEF CycleEnds, CountReached
  <2>2. Busy'
    BY <1>1, <2>1 DEF Busy, Live
  <2>3. /\ completed' = IF completed < CycleCap THEN completed + 1 ELSE completed
        /\ cfg.max # NoLimit => completed + 1 < cfg.max
    BY <1>4, <1>9 DEF CycleEnds, CountReached, Bump
  <2>4. Contract!Send
    BY <1>2, <1>3, <2>1, <2>2, <2>3 DEF Contract!Send, NoLimit
  <2> QED BY <2>4 DEF Contract!Next
<1> QED BY <1>6, <1>7, <1>8, <1>9 DEF LoopStep

LEMMA OutsideContract == TypeOK /\ Outside => UNCHANGED Contract!vars
<1> SUFFICES ASSUME TypeOK, Outside PROVE UNCHANGED Contract!vars
  OBVIOUS
<1>1. UNCHANGED <<cfg, completed>> /\ \A t \in Task : Live(t)' <=> Live(t)
  BY DEF TypeOK, Outside, Arrive, WorkerStarts, WorkerEnds, TimerFires,
         loopVars, serviceVars, Live
<1> QED BY <1>1, Invisible

(* The tasks, the threads and the suspension points of the service are       *)
(* invisible to clients that wait for their answers: it implements           *)
(* PingSchedule.                                                             *)
THEOREM Implements == ASSUME SerialClients PROVE Spec => ContractSpec
<1>1. SerialInv /\ [Next]_vars => [Contract!Next]_(Contract!vars)
  <2>1. UNCHANGED vars => UNCHANGED Contract!vars
    BY Invisible DEF vars, serviceVars, loopVars, Live
  <2> QED
    BY <2>1, HandlerContract, LoopContract, OutsideContract DEF Next, SerialInv
<1> QED
  BY <1>1, ContractInit, SerialInvariance, PTL DEF Spec, ContractSpec, Contract!Spec

-------------------------------------------------------------------------------
(* The service implements what is promised to overlapping requests.        *)

LEMMA RequestsInit == Init => Requests!Init
BY DEF Init, Requests!Init, Stage, Begun, StopCall

LEMMA StageFacts ==
  ASSUME TypeOK, NEW t \in Task
  PROVE  /\ Stage[t] = "done" <=> ~Live(t)
         /\ Stage[t] = "begun" <=> Begun(t)
         /\ Stage[t] = "created" <=> loop[t] = "created" /\ t \notin doomed
         /\ Stage[t] = "cancelled" <=> loop[t] = "created" /\ t \in doomed
BY DEF TypeOK, Stage, Live, Begun

(* A step that changes where one task stands, as ScheduleRequests sees it.   *)
LEMMA StageStep ==
  ASSUME TypeOK, TypeOK', NEW t \in Task, NEW place,
         \A u \in Task \ {t} : loop'[u] = loop[u] /\ (u \in doomed' <=> u \in doomed),
         \/ place = "done" /\ loop'[t] = "done"
         \/ place = "begun" /\ loop'[t] \in {"pinging", "sleeping", "woken"}
         \/ place = "created" /\ loop'[t] = "created" /\ t \notin doomed'
         \/ place = "cancelled" /\ loop'[t] = "created" /\ t \in doomed'
  PROVE  Stage' = [Stage EXCEPT ![t] = place]
<1>1. loop'[t] = "done" => t \notin doomed'
  BY DEF TypeOK, Live
<1>2. ASSUME NEW u \in Task PROVE Stage'[u] = [Stage EXCEPT ![t] = place][u]
  BY <1>1, <1>2 DEF Stage, Begun
<1> QED BY <1>2 DEF Stage

(* A step that changes none.                                                 *)
LEMMA StageStill ==
  ASSUME TypeOK, TypeOK',
         \A t \in Task : /\ loop'[t] = loop[t] \/ (Begun(t) /\ Begun(t)')
                         /\ t \in doomed' <=> t \in doomed
  PROVE  Stage' = Stage
<1>1. ASSUME NEW t \in Task PROVE Stage'[t] = Stage[t]
  BY <1>1 DEF Stage, Begun
<1> QED BY <1>1 DEF Stage

LEMMA HandlerRequests ==
  ASSUME TypeOK, TypeOK', NEW h \in Handler, HandlerStep(h)
  PROVE  Requests!Next
<1> USE DEF TypeOK
<1>1. \A t \in Task : Live(t) <=> Requests!Live(t)
  BY StageFacts DEF Requests!Live
<1>2. StopPasses(h) => Requests!StopPasses(h)
  BY <1>1 DEF StopPasses, TaskLive, Requests!StopPasses
<1>3. Return(h) => Requests!Return(h)
  <2> SUFFICES ASSUME Return(h) PROVE Requests!Return(h)
    OBVIOUS
  <2> DEFINE asked == [g \in Handler |-> IF call[g].op = "start" THEN call[g].arg ELSE NoSchedule]
  <2>1. call' = [call EXCEPT ![h] = StopCall] /\ StopCall.op = "stop"
    BY DEF Return, StopCall
  <2>2. asked' = [asked EXCEPT ![h] = NoSchedule]
    BY <2>1
  <2> QED BY <2>2 DEF Return, Requests!Return
<1>4. CASE StopAwaits(h)
  <2>1. task \in Task /\ Live(task)
    BY <1>4 DEF StopAwaits, TaskLive
  <2>2. Stage' = [Stage EXCEPT ![task] = IF @ = "created" THEN "cancelled" ELSE @]
    <3>1. CASE loop[task] = "created"
      <4>1. Stage' = [Stage EXCEPT ![task] = "cancelled"]
        BY <1>4, <2>1, <3>1, StageStep DEF StopAwaits
      <4> QED BY <2>1, <3>1, <4>1, StageFacts DEF Stage
    <3>2. CASE loop[task] # "created"
      <4>1. Begun(task)
        BY <2>1, <3>2 DEF Live, Begun
      <4>2. Stage' = [Stage EXCEPT ![task] = "begun"]
        BY <1>4, <2>1, <4>1, StageStep DEF StopAwaits, Begun
      <4> QED BY <2>1, <4>1, <4>2, StageFacts DEF Stage
    <3> QED BY <3>1, <3>2
  <2>3. Requests!StopAwaits(h)
    BY <1>1, <1>4, <2>1, <2>2 DEF StopAwaits, TaskLive, serviceVars, Requests!StopAwaits
  <2> QED BY <2>3 DEF Requests!Next
<1>5. CASE StopReturns(h)
  <2>1. Stage' = Stage
    BY <1>5, StageStill DEF StopReturns, loopVars
  <2>2. Requests!Stops(h)
    BY <1>2, <1>3, <1>5, <2>1 DEF StopReturns, Requests!Stops
  <2> QED BY <2>2 DEF Requests!Next
<1>6. CASE StartReturns(h)
  <2>1. PICK t \in Task : /\ Fresh(t, h) /\ task' = t
                          /\ loop' = [loop EXCEPT ![t] = "created"]
    BY <1>6 DEF StartReturns
  <2>2. t \notin doomed /\ UNCHANGED doomed
    BY <1>6, <2>1 DEF StartReturns, Fresh
  <2>3. Stage' = [Stage EXCEPT ![t] = "created"]
    <3>1. /\ loop'[t] = "created" /\ t \notin doomed'
          /\ \A u \in Task \ {t} : loop'[u] = loop[u]
      BY <2>1, <2>2
    <3> QED BY <2>2, <3>1, StageStep
  <2>4. call[h].op = "start" /\ call[h].arg \in Config /\ call[h].arg # NoSchedule
    BY <1>6, CallArgument, NoScheduleAssumption DEF StartReturns
  <2>5. cfg' = call[h].arg /\ running' = TRUE /\ told' = TRUE
    BY <1>6 DEF StartReturns, Configure, PublishStatus
  <2>6. Requests!Publishes
    BY <2>4, <2>5 DEF Requests!Publishes
  <2>7. ~Requests!Live(t) /\ \A g \in Handler \ {h} : on[g] # t
    BY <1>1, <2>1 DEF Fresh
  <2>8. Requests!Starts(h)
    BY <1>2, <1>3, <1>6, <2>1, <2>3, <2>4, <2>5, <2>6, <2>7
       DEF StartReturns, Requests!Starts
  <2> QED BY <2>8 DEF Requests!Next
<1> QED BY <1>4, <1>5, <1>6 DEF HandlerStep

LEMMA LoopRequests ==
  ASSUME TypeOK, TypeOK', NEW t \in Task, LoopStep(t)
  PROVE  [Requests!Next]_(Requests!vars)
<1> USE DEF TypeOK
<1>1. ASSUME LoopBegins(t) PROVE Requests!Begins(t)
  <2>1. Stage' = [Stage EXCEPT ![t] = "begun"]
    BY <1>1, StageStep DEF LoopBegins
  <2>2. Stage[t] = "created"
    BY <1>1, StageFacts DEF LoopBegins
  <2> QED BY <1>1, <2>1, <2>2 DEF LoopBegins, serviceVars, handlerVars, Requests!Begins
<1>2. ASSUME CancelledUnbegun(t) PROVE Requests!Withdraws(t)
  <2>1. Stage' = [Stage EXCEPT ![t] = "done"]
    BY <1>2, StageStep DEF CancelledUnbegun
  <2>2. Stage[t] = "cancelled"
    BY <1>2, StageFacts DEF CancelledUnbegun
  <2> QED BY <1>2, <2>1, <2>2
          DEF CancelledUnbegun, serviceVars, handlerVars, Requests!Withdraws
<1>3. ASSUME Begun(t), Finally(t), doomed' = doomed \ {t}, UNCHANGED <<task, handlerVars>>
      PROVE  Requests!Ends(t)
  <2>1. Stage' = [Stage EXCEPT ![t] = "done"]
    BY <1>3, StageStep DEF Finally
  <2>2. Stage[t] = "begun"
    BY <1>3, StageFacts
  <2>3. running' = FALSE /\ told' = FALSE
    BY <1>3 DEF Finally, PublishStatus
  <2> QED BY <1>3, <2>1, <2>2, <2>3 DEF handlerVars, Requests!Ends, Requests!Publishes
<1>4. CASE Cancelled(t)
  BY <1>3, <1>4 DEF Cancelled, handlerVars, Requests!Next
<1>5. CASE CycleRaises(t)
  BY <1>3, <1>5 DEF CycleRaises, Begun, handlerVars, Requests!Next
<1>6. CASE CycleEnds(t) /\ Finally(t)
  BY <1>3, <1>6 DEF CycleEnds, Begun, handlerVars, Requests!Next
<1>7. CASE CycleEnds(t) /\ ~Finally(t)
  <2>1. loop' = [loop EXCEPT ![t] = "sleeping"] /\ UNCHANGED <<running, told>>
    BY <1>7 DEF CycleEnds
  <2>2. Stage' = Stage
    BY <1>7, <2>1, StageStill DEF CycleEnds, Begun
  <2> QED BY <1>7, <2>1, <2>2 DEF CycleEnds, handlerVars, Requests!vars
<1>8. CASE NextCycle(t)
  <2>1. Stage' = Stage
    BY <1>8, StageStill DEF NextCycle, Begun
  <2> QED BY <1>8, <2>1 DEF NextCycle, serviceVars, handlerVars, Requests!vars
<1> QED BY <1>1, <1>2, <1>4, <1>5, <1>6, <1>7, <1>8 DEF LoopStep, Requests!Next

LEMMA OutsideRequests ==
  ASSUME TypeOK, TypeOK', Outside
  PROVE  [Requests!Next]_(Requests!vars)
<1> USE DEF TypeOK
<1>1. ASSUME NEW h \in Handler, Arrive(h) PROVE Requests!Next
  <2>1. PICK c \in Call : call' = [call EXCEPT ![h] = c]
    BY <1>1 DEF Arrive
  <2> DEFINE s == IF c.op = "start" THEN c.arg ELSE NoSchedule
  <2>2. s \in Config \cup {NoSchedule}
    BY CallArgument
  <2>3. Stage' = Stage
    BY <1>1, StageStill DEF Arrive, loopVars
  <2> DEFINE asked == [g \in Handler |-> IF call[g].op = "start" THEN call[g].arg ELSE NoSchedule]
  <2>4. asked' = [asked EXCEPT ![h] = s]
    BY <2>1
  <2>5. pc[h] = "idle" /\ pc' = [pc EXCEPT ![h] = "called"] /\ UNCHANGED <<task, running, told, cfg, on>>
    BY <1>1 DEF Arrive, serviceVars
  <2>6. Requests!Arrives(h, s)
    BY ONLY <2>3, <2>4, <2>5 DEF Requests!Arrives
  <2> QED BY <2>2, <2>6 DEF Requests!Next
<1>2. ASSUME NEW t \in Task, WorkerStarts(t) \/ WorkerEnds(t) \/ TimerFires(t)
      PROVE  UNCHANGED Requests!vars
  <2>1. Stage' = Stage
    BY <1>2, StageStill DEF WorkerStarts, WorkerEnds, TimerFires, Begun
  <2> QED BY <1>2, <2>1
          DEF WorkerStarts, WorkerEnds, TimerFires, serviceVars, handlerVars, Requests!vars
<1> QED BY <1>1, <1>2 DEF Outside

(* For any number of overlapping requests, and whatever order they and the   *)
(* loops are resumed in: what status() reports, what was published last and  *)
(* which loops are alive is what ScheduleRequests allows.                    *)
THEOREM ImplementsRequests == Spec => RequestsSpec
<1>1. TypeOK /\ TypeOK' /\ [Next]_vars => [Requests!Next]_(Requests!vars)
  <2> SUFFICES ASSUME TypeOK, TypeOK', [Next]_vars
               PROVE  [Requests!Next]_(Requests!vars)
    OBVIOUS
  <2>1. CASE UNCHANGED vars
    <3>1. Stage' = Stage
      BY <2>1, StageStill DEF vars, loopVars
    <3> QED BY <2>1, <3>1 DEF vars, serviceVars, handlerVars, Requests!vars
  <2> QED BY <2>1, HandlerRequests, LoopRequests, OutsideRequests DEF Next
<1> QED
  BY <1>1, RequestsInit, TypeCorrect, PTL DEF Spec, RequestsSpec, Requests!Spec

-------------------------------------------------------------------------------
(* The order of asyncio's queue.                                           *)

(* The event loop's order is one of those PeriodicPing allows. *)
THEOREM FifoIsPeriodicPing == FifoSpec => Spec
<1>1. FifoInit => Init
  BY DEF FifoInit
<1>2. [FifoNext]_fifoVars => [Next]_vars
  BY DEF FifoNext, fifoVars, RunHead, Interrupt, Next
<1> QED BY <1>1, <1>2, PTL DEF FifoSpec, Spec

-------------------------------------------------------------------------------
(* The ready queue.                                                        *)

NoTwice(q) == \A i, j \in 1..Len(q) : q[i] = q[j] => i = j

QueueOK == ready \in Seq(Actor) /\ NoTwice(ready)

(* An order of finitely many callbacks names each of them once. *)
LEMMA OrdersFacts ==
  ASSUME NEW S \in SUBSET Actor, NEW new \in Orders(S)
  PROVE  /\ new \in Seq(Actor) /\ NoTwice(new)
         /\ \A i \in 1..Len(new) : new[i] \in S
         /\ \A a \in S : \E i \in 1..Len(new) : new[i] = a
<1> DEFINE n == Cardinality(S)
<1>1. IsFiniteSet(Actor)
  BY FifoAssumption, FS_Union DEF Actor
<1>2. IsFiniteSet(S) /\ n \in Nat
  BY <1>1, FS_Subset, FS_CardinalityType
<1>3. new \in [1..n -> S] /\ \A a \in S : \E i \in 1..n : new[i] = a
  BY DEF Orders
<1>4. IsFiniteSet(1..n) /\ Cardinality(1..n) = n
  <2>1. 1 \in Int /\ n \in Int
    BY <1>2
  <2> QED BY <1>2, <2>1, FS_Interval
<1>5. new \in Surjection(1..n, S)
  BY <1>3 DEF Surjection
<1>6. new \in Injection(1..n, S)
  BY <1>4, <1>5, FS_Surjection
<1>7. new \in Seq(Actor) /\ Len(new) = n
  BY <1>2, <1>3
<1>8. NoTwice(new)
  BY <1>6, <1>7 DEF Injection, IsInjective, NoTwice
<1> QED BY <1>3, <1>7, <1>8

(* The queue keeps what it holds of the queue before, in its order, and gains  *)
(* behind it what has become runnable.                                        *)
LEMMA EnqueuedFacts ==
  ASSUME NEW rest \in Seq(Actor), NoTwice(rest), Enqueued(rest)
  PROVE  /\ QueueOK'
         /\ \A i \in 1..Len(rest) : i \in 1..Len(ready') /\ ready'[i] = rest[i]
         /\ \A i \in 1..Len(ready') : i \notin 1..Len(rest) => ready'[i] \in Runnable'
         /\ \A a \in Runnable' : \E i \in 1..Len(ready') : ready'[i] = a
<1> DEFINE old == {rest[i] : i \in DOMAIN rest}
           S == Runnable' \ old
<1>1. PICK new \in Orders(S) : ready' = rest \o new
  BY DEF Enqueued
<1>2. S \in SUBSET Actor
  BY DEF Runnable, Actor
<1>3. /\ new \in Seq(Actor) /\ NoTwice(new)
      /\ \A i \in 1..Len(new) : new[i] \in S
      /\ \A a \in S : \E i \in 1..Len(new) : new[i] = a
  BY <1>2, OrdersFacts
<1>4. /\ ready' \in Seq(Actor) /\ Len(ready') = Len(rest) + Len(new)
      /\ Len(rest) \in Nat /\ Len(new) \in Nat
      /\ \A i \in 1..Len(rest) : ready'[i] = rest[i]
  BY <1>1, <1>3
<1>5. \A i \in 1..Len(ready') : i \notin 1..Len(rest)
        => i - Len(rest) \in 1..Len(new) /\ ready'[i] = new[i - Len(rest)]
  BY <1>1, <1>3, <1>4
<1>6. \A i \in 1..Len(rest) : rest[i] \in old
  OBVIOUS
<1>7. NoTwice(ready')
  <2> SUFFICES ASSUME NEW i \in 1..Len(ready'), NEW j \in 1..Len(ready'),
                      ready'[i] = ready'[j]
               PROVE  i = j
    BY DEF NoTwice
  <2>1. CASE i \in 1..Len(rest) /\ j \in 1..Len(rest)
    BY <1>4, <2>1 DEF NoTwice
  <2>2. CASE i \notin 1..Len(rest) /\ j \notin 1..Len(rest)
    BY <1>3, <1>4, <1>5, <2>2 DEF NoTwice
  <2>3. CASE i \in 1..Len(rest) /\ j \notin 1..Len(rest)
    <3>1. ready'[i] \in old /\ ready'[j] \notin old
      BY <1>3, <1>4, <1>5, <1>6, <2>3
    <3> QED BY <3>1
  <2>4. CASE i \notin 1..Len(rest) /\ j \in 1..Len(rest)
    <3>1. ready'[i] \notin old /\ ready'[j] \in old
      BY <1>3, <1>4, <1>5, <1>6, <2>4
    <3> QED BY <3>1
  <2> QED BY <2>1, <2>2, <2>3, <2>4
<1>8. ASSUME NEW a \in Runnable' PROVE \E i \in 1..Len(ready') : ready'[i] = a
  <2>1. CASE a \in old
    BY <1>4, <2>1
  <2>2. CASE a \notin old
    <3>1. PICK i \in 1..Len(new) : new[i] = a
      BY <1>3, <2>2
    <3>2. Len(rest) + i \in 1..Len(ready') /\ ready'[Len(rest) + i] = new[i]
      BY <1>1, <1>3, <1>4, <3>1
    <3> QED BY <3>1, <3>2
  <2> QED BY <2>1, <2>2
<1>9. QueueOK'
  BY <1>4, <1>7 DEF QueueOK, NoTwice
<1>10. \A i \in 1..Len(rest) : i \in 1..Len(ready') /\ ready'[i] = rest[i]
  <2> HIDE DEF old, S
  <2> QED BY <1>4
<1>11. \A i \in 1..Len(ready') : i \notin 1..Len(rest) => ready'[i] \in Runnable'
  <2> SUFFICES ASSUME NEW i \in 1..Len(ready'), i \notin 1..Len(rest)
               PROVE  ready'[i] \in S
    OBVIOUS
  <2>1. i - Len(rest) \in 1..Len(new) /\ ready'[i] = new[i - Len(rest)]
    BY <1>5
  <2> QED BY <1>3, <2>1
<1> QED BY <1>8, <1>9, <1>10, <1>11

-------------------------------------------------------------------------------
(* One request at a time, first in, first out.                             *)

(* A loop that has not made its first step is in the queue, with no handler    *)
(* ahead of it that could cancel it before.                                   *)
FirstStepAhead ==
  \A t \in Task : loop[t] = "created" =>
    /\ t \notin doomed
    /\ \E i \in 1..Len(ready) : ready[i] = t /\ \A j \in 1..i : ready[j] \notin Handler

(* The clients were told what status() says, and it says so of a loop alive. *)
Told == told = running /\ (running => \E t \in Task : Live(t))

FifoInv == SerialInv /\ QueueOK /\ FirstStepAhead /\ Told

LEMMA InitFifoInv == FifoInit => FifoInv
<1> SUFFICES ASSUME FifoInit PROVE FifoInv
  OBVIOUS
<1>1. SerialInv
  BY InitSerialInv DEF FifoInit
<1>2. QueueOK
  BY DEF FifoInit, QueueOK, NoTwice
<1>3. FirstStepAhead /\ Told
  BY DEF FifoInit, Init, FirstStepAhead, Told
<1> QED BY <1>1, <1>2, <1>3 DEF FifoInv

(* No loop is cancelled before its first step. *)
LEMMA NeverUnbegun == ASSUME FifoInv, NEW t \in Task PROVE ~CancelledUnbegun(t)
BY DEF FifoInv, FirstStepAhead, CancelledUnbegun

LEMMA TailFacts ==
  ASSUME QueueOK, ready # <<>>
  PROVE  /\ Tail(ready) \in Seq(Actor) /\ NoTwice(Tail(ready))
         /\ Head(ready) = ready[1] /\ 1 \in 1..Len(ready)
         /\ Len(Tail(ready)) = Len(ready) - 1
         /\ \A i \in 1..Len(Tail(ready)) : i + 1 \in 1..Len(ready)
                                           /\ Tail(ready)[i] = ready[i + 1]
         /\ \A i \in 1..Len(Tail(ready)) : Tail(ready)[i] # ready[1]
<1>1. ready \in Seq(Actor) /\ NoTwice(ready)
  BY DEF QueueOK
<1>2. /\ Tail(ready) \in Seq(Actor)
      /\ Head(ready) = ready[1] /\ 1 \in 1..Len(ready)
      /\ Len(Tail(ready)) = Len(ready) - 1
      /\ \A i \in 1..Len(Tail(ready)) : i + 1 \in 1..Len(ready)
                                        /\ Tail(ready)[i] = ready[i + 1]
  BY <1>1
<1>3. NoTwice(Tail(ready))
  BY <1>1, <1>2 DEF NoTwice
<1>4. \A i \in 1..Len(Tail(ready)) : Tail(ready)[i] # ready[1]
  BY <1>1, <1>2 DEF NoTwice
<1> QED BY <1>2, <1>3, <1>4

LEMMA InterruptFifoInv ==
  ASSUME FifoInv, SerialInv', Interrupt PROVE FifoInv'
<1>1. QueueOK' /\ \A i \in 1..Len(ready) : i \in 1..Len(ready') /\ ready'[i] = ready[i]
  BY EnqueuedFacts DEF FifoInv, QueueOK, Interrupt
<1>2. /\ UNCHANGED <<doomed, told, running>>
      /\ \A t \in Task : /\ loop'[t] = "created" => loop[t] = "created"
                         /\ Live(t)' <=> Live(t)
  BY DEF FifoInv, SerialInv, TypeOK, Interrupt, Outside, Arrive, WorkerStarts, WorkerEnds,
         TimerFires, loopVars, serviceVars, Live
<1>3. FirstStepAhead'
  <2> SUFFICES ASSUME NEW t \in Task, loop'[t] = "created"
               PROVE  /\ t \notin doomed'
                      /\ \E i \in 1..Len(ready') :
                           ready'[i] = t /\ \A j \in 1..i : ready'[j] \notin Handler
    BY DEF FirstStepAhead
  <2>1. PICK i \in 1..Len(ready) : ready[i] = t /\ \A j \in 1..i : ready[j] \notin Handler
    BY <1>2 DEF FifoInv, FirstStepAhead
  <2>2. \A j \in 1..i : j \in 1..Len(ready)
    BY DEF FifoInv, QueueOK
  <2> QED BY <1>1, <1>2, <2>1, <2>2 DEF FifoInv, FirstStepAhead
<1>4. Told'
  BY <1>2 DEF FifoInv, Told
<1> QED BY <1>1, <1>3, <1>4 DEF FifoInv

LEMMA TaskFifoInv ==
  ASSUME FifoInv, SerialInv', ready # <<>>, NEW u \in Task, u = Head(ready), LoopStep(u),
         Enqueued(Tail(ready))
  PROVE  FifoInv'
<1> DEFINE rest == Tail(ready)
<1>1. QueueOK
  BY DEF FifoInv
<1>2. QueueOK' /\ \A i \in 1..Len(rest) : i \in 1..Len(ready') /\ ready'[i] = rest[i]
  BY <1>1, TailFacts, EnqueuedFacts
<1>3. loop \in [Task -> {"done", "created", "pinging", "sleeping", "woken"}]
  BY DEF FifoInv, SerialInv, TypeOK
<1>4. /\ loop'[u] # "created" /\ doomed' \subseteq doomed
      /\ \A t \in Task \ {u} : loop'[t] = loop[t]
  BY <1>3 DEF LoopStep, LoopBegins, CancelledUnbegun, Cancelled, CycleEnds, CycleRaises,
              NextCycle, Finally
<1>5. FirstStepAhead'
  <2> SUFFICES ASSUME NEW t \in Task, loop'[t] = "created"
               PROVE  /\ t \notin doomed'
                      /\ \E i \in 1..Len(ready') :
                           ready'[i] = t /\ \A j \in 1..i : ready'[j] \notin Handler
    BY DEF FirstStepAhead
  <2>1. t # u /\ loop[t] = "created"
    BY <1>4
  <2>2. PICK i \in 1..Len(ready) : ready[i] = t /\ \A j \in 1..i : ready[j] \notin Handler
    BY <2>1 DEF FifoInv, FirstStepAhead
  <2>3. ready[1] = u /\ Len(ready) \in Nat /\ Len(rest) = Len(ready) - 1
        /\ \A j \in 1..Len(rest) : rest[j] = ready[j + 1]
    BY <1>1, TailFacts DEF QueueOK
  <2>4. i - 1 \in 1..Len(rest) /\ \A j \in 1..i - 1 : j \in 1..Len(rest) /\ j + 1 \in 1..i
    BY <2>1, <2>2, <2>3
  <2>5. i - 1 \in 1..Len(ready') /\ ready'[i - 1] = t
    BY <1>2, <2>2, <2>3, <2>4
  <2>6. \A j \in 1..i - 1 : ready'[j] \notin Handler
    BY <1>2, <2>2, <2>3, <2>4
  <2> QED BY <1>4, <2>1, <2>5, <2>6 DEF FifoInv, FirstStepAhead
<1>6. Told'
  <2>1. CASE Finally(u)
    BY <2>1 DEF Finally, PublishStatus, Told
  <2>2. CASE ~Finally(u)
    <3>1. UNCHANGED <<told, running>> /\ Live(u)'
      BY <1>3, <2>2, NeverUnbegun
         DEF LoopStep, LoopBegins, Cancelled, CycleEnds, CycleRaises, NextCycle,
             serviceVars, Live
    <3> QED BY <3>1 DEF FifoInv, Told
  <2> QED BY <2>1, <2>2
<1> QED BY <1>2, <1>5, <1>6 DEF FifoInv

LEMMA HandlerFifoInv ==
  ASSUME SerialClients, FifoInv, SerialInv', ready # <<>>, NEW h \in Handler,
         h = Head(ready), HandlerStep(h), Enqueued(Tail(ready))
  PROVE  FifoInv'
<1> DEFINE rest == Tail(ready)
<1>1. QueueOK /\ SerialInv /\ TypeOK /\ TypeOK'
  BY DEF FifoInv, SerialInv
<1>2. /\ QueueOK'
      /\ \A i \in 1..Len(ready') :
           \/ i \in 1..Len(rest) /\ ready'[i] = rest[i]
           \/ ready'[i] \in Runnable'
      /\ \A a \in Runnable' : \E i \in 1..Len(ready') : ready'[i] = a
  BY <1>1, TailFacts, EnqueuedFacts
<1>3. \A t \in Task : loop[t] # "created"
  <2>1. ready[1] \in Handler
    BY <1>1, TailFacts
  <2> QED BY <2>1 DEF FifoInv, FirstStepAhead
<1>4. CASE StopAwaits(h)
  <2>1. UNCHANGED <<loop, told, running>>
    BY <1>4 DEF StopAwaits, serviceVars
  <2> QED BY <1>2, <1>3, <2>1 DEF FifoInv, FirstStepAhead, Told, Live
<1>5. CASE StopReturns(h)
  <2>1. UNCHANGED <<loop, told>> /\ ~running'
    BY <1>5 DEF StopReturns, loopVars
  <2>2. ~running
    BY <1>1, <1>5, PassesWhenQuiet DEF FifoInv, Told, StopReturns
  <2>3. Told'
    BY <1>1, <2>1, <2>2 DEF FifoInv, Told, TypeOK
  <2> QED BY <1>2, <1>3, <2>1, <2>3 DEF FifoInv, FirstStepAhead
<1>6. CASE StartReturns(h)
  <2>1. PICK t \in Task : Fresh(t, h) /\ loop' = [loop EXCEPT ![t] = "created"]
    BY <1>6 DEF StartReturns
  <2>2. loop'[t] = "created" /\ \A u \in Task \ {t} : loop'[u] # "created"
    BY <1>1, <1>3, <2>1 DEF TypeOK
  <2>3. t \notin doomed'
    BY <1>1, <1>6, <2>1 DEF StartReturns, Fresh, TypeOK
  <2>4. h \notin Runnable'
    <3>1. pc'[h] = "idle"
      BY <1>1, <1>6 DEF StartReturns, Return, TypeOK
    <3> QED BY <3>1, FifoAssumption DEF Runnable, StopPasses
  <2>5. PICK i \in 1..Len(ready') : ready'[i] = t
    BY <1>2, <2>2 DEF Runnable
  <2>6. \A j \in 1..Len(ready') : ready'[j] # h
    BY <1>1, <1>2, <2>4, TailFacts
  <2>7. \A j \in 1..i : j \in 1..Len(ready')
    BY <1>2 DEF QueueOK
  <2>8. \A g \in Handler : g = h
    BY DEF SerialClients
  <2>9. FirstStepAhead'
    BY <2>2, <2>3, <2>5, <2>6, <2>7, <2>8 DEF FirstStepAhead
  <2>10. told' = running' /\ Live(t)'
    BY <1>6, <2>2 DEF StartReturns, PublishStatus, Live
  <2> QED BY <1>2, <2>9, <2>10 DEF FifoInv, Told
<1> QED BY <1>4, <1>5, <1>6 DEF HandlerStep

LEMMA FifoInvariance == ASSUME SerialClients PROVE FifoSpec => []FifoInv
<1>1. FifoInv /\ SerialInv' /\ [FifoNext]_fifoVars => FifoInv'
  <2> SUFFICES ASSUME FifoInv, SerialInv', [FifoNext]_fifoVars PROVE FifoInv'
    OBVIOUS
  <2>1. CASE RunHead
    BY <2>1, HandlerFifoInv, TaskFifoInv DEF RunHead
  <2>2. CASE Interrupt
    BY <2>2, InterruptFifoInv
  <2>3. CASE UNCHANGED fifoVars
    BY <2>3 DEF fifoVars, vars, serviceVars, loopVars, FifoInv, QueueOK, FirstStepAhead,
                Told, Live
  <2> QED BY <2>1, <2>2, <2>3 DEF FifoNext
<1>2. FifoSpec => []SerialInv
  BY FifoIsPeriodicPing, SerialInvariance, PTL
<1>3. FifoSpec => FifoInit /\ [][FifoNext]_fifoVars
  BY DEF FifoSpec
<1> QED BY <1>1, <1>2, <1>3, InitFifoInv, PTL

(* Clients that wait for their answers were always told what status() says:    *)
(* no loop dies before its first step, without its finally clause, because    *)
(* asyncio runs that step before any handler called later.                    *)
THEOREM StreamTruthfulSafe == ASSUME SerialClients PROVE FifoSpec => []StreamTruthful
<1>1. FifoInv => StreamTruthful
  BY DEF FifoInv, Told, StreamTruthful
<1> QED BY <1>1, FifoInvariance, PTL

(* However a loop ends, the subscribers are told. *)
THEOREM EndAnnouncedSafe == ASSUME SerialClients PROVE FifoSpec => EndAnnounced
<1> DEFINE Announced == \A t \in Task : Live(t) /\ ~Live(t)' => ~told'
<1>1. FifoInv /\ Next => Announced
  <2> SUFFICES ASSUME FifoInv, Next, NEW t \in Task, Live(t), ~Live(t)' PROVE ~told'
    OBVIOUS
  <2>1. loop \in [Task -> {"done", "created", "pinging", "sleeping", "woken"}]
    BY DEF FifoInv, SerialInv, TypeOK
  <2>2. ASSUME NEW h \in Handler, HandlerStep(h) PROVE FALSE
    BY <2>1, <2>2
       DEF HandlerStep, StopAwaits, StopReturns, StartReturns, loopVars, Live
  <2>3. CASE Outside
    BY <2>1, <2>3
       DEF Outside, Arrive, WorkerStarts, WorkerEnds, TimerFires, loopVars, Live
  <2>4. ASSUME NEW u \in Task, LoopStep(u) PROVE ~told'
    <3>1. CASE Finally(u)
      BY <3>1 DEF Finally, PublishStatus
    <3>2. CASE ~Finally(u)
      BY <2>1, <2>4, <3>2, NeverUnbegun
         DEF LoopStep, LoopBegins, Cancelled, CycleEnds, CycleRaises, NextCycle, Live
    <3> QED BY <3>1, <3>2
  <2> QED BY <2>2, <2>3, <2>4 DEF Next
<1>2. FifoInv /\ [Next]_vars => [Announced]_vars
  BY <1>1
<1> HIDE DEF Announced
<1>3. FifoSpec => [][Next]_vars
  BY FifoIsPeriodicPing, PTL DEF Spec
<1>4. FifoSpec => [][Announced]_vars
  BY <1>2, <1>3, FifoInvariance, PTL
<1> QED BY <1>4 DEF EndAnnounced, Announced
===============================================================================
