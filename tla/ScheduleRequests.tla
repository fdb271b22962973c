--------------------------- MODULE ScheduleRequests ---------------------------
(***************************************************************************)
(* What the scheduled-ping service does with requests that may overlap,    *)
(* without cycles, executor threads or timers.  It promises less than      *)
(* PingSchedule: two requests that await the same dying loop overwrite what *)
(* each other did.  PeriodicPing implements it for any number of requests. *)
(***************************************************************************)

CONSTANTS
  Handler, Task, NoTask,  \* as in PeriodicPing
  Schedule, NoSchedule    \* as in PingSchedule

VARIABLES
  active,  \* what status() reports
  told,    \* whether the last status published was that of a schedule
  task,    \* self._task
  loop,    \* where each loop task stands
  pc,      \* where each handler stands
  asked,   \* the schedule it is to start; NoSchedule if it is to stop
  on       \* the task it awaits in stop()

vars == <<active, told, task, loop, pc, asked, on>>

Init ==
  /\ active = NoSchedule /\ told = FALSE /\ task = NoTask
  /\ loop = [t \in Task |-> "done"]
  /\ pc = [h \in Handler |-> "idle"]
  /\ asked = [h \in Handler |-> NoSchedule]
  /\ on = [h \in Handler |-> NoTask]

Live(t) == loop[t] # "done"

Publishes == told' = (active' # NoSchedule)

-------------------------------------------------------------------------------
(* Requests.                                                               *)

Arrives(h, s) ==
  /\ pc[h] = "idle"
  /\ pc' = [pc EXCEPT ![h] = "called"]
  /\ asked' = [asked EXCEPT ![h] = s]
  /\ UNCHANGED <<active, told, task, loop, on>>

\* stop() cancels the task and awaits it.
StopAwaits(h) ==
  /\ pc[h] = "called" /\ task # NoTask /\ Live(task)
  /\ loop' = [loop EXCEPT ![task] = IF @ = "created" THEN "cancelled" ELSE @]
  /\ pc' = [pc EXCEPT ![h] = "waiting"]
  /\ on' = [on EXCEPT ![h] = task]
  /\ UNCHANGED <<active, told, task, asked>>

StopPasses(h) == \/ pc[h] = "called" /\ ~(task # NoTask /\ Live(task))
                 \/ pc[h] = "waiting" /\ ~Live(on[h])

Return(h) ==
  /\ pc' = [pc EXCEPT ![h] = "idle"]
  /\ on' = [on EXCEPT ![h] = NoTask]
  /\ asked' = [asked EXCEPT ![h] = NoSchedule]

\* The rest of stop(), which publishes nothing, whatever is active by now.
Stops(h) ==
  /\ asked[h] = NoSchedule /\ StopPasses(h)
  /\ task' = NoTask /\ active' = NoSchedule
  /\ Return(h)
  /\ UNCHANGED <<told, loop>>

\* The rest of _start(), beside whatever loop was started meanwhile.
Starts(h) ==
  /\ asked[h] # NoSchedule /\ StopPasses(h)
  /\ \E t \in Task :
       /\ ~Live(t) /\ \A g \in Handler \ {h} : on[g] # t
       /\ task' = t
       /\ loop' = [loop EXCEPT ![t] = "created"]
  /\ active' = asked[h] /\ Publishes
  /\ Return(h)

-------------------------------------------------------------------------------
(* Loops.                                                                  *)

Begins(t) ==
  /\ loop[t] = "created"
  /\ loop' = [loop EXCEPT ![t] = "begun"]
  /\ UNCHANGED <<active, told, task, pc, asked, on>>

\* A loop cancelled before its first step ends without a word.
Withdraws(t) ==
  /\ loop[t] = "cancelled"
  /\ loop' = [loop EXCEPT ![t] = "done"]
  /\ UNCHANGED <<active, told, task, pc, asked, on>>

\* The finally clause, whoever's schedule is active.
Ends(t) ==
  /\ loop[t] = "begun"
  /\ loop' = [loop EXCEPT ![t] = "done"]
  /\ active' = NoSchedule /\ Publishes
  /\ UNCHANGED <<task, pc, asked, on>>

Next ==
  \/ \E h \in Handler : \/ \E s \in Schedule \cup {NoSchedule} : Arrives(h, s)
                        \/ StopAwaits(h) \/ Stops(h) \/ Starts(h)
  \/ \E t \in Task : Begins(t) \/ Withdraws(t) \/ Ends(t)

Spec == Init /\ [][Next]_vars
===============================================================================
