------------------------- MODULE PeriodicPingContract -------------------------
(* PeriodicPing implements ScheduleRequests, and PingSchedule for clients that *)
(* call one at a time.                                                        *)
EXTENDS PeriodicPing

CONSTANT NoSchedule   \* no schedule, as a value of PingSchedule's active

ASSUME NoScheduleAssumption == NoSchedule \notin Config

\* Some loop is alive.
Busy == \E t \in Task : Live(t)

Contract == INSTANCE PingSchedule WITH
  Schedule <- Config, Cap <- CycleCap,
  active <- IF Busy THEN cfg ELSE NoSchedule,
  sent   <- IF Busy THEN completed ELSE 0

(* Seen from its clients the service is PingSchedule: no request and no end  *)
(* of a loop, however they interleave with the executor threads, makes two   *)
(* schedules overlap, changes a schedule while it is active, or ends a       *)
(* repeat schedule early, late or twice.                                     *)
ContractSpec == Contract!Spec

(* The same for clients whose requests overlap: PeriodicPing, as it is,       *)
(* implements ScheduleRequests.                                               *)
Stage == [t \in Task |-> IF Begun(t) THEN "begun"
                         ELSE IF t \in doomed THEN "cancelled" ELSE loop[t]]

Requests == INSTANCE ScheduleRequests WITH
  Schedule <- Config,
  active <- IF running THEN cfg ELSE NoSchedule,
  loop   <- Stage,
  asked  <- [h \in Handler |-> IF call[h].op = "start" THEN call[h].arg ELSE NoSchedule]

(* However requests overlap, what they and the ends of loops do to one         *)
(* another, and what subscribers are told of it, is what ScheduleRequests      *)
(* says: cycles, threads and timers add nothing.                               *)
RequestsSpec == Requests!Spec
===============================================================================
