----------------------------- MODULE PingSchedule -----------------------------
(***************************************************************************)
(* What the scheduled-ping service promises its clients, without tasks,    *)
(* threads or suspension points: at most one schedule is active, a schedule *)
(* begins only when the one before it is over, and a repeat schedule is    *)
(* over once it has sent as many cycles as it was asked for.               *)
(***************************************************************************)
EXTENDS Naturals

CONSTANTS
  Schedule,    \* records with the field max, NoLimit for a periodic schedule
  NoSchedule,  \* nothing is scheduled
  NoLimit,     \* the max of a periodic schedule
  Cap          \* bound: the number of cycles sent saturates here

VARIABLES
  active,      \* the schedule in progress
  sent         \* the cycles it has completed

vars == <<active, sent>>

Init == active = NoSchedule /\ sent = 0

Start(s) == active = NoSchedule /\ active' = s /\ sent' = 0

\* A client stops the schedule, or a cycle fails.
Halt == active # NoSchedule /\ active' = NoSchedule /\ sent' = 0

\* A cycle that is not the last.
Send == /\ active # NoSchedule
        /\ active.max # NoLimit => sent + 1 < active.max
        /\ sent' = IF sent < Cap THEN sent + 1 ELSE sent
        /\ UNCHANGED active

\* The last cycle of a repeat schedule.
Finish == /\ active # NoSchedule /\ active.max # NoLimit
          /\ sent + 1 = active.max
          /\ active' = NoSchedule /\ sent' = 0

Next == (\E s \in Schedule : Start(s)) \/ Halt \/ Send \/ Finish

Spec == Init /\ [][Next]_vars
===============================================================================
