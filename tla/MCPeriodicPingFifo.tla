-------------------------- MODULE MCPeriodicPingFifo --------------------------
(* Small instances of PeriodicPingFifo for TLC. *)
EXTENDS PeriodicPingFifo
===============================================================================
