---------------------------- MODULE MCPeriodicPing ----------------------------
(* Small instances of PeriodicPing for TLC. *)
EXTENDS PeriodicPingContract
===============================================================================
