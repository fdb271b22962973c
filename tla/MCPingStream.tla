----------------------------- MODULE MCPingStream -----------------------------
(* Small instances of PingStream for TLC. *)
EXTENDS PingStream

(* A periodic schedule and a repeat schedule of two cycles. *)
TwoSchedules == {[max |-> 0], [max |-> 2]}
===============================================================================
