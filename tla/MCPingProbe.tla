------------------------------ MODULE MCPingProbe ------------------------------
(* Small instances of PingProbe for TLC. *)
EXTENDS PingProbe
===============================================================================
