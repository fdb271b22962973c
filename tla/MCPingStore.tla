----------------------------- MODULE MCPingStore ------------------------------
(* Small instances of PingStore for TLC. *)
EXTENDS PingStore, TLC

CONSTANTS x, y

(* A request for one target, for the other, and for both. *)
SomeSelections == {<<x>>, <<x, y>>}
===============================================================================
