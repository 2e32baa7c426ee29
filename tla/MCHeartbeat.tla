---------------------------- MODULE MCHeartbeat ----------------------------
(* Instances of Heartbeat for TLC. *)
EXTENDS Heartbeat

CONSTANTS d, e, url1, url2

LaggedConfigs == {[url |-> url1, interval |-> 3], [url |-> url2, interval |-> 3]}
=============================================================================
