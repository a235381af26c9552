----------------------------- MODULE MCReconnect -----------------------------
(* Two sessions, two loops, one connect() and one disconnect(). *)
EXTENDS Reconnect
=============================================================================
