--------------------------- MODULE MCNodeLifecycle ---------------------------
(* A start, a stop and a network change over a LAN adapter with two clients and *)
(* one dial; and two handlers that stop the node. *)
EXTENDS NodeLifecycle
=============================================================================
