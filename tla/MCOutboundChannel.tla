-------------------------- MODULE MCOutboundChannel --------------------------
(* Three or four senders on a queue of one frame. *)
EXTENDS OutboundChannel
=============================================================================
