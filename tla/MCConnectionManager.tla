------------------------ MODULE MCConnectionManager ------------------------
(* One peer with two open tasks, an inbound connection and two close calls. *)
EXTENDS ConnectionManager
=============================================================================
