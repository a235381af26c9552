------------------------- MODULE MCSessionSelection -------------------------
(* Two nodes with two or three physical connections between them. *)
EXTENDS SessionSelection
=============================================================================
