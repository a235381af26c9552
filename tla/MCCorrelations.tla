--------------------------- MODULE MCCorrelations ---------------------------
(***************************************************************************)
(* Two calls over two connections, one of them accepted.  A request with   *)
(* an ACK makes every kind of wait and counts against both limits; beside  *)
(* it there is a send, which competes for the table of ACKs, or a PING.    *)
(* Two requests compete for the other table, and two PINGs follow each     *)
(* other.                                                                  *)
(***************************************************************************)
EXTENDS Correlations, TLC

Symmetry == Permutations(Calls)

Mixes == {{"acked request", "send"}, {"acked request", "ping"}, {"request"}, {"ping"}}

MCInit == Init /\ {form[k] : k \in Calls} \in Mixes

MCSpec == MCInit /\ [][Next]_vars
=============================================================================
