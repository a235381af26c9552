----------------------------- MODULE MCDiscovery -----------------------------
(* Two peers compete for one place in the cache; the node is restarted once.  *)
EXTENDS Discovery

\* The application has kept an observation of the peer that moves, at its first
\* address and as old as connect() accepts.
KeptByApplication == Movers \X {1} \X {NodeTtl}
=============================================================================
