------------------------------ MODULE MCSession ------------------------------
(* Three configurations, three ways of using TLS and a dialler that may have    *)
(* been led to the wrong peer.                                                  *)
EXTENDS Session

Usual == [version |-> 1, serializer |-> "json", acks |-> TRUE, max |-> 2, frame |-> 3,
          strict |-> FALSE, reject |-> FALSE, closeOnError |-> TRUE]
Small == [Usual EXCEPT !.acks = FALSE, !.max = 1, !.frame = 2, !.strict = TRUE,
                       !.reject = TRUE, !.closeOnError = FALSE]

MCConfigs  == {Usual, Small, [Usual EXCEPT !.version = 2]}
Shown(v, r, c) == [verify |-> v, resolver |-> r, certificate |-> c]
MCTls      == {<<Shown(TRUE, TRUE, "listener"), Shown(TRUE, TRUE, "dialler")>>,
               <<Shown(TRUE, TRUE, "stranger"), Shown(TRUE, TRUE, None)>>,
               <<Shown(FALSE, TRUE, "stranger"), Shown(TRUE, TRUE, "stranger")>>}
MCExpected == {"listener", "stranger"}
MCFrom     == [m \in 1..3 |-> "dialler"]
MCSize     == [m \in 1..3 |-> IF m = 2 THEN 2 ELSE 1]

(* Both ends send two messages at once. *)
UsualOnly  == {Usual}
NoTls      == {<<Shown(FALSE, FALSE, None), Shown(FALSE, FALSE, None)>>}
AsExpected == {"listener"}
BothFrom   == [m \in 1..4 |-> IF m <= 2 THEN "dialler" ELSE "listener"]
BothSize   == [m \in 1..4 |-> 1]
=============================================================================
