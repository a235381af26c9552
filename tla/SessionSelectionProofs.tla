------------------------ MODULE SessionSelectionProofs ------------------------
(***************************************************************************)
(* Two nodes that dial each other agree on one connection and leave nothing  *)
(* half done, for any number of connections, connect() calls, link failures, *)
(* idle timeouts and cancelled callers.                                      *)
(***************************************************************************)
EXTENDS SessionSelection, TLAPS

-----------------------------------------------------------------------------
(* Vocabulary *)

\* Node n has read the remote hello on c and selected, or given c up.
Past(n, c) == step[n][c] \notin {"none", "dial", "pending", "hello"}

\* n got past the hello on c and has not closed it; and the stream has not ended.
Open(n, c) == Past(n, c) /\ ~shut[n][c]
Live(n, c) == Open(n, c) /\ ~eof[n][c]

NoCanon(n) == canon[n] = None \/ ~Live(n, canon[n])
NoMgr(n)   == mgr[n] = None \/ ~Live(n, mgr[n])

\* The task for d is about to close c, which it replaced.
Claims(n, d, c) == step[n][d] \in {"retire", "retirePrev"} /\ loser[n][d] = c
Claimed(n, c)   == \E d \in Conns : Claims(n, d, c)

InFlightSteps == {"dial", "hello", "retire", "retired", "closeOpened", "closePrev"}
DoneSteps     == {"installed", "reading", "ending", "ended"}

LEMMA NodeFacts ==
  /\ Small \in Nodes /\ Large \in Nodes /\ Small # Large
  /\ \A n \in Nodes : /\ Other(n) \in Nodes /\ Other(n) # n /\ Other(Other(n)) = n
                      /\ \A m \in Nodes : m = n \/ m = Other(n)
  /\ \A c \in Conns : Dialer(c) \in Nodes /\ (c \in FromSmall <=> Dialer(c) = Small)
                                           /\ (c \in FromLarge <=> Dialer(c) = Large)
  /\ None \notin Conns
  /\ \A c \in Conns : c # None
BY ConstantsAssumption DEF Nodes, Other, Dialer, Conns

\* g is f, changed at n and c to v.
Only(g, f, n, c, v) ==
  \A m \in Nodes, d \in Conns : g[m][d] = IF m = n /\ d = c THEN v ELSE f[m][d]

\* g is f, changed at n to v.
At(g, f, n, v) == \A m \in Nodes : g[m] = IF m = n THEN v ELSE f[m]

\* n has closed the connections in S.
Closes(n, S) ==
  \A m \in Nodes, d \in Conns : shut'[m][d] <=> (shut[m][d] \/ (m = n /\ d \in S))

LEMMA ShutCloses ==
  ASSUME shut \in [Nodes -> [Conns -> BOOLEAN]], NEW n \in Nodes, NEW S, Shut(n, S)
  PROVE  Closes(n, S)
BY DEF Shut, Closes

-----------------------------------------------------------------------------
(* Types *)

StepTyped ==
  /\ step \in [Nodes -> [Conns -> Steps]]
  /\ loser \in [Nodes -> [Conns -> Conns \cup {None}]]
  /\ selected \in [Nodes -> [Conns -> Conns \cup {None}]]
  /\ \A n \in Nodes, c \in Conns :
       step[n][c] \in {"retire", "retired", "retirePrev", "retiredPrev"} => loser[n][c] # None

LinkTyped ==
  /\ shut \in [Nodes -> [Conns -> BOOLEAN]] /\ eof \in [Nodes -> [Conns -> BOOLEAN]]
  /\ failed \subseteq Conns

NodeTyped ==
  /\ canon \in [Nodes -> Conns \cup {None}]
  /\ mgr \in [Nodes -> Conns \cup {None}]
  /\ inFlight \in [Nodes -> Conns \cup {None}]
  /\ closing \in [Nodes -> BOOLEAN]
  /\ waiter \in [Nodes -> Conns \cup {None}]
  /\ gaveUp \in BOOLEAN

CountTyped ==
  /\ connects \in [Nodes -> 0..MaxConnects]
  /\ failures \in 0..MaxFaults /\ cancels \in 0..MaxFaults

LEMMA TypeParts == TypeOK <=> StepTyped /\ LinkTyped /\ NodeTyped /\ CountTyped
BY DEF TypeOK, StepTyped, LinkTyped, NodeTyped, CountTyped


\* The steps of one connection's tasks that leave the callers' variables alone.
LEMMA ConnectionFrame ==
  ASSUME NEW n, NEW c, ConnectionStep(n, c) \/ ReaderAborts(n, c)
  PROVE  /\ UNCHANGED user
         /\ UNCHANGED <<closing, failed>>
         /\ \/ failures' = failures
            \/ failures' = failures + 1 /\ Faults < MaxFaults
<1>1. CASE Dialled(n, c) \/ Accept(n, c) \/ DeliverEof(n, c) \/ PreviousClosed(n, c)
  BY <1>1 DEF Dialled, Accept, DeliverEof, PreviousClosed, link, node
<1>2. CASE HelloDone(n, c)
  BY <1>2 DEF HelloDone
<1>3. CASE HelloFails(n, c)
  BY <1>3 DEF HelloFails
<1>4. CASE RetireCloses(n, c) \/ RetiredPrev(n, c) \/ Retired(n, c) \/ OpenedClosed(n, c)
  BY <1>4 DEF RetireCloses, RetiredPrev, Retired, OpenedClosed, node
<1>5. CASE ReaderEnds(n, c) \/ ReaderAborts(n, c) \/ SessionEnded(n, c)
  BY <1>5 DEF ReaderEnds, ReaderAborts, EndSession, SessionEnded
<1> QED BY <1>1, <1>2, <1>3, <1>4, <1>5 DEF ConnectionStep

LEMMA CountStep ==
  ASSUME TypeOK, [Next]_vars
  PROVE  CountTyped'
<1>0. /\ connects \in [Nodes -> 0..MaxConnects] /\ Small \in Nodes /\ Large \in Nodes
      /\ failures \in 0..MaxFaults /\ cancels \in 0..MaxFaults
      /\ MaxFaults \in Nat /\ MaxConnects \in Nat
  BY ConstantsAssumption DEF TypeOK, Nodes
<1>1. /\ \/ connects' = connects
         \/ \E n \in Nodes : connects' = [connects EXCEPT ![n] = @ + 1] /\ Connects < MaxConnects
      /\ \/ UNCHANGED <<failures, cancels>>
         \/ failures' = failures + 1 /\ cancels' = cancels /\ Faults < MaxFaults
         \/ failures' = failures /\ cancels' = cancels + 1 /\ Faults < MaxFaults
  <2>1. ASSUME NEW n \in Nodes, NEW c \in Conns, ConnectionStep(n, c) \/ ReaderAborts(n, c)
        PROVE  <1>1
    BY <2>1, ConnectionFrame DEF user
  <2>2. ASSUME NEW n \in Nodes, Connect(n) \/ ConnectStale(n) \/ ConnectCancelled(n)
        PROVE  <1>1
    BY <2>2 DEF Connect, ConnectStale, ConnectCancelled, link
  <2>3. ASSUME NEW n \in Nodes, NodeStep(n)
        PROVE  <1>1
    BY <2>3 DEF NodeStep, ConnectReturns, ClosePeerReturns, link, user
  <2>4. ASSUME NEW c \in Conns, LinkFails(c)
        PROVE  <1>1
    BY <2>4 DEF LinkFails, user
  <2>5. CASE UNCHANGED vars
    BY <2>5 DEF vars, link, user
  <2> QED BY <2>1, <2>2, <2>3, <2>4, <2>5 DEF Next
<1>3. connects' \in [Nodes -> 0..MaxConnects]
  <2>1. CASE connects' = connects
    BY <1>0, <2>1
  <2>2. ASSUME NEW n \in Nodes, connects' = [connects EXCEPT ![n] = @ + 1], Connects < MaxConnects
        PROVE  connects' \in [Nodes -> 0..MaxConnects]
    <3>1. connects[n] + 1 \in 0..MaxConnects
      BY <1>0, <2>2 DEF Connects, Nodes
    <3> QED BY <1>0, <2>2, <3>1
  <2> QED BY <1>1, <2>1, <2>2
<1>4. failures' \in 0..MaxFaults /\ cancels' \in 0..MaxFaults
  BY <1>0, <1>1 DEF Faults
<1> QED BY <1>3, <1>4 DEF CountTyped

LEMMA ShutTyped ==
  ASSUME LinkTyped, NEW n, NEW S, Shut(n, S)
  PROVE  shut' \in [Nodes -> [Conns -> BOOLEAN]]
<1>1. [c \in Conns |-> shut[n][c] \/ c \in S] \in [Conns -> BOOLEAN]
  OBVIOUS
<1> QED BY <1>1 DEF LinkTyped, Shut

LEMMA LiveTyped ==
  ASSUME NodeTyped, NEW n \in Nodes
  PROVE  LiveCanon(n) \in Conns \cup {None} /\ LiveMgr(n) \in Conns \cup {None}
BY DEF NodeTyped, LiveCanon, LiveMgr

\* A task moves to step s, leaving the losers alone.
LEMMA GoToTyped ==
  ASSUME StepTyped, NEW n, NEW c, NEW s \in Steps, GoTo(n, c, s), UNCHANGED <<loser, selected>>,
         s \in {"retire", "retired", "retirePrev", "retiredPrev"} => loser[n][c] # None
  PROVE  StepTyped'
BY DEF StepTyped, GoTo

LEMMA GoToLoserTyped ==
  ASSUME StepTyped, NEW n, NEW c, NEW s \in Steps, NEW l \in Conns \cup {None}, GoTo(n, c, s),
         loser' = [loser EXCEPT ![n][c] = l],
         selected' \in [Nodes -> [Conns -> Conns \cup {None}]],
         s \in {"retire", "retired", "retirePrev", "retiredPrev"} => l # None
  PROVE  StepTyped'
BY DEF StepTyped, GoTo

LEMMA GoToSelectedTyped ==
  ASSUME StepTyped, NEW n, NEW c, NEW s \in Steps, NEW v \in Conns \cup {None}, GoTo(n, c, s),
         selected' = [selected EXCEPT ![n][c] = v], UNCHANGED loser,
         s \notin {"retire", "retired", "retirePrev", "retiredPrev"}
  PROVE  StepTyped'
BY DEF StepTyped, GoTo

LEMMA InstallTyped ==
  ASSUME TypeOK, NEW n \in Nodes, NEW c \in Conns, NEW sel \in Conns \cup {None},
         Install(n, c, sel)
  PROVE  /\ \E s \in {"closePrev", "installed", "ended"} : GoTo(n, c, s)
         /\ selected' = [selected EXCEPT ![n][c] = sel]
         /\ mgr' = [mgr EXCEPT ![n] = sel]
         /\ mgr' \in [Nodes -> Conns \cup {None}] /\ inFlight' \in [Nodes -> Conns \cup {None}]
         /\ shut' \in [Nodes -> [Conns -> BOOLEAN]]
         /\ selected' \in [Nodes -> [Conns -> Conns \cup {None}]]
<1>1. (\E S : Shut(n, S)) \/ UNCHANGED shut
  BY DEF Install
<1>2. shut' \in [Nodes -> [Conns -> BOOLEAN]]
  BY <1>1, ShutTyped, TypeParts DEF TypeOK
<1> QED BY <1>2 DEF Install, TypeOK

LEMMA AdoptTyped ==
  ASSUME TypeOK, NEW n \in Nodes, NEW c \in Conns, NEW now \in Conns \cup {None}, NEW l,
         Adopt(n, c, now, l)
  PROVE  /\ StepTyped'
         /\ mgr' \in [Nodes -> Conns \cup {None}] /\ inFlight' \in [Nodes -> Conns \cup {None}]
         /\ canon' \in [Nodes -> Conns \cup {None}]
         /\ shut' \in [Nodes -> [Conns -> BOOLEAN]]
<1>1. (\E S : Shut(n, S)) \/ UNCHANGED shut
  BY DEF Adopt
<1>2. shut' \in [Nodes -> [Conns -> BOOLEAN]]
  BY <1>1, ShutTyped, TypeParts DEF TypeOK
<1>3. /\ mgr' \in [Nodes -> Conns \cup {None}] /\ inFlight' \in [Nodes -> Conns \cup {None}]
      /\ canon' \in [Nodes -> Conns \cup {None}]
  <2>1. /\ mgr \in [Nodes -> Conns \cup {None}] /\ inFlight \in [Nodes -> Conns \cup {None}]
        /\ canon \in [Nodes -> Conns \cup {None}]
    BY DEF TypeOK
  <2>2. inFlight' = inFlight /\ (mgr' = mgr \/ \E v \in {c, None} : mgr' = [mgr EXCEPT ![n] = v])
    BY DEF Adopt
  <2>3. \E v \in Conns \cup {None} : canon' = [canon EXCEPT ![n] = v]
    BY DEF Adopt, Deactivated
  <2>4. mgr' \in [Nodes -> Conns \cup {None}]
    BY <2>1, <2>2
  <2>5. canon' \in [Nodes -> Conns \cup {None}]
    BY <2>1, <2>3
  <2> QED BY <2>1, <2>2, <2>4, <2>5
<1>4. StepTyped'
  <2> DEFINE l2 == IF closing[n] \/ mgr[n] \in {None, c, l} THEN None ELSE mgr[n]
  <2>1. PICK s \in Steps :
           /\ GoTo(n, c, s)
           /\ s \in {"retire", "retired", "retirePrev", "retiredPrev"} => l2 # None
    BY NodeFacts DEF Adopt, TypeOK, Steps
  <2>2. l2 \in Conns \cup {None} /\ loser' = [loser EXCEPT ![n][c] = l2]
    BY DEF Adopt, TypeOK
  <2>3. selected' \in [Nodes -> [Conns -> Conns \cup {None}]]
    BY DEF Adopt, TypeOK
  <2> HIDE DEF l2
  <2> QED BY <2>1, <2>2, <2>3, GoToLoserTyped, TypeParts
<1> QED BY <1>2, <1>3, <1>4

LEMMA PublishTyped ==
  ASSUME TypeOK, NEW n \in Nodes, NEW c \in Conns, NEW now \in Conns \cup {None}, NEW l,
         Publish(n, c, now, l)
  PROVE  /\ StepTyped'
         /\ mgr' \in [Nodes -> Conns \cup {None}] /\ inFlight' \in [Nodes -> Conns \cup {None}]
         /\ canon' \in [Nodes -> Conns \cup {None}]
         /\ shut' \in [Nodes -> [Conns -> BOOLEAN]]
<1>1. CASE Dir(n, c) = "OUTBOUND"
  <2>1. /\ Install(n, c, c) /\ canon' = [canon EXCEPT ![n] = now]
        /\ loser' = [loser EXCEPT ![n][c] = None]
    BY <1>1 DEF Publish
  <2>2. PICK s \in {"closePrev", "installed", "ended"} : GoTo(n, c, s)
    BY <2>1, InstallTyped
  <2>3. s \in Steps /\ s \notin {"retire", "retired", "retirePrev", "retiredPrev"}
    BY DEF Steps
  <2>4. canon' \in [Nodes -> Conns \cup {None}]
    BY <2>1 DEF TypeOK
  <2>5. StepTyped'
    BY <2>1, <2>2, <2>3, InstallTyped, GoToLoserTyped, TypeParts
  <2> QED BY <2>1, <2>4, <2>5, InstallTyped
<1>2. CASE Dir(n, c) # "OUTBOUND"
  BY <1>2, AdoptTyped DEF Publish
<1> QED BY <1>1, <1>2

LEMMA ClosePeerTyped ==
  ASSUME TypeOK, NEW n \in Nodes, ClosePeer(n)
  PROVE  /\ step' \in [Nodes -> [Conns -> Steps]]
         /\ \A m \in Nodes, c \in Conns : step'[m][c] # "ended" => step'[m][c] = step[m][c]
         /\ mgr' \in [Nodes -> Conns \cup {None}] /\ inFlight' \in [Nodes -> Conns \cup {None}]
         /\ closing' \in [Nodes -> BOOLEAN]
         /\ shut' \in [Nodes -> [Conns -> BOOLEAN]]
         /\ gaveUp' \in BOOLEAN
<1>1. shut' \in [Nodes -> [Conns -> BOOLEAN]]
  BY ShutTyped, TypeParts DEF ClosePeer
<1>2. closing' \in [Nodes -> BOOLEAN]
  <2>1. (mgr[n] # None \/ inFlight[n] # None) \in BOOLEAN
    OBVIOUS
  <2> QED BY <2>1 DEF TypeOK, ClosePeer
<1>3. gaveUp' \in BOOLEAN
  BY DEF ClosePeer
<1>4. "ended" \in Steps
  BY DEF Steps
<1> QED BY <1>1, <1>2, <1>3, <1>4 DEF ClosePeer, TypeOK

LEMMA TypedStep ==
  ASSUME TypeOK, [Next]_vars
  PROVE  StepTyped' /\ LinkTyped' /\ NodeTyped'
<1>0. StepTyped /\ LinkTyped /\ NodeTyped
  BY TypeParts
<1>1. ASSUME NEW n \in Nodes, Connect(n)
      PROVE  StepTyped' /\ LinkTyped' /\ NodeTyped'
  <2>1. LinkTyped'
    BY <1>0, <1>1 DEF LinkTyped, Connect, link
  <2>2. CASE inFlight[n] # None
    <3>1. StepTyped'
      BY <1>0, <1>1, <2>2 DEF StepTyped, Connect
    <3>2. NodeTyped'
      BY <1>0, <1>1, <2>2 DEF NodeTyped, Connect
    <3> QED BY <2>1, <3>1, <3>2
  <2>3. CASE inFlight[n] = None
    <3>1. PICK c \in Fresh(n) : /\ GoTo(n, c, "dial")
                                /\ inFlight' = [inFlight EXCEPT ![n] = c]
                                /\ waiter' = [waiter EXCEPT ![n] = c]
      BY <1>1, <2>3 DEF Connect
    <3>2. c \in Conns /\ "dial" \in Steps
      BY DEF Fresh, Steps
    <3>3. StepTyped'
      BY <1>0, <1>1, <3>1, <3>2, GoToTyped DEF Connect
    <3>4. NodeTyped'
      BY <1>0, <1>1, <3>1, <3>2 DEF NodeTyped, Connect
    <3> QED BY <2>1, <3>3, <3>4
  <2> QED BY <2>2, <2>3
<1>2. ASSUME NEW n \in Nodes, ConnectStale(n)
      PROVE  StepTyped' /\ LinkTyped' /\ NodeTyped'
  BY <1>0, <1>2, ClosePeerTyped DEF ConnectStale, StepTyped, LinkTyped, NodeTyped
<1>3. ASSUME NEW n \in Nodes, ConnectCancelled(n) \/ ClosePeerReturns(n)
      PROVE  StepTyped' /\ LinkTyped' /\ NodeTyped'
  <2>1. StepTyped' /\ LinkTyped'
    BY <1>0, <1>3 DEF ConnectCancelled, ClosePeerReturns, StepTyped, LinkTyped, local, link
  <2>2. NodeTyped'
    BY <1>0, <1>3 DEF ConnectCancelled, ClosePeerReturns, NodeTyped, node, user
  <2> QED BY <2>1, <2>2
<1>4. ASSUME NEW n \in Nodes, ConnectReturns(n)
      PROVE  StepTyped' /\ LinkTyped' /\ NodeTyped'
  <2> DEFINE sel == selected[n][waiter[n]]
  <2>0. waiter[n] \in Conns /\ sel \in Conns \cup {None}
    BY <1>0, <1>4 DEF ConnectReturns, NodeTyped, StepTyped
  <2>1. waiter' \in [Nodes -> Conns \cup {None}]
    BY <1>0, <1>4 DEF ConnectReturns, NodeTyped
  <2>2. CASE sel = None
    <3>1. UNCHANGED <<step, mgr, inFlight, closing, shut, gaveUp>>
      BY <1>4, <2>2 DEF ConnectReturns
    <3> QED BY <1>0, <1>4, <2>1, <3>1 DEF ConnectReturns, StepTyped, LinkTyped, NodeTyped
  <2>3. CASE sel # None /\ canon[n] = sel
    <3>1. /\ step' = [step EXCEPT ![n][sel] = IF @ = "installed" THEN "reading" ELSE @]
          /\ UNCHANGED <<mgr, inFlight, closing, shut, gaveUp>>
      BY <1>4, <2>3 DEF ConnectReturns
    <3>2. "reading" \in Steps
      BY DEF Steps
    <3>3. StepTyped'
      BY <1>0, <1>4, <3>1, <3>2, <2>3, <2>0 DEF ConnectReturns, StepTyped
    <3>4. LinkTyped' /\ NodeTyped'
      BY <1>0, <1>4, <2>1, <3>1 DEF ConnectReturns, LinkTyped, NodeTyped
    <3> QED BY <3>3, <3>4
  <2>4. CASE sel # None /\ canon[n] # sel
    <3>1. ClosePeer(n)
      BY <1>4, <2>4 DEF ConnectReturns
    <3>2. UNCHANGED <<loser, selected, eof, failed, canon>>
      BY <1>4 DEF ConnectReturns
    <3>3. StepTyped'
      BY <1>0, <3>1, <3>2, ClosePeerTyped DEF StepTyped
    <3>4. LinkTyped'
      BY <1>0, <3>1, <3>2, ClosePeerTyped DEF LinkTyped
    <3>5. NodeTyped'
      BY <1>0, <2>1, <3>1, <3>2, ClosePeerTyped DEF NodeTyped
    <3> QED BY <3>3, <3>4, <3>5
  <2> QED BY <2>2, <2>3, <2>4
<1>5. ASSUME NEW c \in Conns, LinkFails(c)
      PROVE  StepTyped' /\ LinkTyped' /\ NodeTyped'
  BY <1>0, <1>5 DEF LinkFails, StepTyped, LinkTyped, NodeTyped, local, node, user
<1>6. CASE UNCHANGED vars
  BY <1>0, <1>6 DEF StepTyped, LinkTyped, NodeTyped, vars, local, link, node, user
<1>7. ASSUME NEW n \in Nodes, NEW c \in Conns, ConnectionStep(n, c) \/ ReaderAborts(n, c)
      PROVE  StepTyped' /\ LinkTyped' /\ NodeTyped'
  <2>0. UNCHANGED <<closing, failed, waiter, gaveUp>>
    BY <1>7, ConnectionFrame DEF user
  <2> DEFINE Table == /\ canon' \in [Nodes -> Conns \cup {None}]
                      /\ mgr' \in [Nodes -> Conns \cup {None}]
                      /\ inFlight' \in [Nodes -> Conns \cup {None}]
  <2>1. Table => NodeTyped'
    BY <1>0, <2>0 DEF NodeTyped
  <2>2. eof' = eof /\ shut' \in [Nodes -> [Conns -> BOOLEAN]] => LinkTyped'
    BY <1>0, <2>0 DEF LinkTyped
  <2>3. CASE Dialled(n, c)
    <3>0. /\ "hello" \in Steps /\ "pending" \in Steps
          /\ Other(n) \in Nodes /\ Other(n) # n
      BY NodeFacts DEF Steps
    <3>1. StepTyped'
      <4> DEFINE o  == Other(n)
                 at == [step EXCEPT ![n][c] = "hello"]
      <4>1. UNCHANGED <<loser, selected>> /\ step' = [at EXCEPT ![o][c] = "pending"]
        BY <2>3 DEF Dialled
      <4>2. at \in [Nodes -> [Conns -> Steps]]
        BY <1>0, <3>0 DEF StepTyped
      <4>3. step' \in [Nodes -> [Conns -> Steps]]
        BY <3>0, <4>1, <4>2
      <4>4. \A m \in Nodes, d \in Conns : step'[m][d] \in {"hello", "pending", step[m][d]}
        BY <1>0, <3>0, <4>1 DEF StepTyped
      <4>5. \A m \in Nodes, d \in Conns :
               step'[m][d] \in {"retire", "retired", "retirePrev", "retiredPrev"}
                 => step'[m][d] = step[m][d]
        BY <4>4
      <4> HIDE DEF at, o
      <4> QED BY <1>0, <4>1, <4>3, <4>5 DEF StepTyped
    <3> QED BY <1>0, <2>1, <2>2, <2>3, <3>1 DEF Dialled, LinkTyped, NodeTyped, link, node
  <2>4. CASE Accept(n, c)
    <3>1. "hello" \in Steps
      BY DEF Steps
    <3>2. StepTyped'
      BY <1>0, <2>4, <3>1, GoToTyped DEF Accept
    <3> QED BY <1>0, <2>1, <2>2, <2>4, <3>2 DEF Accept, LinkTyped, NodeTyped, link, node
  <2>5. CASE DeliverEof(n, c)
    <3>1. LinkTyped'
      BY <1>0, <2>5 DEF DeliverEof, LinkTyped
    <3> QED BY <1>0, <2>1, <2>5, <3>1 DEF DeliverEof, StepTyped, NodeTyped, local, node
  <2>6. CASE HelloDone(n, c)
    <3>0. LiveCanon(n) \in Conns \cup {None}
      BY <1>0, LiveTyped
    <3>1. CASE Wins(n, c) /\ LiveCanon(n) = None
      <4>1. Publish(n, c, c, None)
        BY <2>6, <3>1 DEF HelloDone
      <4> QED BY <2>1, <2>2, <2>6, <4>1, PublishTyped DEF HelloDone
    <3>2. CASE Wins(n, c) /\ LiveCanon(n) # None
      <4>1. /\ loser' = [loser EXCEPT ![n][c] = LiveCanon(n)]
            /\ canon' = [canon EXCEPT ![n] = c]
            /\ GoTo(n, c, "retire")
            /\ UNCHANGED <<mgr, selected, inFlight, shut>>
        BY <2>6, <3>2 DEF HelloDone
      <4>2. "retire" \in Steps
        BY DEF Steps
      <4>3. StepTyped'
        BY <1>0, <3>0, <3>2, <4>1, <4>2, GoToLoserTyped DEF StepTyped
      <4>4. Table
        BY <1>0, <4>1 DEF NodeTyped
      <4> QED BY <1>0, <2>1, <2>2, <2>6, <4>1, <4>3, <4>4 DEF HelloDone, LinkTyped
    <3>3. CASE ~Wins(n, c)
      <4>1. /\ Shut(n, {c})
            /\ selected' = [selected EXCEPT ![n][c] = LiveCanon(n)]
            /\ \E s \in {"closeOpened", "ended"} : GoTo(n, c, s)
            /\ UNCHANGED <<loser, canon, mgr, inFlight>>
        BY <2>6, <3>3 DEF HelloDone
      <4>2. \A s \in {"closeOpened", "ended"} :
               s \in Steps /\ s \notin {"retire", "retired", "retirePrev", "retiredPrev"}
        BY DEF Steps
      <4>3. StepTyped'
        BY <1>0, <3>0, <4>1, <4>2, GoToSelectedTyped
      <4>4. Table
        BY <1>0, <4>1 DEF NodeTyped
      <4> QED BY <1>0, <2>1, <2>2, <2>6, <4>1, <4>3, <4>4, ShutTyped DEF HelloDone
    <3> QED BY <3>1, <3>2, <3>3
  <2>7. CASE HelloFails(n, c)
    <3>1. "ended" \in Steps
      BY DEF Steps
    <3>2. StepTyped'
      BY <1>0, <2>7, <3>1, GoToTyped DEF HelloFails
    <3>3. Table
      BY <1>0, <2>7, LiveTyped DEF HelloFails, NodeTyped
    <3> QED BY <1>0, <2>1, <2>2, <2>7, <3>2, <3>3, ShutTyped DEF HelloFails
  <2>8. CASE RetireCloses(n, c)
    <3>1. "retired" \in Steps /\ "retiredPrev" \in Steps
      BY DEF Steps
    <3>2. StepTyped'
      BY <1>0, <2>8, <3>1, GoToTyped DEF RetireCloses, StepTyped
    <3> QED BY <1>0, <2>1, <2>2, <2>8, <3>2, ShutTyped DEF RetireCloses, NodeTyped, node
  <2>9. CASE Retired(n, c)
    <3>1. canon[n] \in Conns \cup {None}
      BY <1>0 DEF NodeTyped
    <3> QED BY <2>1, <2>2, <2>9, <3>1, PublishTyped DEF Retired
  <2>10. CASE RetiredPrev(n, c)
    <3>1. \E s \in {"reading", "ended"} : GoTo(n, c, s)
      BY <2>10 DEF RetiredPrev
    <3>2. \A s \in {"reading", "ended"} :
             s \in Steps /\ s \notin {"retire", "retired", "retirePrev", "retiredPrev"}
      BY DEF Steps
    <3>3. StepTyped'
      BY <1>0, <2>10, <3>1, <3>2, GoToLoserTyped DEF RetiredPrev, StepTyped
    <3>4. Table
      BY <1>0, <2>10 DEF RetiredPrev, NodeTyped, Deactivated
    <3>5. shut' \in [Nodes -> [Conns -> BOOLEAN]]
      BY <1>0, <2>10, ShutTyped DEF RetiredPrev, LinkTyped
    <3> QED BY <2>1, <2>2, <2>10, <3>3, <3>4, <3>5 DEF RetiredPrev
  <2>11. CASE OpenedClosed(n, c)
    <3>1. selected[n][c] \in Conns \cup {None}
      BY <1>0 DEF StepTyped
    <3>2. PICK s \in {"closePrev", "installed", "ended"} : GoTo(n, c, s)
      BY <2>11, <3>1, InstallTyped DEF OpenedClosed
    <3>3. s \in Steps /\ s \notin {"retire", "retired", "retirePrev", "retiredPrev"}
      BY DEF Steps
    <3>4. StepTyped'
      BY <1>0, <2>11, <3>1, <3>2, <3>3, InstallTyped, GoToSelectedTyped DEF OpenedClosed
    <3>5. Table
      BY <1>0, <2>11, <3>1, InstallTyped DEF OpenedClosed, NodeTyped
    <3> QED BY <2>1, <2>2, <2>11, <3>1, <3>4, <3>5, InstallTyped DEF OpenedClosed
  <2>12. CASE PreviousClosed(n, c)
    <3>1. \E s \in {"installed", "ended"} : GoTo(n, c, s)
      BY <2>12 DEF PreviousClosed
    <3>2. \A s \in {"installed", "ended"} :
             s \in Steps /\ s \notin {"retire", "retired", "retirePrev", "retiredPrev"}
      BY DEF Steps
    <3>3. StepTyped'
      BY <1>0, <2>12, <3>1, <3>2, GoToTyped DEF PreviousClosed
    <3>4. Table
      BY <1>0, <2>12 DEF PreviousClosed, NodeTyped
    <3> QED BY <1>0, <2>1, <2>2, <2>12, <3>3, <3>4 DEF PreviousClosed, LinkTyped, link
  <2>13. CASE EndSession(n, c)
    <3>1. "ending" \in Steps
      BY DEF Steps
    <3>2. StepTyped'
      BY <1>0, <2>13, <3>1, GoToTyped DEF EndSession
    <3>3. Table
      BY <1>0, <2>13 DEF EndSession, NodeTyped, Deactivated
    <3> QED BY <1>0, <2>1, <2>2, <2>13, <3>2, <3>3 DEF EndSession, LinkTyped
  <2>14. CASE SessionEnded(n, c)
    <3>1. "ended" \in Steps
      BY DEF Steps
    <3>2. StepTyped'
      BY <1>0, <2>14, <3>1, GoToTyped DEF SessionEnded
    <3>3. Table
      BY <1>0, <2>14 DEF SessionEnded, NodeTyped, Deactivated
    <3> QED BY <1>0, <2>1, <2>2, <2>14, <3>2, <3>3, ShutTyped DEF SessionEnded
  <2> QED
    BY <1>7, <2>3, <2>4, <2>5, <2>6, <2>7, <2>8, <2>9, <2>10, <2>11, <2>12, <2>13, <2>14
    DEF ConnectionStep, ReaderEnds, ReaderAborts
<1> QED BY <1>1, <1>2, <1>3, <1>4, <1>5, <1>6, <1>7 DEF Next, NodeStep

LEMMA CancelsStep ==
  ASSUME TypeOK, [Next]_vars
  PROVE  cancels' = 0 => cancels = 0
<1>0. cancels \in Nat
  BY ConstantsAssumption DEF TypeOK
<1>1. ASSUME NEW n \in Nodes, NEW c \in Conns, ConnectionStep(n, c) \/ ReaderAborts(n, c)
      PROVE  cancels' = cancels
  BY <1>1, ConnectionFrame DEF user
<1>2. ASSUME NEW n \in Nodes, Connect(n) \/ ConnectStale(n) \/ NodeStep(n)
      PROVE  cancels' = cancels
  BY <1>2 DEF Connect, ConnectStale, NodeStep, ConnectReturns, ClosePeerReturns, user
<1>3. ASSUME NEW n \in Nodes, ConnectCancelled(n)
      PROVE  cancels' = cancels + 1
  BY <1>3 DEF ConnectCancelled
<1>4. ASSUME NEW c \in Conns, LinkFails(c)
      PROVE  cancels' = cancels
  BY <1>4 DEF LinkFails, user
<1> QED BY <1>0, <1>1, <1>2, <1>3, <1>4 DEF Next, vars, user

LEMMA TypeInit == Init => TypeOK
<1>1. ASSUME Init PROVE StepTyped
  BY <1>1 DEF Init, StepTyped, Steps
<1>2. ASSUME Init PROVE LinkTyped
  BY <1>2 DEF Init, LinkTyped
<1>3. ASSUME Init PROVE NodeTyped
  BY <1>3 DEF Init, NodeTyped
<1>4. ASSUME Init PROVE CountTyped
  BY <1>4, ConstantsAssumption DEF Init, CountTyped
<1> QED BY <1>1, <1>2, <1>3, <1>4, TypeParts

LEMMA TypeStep == TypeOK /\ [Next]_vars => TypeOK'
<1> SUFFICES ASSUME TypeOK, [Next]_vars PROVE TypeOK'
  OBVIOUS
<1>1. StepTyped' /\ LinkTyped' /\ NodeTyped' /\ CountTyped'
  BY TypedStep, CountStep
<1> QED BY <1>1 DEF TypeOK, StepTyped, LinkTyped, NodeTyped, CountTyped

\* Type correctness: every task is at a step of the code, every table names a
\* connection or nothing, a task that retires has a connection to retire, and the
\* counters keep their bounds.
THEOREM TypeCorrect == Spec => []TypeOK
BY TypeInit, TypeStep, PTL DEF Spec

-----------------------------------------------------------------------------
(* What a step does, connection by connection: each branch of each action, with *)
(* its effects on every node and connection spelled out.                        *)

\* connect() joins the attempt in flight, or starts one on c.
Joins(n) ==
  /\ waiter[n] = None /\ NoCanon(n) /\ NoMgr(n) /\ inFlight[n] # None
  /\ At(mgr', mgr, n, None) /\ At(waiter', waiter, n, inFlight[n])
  /\ UNCHANGED <<local, link, canon, inFlight, closing, cancels, gaveUp>>

Dials(n, c) ==
  /\ waiter[n] = None /\ NoCanon(n) /\ NoMgr(n) /\ inFlight[n] = None
  /\ Dialer(c) = n /\ step[n][c] = "none"
  /\ Only(step', step, n, c, "dial")
  /\ At(mgr', mgr, n, None) /\ At(inFlight', inFlight, n, c) /\ At(waiter', waiter, n, c)
  /\ UNCHANGED <<loser, selected, link, canon, closing, cancels, gaveUp>>

\* connect() calls close_peer(), at once or when its attempt is over.
GivesUp(n) ==
  /\ waiter[n] # None => inFlight[n] # waiter[n]
  /\ At(mgr', mgr, n, None) /\ At(inFlight', inFlight, n, None)
  /\ \A m \in Nodes, d \in Conns :
       step'[m][d] = IF m = n /\ d = inFlight[n] THEN "ended" ELSE step[m][d]
  /\ Closes(n, {mgr[n], inFlight[n]})
  /\ \A m \in Nodes : waiter'[m] = waiter[m] \/ (m = n /\ waiter'[m] = None)
  /\ connects' = connects \/ (mgr[n] # None /\ Live(n, mgr[n]))
  /\ gaveUp' = TRUE
  /\ UNCHANGED <<loser, selected, eof, failed, failures, canon, cancels>>

Unblocks(n) ==
  /\ At(closing', closing, n, FALSE)
  /\ UNCHANGED <<local, link, canon, mgr, inFlight, user>>

\* connect() returns without a connection, or starts the reader of c, or is cancelled.
Returns(n) ==
  /\ waiter[n] # None /\ step[n][waiter[n]] \in DoneSteps /\ inFlight[n] # waiter[n]
  /\ selected[n][waiter[n]] = None
  /\ At(waiter', waiter, n, None)
  /\ UNCHANGED <<local, link, node, connects, cancels, gaveUp>>

StartsReader(n, c) ==
  /\ waiter[n] # None /\ step[n][waiter[n]] \in DoneSteps /\ inFlight[n] # waiter[n]
  /\ selected[n][waiter[n]] = c /\ canon[n] = c
  /\ Only(step', step, n, c, IF step[n][c] = "installed" THEN "reading" ELSE step[n][c])
  /\ At(waiter', waiter, n, None)
  /\ UNCHANGED <<loser, selected, link, node, connects, cancels, gaveUp>>

Cancels(n) ==
  /\ cancels' # 0
  /\ UNCHANGED <<local, link, node, connects, gaveUp>>

Meets(n, c) ==
  /\ step[n][c] = "dial"
  /\ \A m \in Nodes, d \in Conns :
       step'[m][d] = IF d = c THEN IF m = n THEN "hello" ELSE "pending" ELSE step[m][d]
  /\ UNCHANGED <<loser, selected, link, node, user>>

Accepts(n, c) ==
  /\ step[n][c] = "pending" /\ Only(step', step, n, c, "hello")
  /\ UNCHANGED <<loser, selected, link, node, user>>

Breaks(c) ==
  /\ failed' = failed \cup {c} /\ failures' # 0
  /\ UNCHANGED <<local, shut, eof, node, user>>

Drops(n, c) ==
  /\ shut[Other(n)][c] \/ c \in failed
  /\ \A m \in Nodes, d \in Conns : eof'[m][d] <=> (eof[m][d] \/ (m = n /\ d = c))
  /\ UNCHANGED <<local, shut, failed, failures, node, user>>

\* The manager's locked section for an attempt that ends with sel.
Installing(n, c, sel) ==
  /\ Dialer(c) = n
  /\ \/ /\ step[n][c] = "hello" /\ NoCanon(n) /\ SentHello(Other(n), c)
        /\ sel = c /\ At(canon', canon, n, c)
     \/ step[n][c] = "retired" /\ sel = c /\ At(canon', canon, n, canon[n])
     \/ step[n][c] = "closeOpened" /\ sel = selected[n][c] /\ At(canon', canon, n, canon[n])
  /\ \A m \in Nodes, d \in Conns :
       loser'[m][d] = loser[m][d] \/ (m = n /\ d = c /\ loser'[m][d] = None)
  /\ At(mgr', mgr, n, sel) /\ Only(selected', selected, n, c, sel)
  /\ UNCHANGED <<eof, failed, failures, closing, user>>

InstallsOver(n, c, sel) ==
  /\ Installing(n, c, sel) /\ mgr[n] # None /\ mgr[n] # sel
  /\ Only(step', step, n, c, "closePrev") /\ Closes(n, {mgr[n]})
  /\ UNCHANGED inFlight

InstallsClean(n, c, sel) ==
  /\ Installing(n, c, sel) /\ mgr[n] \in {None, sel}
  /\ Only(step', step, n, c, IF sel = c THEN "installed" ELSE "ended")
  /\ At(inFlight', inFlight, n, None)
  /\ UNCHANGED shut

\* adopt() for an incoming connection, after l has been retired.
Adopting(n, c, now, l) ==
  /\ Dialer(c) # n
  /\ \/ step[n][c] = "hello" /\ NoCanon(n) /\ SentHello(Other(n), c) /\ now = c /\ l = None
     \/ step[n][c] = "retired" /\ now = canon[n] /\ l = loser[n][c]
  /\ UNCHANGED <<selected, inFlight, eof, failed, failures, closing, user>>

AdoptRefused(n, c, now, l) ==
  /\ Adopting(n, c, now, l) /\ closing[n]
  /\ Only(step', step, n, c, "ended") /\ Only(loser', loser, n, c, None) /\ Closes(n, {c})
  /\ At(canon', canon, n, IF now = c THEN None ELSE now)
  /\ UNCHANGED mgr

AdoptsOver(n, c, now, l) ==
  /\ Adopting(n, c, now, l) /\ mgr[n] # None /\ mgr[n] # c /\ mgr[n] # l
  /\ Only(step', step, n, c, "retirePrev") /\ Only(loser', loser, n, c, mgr[n])
  /\ At(mgr', mgr, n, c) /\ At(canon', canon, n, IF now = mgr[n] THEN None ELSE now)
  /\ UNCHANGED shut

AdoptsClean(n, c, now, l) ==
  /\ Adopting(n, c, now, l) /\ mgr[n] \in {None, c, l} /\ now = c
  /\ Only(step', step, n, c, "reading") /\ Only(loser', loser, n, c, None)
  /\ At(mgr', mgr, n, c) /\ At(canon', canon, n, c)
  /\ UNCHANGED shut

AdoptsLate(n, c, now, l) ==
  /\ Adopting(n, c, now, l) /\ mgr[n] \in {None, c, l} /\ now # c
  /\ Only(step', step, n, c, "ended") /\ Only(loser', loser, n, c, None) /\ Closes(n, {c})
  /\ At(mgr', mgr, n, None) /\ At(canon', canon, n, canon[n])

\* c replaces the live session, or is closed in its favour, or never gets a hello.
Overrules(n, c) ==
  /\ step[n][c] = "hello" /\ SentHello(Other(n), c)
  /\ c \in FromSmall /\ canon[n] \in FromLarge /\ Live(n, canon[n])
  /\ Only(step', step, n, c, "retire") /\ Only(loser', loser, n, c, canon[n])
  /\ At(canon', canon, n, c)
  /\ UNCHANGED <<selected, link, mgr, inFlight, closing, user>>

Loses(n, c) ==
  /\ step[n][c] = "hello" /\ SentHello(Other(n), c)
  /\ canon[n] # None /\ Live(n, canon[n]) /\ ~(c \in FromSmall /\ canon[n] \in FromLarge)
  /\ Only(step', step, n, c, IF Dialer(c) = n THEN "closeOpened" ELSE "ended")
  /\ Only(selected', selected, n, c, canon[n]) /\ Closes(n, {c})
  /\ UNCHANGED <<loser, eof, failed, failures, node, user>>

Fails(n, c) ==
  /\ step[n][c] = "hello" /\ eof[n][c] /\ (SentHello(Other(n), c) => c \in failed)
  /\ Only(step', step, n, c, "ended") /\ Closes(n, {c})
  /\ \A m \in Nodes : inFlight'[m] = IF m = n /\ inFlight[n] = c THEN None ELSE inFlight[m]
  /\ \A m \in Nodes : \/ mgr'[m] = mgr[m]
                      \/ m = n /\ inFlight[n] = c /\ NoMgr(n) /\ mgr'[m] = None
  /\ UNCHANGED <<loser, selected, eof, failed, failures, canon, closing, user>>

\* The loser is closed; then an adopted connection is read, or was replaced meanwhile.
ClosesLoser(n, c) ==
  /\ \/ step[n][c] = "retire" /\ Only(step', step, n, c, "retired")
     \/ step[n][c] = "retirePrev" /\ Only(step', step, n, c, "retiredPrev")
  /\ Closes(n, {loser[n][c]})
  /\ UNCHANGED <<loser, selected, eof, failed, failures, node, user>>

Reads(n, c) ==
  /\ step[n][c] = "retiredPrev" /\ canon[n] = c
  /\ Only(step', step, n, c, "reading") /\ Only(loser', loser, n, c, None)
  /\ UNCHANGED <<selected, link, node, user>>

Replaced(n, c) ==
  /\ step[n][c] = "retiredPrev" /\ canon[n] # c
  /\ Only(step', step, n, c, "ended") /\ Only(loser', loser, n, c, None) /\ Closes(n, {c})
  /\ At(mgr', mgr, n, IF mgr[n] = c THEN None ELSE mgr[n])
  /\ UNCHANGED <<selected, eof, failed, failures, canon, inFlight, closing, user>>

ClosedPrevious(n, c) ==
  /\ step[n][c] = "closePrev"
  /\ Only(step', step, n, c, IF selected[n][c] = c THEN "installed" ELSE "ended")
  /\ At(inFlight', inFlight, n, None)
  /\ UNCHANGED <<loser, selected, link, canon, mgr, closing, user>>

\* The reader of c leaves its loop, and c is closed.
Leaves(n, c) ==
  /\ step[n][c] = "reading" /\ Only(step', step, n, c, "ending")
  /\ At(canon', canon, n, IF canon[n] = c THEN None ELSE canon[n])
  /\ shut[n][c] \/ eof[n][c] \/ failures' # 0
  /\ failures' = 0 => failures = 0
  /\ UNCHANGED <<loser, selected, shut, eof, failed, mgr, inFlight, closing, user>>

Finishes(n, c) ==
  /\ step[n][c] = "ending" /\ Only(step', step, n, c, "ended") /\ Closes(n, {c})
  /\ At(mgr', mgr, n, IF mgr[n] = c THEN None ELSE mgr[n])
  /\ UNCHANGED <<loser, selected, eof, failed, failures, canon, inFlight, closing, user>>

Plain(n) == Joins(n) \/ GivesUp(n) \/ Unblocks(n) \/ Returns(n) \/ Cancels(n)

Paired(n, c) ==
  \/ Dials(n, c) \/ StartsReader(n, c) \/ Meets(n, c) \/ Accepts(n, c) \/ Drops(n, c)
  \/ Overrules(n, c) \/ Loses(n, c) \/ Fails(n, c) \/ ClosesLoser(n, c) \/ Reads(n, c)
  \/ Replaced(n, c) \/ ClosedPrevious(n, c) \/ Leaves(n, c) \/ Finishes(n, c)

Published(n, c, x, l) ==
  \/ InstallsOver(n, c, x) \/ InstallsClean(n, c, x) \/ AdoptRefused(n, c, x, l)
  \/ AdoptsOver(n, c, x, l) \/ AdoptsClean(n, c, x, l) \/ AdoptsLate(n, c, x, l)

\* A dialling task is known to the manager, an incoming one is adopted.
Directed ==
  \A n \in Nodes, c \in Conns :
    /\ Dialer(c) = n => step[n][c] \in {"none"} \cup InFlightSteps \cup DoneSteps
    /\ Dialer(c) # n => step[n][c] \in {"none", "pending", "hello", "retire", "retired",
                                        "retirePrev", "retiredPrev", "reading", "ending", "ended"}

\* The tables and the tasks name connections that are past the hello, and an
\* attempt that hands over has something to hand over.
Tables == \A n \in Nodes : /\ canon[n] # None => Past(n, canon[n])
                           /\ mgr[n] # None => Past(n, mgr[n])

Tasks == \A n \in Nodes, c \in Conns : /\ loser[n][c] # None => Past(n, loser[n][c])
                                       /\ selected[n][c] # None => Past(n, selected[n][c])

Results ==
  \A n \in Nodes, c \in Conns :
    /\ step[n][c] \in {"closeOpened", "closePrev"} => selected[n][c] # None
    /\ step[n][c] = "installed" => selected[n][c] = c

Refs == Tables /\ Tasks /\ Results

LEMMA LiveFacts ==
  ASSUME TypeOK, Refs, NEW n \in Nodes
  PROVE  /\ LiveCanon(n) = None <=> NoCanon(n)
         /\ LiveCanon(n) # None <=> canon[n] # None /\ Live(n, canon[n])
         /\ LiveCanon(n) # None => LiveCanon(n) = canon[n]
         /\ LiveMgr(n) = None <=> NoMgr(n)
         /\ LiveMgr(n) # None <=> mgr[n] # None /\ Live(n, mgr[n])
         /\ LiveMgr(n) # None => LiveMgr(n) = mgr[n]
BY DEF TypeOK, Refs, Tables, LiveCanon, LiveMgr, NoCanon, NoMgr, Live, Open, Past, IsClosed

\* What the assignments of the actions do, entry by entry.
LEMMA Effects ==
  ASSUME TypeOK, NEW n \in Nodes
  PROVE  /\ \A c \in Conns, s \in Steps : GoTo(n, c, s) => Only(step', step, n, c, s)
         /\ \A c \in Conns : \A v \in Conns \cup {None} :
              /\ loser' = [loser EXCEPT ![n][c] = v] => Only(loser', loser, n, c, v)
              /\ selected' = [selected EXCEPT ![n][c] = v] => Only(selected', selected, n, c, v)
         /\ \A v \in Conns \cup {None} :
              /\ canon' = [canon EXCEPT ![n] = v] => At(canon', canon, n, v)
              /\ mgr' = [mgr EXCEPT ![n] = v] => At(mgr', mgr, n, v)
              /\ inFlight' = [inFlight EXCEPT ![n] = v] => At(inFlight', inFlight, n, v)
              /\ waiter' = [waiter EXCEPT ![n] = v] => At(waiter', waiter, n, v)
<1>1. \A c \in Conns, s \in Steps : GoTo(n, c, s) => Only(step', step, n, c, s)
  BY DEF TypeOK, GoTo, Only
<1>2. \A c \in Conns : \A v \in Conns \cup {None} :
              /\ loser' = [loser EXCEPT ![n][c] = v] => Only(loser', loser, n, c, v)
              /\ selected' = [selected EXCEPT ![n][c] = v] => Only(selected', selected, n, c, v)
  BY DEF TypeOK, Only
<1>3. \A v \in Conns \cup {None} :
              /\ canon' = [canon EXCEPT ![n] = v] => At(canon', canon, n, v)
              /\ mgr' = [mgr EXCEPT ![n] = v] => At(mgr', mgr, n, v)
              /\ inFlight' = [inFlight EXCEPT ![n] = v] => At(inFlight', inFlight, n, v)
              /\ waiter' = [waiter EXCEPT ![n] = v] => At(waiter', waiter, n, v)
  BY DEF TypeOK, At
<1> QED BY <1>1, <1>2, <1>3

LEMMA StepNames == \A s \in {"none", "dial", "pending", "hello", "retire", "retired",
    "closeOpened", "closePrev", "retirePrev", "retiredPrev", "installed", "reading",
    "ending", "ended"} : s \in Steps
BY DEF Steps

LEMMA ConnectKinds ==
  ASSUME TypeOK, Refs, NEW n \in Nodes, Connect(n)
  PROVE  Joins(n) \/ \E c \in Conns : Dials(n, c)
<1>1. waiter[n] = None /\ NoCanon(n) /\ NoMgr(n) /\ At(mgr', mgr, n, None)
  BY LiveFacts, Effects DEF Connect
<1>2. CASE inFlight[n] # None
  <2>1. waiter' = [waiter EXCEPT ![n] = inFlight[n]] /\ UNCHANGED <<inFlight, step>>
    BY <1>2 DEF Connect
  <2>2. At(waiter', waiter, n, inFlight[n])
    BY <2>1, Effects DEF TypeOK
  <2> QED BY <1>1, <1>2, <2>1, <2>2 DEF Connect, Joins, local
<1>3. CASE inFlight[n] = None
  <2>1. PICK c \in Fresh(n) : /\ GoTo(n, c, "dial")
                              /\ inFlight' = [inFlight EXCEPT ![n] = c]
                              /\ waiter' = [waiter EXCEPT ![n] = c]
    BY <1>3 DEF Connect
  <2>2. c \in Conns /\ Dialer(c) = n /\ step[n][c] = "none" /\ "dial" \in Steps
    BY DEF Fresh, Steps
  <2>3. /\ Only(step', step, n, c, "dial")
        /\ At(inFlight', inFlight, n, c) /\ At(waiter', waiter, n, c)
    BY <2>1, <2>2, Effects
  <2> QED BY <1>1, <1>3, <2>2, <2>3 DEF Connect, Dials
<1> QED BY <1>2, <1>3

LEMMA ClosePeerKind ==
  ASSUME TypeOK, Refs, NEW n \in Nodes, ClosePeer(n)
  PROVE  /\ At(mgr', mgr, n, None) /\ At(inFlight', inFlight, n, None)
         /\ \A m \in Nodes, d \in Conns :
              step'[m][d] = IF m = n /\ d = inFlight[n] THEN "ended" ELSE step[m][d]
         /\ Closes(n, {mgr[n], inFlight[n]})
         /\ gaveUp' = TRUE
<1>1. At(mgr', mgr, n, None) /\ At(inFlight', inFlight, n, None)
  BY Effects DEF ClosePeer
<1>2. \A m \in Nodes, d \in Conns :
        step'[m][d] = IF m = n /\ d = inFlight[n] THEN "ended" ELSE step[m][d]
  BY DEF ClosePeer, TypeOK
<1>3. Closes(n, {mgr[n], inFlight[n]})
  BY ShutCloses DEF ClosePeer, TypeOK
<1> QED BY <1>1, <1>2, <1>3 DEF ClosePeer

LEMMA CallerKinds ==
  ASSUME TypeOK, Refs, NEW n \in Nodes,
         ConnectStale(n) \/ ConnectCancelled(n) \/ NodeStep(n)
  PROVE  Plain(n) \/ \E c \in Conns : Paired(n, c)
<1>1. CASE ConnectStale(n)
  <2>1. /\ ClosePeer(n) /\ waiter[n] = None /\ mgr[n] # None /\ Live(n, mgr[n])
        /\ UNCHANGED <<loser, selected, eof, failed, failures, canon, waiter, cancels>>
    BY <1>1, LiveFacts DEF ConnectStale
  <2> QED BY <2>1, ClosePeerKind DEF GivesUp, Plain
<1>2. CASE ConnectCancelled(n)
  <2>1. cancels' # 0
    BY <1>2 DEF ConnectCancelled, TypeOK
  <2> QED BY <1>2, <2>1 DEF ConnectCancelled, Cancels, Plain
<1>3. CASE ClosePeerReturns(n)
  <2>1. At(closing', closing, n, FALSE)
    BY <1>3 DEF ClosePeerReturns, TypeOK, At
  <2> QED BY <1>3, <2>1 DEF ClosePeerReturns, Unblocks, Plain
<1>4. CASE ConnectReturns(n)
  <2> DEFINE sel == selected[n][waiter[n]]
  <2>0. waiter[n] \in Conns \cup {None} /\ \A w \in Conns : selected[n][w] \in Conns \cup {None}
    BY DEF TypeOK
  <2>1. /\ waiter[n] # None /\ step[n][waiter[n]] \in DoneSteps /\ inFlight[n] # waiter[n]
        /\ waiter[n] \in Conns /\ sel \in Conns \cup {None}
        /\ At(waiter', waiter, n, None)
        /\ UNCHANGED <<loser, selected, eof, failed, failures, canon, connects, cancels>>
    BY <1>4, <2>0, Effects DEF ConnectReturns, DoneSteps
  <2>2. CASE sel = None
    <3>1. UNCHANGED <<step, mgr, inFlight, closing, shut, gaveUp>>
      BY <1>4, <2>2 DEF ConnectReturns
    <3> QED BY <2>1, <2>2, <3>1 DEF Returns, Plain, local, link, node
  <2>3. CASE sel # None /\ canon[n] = sel
    <3>1. /\ step' = [step EXCEPT ![n][sel] = IF @ = "installed" THEN "reading" ELSE @]
          /\ UNCHANGED <<mgr, inFlight, closing, shut, gaveUp>>
      BY <1>4, <2>3 DEF ConnectReturns
    <3>0. step \in [Nodes -> [Conns -> Steps]]
      BY DEF TypeOK
    <3>2. Only(step', step, n, sel, IF step[n][sel] = "installed" THEN "reading" ELSE step[n][sel])
      BY <2>1, <2>3, <3>0, <3>1 DEF Only
    <3>3. StartsReader(n, sel)
      BY <2>1, <2>3, <3>1, <3>2 DEF StartsReader, link, node
    <3> QED BY <2>1, <2>3, <3>3 DEF Paired
  <2>4. CASE sel # None /\ canon[n] # sel
    <3>1. ClosePeer(n)
      BY <1>4, <2>4 DEF ConnectReturns
    <3>2. \A m \in Nodes : waiter'[m] = waiter[m] \/ (m = n /\ waiter'[m] = None)
      BY <2>1 DEF At
    <3> QED BY <2>1, <3>1, <3>2, ClosePeerKind DEF GivesUp, Plain
  <2> QED BY <2>2, <2>3, <2>4
<1> QED BY <1>1, <1>2, <1>3, <1>4 DEF NodeStep

LEMMA InstallKinds ==
  ASSUME TypeOK, NEW n \in Nodes, NEW c \in Conns, NEW sel \in Conns \cup {None},
         Install(n, c, sel), Installing(n, c, sel)
  PROVE  InstallsOver(n, c, sel) \/ InstallsClean(n, c, sel)
<1>1. CASE mgr[n] \notin {None, sel}
  <2>1. GoTo(n, c, "closePrev") /\ Shut(n, {mgr[n]}) /\ UNCHANGED inFlight
    BY <1>1 DEF Install
  <2>2. Only(step', step, n, c, "closePrev") /\ Closes(n, {mgr[n]})
    BY <2>1, Effects, StepNames, ShutCloses DEF TypeOK
  <2> QED BY <1>1, <2>1, <2>2 DEF InstallsOver
<1>2. CASE mgr[n] \in {None, sel}
  <2> DEFINE s == IF sel = c THEN "installed" ELSE "ended"
  <2>1. GoTo(n, c, s) /\ inFlight' = [inFlight EXCEPT ![n] = None] /\ UNCHANGED shut
    BY <1>2 DEF Install
  <2>2. s \in Steps
    BY DEF Steps
  <2> HIDE DEF s
  <2>3. Only(step', step, n, c, s) /\ At(inFlight', inFlight, n, None)
    BY <2>1, <2>2, Effects
  <2> QED BY <1>2, <2>1, <2>3 DEF InstallsClean, s
<1> QED BY <1>1, <1>2

LEMMA AdoptKinds ==
  ASSUME TypeOK, NEW n \in Nodes, NEW c \in Conns, NEW now \in Conns \cup {None},
         NEW l \in Conns \cup {None}, Adopt(n, c, now, l), Adopting(n, c, now, l)
  PROVE  \/ AdoptRefused(n, c, now, l) \/ AdoptsOver(n, c, now, l)
         \/ AdoptsClean(n, c, now, l) \/ AdoptsLate(n, c, now, l)
<1>0. mgr[n] \in Conns \cup {None} /\ Deactivated(now, c) \in Conns \cup {None}
      /\ Deactivated(now, mgr[n]) \in Conns \cup {None}
  BY DEF TypeOK, Deactivated
<1>1. CASE closing[n]
  <2>1. /\ GoTo(n, c, "ended") /\ Shut(n, {c}) /\ loser' = [loser EXCEPT ![n][c] = None]
        /\ canon' = [canon EXCEPT ![n] = Deactivated(now, c)] /\ UNCHANGED mgr
    BY <1>1 DEF Adopt
  <2>2. /\ Only(step', step, n, c, "ended") /\ Only(loser', loser, n, c, None)
        /\ Closes(n, {c}) /\ At(canon', canon, n, Deactivated(now, c))
    BY <1>0, <2>1, Effects, StepNames, ShutCloses DEF TypeOK
  <2> QED BY <1>1, <2>1, <2>2 DEF AdoptRefused, Deactivated
<1>2. CASE ~closing[n] /\ mgr[n] \notin {None, c, l}
  <2>1. /\ GoTo(n, c, "retirePrev") /\ mgr' = [mgr EXCEPT ![n] = c]
        /\ loser' = [loser EXCEPT ![n][c] = mgr[n]]
        /\ canon' = [canon EXCEPT ![n] = Deactivated(now, mgr[n])] /\ UNCHANGED shut
    BY <1>2 DEF Adopt
  <2>2. /\ Only(step', step, n, c, "retirePrev") /\ Only(loser', loser, n, c, mgr[n])
        /\ At(mgr', mgr, n, c) /\ At(canon', canon, n, Deactivated(now, mgr[n]))
    BY <1>0, <2>1, Effects, StepNames
  <2> QED BY <1>2, <2>1, <2>2 DEF AdoptsOver, Deactivated
<1>3. CASE ~closing[n] /\ mgr[n] \in {None, c, l} /\ now = c
  <2>1. /\ GoTo(n, c, "reading") /\ mgr' = [mgr EXCEPT ![n] = c]
        /\ loser' = [loser EXCEPT ![n][c] = None]
        /\ canon' = [canon EXCEPT ![n] = c] /\ UNCHANGED shut
    BY <1>3 DEF Adopt
  <2>2. /\ Only(step', step, n, c, "reading") /\ Only(loser', loser, n, c, None)
        /\ At(mgr', mgr, n, c) /\ At(canon', canon, n, c)
    BY <2>1, Effects, StepNames
  <2> QED BY <1>3, <2>1, <2>2 DEF AdoptsClean
<1>4. CASE ~closing[n] /\ mgr[n] \in {None, c, l} /\ now # c
  <2>1. /\ GoTo(n, c, "ended") /\ mgr' = [mgr EXCEPT ![n] = None] /\ Shut(n, {c})
        /\ loser' = [loser EXCEPT ![n][c] = None]
        /\ canon' = [canon EXCEPT ![n] = now]
    BY <1>4 DEF Adopt
  <2>2. /\ Only(step', step, n, c, "ended") /\ Only(loser', loser, n, c, None)
        /\ Closes(n, {c}) /\ At(mgr', mgr, n, None) /\ At(canon', canon, n, now)
    BY <2>1, Effects, StepNames, ShutCloses DEF TypeOK
  <2>3. now = canon[n]
    BY <1>4 DEF Adopting
  <2> QED BY <1>4, <2>2, <2>3 DEF AdoptsLate
<1> QED BY <1>1, <1>2, <1>3, <1>4

LEMMA PublishKinds ==
  ASSUME TypeOK, NEW n \in Nodes, NEW c \in Conns, NEW now \in Conns \cup {None},
         NEW l \in Conns \cup {None}, Publish(n, c, now, l),
         \/ step[n][c] = "hello" /\ NoCanon(n) /\ SentHello(Other(n), c) /\ now = c /\ l = None
         \/ step[n][c] = "retired" /\ now = canon[n] /\ l = loser[n][c],
         UNCHANGED <<eof, failed, failures, closing, user>>
  PROVE  \E x \in Conns \cup {None} : Published(n, c, x, l)
<1>1. CASE Dialer(c) = n
  <2>1. /\ Install(n, c, c) /\ canon' = [canon EXCEPT ![n] = now]
        /\ loser' = [loser EXCEPT ![n][c] = None]
    BY <1>1 DEF Publish, Dir
  <2>2. At(canon', canon, n, now) /\ Only(loser', loser, n, c, None)
    BY <2>1, Effects
  <2>3. At(mgr', mgr, n, c) /\ Only(selected', selected, n, c, c)
    BY <2>1, Effects DEF Install
  <2>4. Installing(n, c, c)
    BY <1>1, <2>2, <2>3 DEF Installing, Only
  <2> QED BY <2>1, <2>4, InstallKinds DEF Published
<1>2. CASE Dialer(c) # n
  <2>1. Adopt(n, c, now, l)
    BY <1>2 DEF Publish, Dir
  <2>2. Adopting(n, c, now, l)
    BY <1>2, <2>1 DEF Adopting, Adopt
  <2> QED BY <2>1, <2>2, AdoptKinds DEF Published
<1> QED BY <1>1, <1>2

LEMMA HelloKinds ==
  ASSUME TypeOK, Refs, NEW n \in Nodes, NEW c \in Conns, HelloDone(n, c)
  PROVE  Paired(n, c) \/ \E x, l \in Conns \cup {None} : Published(n, c, x, l)
<1>0. /\ step[n][c] = "hello" /\ SentHello(Other(n), c)
      /\ UNCHANGED <<eof, failed, failures, closing, user>>
  BY DEF HelloDone
<1>1. CASE LiveCanon(n) = None
  <2>1. Publish(n, c, c, None)
    BY <1>1 DEF HelloDone, Wins
  <2> QED BY <1>0, <1>1, <2>1, LiveFacts, PublishKinds
<1>2. CASE LiveCanon(n) # None /\ Wins(n, c)
  <2>0. canon[n] # None /\ Live(n, canon[n]) /\ LiveCanon(n) = canon[n] /\ canon[n] \in Conns
    BY <1>2, LiveFacts DEF TypeOK
  <2>1. /\ loser' = [loser EXCEPT ![n][c] = canon[n]]
        /\ canon' = [canon EXCEPT ![n] = c]
        /\ GoTo(n, c, "retire")
        /\ UNCHANGED <<mgr, selected, inFlight, shut>>
    BY <1>2, <2>0 DEF HelloDone
  <2>2. Dir(n, c) = Preferred(n) /\ Dir(n, canon[n]) # Preferred(n)
    BY <1>2, <2>0 DEF Wins
  <2>3. c \in FromSmall /\ canon[n] \in FromLarge
    BY <2>0, <2>2, NodeFacts DEF Dir, Preferred, Nodes
  <2>4. /\ Only(step', step, n, c, "retire") /\ Only(loser', loser, n, c, canon[n])
        /\ At(canon', canon, n, c)
    BY <2>0, <2>1, Effects, StepNames
  <2> QED BY <1>0, <2>0, <2>1, <2>3, <2>4 DEF Overrules, Paired, link
<1>3. CASE ~Wins(n, c)
  <2>0. canon[n] # None /\ Live(n, canon[n]) /\ LiveCanon(n) = canon[n] /\ canon[n] \in Conns
    BY <1>3, LiveFacts DEF TypeOK, Wins
  <2> DEFINE s == IF Dialer(c) = n THEN "closeOpened" ELSE "ended"
  <2>1. /\ Shut(n, {c}) /\ selected' = [selected EXCEPT ![n][c] = canon[n]] /\ GoTo(n, c, s)
        /\ UNCHANGED <<loser, canon, mgr, inFlight>>
    BY <1>3, <2>0 DEF HelloDone, Dir
  <2>2. ~(Dir(n, c) = Preferred(n) /\ Dir(n, canon[n]) # Preferred(n))
    BY <1>3, <2>0 DEF Wins
  <2>3. ~(c \in FromSmall /\ canon[n] \in FromLarge)
    BY <2>0, <2>2, NodeFacts DEF Dir, Preferred, Nodes
  <2>4. s \in Steps
    BY DEF Steps
  <2> HIDE DEF s
  <2>5. /\ Only(step', step, n, c, s) /\ Only(selected', selected, n, c, canon[n])
        /\ Closes(n, {c})
    BY <2>0, <2>1, <2>4, Effects, ShutCloses DEF TypeOK
  <2> QED BY <1>0, <2>0, <2>1, <2>3, <2>5 DEF Loses, Paired, node, s
<1> QED BY <1>1, <1>2, <1>3

LEMMA TaskKinds ==
  ASSUME TypeOK, Directed, Refs, NEW n \in Nodes, NEW c \in Conns,
         ConnectionStep(n, c) \/ ReaderAborts(n, c)
  PROVE  Paired(n, c) \/ \E x, l \in Conns \cup {None} : Published(n, c, x, l)
<1>1. CASE Dialled(n, c)
  <2>1. \A m \in Nodes, d \in Conns :
          step'[m][d] = IF d = c THEN IF m = n THEN "hello" ELSE "pending" ELSE step[m][d]
    BY <1>1, NodeFacts DEF Dialled, TypeOK
  <2> QED BY <1>1, <2>1 DEF Dialled, Meets, Paired
<1>2. CASE Accept(n, c)
  <2>1. Only(step', step, n, c, "hello")
    BY <1>2, Effects, StepNames DEF Accept
  <2> QED BY <1>2, <2>1 DEF Accept, Accepts, Paired
<1>3. CASE DeliverEof(n, c)
  <2>1. \A m \in Nodes, d \in Conns : eof'[m][d] <=> (eof[m][d] \/ (m = n /\ d = c))
    BY <1>3 DEF DeliverEof, TypeOK
  <2> QED BY <1>3, <2>1 DEF DeliverEof, Drops, Paired
<1>4. CASE HelloDone(n, c)
  BY <1>4, HelloKinds
<1>5. CASE HelloFails(n, c)
  <2>1. Only(step', step, n, c, "ended") /\ Closes(n, {c})
    BY <1>5, Effects, StepNames, ShutCloses DEF HelloFails, TypeOK
  <2>2. \A m \in Nodes : inFlight'[m] = IF m = n /\ inFlight[n] = c THEN None ELSE inFlight[m]
    BY <1>5 DEF HelloFails, TypeOK
  <2>3. LiveMgr(n) = mgr[n] \/ (LiveMgr(n) = None /\ NoMgr(n))
    BY LiveFacts
  <2>4. \A m \in Nodes : \/ mgr'[m] = mgr[m]
                         \/ m = n /\ inFlight[n] = c /\ NoMgr(n) /\ mgr'[m] = None
    BY <1>5, <2>3 DEF HelloFails, TypeOK
  <2> QED BY <1>5, <2>1, <2>2, <2>4 DEF HelloFails, Fails, Paired
<1>6. CASE RetireCloses(n, c)
  <2>1. Closes(n, {loser[n][c]})
    BY <1>6, ShutCloses DEF RetireCloses, TypeOK
  <2>2. \/ step[n][c] = "retire" /\ Only(step', step, n, c, "retired")
        \/ step[n][c] = "retirePrev" /\ Only(step', step, n, c, "retiredPrev")
    BY <1>6, Effects, StepNames DEF RetireCloses
  <2> QED BY <1>6, <2>1, <2>2 DEF RetireCloses, ClosesLoser, Paired
<1>7. CASE Retired(n, c)
  <2>1. canon[n] \in Conns \cup {None} /\ loser[n][c] \in Conns \cup {None}
    BY DEF TypeOK
  <2> QED BY <1>7, <2>1, PublishKinds DEF Retired
<1>8. CASE RetiredPrev(n, c)
  <2>0. step[n][c] = "retiredPrev" /\ Only(loser', loser, n, c, None)
    BY <1>8, Effects DEF RetiredPrev
  <2>1. CASE canon[n] = c
    <3>1. Only(step', step, n, c, "reading")
      BY <1>8, <2>1, Effects, StepNames DEF RetiredPrev
    <3> QED BY <1>8, <2>0, <2>1, <3>1 DEF RetiredPrev, Reads, Paired, link, node
  <2>2. CASE canon[n] # c
    <3>1. Only(step', step, n, c, "ended") /\ Closes(n, {c})
      BY <1>8, <2>2, Effects, StepNames, ShutCloses DEF RetiredPrev, TypeOK
    <3>2. At(mgr', mgr, n, IF mgr[n] = c THEN None ELSE mgr[n])
      BY <1>8, <2>2 DEF RetiredPrev, TypeOK, At, Deactivated
    <3> QED BY <1>8, <2>0, <2>2, <3>1, <3>2 DEF RetiredPrev, Replaced, Paired
  <2> QED BY <2>1, <2>2
<1>9. CASE OpenedClosed(n, c)
  <2>1. /\ selected[n][c] \in Conns \cup {None} /\ step[n][c] = "closeOpened"
        /\ Install(n, c, selected[n][c])
        /\ UNCHANGED <<loser, eof, failed, failures, canon, closing, user>>
    BY <1>9 DEF OpenedClosed, TypeOK
  <2>2. /\ At(mgr', mgr, n, selected[n][c]) /\ Only(selected', selected, n, c, selected[n][c])
    BY <2>1, Effects DEF Install
  <2>3. At(canon', canon, n, canon[n])
    BY <2>1 DEF At
  <2>4. CASE Dialer(c) = n
    <3>1. Installing(n, c, selected[n][c])
      BY <2>1, <2>2, <2>3, <2>4 DEF Installing
    <3> QED BY <2>1, <3>1, InstallKinds DEF Published
  <2>5. Dialer(c) = n
    BY <2>1 DEF Directed
  <2> QED BY <2>4, <2>5
<1>10. CASE PreviousClosed(n, c)
  <2> DEFINE s == IF selected[n][c] = c THEN "installed" ELSE "ended"
  <2>1. s \in Steps /\ GoTo(n, c, s)
    BY <1>10 DEF PreviousClosed, Steps
  <2> HIDE DEF s
  <2>2. Only(step', step, n, c, s) /\ At(inFlight', inFlight, n, None)
    BY <1>10, <2>1, Effects DEF PreviousClosed
  <2> QED BY <1>10, <2>2 DEF PreviousClosed, ClosedPrevious, Paired, s
<1>11. CASE ReaderEnds(n, c) \/ ReaderAborts(n, c)
  <2>1. EndSession(n, c) /\ Only(step', step, n, c, "ending")
    BY <1>11, Effects, StepNames DEF ReaderEnds, ReaderAborts, EndSession
  <2>2. At(canon', canon, n, IF canon[n] = c THEN None ELSE canon[n])
    BY <2>1 DEF EndSession, TypeOK, At, Deactivated
  <2>3. failures \in Nat
    BY ConstantsAssumption DEF TypeOK
  <2>4. /\ shut[n][c] \/ eof[n][c] \/ failures' # 0
        /\ failures' = 0 => failures = 0
    BY <1>11, <2>3 DEF ReaderEnds, ReaderAborts, IsClosed
  <2> QED BY <2>1, <2>2, <2>4 DEF EndSession, Leaves, Paired
<1>12. CASE SessionEnded(n, c)
  <2>1. Only(step', step, n, c, "ended") /\ Closes(n, {c})
    BY <1>12, Effects, StepNames, ShutCloses DEF SessionEnded, TypeOK
  <2>2. At(mgr', mgr, n, IF mgr[n] = c THEN None ELSE mgr[n])
    BY <1>12 DEF SessionEnded, TypeOK, At, Deactivated
  <2> QED BY <1>12, <2>1, <2>2 DEF SessionEnded, Finishes, Paired
<1> QED
  BY <1>1, <1>2, <1>3, <1>4, <1>5, <1>6, <1>7, <1>8, <1>9, <1>10, <1>11, <1>12
  DEF ConnectionStep

\* Every step of the system is one of these.
LEMMA StepKinds ==
  ASSUME TypeOK, Directed, Refs, [Next]_vars
  PROVE  \/ UNCHANGED vars
         \/ \E n \in Nodes : Plain(n)
         \/ \E n \in Nodes, c \in Conns : Paired(n, c)
         \/ \E n \in Nodes, c \in Conns, x, l \in Conns \cup {None} : Published(n, c, x, l)
         \/ \E c \in Conns : Breaks(c)
<1>1. ASSUME NEW n \in Nodes, Connect(n)
      PROVE  Plain(n) \/ \E c \in Conns : Paired(n, c)
  BY <1>1, ConnectKinds DEF Plain, Paired
<1>2. ASSUME NEW n \in Nodes, ConnectStale(n) \/ ConnectCancelled(n) \/ NodeStep(n)
      PROVE  Plain(n) \/ \E c \in Conns : Paired(n, c)
  BY <1>2, CallerKinds
<1>3. ASSUME NEW n \in Nodes, NEW c \in Conns, ConnectionStep(n, c) \/ ReaderAborts(n, c)
      PROVE  Paired(n, c) \/ \E x, l \in Conns \cup {None} : Published(n, c, x, l)
  BY <1>3, TaskKinds
<1>4. ASSUME NEW c \in Conns, LinkFails(c)
      PROVE  Breaks(c)
  <2>1. failures' # 0
    BY <1>4, ConstantsAssumption DEF LinkFails, TypeOK
  <2> QED BY <1>4, <2>1 DEF LinkFails, Breaks
<1> QED BY <1>1, <1>2, <1>3, <1>4 DEF Next

-----------------------------------------------------------------------------
(* The inductive invariant, part by part *)

\* The types of the tables, entry by entry.
Named ==
  \A n \in Nodes :
    /\ canon[n] \in Conns \cup {None} /\ mgr[n] \in Conns \cup {None}
    /\ inFlight[n] \in Conns \cup {None} /\ waiter[n] \in Conns \cup {None}
    /\ \A c \in Conns : loser[n][c] \in Conns \cup {None} /\ selected[n][c] \in Conns \cup {None}

LEMMA NamedHolds == TypeOK => Named
BY DEF TypeOK, Named

LEMMA LoserNamed ==
  ASSUME TypeOK, NEW n \in Nodes, NEW c \in Conns,
         step[n][c] \in {"retire", "retired", "retirePrev", "retiredPrev"}
  PROVE  loser[n][c] # None /\ loser[n][c] \in Conns
BY DEF TypeOK

LEMMA DirectedStep ==
  ASSUME TypeOK, Directed, Refs, [Next]_vars
  PROVE  Directed'
<1>1. ASSUME NEW n \in Nodes, Plain(n)
      PROVE  Directed'
  <2>1. CASE Joins(n)
    BY <2>1, NodeFacts, NamedHolds DEF Joins, At, local, link, Directed, Named, InFlightSteps,
        DoneSteps
  <2>2. CASE GivesUp(n)
    BY <2>2, NodeFacts, NamedHolds DEF GivesUp, At, Closes, Directed, Named, InFlightSteps,
        DoneSteps
  <2>3. CASE Unblocks(n)
    BY <2>3, NodeFacts, NamedHolds DEF Unblocks, At, local, link, Directed, Named, InFlightSteps,
        DoneSteps
  <2>4. CASE Returns(n)
    BY <2>4, NodeFacts, NamedHolds DEF Returns, At, local, link, node, Directed, Named,
        InFlightSteps, DoneSteps
  <2>5. CASE Cancels(n)
    BY <2>5, NodeFacts, NamedHolds DEF Cancels, local, link, node, Directed, Named,
        InFlightSteps, DoneSteps
  <2> QED BY <1>1, <2>1, <2>2, <2>3, <2>4, <2>5 DEF Plain
<1>2. ASSUME NEW n \in Nodes, NEW c \in Conns, Paired(n, c)
      PROVE  Directed'
  <2>1. CASE Dials(n, c)
    BY <2>1, NodeFacts, NamedHolds DEF Dials, At, Only, link, Directed, Named, InFlightSteps,
        DoneSteps
  <2>2. CASE StartsReader(n, c)
    BY <2>2, NodeFacts, NamedHolds DEF StartsReader, At, Only, link, node, Directed, Named,
        InFlightSteps, DoneSteps
  <2>3. CASE Meets(n, c)
    BY <2>3, NodeFacts, NamedHolds DEF Meets, link, node, Directed, Named, InFlightSteps,
        DoneSteps
  <2>4. CASE Accepts(n, c)
    BY <2>4, NodeFacts, NamedHolds DEF Accepts, Only, link, node, Directed, Named, InFlightSteps,
        DoneSteps
  <2>5. CASE Drops(n, c)
    BY <2>5, NodeFacts, NamedHolds DEF Drops, local, node, Directed, Named, InFlightSteps,
        DoneSteps
  <2>6. CASE Overrules(n, c)
    BY <2>6, NodeFacts, NamedHolds DEF Overrules, At, Only, link, Directed, Named, InFlightSteps,
        DoneSteps
  <2>7. CASE Loses(n, c)
    BY <2>7, NodeFacts, NamedHolds DEF Loses, Only, Closes, node, Directed, Named, InFlightSteps,
        DoneSteps
  <2>8. CASE Fails(n, c)
    BY <2>8, NodeFacts, NamedHolds DEF Fails, Only, Closes, Directed, Named, InFlightSteps,
        DoneSteps
  <2>9. CASE ClosesLoser(n, c)
    BY <2>9, NodeFacts, NamedHolds DEF ClosesLoser, Only, Closes, node, Directed, Named,
        InFlightSteps, DoneSteps
  <2>10. CASE Reads(n, c)
    BY <2>10, NodeFacts, NamedHolds DEF Reads, Only, link, node, Directed, Named, InFlightSteps,
        DoneSteps
  <2>11. CASE Replaced(n, c)
    BY <2>11, NodeFacts, NamedHolds DEF Replaced, At, Only, Closes, Directed, Named,
        InFlightSteps, DoneSteps
  <2>12. CASE ClosedPrevious(n, c)
    BY <2>12, NodeFacts, NamedHolds DEF ClosedPrevious, At, Only, link, Directed, Named,
        InFlightSteps, DoneSteps
  <2>13. CASE Leaves(n, c)
    BY <2>13, NodeFacts, NamedHolds DEF Leaves, At, Only, Directed, Named, InFlightSteps,
        DoneSteps
  <2>14. CASE Finishes(n, c)
    BY <2>14, NodeFacts, NamedHolds DEF Finishes, At, Only, Closes, Directed, Named,
        InFlightSteps, DoneSteps
  <2> QED BY <1>2, <2>1, <2>2, <2>3, <2>4, <2>5, <2>6, <2>7, <2>8, <2>9, <2>10, <2>11, <2>12,
      <2>13, <2>14 DEF Paired
<1>3. ASSUME NEW n \in Nodes, NEW c \in Conns,
             NEW x \in Conns \cup {None}, NEW l \in Conns \cup {None}, Published(n, c, x, l)
      PROVE  Directed'
  <2>1. CASE InstallsOver(n, c, x)
    BY <2>1, NodeFacts, NamedHolds DEF InstallsOver, Installing, At, Only, Closes, Directed,
        Named, InFlightSteps, DoneSteps
  <2>2. CASE InstallsClean(n, c, x)
    BY <2>2, NodeFacts, NamedHolds DEF InstallsClean, Installing, At, Only, Directed, Named,
        InFlightSteps, DoneSteps
  <2>3. CASE AdoptRefused(n, c, x, l)
    BY <2>3, NodeFacts, NamedHolds DEF AdoptRefused, Adopting, At, Only, Closes, Directed, Named,
        InFlightSteps, DoneSteps
  <2>4. CASE AdoptsOver(n, c, x, l)
    BY <2>4, NodeFacts, NamedHolds DEF AdoptsOver, Adopting, At, Only, Directed, Named,
        InFlightSteps, DoneSteps
  <2>5. CASE AdoptsClean(n, c, x, l)
    BY <2>5, NodeFacts, NamedHolds DEF AdoptsClean, Adopting, At, Only, Directed, Named,
        InFlightSteps, DoneSteps
  <2>6. CASE AdoptsLate(n, c, x, l)
    BY <2>6, NodeFacts, NamedHolds DEF AdoptsLate, Adopting, At, Only, Closes, Directed, Named,
        InFlightSteps, DoneSteps
  <2> QED BY <1>3, <2>1, <2>2, <2>3, <2>4, <2>5, <2>6 DEF Published
<1>4. ASSUME NEW c \in Conns, Breaks(c)
      PROVE  Directed'
  BY <1>4, NodeFacts, NamedHolds DEF Breaks, local, node, Directed, Named, InFlightSteps,
      DoneSteps
<1>5. CASE UNCHANGED vars
  BY <1>5 DEF vars, local, link, node, user, Directed, Named, InFlightSteps, DoneSteps
<1> QED BY <1>1, <1>2, <1>3, <1>4, <1>5, StepKinds

\* Nothing reaches the listener before the dial is through, and the manager's
\* attempt in flight is the one outgoing task that has not ended.
Order ==
  \A c \in Conns : step[Dialer(c)][c] \in {"none", "dial"} => step[Other(Dialer(c))][c] = "none"

Flight ==
  \A n \in Nodes, c \in Conns :
    inFlight[n] = c <=> Dialer(c) = n /\ step[n][c] \in InFlightSteps

LEMMA FlightStep ==
  ASSUME TypeOK, Directed, Refs, Flight, [Next]_vars
  PROVE  Flight'
<1>1. ASSUME NEW n \in Nodes, Plain(n)
      PROVE  Flight'
  <2>1. CASE Joins(n)
    BY <2>1, NodeFacts, NamedHolds DEF Joins, At, local, link, Flight, Directed, Named,
        InFlightSteps, DoneSteps
  <2>2. CASE GivesUp(n)
    BY <2>2, NodeFacts, NamedHolds DEF GivesUp, At, Closes, Flight, Directed, Named,
        InFlightSteps, DoneSteps
  <2>3. CASE Unblocks(n)
    BY <2>3, NodeFacts, NamedHolds DEF Unblocks, At, local, link, Flight, Directed, Named,
        InFlightSteps, DoneSteps
  <2>4. CASE Returns(n)
    BY <2>4, NodeFacts, NamedHolds DEF Returns, At, local, link, node, Flight, Directed, Named,
        InFlightSteps, DoneSteps
  <2>5. CASE Cancels(n)
    BY <2>5, NodeFacts, NamedHolds DEF Cancels, local, link, node, Flight, Directed, Named,
        InFlightSteps, DoneSteps
  <2> QED BY <1>1, <2>1, <2>2, <2>3, <2>4, <2>5 DEF Plain
<1>2. ASSUME NEW n \in Nodes, NEW c \in Conns, Paired(n, c)
      PROVE  Flight'
  <2>1. CASE Dials(n, c)
    BY <2>1, NodeFacts, NamedHolds DEF Dials, At, Only, link, Flight, Directed, Named,
        InFlightSteps, DoneSteps
  <2>2. CASE StartsReader(n, c)
    BY <2>2, NodeFacts, NamedHolds DEF StartsReader, At, Only, link, node, Flight, Directed,
        Named, InFlightSteps, DoneSteps
  <2>3. CASE Meets(n, c)
    BY <2>3, NodeFacts, NamedHolds DEF Meets, link, node, Flight, Directed, Named, InFlightSteps,
        DoneSteps
  <2>4. CASE Accepts(n, c)
    BY <2>4, NodeFacts, NamedHolds DEF Accepts, Only, link, node, Flight, Directed, Named,
        InFlightSteps, DoneSteps
  <2>5. CASE Drops(n, c)
    BY <2>5, NodeFacts, NamedHolds DEF Drops, local, node, Flight, Directed, Named,
        InFlightSteps, DoneSteps
  <2>6. CASE Overrules(n, c)
    BY <2>6, NodeFacts, NamedHolds DEF Overrules, At, Only, link, Flight, Directed, Named,
        InFlightSteps, DoneSteps
  <2>7. CASE Loses(n, c)
    BY <2>7, NodeFacts, NamedHolds DEF Loses, Only, Closes, node, Flight, Directed, Named,
        InFlightSteps, DoneSteps
  <2>8. CASE Fails(n, c)
    BY <2>8, NodeFacts, NamedHolds DEF Fails, Only, Closes, Flight, Directed, Named,
        InFlightSteps, DoneSteps
  <2>9. CASE ClosesLoser(n, c)
    BY <2>9, NodeFacts, NamedHolds DEF ClosesLoser, Only, Closes, node, Flight, Directed, Named,
        InFlightSteps, DoneSteps
  <2>10. CASE Reads(n, c)
    BY <2>10, NodeFacts, NamedHolds DEF Reads, Only, link, node, Flight, Directed, Named,
        InFlightSteps, DoneSteps
  <2>11. CASE Replaced(n, c)
    BY <2>11, NodeFacts, NamedHolds DEF Replaced, At, Only, Closes, Flight, Directed, Named,
        InFlightSteps, DoneSteps
  <2>12. CASE ClosedPrevious(n, c)
    BY <2>12, NodeFacts, NamedHolds DEF ClosedPrevious, At, Only, link, Flight, Directed, Named,
        InFlightSteps, DoneSteps
  <2>13. CASE Leaves(n, c)
    BY <2>13, NodeFacts, NamedHolds DEF Leaves, At, Only, Flight, Directed, Named, InFlightSteps,
        DoneSteps
  <2>14. CASE Finishes(n, c)
    BY <2>14, NodeFacts, NamedHolds DEF Finishes, At, Only, Closes, Flight, Directed, Named,
        InFlightSteps, DoneSteps
  <2> QED BY <1>2, <2>1, <2>2, <2>3, <2>4, <2>5, <2>6, <2>7, <2>8, <2>9, <2>10, <2>11, <2>12,
      <2>13, <2>14 DEF Paired
<1>3. ASSUME NEW n \in Nodes, NEW c \in Conns,
             NEW x \in Conns \cup {None}, NEW l \in Conns \cup {None}, Published(n, c, x, l)
      PROVE  Flight'
  <2>1. CASE InstallsOver(n, c, x)
    BY <2>1, NodeFacts, NamedHolds DEF InstallsOver, Installing, At, Only, Closes, Flight,
        Directed, Named, InFlightSteps, DoneSteps
  <2>2. CASE InstallsClean(n, c, x)
    BY <2>2, NodeFacts, NamedHolds DEF InstallsClean, Installing, At, Only, Flight, Directed,
        Named, InFlightSteps, DoneSteps
  <2>3. CASE AdoptRefused(n, c, x, l)
    BY <2>3, NodeFacts, NamedHolds DEF AdoptRefused, Adopting, At, Only, Closes, Flight,
        Directed, Named, InFlightSteps, DoneSteps
  <2>4. CASE AdoptsOver(n, c, x, l)
    BY <2>4, NodeFacts, NamedHolds DEF AdoptsOver, Adopting, At, Only, Flight, Directed, Named,
        InFlightSteps, DoneSteps
  <2>5. CASE AdoptsClean(n, c, x, l)
    BY <2>5, NodeFacts, NamedHolds DEF AdoptsClean, Adopting, At, Only, Flight, Directed, Named,
        InFlightSteps, DoneSteps
  <2>6. CASE AdoptsLate(n, c, x, l)
    BY <2>6, NodeFacts, NamedHolds DEF AdoptsLate, Adopting, At, Only, Closes, Flight, Directed,
        Named, InFlightSteps, DoneSteps
  <2> QED BY <1>3, <2>1, <2>2, <2>3, <2>4, <2>5, <2>6 DEF Published
<1>4. ASSUME NEW c \in Conns, Breaks(c)
      PROVE  Flight'
  BY <1>4, NodeFacts, NamedHolds DEF Breaks, local, node, Flight, Directed, Named, InFlightSteps,
      DoneSteps
<1>5. CASE UNCHANGED vars
  BY <1>5 DEF vars, local, link, node, user, Flight, Directed, Named, InFlightSteps, DoneSteps
<1> QED BY <1>1, <1>2, <1>3, <1>4, <1>5, StepKinds

LEMMA OrderStep ==
  ASSUME TypeOK, Directed, Refs, Flight, Order, [Next]_vars
  PROVE  Order'
<1>1. ASSUME NEW n \in Nodes, Plain(n)
      PROVE  Order'
  <2>1. CASE Joins(n)
    BY <2>1, NodeFacts DEF Joins, At, local, link, Order, Flight, Directed, InFlightSteps,
        DoneSteps
  <2>2. CASE GivesUp(n)
    BY <2>2, NodeFacts DEF GivesUp, At, Closes, Order, Flight, Directed, InFlightSteps, DoneSteps
  <2>3. CASE Unblocks(n)
    BY <2>3, NodeFacts DEF Unblocks, At, local, link, Order, Flight, Directed, InFlightSteps,
        DoneSteps
  <2>4. CASE Returns(n)
    BY <2>4, NodeFacts DEF Returns, At, local, link, node, Order, Flight, Directed,
        InFlightSteps, DoneSteps
  <2>5. CASE Cancels(n)
    BY <2>5, NodeFacts DEF Cancels, local, link, node, Order, Flight, Directed, InFlightSteps,
        DoneSteps
  <2> QED BY <1>1, <2>1, <2>2, <2>3, <2>4, <2>5 DEF Plain
<1>2. ASSUME NEW n \in Nodes, NEW c \in Conns, Paired(n, c)
      PROVE  Order'
  <2>1. CASE Dials(n, c)
    BY <2>1, NodeFacts DEF Dials, At, Only, link, Order, Flight, Directed, InFlightSteps,
        DoneSteps
  <2>2. CASE StartsReader(n, c)
    BY <2>2, NodeFacts DEF StartsReader, At, Only, link, node, Order, Flight, Directed,
        InFlightSteps, DoneSteps
  <2>3. CASE Meets(n, c)
    BY <2>3, NodeFacts DEF Meets, link, node, Order, Flight, Directed, InFlightSteps, DoneSteps
  <2>4. CASE Accepts(n, c)
    BY <2>4, NodeFacts DEF Accepts, Only, link, node, Order, Flight, Directed, InFlightSteps,
        DoneSteps
  <2>5. CASE Drops(n, c)
    BY <2>5, NodeFacts DEF Drops, local, node, Order, Flight, Directed, InFlightSteps, DoneSteps
  <2>6. CASE Overrules(n, c)
    BY <2>6, NodeFacts DEF Overrules, At, Only, link, Order, Flight, Directed, InFlightSteps,
        DoneSteps
  <2>7. CASE Loses(n, c)
    BY <2>7, NodeFacts DEF Loses, Only, Closes, node, Order, Flight, Directed, InFlightSteps,
        DoneSteps
  <2>8. CASE Fails(n, c)
    BY <2>8, NodeFacts DEF Fails, Only, Closes, Order, Flight, Directed, InFlightSteps, DoneSteps
  <2>9. CASE ClosesLoser(n, c)
    BY <2>9, NodeFacts DEF ClosesLoser, Only, Closes, node, Order, Flight, Directed,
        InFlightSteps, DoneSteps
  <2>10. CASE Reads(n, c)
    BY <2>10, NodeFacts DEF Reads, Only, link, node, Order, Flight, Directed, InFlightSteps,
        DoneSteps
  <2>11. CASE Replaced(n, c)
    BY <2>11, NodeFacts DEF Replaced, At, Only, Closes, Order, Flight, Directed, InFlightSteps,
        DoneSteps
  <2>12. CASE ClosedPrevious(n, c)
    BY <2>12, NodeFacts DEF ClosedPrevious, At, Only, link, Order, Flight, Directed,
        InFlightSteps, DoneSteps
  <2>13. CASE Leaves(n, c)
    BY <2>13, NodeFacts DEF Leaves, At, Only, Order, Flight, Directed, InFlightSteps, DoneSteps
  <2>14. CASE Finishes(n, c)
    BY <2>14, NodeFacts DEF Finishes, At, Only, Closes, Order, Flight, Directed, InFlightSteps,
        DoneSteps
  <2> QED BY <1>2, <2>1, <2>2, <2>3, <2>4, <2>5, <2>6, <2>7, <2>8, <2>9, <2>10, <2>11, <2>12,
      <2>13, <2>14 DEF Paired
<1>3. ASSUME NEW n \in Nodes, NEW c \in Conns,
             NEW x \in Conns \cup {None}, NEW l \in Conns \cup {None}, Published(n, c, x, l)
      PROVE  Order'
  <2>1. CASE InstallsOver(n, c, x)
    BY <2>1, NodeFacts DEF InstallsOver, Installing, At, Only, Closes, Order, Flight, Directed,
        InFlightSteps, DoneSteps
  <2>2. CASE InstallsClean(n, c, x)
    BY <2>2, NodeFacts DEF InstallsClean, Installing, At, Only, Order, Flight, Directed,
        InFlightSteps, DoneSteps
  <2>3. CASE AdoptRefused(n, c, x, l)
    BY <2>3, NodeFacts DEF AdoptRefused, Adopting, At, Only, Closes, Order, Flight, Directed,
        InFlightSteps, DoneSteps
  <2>4. CASE AdoptsOver(n, c, x, l)
    BY <2>4, NodeFacts DEF AdoptsOver, Adopting, At, Only, Order, Flight, Directed,
        InFlightSteps, DoneSteps
  <2>5. CASE AdoptsClean(n, c, x, l)
    BY <2>5, NodeFacts DEF AdoptsClean, Adopting, At, Only, Order, Flight, Directed,
        InFlightSteps, DoneSteps
  <2>6. CASE AdoptsLate(n, c, x, l)
    BY <2>6, NodeFacts DEF AdoptsLate, Adopting, At, Only, Closes, Order, Flight, Directed,
        InFlightSteps, DoneSteps
  <2> QED BY <1>3, <2>1, <2>2, <2>3, <2>4, <2>5, <2>6 DEF Published
<1>4. ASSUME NEW c \in Conns, Breaks(c)
      PROVE  Order'
  BY <1>4, NodeFacts DEF Breaks, local, node, Order, Flight, Directed, InFlightSteps, DoneSteps
<1>5. CASE UNCHANGED vars
  BY <1>5 DEF vars, local, link, node, user, Order, Flight, Directed, InFlightSteps, DoneSteps
<1> QED BY <1>1, <1>2, <1>3, <1>4, <1>5, StepKinds

\* What never goes back: a task past its hello, a closed end, an ended stream.
Persists ==
  /\ \A n \in Nodes, c \in Conns :
       /\ step[n][c] # "none" => step'[n][c] # "none"
       /\ SentHello(n, c) => SentHello(n, c)'
       /\ Past(n, c) => Past(n, c)'
       /\ shut[n][c] => shut'[n][c]
       /\ eof[n][c] => eof'[n][c]
  /\ failed \subseteq failed'

LEMMA StepPersists ==
  ASSUME TypeOK, Directed, Refs, Order, [Next]_vars
  PROVE  Persists
<1>1. ASSUME NEW n \in Nodes, Plain(n)
      PROVE  Persists
  <2>1. CASE Joins(n)
    BY <2>1, NodeFacts DEF Joins, At, local, link, Persists, SentHello, Past
  <2>2. CASE GivesUp(n)
    BY <2>2, NodeFacts DEF GivesUp, At, Closes, Persists, SentHello, Past
  <2>3. CASE Unblocks(n)
    BY <2>3, NodeFacts DEF Unblocks, At, local, link, Persists, SentHello, Past
  <2>4. CASE Returns(n)
    BY <2>4, NodeFacts DEF Returns, At, local, link, node, Persists, SentHello, Past
  <2>5. CASE Cancels(n)
    BY <2>5, NodeFacts DEF Cancels, local, link, node, Persists, SentHello, Past
  <2> QED BY <1>1, <2>1, <2>2, <2>3, <2>4, <2>5 DEF Plain
<1>2. ASSUME NEW n \in Nodes, NEW c \in Conns, Paired(n, c)
      PROVE  Persists
  <2>1. CASE Dials(n, c)
    BY <2>1, NodeFacts DEF Dials, At, Only, link, Persists, SentHello, Past
  <2>2. CASE StartsReader(n, c)
    BY <2>2, NodeFacts DEF StartsReader, At, Only, link, node, Persists, SentHello, Past
  <2>3. CASE Meets(n, c)
    <3>1. n = Dialer(c) /\ \A m \in Nodes : m # n => step[m][c] = "none"
      BY <2>3, NodeFacts DEF Meets, Directed, Order
    <3> QED BY <2>3, <3>1 DEF Meets, link, Persists, SentHello, Past
  <2>4. CASE Accepts(n, c)
    BY <2>4, NodeFacts DEF Accepts, Only, link, node, Persists, SentHello, Past
  <2>5. CASE Drops(n, c)
    BY <2>5, NodeFacts DEF Drops, local, node, Persists, SentHello, Past
  <2>6. CASE Overrules(n, c)
    BY <2>6, NodeFacts DEF Overrules, At, Only, link, Persists, SentHello, Past
  <2>7. CASE Loses(n, c)
    BY <2>7, NodeFacts DEF Loses, Only, Closes, node, Persists, SentHello, Past
  <2>8. CASE Fails(n, c)
    BY <2>8, NodeFacts DEF Fails, Only, Closes, Persists, SentHello, Past
  <2>9. CASE ClosesLoser(n, c)
    BY <2>9, NodeFacts DEF ClosesLoser, Only, Closes, node, Persists, SentHello, Past
  <2>10. CASE Reads(n, c)
    BY <2>10, NodeFacts DEF Reads, Only, link, node, Persists, SentHello, Past
  <2>11. CASE Replaced(n, c)
    BY <2>11, NodeFacts DEF Replaced, At, Only, Closes, Persists, SentHello, Past
  <2>12. CASE ClosedPrevious(n, c)
    BY <2>12, NodeFacts DEF ClosedPrevious, At, Only, link, Persists, SentHello, Past
  <2>13. CASE Leaves(n, c)
    BY <2>13, NodeFacts DEF Leaves, At, Only, Persists, SentHello, Past
  <2>14. CASE Finishes(n, c)
    BY <2>14, NodeFacts DEF Finishes, At, Only, Closes, Persists, SentHello, Past
  <2> QED BY <1>2, <2>1, <2>2, <2>3, <2>4, <2>5, <2>6, <2>7, <2>8, <2>9, <2>10, <2>11, <2>12,
      <2>13, <2>14 DEF Paired
<1>3. ASSUME NEW n \in Nodes, NEW c \in Conns,
             NEW x \in Conns \cup {None}, NEW l \in Conns \cup {None}, Published(n, c, x, l)
      PROVE  Persists
  <2>1. CASE InstallsOver(n, c, x)
    BY <2>1, NodeFacts DEF InstallsOver, Installing, At, Only, Closes, Persists, SentHello, Past
  <2>2. CASE InstallsClean(n, c, x)
    BY <2>2, NodeFacts DEF InstallsClean, Installing, At, Only, Persists, SentHello, Past
  <2>3. CASE AdoptRefused(n, c, x, l)
    BY <2>3, NodeFacts DEF AdoptRefused, Adopting, At, Only, Closes, Persists, SentHello, Past
  <2>4. CASE AdoptsOver(n, c, x, l)
    BY <2>4, NodeFacts DEF AdoptsOver, Adopting, At, Only, Persists, SentHello, Past
  <2>5. CASE AdoptsClean(n, c, x, l)
    BY <2>5, NodeFacts DEF AdoptsClean, Adopting, At, Only, Persists, SentHello, Past
  <2>6. CASE AdoptsLate(n, c, x, l)
    BY <2>6, NodeFacts DEF AdoptsLate, Adopting, At, Only, Closes, Persists, SentHello, Past
  <2> QED BY <1>3, <2>1, <2>2, <2>3, <2>4, <2>5, <2>6 DEF Published
<1>4. ASSUME NEW c \in Conns, Breaks(c)
      PROVE  Persists
  BY <1>4, NodeFacts DEF Breaks, local, node, Persists, SentHello, Past
<1>5. CASE UNCHANGED vars
  BY <1>5 DEF vars, local, link, node, user, Persists, SentHello, Past
<1> QED BY <1>1, <1>2, <1>3, <1>4, <1>5, StepKinds

\* Only what is past the hello is closed.
ClosedPast == \A n \in Nodes, c \in Conns : shut[n][c] => Past(n, c)

LEMMA ClosedPastStep ==
  ASSUME TypeOK, Directed, Refs, Order, ClosedPast, [Next]_vars
  PROVE  ClosedPast'
<1>1. ASSUME NEW n \in Nodes, Plain(n)
      PROVE  ClosedPast'
  <2>1. CASE Joins(n)
    BY <2>1, NodeFacts, NamedHolds, LoserNamed, StepPersists DEF Joins, At, local, link,
        ClosedPast, Persists, Refs, Tables, Tasks, Named, Past
  <2>2. CASE GivesUp(n)
    BY <2>2, NodeFacts, NamedHolds, LoserNamed, StepPersists DEF GivesUp, At, Closes, ClosedPast,
        Persists, Refs, Tables, Tasks, Named, Past
  <2>3. CASE Unblocks(n)
    BY <2>3, NodeFacts, NamedHolds, LoserNamed, StepPersists DEF Unblocks, At, local, link,
        ClosedPast, Persists, Refs, Tables, Tasks, Named, Past
  <2>4. CASE Returns(n)
    BY <2>4, NodeFacts, NamedHolds, LoserNamed, StepPersists DEF Returns, At, local, link, node,
        ClosedPast, Persists, Refs, Tables, Tasks, Named, Past
  <2>5. CASE Cancels(n)
    BY <2>5, NodeFacts, NamedHolds, LoserNamed, StepPersists DEF Cancels, local, link, node,
        ClosedPast, Persists, Refs, Tables, Tasks, Named, Past
  <2> QED BY <1>1, <2>1, <2>2, <2>3, <2>4, <2>5 DEF Plain
<1>2. ASSUME NEW n \in Nodes, NEW c \in Conns, Paired(n, c)
      PROVE  ClosedPast'
  <2>1. CASE Dials(n, c)
    BY <2>1, NodeFacts, NamedHolds, LoserNamed, StepPersists DEF Dials, At, Only, link,
        ClosedPast, Persists, Refs, Tables, Tasks, Named, Past
  <2>2. CASE StartsReader(n, c)
    BY <2>2, NodeFacts, NamedHolds, LoserNamed, StepPersists DEF StartsReader, At, Only, link,
        node, ClosedPast, Persists, Refs, Tables, Tasks, Named, Past
  <2>3. CASE Meets(n, c)
    BY <2>3, StepPersists DEF Meets, link, ClosedPast, Persists
  <2>4. CASE Accepts(n, c)
    BY <2>4, NodeFacts, NamedHolds, LoserNamed, StepPersists DEF Accepts, Only, link, node,
        ClosedPast, Persists, Refs, Tables, Tasks, Named, Past
  <2>5. CASE Drops(n, c)
    BY <2>5, NodeFacts, NamedHolds, LoserNamed, StepPersists DEF Drops, local, node, ClosedPast,
        Persists, Refs, Tables, Tasks, Named, Past
  <2>6. CASE Overrules(n, c)
    BY <2>6, NodeFacts, NamedHolds, LoserNamed, StepPersists DEF Overrules, At, Only, link,
        ClosedPast, Persists, Refs, Tables, Tasks, Named, Past
  <2>7. CASE Loses(n, c)
    BY <2>7, NodeFacts, NamedHolds, LoserNamed, StepPersists DEF Loses, Only, Closes, node,
        ClosedPast, Persists, Refs, Tables, Tasks, Named, Past
  <2>8. CASE Fails(n, c)
    BY <2>8, NodeFacts, NamedHolds, LoserNamed, StepPersists DEF Fails, Only, Closes, ClosedPast,
        Persists, Refs, Tables, Tasks, Named, Past
  <2>9. CASE ClosesLoser(n, c)
    BY <2>9, NodeFacts, NamedHolds, LoserNamed, StepPersists DEF ClosesLoser, Only, Closes, node,
        ClosedPast, Persists, Refs, Tables, Tasks, Named, Past
  <2>10. CASE Reads(n, c)
    BY <2>10, NodeFacts, NamedHolds, LoserNamed, StepPersists DEF Reads, Only, link, node,
        ClosedPast, Persists, Refs, Tables, Tasks, Named, Past
  <2>11. CASE Replaced(n, c)
    BY <2>11, NodeFacts, NamedHolds, LoserNamed, StepPersists DEF Replaced, At, Only, Closes,
        ClosedPast, Persists, Refs, Tables, Tasks, Named, Past
  <2>12. CASE ClosedPrevious(n, c)
    BY <2>12, NodeFacts, NamedHolds, LoserNamed, StepPersists DEF ClosedPrevious, At, Only, link,
        ClosedPast, Persists, Refs, Tables, Tasks, Named, Past
  <2>13. CASE Leaves(n, c)
    BY <2>13, NodeFacts, NamedHolds, LoserNamed, StepPersists DEF Leaves, At, Only, ClosedPast,
        Persists, Refs, Tables, Tasks, Named, Past
  <2>14. CASE Finishes(n, c)
    BY <2>14, NodeFacts, NamedHolds, LoserNamed, StepPersists DEF Finishes, At, Only, Closes,
        ClosedPast, Persists, Refs, Tables, Tasks, Named, Past
  <2> QED BY <1>2, <2>1, <2>2, <2>3, <2>4, <2>5, <2>6, <2>7, <2>8, <2>9, <2>10, <2>11, <2>12,
      <2>13, <2>14 DEF Paired
<1>3. ASSUME NEW n \in Nodes, NEW c \in Conns,
             NEW x \in Conns \cup {None}, NEW l \in Conns \cup {None}, Published(n, c, x, l)
      PROVE  ClosedPast'
  <2>1. CASE InstallsOver(n, c, x)
    BY <2>1, NodeFacts, NamedHolds, LoserNamed, StepPersists DEF InstallsOver, Installing, At,
        Only, Closes, ClosedPast, Persists, Refs, Tables, Tasks, Named, Past
  <2>2. CASE InstallsClean(n, c, x)
    BY <2>2, NodeFacts, NamedHolds, LoserNamed, StepPersists DEF InstallsClean, Installing, At,
        Only, ClosedPast, Persists, Refs, Tables, Tasks, Named, Past
  <2>3. CASE AdoptRefused(n, c, x, l)
    BY <2>3, NodeFacts, NamedHolds, LoserNamed, StepPersists DEF AdoptRefused, Adopting, At,
        Only, Closes, ClosedPast, Persists, Refs, Tables, Tasks, Named, Past
  <2>4. CASE AdoptsOver(n, c, x, l)
    BY <2>4, NodeFacts, NamedHolds, LoserNamed, StepPersists DEF AdoptsOver, Adopting, At, Only,
        ClosedPast, Persists, Refs, Tables, Tasks, Named, Past
  <2>5. CASE AdoptsClean(n, c, x, l)
    BY <2>5, NodeFacts, NamedHolds, LoserNamed, StepPersists DEF AdoptsClean, Adopting, At, Only,
        ClosedPast, Persists, Refs, Tables, Tasks, Named, Past
  <2>6. CASE AdoptsLate(n, c, x, l)
    BY <2>6, NodeFacts, NamedHolds, LoserNamed, StepPersists DEF AdoptsLate, Adopting, At, Only,
        Closes, ClosedPast, Persists, Refs, Tables, Tasks, Named, Past
  <2> QED BY <1>3, <2>1, <2>2, <2>3, <2>4, <2>5, <2>6 DEF Published
<1>4. ASSUME NEW c \in Conns, Breaks(c)
      PROVE  ClosedPast'
  BY <1>4, NodeFacts, NamedHolds, LoserNamed, StepPersists DEF Breaks, local, node, ClosedPast,
      Persists, Refs, Tables, Tasks, Named, Past
<1>5. CASE UNCHANGED vars
  BY <1>5 DEF vars, local, link, node, user, ClosedPast, Persists, Refs, Tables, Tasks, Named,
      Past
<1> QED BY <1>1, <1>2, <1>3, <1>4, <1>5, StepKinds

\* A task that is done with a connection it will not use has closed it, and a
\* task that has retired a connection has closed that one.
Over ==
  \A n \in Nodes, c \in Conns :
    /\ step[n][c] \in {"closeOpened", "ended"} => shut[n][c]
    /\ step[n][c] = "closePrev" /\ selected[n][c] # c => shut[n][c]
    /\ step[n][c] \in {"retired", "retiredPrev"} => shut[n][loser[n][c]]

LEMMA OverStep ==
  ASSUME TypeOK, Directed, Refs, Over, [Next]_vars
  PROVE  Over'
<1>1. ASSUME NEW n \in Nodes, Plain(n)
      PROVE  Over'
  <2>1. CASE Joins(n)
    BY <2>1, NodeFacts, NamedHolds, LoserNamed DEF Joins, At, local, link, Over, Named
  <2>2. CASE GivesUp(n)
    BY <2>2, NodeFacts, NamedHolds, LoserNamed DEF GivesUp, At, Closes, Over, Named
  <2>3. CASE Unblocks(n)
    BY <2>3, NodeFacts, NamedHolds, LoserNamed DEF Unblocks, At, local, link, Over, Named
  <2>4. CASE Returns(n)
    BY <2>4, NodeFacts, NamedHolds, LoserNamed DEF Returns, At, local, link, node, Over, Named
  <2>5. CASE Cancels(n)
    BY <2>5, NodeFacts, NamedHolds, LoserNamed DEF Cancels, local, link, node, Over, Named
  <2> QED BY <1>1, <2>1, <2>2, <2>3, <2>4, <2>5 DEF Plain
<1>2. ASSUME NEW n \in Nodes, NEW c \in Conns, Paired(n, c)
      PROVE  Over'
  <2>1. CASE Dials(n, c)
    BY <2>1, NodeFacts, NamedHolds, LoserNamed DEF Dials, At, Only, link, Over, Named
  <2>2. CASE StartsReader(n, c)
    BY <2>2, NodeFacts, NamedHolds, LoserNamed DEF StartsReader, At, Only, link, node, Over,
        Named
  <2>3. CASE Meets(n, c)
    BY <2>3, NodeFacts, NamedHolds, LoserNamed DEF Meets, link, node, Over, Named
  <2>4. CASE Accepts(n, c)
    BY <2>4, NodeFacts, NamedHolds, LoserNamed DEF Accepts, Only, link, node, Over, Named
  <2>5. CASE Drops(n, c)
    BY <2>5, NodeFacts, NamedHolds, LoserNamed DEF Drops, local, node, Over, Named
  <2>6. CASE Overrules(n, c)
    BY <2>6, NodeFacts, NamedHolds, LoserNamed DEF Overrules, At, Only, link, Over, Named
  <2>7. CASE Loses(n, c)
    BY <2>7, NodeFacts, NamedHolds, LoserNamed DEF Loses, Only, Closes, node, Over, Named
  <2>8. CASE Fails(n, c)
    BY <2>8, NodeFacts, NamedHolds, LoserNamed DEF Fails, Only, Closes, Over, Named
  <2>9. CASE ClosesLoser(n, c)
    BY <2>9, NodeFacts, NamedHolds, LoserNamed DEF ClosesLoser, Only, Closes, node, Over, Named
  <2>10. CASE Reads(n, c)
    BY <2>10, NodeFacts, NamedHolds, LoserNamed DEF Reads, Only, link, node, Over, Named
  <2>11. CASE Replaced(n, c)
    BY <2>11, NodeFacts, NamedHolds, LoserNamed DEF Replaced, At, Only, Closes, Over, Named
  <2>12. CASE ClosedPrevious(n, c)
    BY <2>12, NodeFacts, NamedHolds, LoserNamed DEF ClosedPrevious, At, Only, link, Over, Named
  <2>13. CASE Leaves(n, c)
    BY <2>13, NodeFacts, NamedHolds, LoserNamed DEF Leaves, At, Only, Over, Named
  <2>14. CASE Finishes(n, c)
    BY <2>14, NodeFacts, NamedHolds, LoserNamed DEF Finishes, At, Only, Closes, Over, Named
  <2> QED BY <1>2, <2>1, <2>2, <2>3, <2>4, <2>5, <2>6, <2>7, <2>8, <2>9, <2>10, <2>11, <2>12,
      <2>13, <2>14 DEF Paired
<1>3. ASSUME NEW n \in Nodes, NEW c \in Conns,
             NEW x \in Conns \cup {None}, NEW l \in Conns \cup {None}, Published(n, c, x, l)
      PROVE  Over'
  <2>1. CASE InstallsOver(n, c, x)
    BY <2>1, NodeFacts, NamedHolds, LoserNamed DEF InstallsOver, Installing, At, Only, Closes,
        Over, Named
  <2>2. CASE InstallsClean(n, c, x)
    BY <2>2, NodeFacts, NamedHolds, LoserNamed DEF InstallsClean, Installing, At, Only, Over,
        Named
  <2>3. CASE AdoptRefused(n, c, x, l)
    BY <2>3, NodeFacts, NamedHolds, LoserNamed DEF AdoptRefused, Adopting, At, Only, Closes,
        Over, Named
  <2>4. CASE AdoptsOver(n, c, x, l)
    BY <2>4, NodeFacts, NamedHolds, LoserNamed DEF AdoptsOver, Adopting, At, Only, Over, Named
  <2>5. CASE AdoptsClean(n, c, x, l)
    BY <2>5, NodeFacts, NamedHolds, LoserNamed DEF AdoptsClean, Adopting, At, Only, Over, Named
  <2>6. CASE AdoptsLate(n, c, x, l)
    BY <2>6, NodeFacts, NamedHolds, LoserNamed DEF AdoptsLate, Adopting, At, Only, Closes, Over,
        Named
  <2> QED BY <1>3, <2>1, <2>2, <2>3, <2>4, <2>5, <2>6 DEF Published
<1>4. ASSUME NEW c \in Conns, Breaks(c)
      PROVE  Over'
  BY <1>4, NodeFacts, NamedHolds, LoserNamed DEF Breaks, local, node, Over, Named
<1>5. CASE UNCHANGED vars
  BY <1>5 DEF vars, local, link, node, user, Over, Named
<1> QED BY <1>1, <1>2, <1>3, <1>4, <1>5, StepKinds

LEMMA TablesStep ==
  ASSUME TypeOK, Directed, Refs, Order, [Next]_vars
  PROVE  Tables'
<1>a. \A m \in Nodes, e \in Conns : Past(m, e) => Past(m, e)'
  BY StepPersists DEF Persists
<1>b. Named
  BY NamedHolds
<1>1. ASSUME NEW n \in Nodes, Plain(n)
      PROVE  Tables'
  <2>1. CASE Joins(n)
    BY <2>1, <1>a, <1>b, NodeFacts DEF Joins, At, local, link, Refs, Tables, Tasks, Named, Past
  <2>2. CASE GivesUp(n)
    BY <2>2, <1>a, <1>b DEF GivesUp, At, Refs, Tables, Named
  <2>3. CASE Unblocks(n)
    BY <2>3, <1>a, <1>b, NodeFacts DEF Unblocks, At, local, link, Refs, Tables, Tasks, Named,
        Past
  <2>4. CASE Returns(n)
    BY <2>4, <1>a, <1>b, NodeFacts DEF Returns, At, local, link, node, Refs, Tables, Tasks,
        Named, Past
  <2>5. CASE Cancels(n)
    BY <2>5, <1>a, <1>b, NodeFacts DEF Cancels, local, link, node, Refs, Tables, Tasks, Named,
        Past
  <2> QED BY <1>1, <2>1, <2>2, <2>3, <2>4, <2>5 DEF Plain
<1>2. ASSUME NEW n \in Nodes, NEW c \in Conns, Paired(n, c)
      PROVE  Tables'
  <2>1. CASE Dials(n, c)
    BY <2>1, <1>a, <1>b, NodeFacts DEF Dials, At, Only, link, Refs, Tables, Tasks, Named, Past
  <2>2. CASE StartsReader(n, c)
    BY <2>2, <1>a, <1>b, NodeFacts DEF StartsReader, At, Only, link, node, Refs, Tables, Tasks,
        Named, Past
  <2>3. CASE Meets(n, c)
    BY <2>3, <1>a, <1>b, NodeFacts DEF Meets, link, node, Refs, Tables, Tasks, Named, Past
  <2>4. CASE Accepts(n, c)
    BY <2>4, <1>a, <1>b, NodeFacts DEF Accepts, Only, link, node, Refs, Tables, Tasks, Named,
        Past
  <2>5. CASE Drops(n, c)
    BY <2>5, <1>a, <1>b, NodeFacts DEF Drops, local, node, Refs, Tables, Tasks, Named, Past
  <2>6. CASE Overrules(n, c)
    BY <2>6, <1>a, <1>b, NodeFacts DEF Overrules, At, Only, link, Refs, Tables, Tasks, Named,
        Past
  <2>7. CASE Loses(n, c)
    BY <2>7, <1>a, <1>b DEF Loses, node, Refs, Tables, Named
  <2>8. CASE Fails(n, c)
    BY <2>8, <1>a, <1>b DEF Fails, Refs, Tables, Named
  <2>9. CASE ClosesLoser(n, c)
    BY <2>9, <1>a, <1>b DEF ClosesLoser, node, Refs, Tables, Named
  <2>10. CASE Reads(n, c)
    BY <2>10, <1>a, <1>b, NodeFacts DEF Reads, Only, link, node, Refs, Tables, Tasks, Named, Past
  <2>11. CASE Replaced(n, c)
    BY <2>11, <1>a, <1>b DEF Replaced, At, Refs, Tables, Named
  <2>12. CASE ClosedPrevious(n, c)
    BY <2>12, <1>a, <1>b, NodeFacts DEF ClosedPrevious, At, Only, link, Refs, Tables, Tasks,
        Named, Past
  <2>13. CASE Leaves(n, c)
    BY <2>13, <1>a, <1>b DEF Leaves, At, Refs, Tables, Named
  <2>14. CASE Finishes(n, c)
    BY <2>14, <1>a, <1>b DEF Finishes, At, Refs, Tables, Named
  <2> QED BY <1>2, <2>1, <2>2, <2>3, <2>4, <2>5, <2>6, <2>7, <2>8, <2>9, <2>10, <2>11, <2>12,
      <2>13, <2>14 DEF Paired
<1>3. ASSUME NEW n \in Nodes, NEW c \in Conns,
             NEW x \in Conns \cup {None}, NEW l \in Conns \cup {None}, Published(n, c, x, l)
      PROVE  Tables'
  <2>1. CASE InstallsOver(n, c, x)
    <3>1. Past(n, c)'
      BY <2>1 DEF InstallsOver, Only, Past
    <3> QED BY <2>1, <3>1, <1>a, <1>b
            DEF InstallsOver, Installing, At, Refs, Tables, Tasks, Named
  <2>2. CASE InstallsClean(n, c, x)
    <3>1. Past(n, c)'
      BY <2>2 DEF InstallsClean, Only, Past
    <3> QED BY <2>2, <3>1, <1>a, <1>b
            DEF InstallsClean, Installing, At, Refs, Tables, Tasks, Named
  <2>3. CASE AdoptRefused(n, c, x, l)
    <3>1. Past(n, c)'
      BY <2>3 DEF AdoptRefused, Only, Past
    <3> QED BY <2>3, <3>1, <1>a, <1>b DEF AdoptRefused, Adopting, At, Refs, Tables, Named
  <2>4. CASE AdoptsOver(n, c, x, l)
    <3>1. Past(n, c)'
      BY <2>4 DEF AdoptsOver, Only, Past
    <3> QED BY <2>4, <3>1, <1>a, <1>b DEF AdoptsOver, Adopting, At, Refs, Tables, Named
  <2>5. CASE AdoptsClean(n, c, x, l)
    <3>1. Past(n, c)'
      BY <2>5 DEF AdoptsClean, Only, Past
    <3> QED BY <2>5, <3>1, <1>a, <1>b DEF AdoptsClean, At, Refs, Tables, Named
  <2>6. CASE AdoptsLate(n, c, x, l)
    BY <2>6, <1>a, <1>b DEF AdoptsLate, At, Refs, Tables, Named
  <2> QED BY <1>3, <2>1, <2>2, <2>3, <2>4, <2>5, <2>6 DEF Published
<1>4. ASSUME NEW c \in Conns, Breaks(c)
      PROVE  Tables'
  BY <1>4, <1>a, <1>b, NodeFacts DEF Breaks, local, node, Refs, Tables, Tasks, Named, Past
<1>5. CASE UNCHANGED vars
  BY <1>5 DEF vars, local, link, node, user, Refs, Tables, Tasks, Named, Past
<1> QED BY <1>1, <1>2, <1>3, <1>4, <1>5, StepKinds

LEMMA TasksStep ==
  ASSUME TypeOK, Directed, Refs, Order, [Next]_vars
  PROVE  Tasks'
<1>a. \A m \in Nodes, e \in Conns : Past(m, e) => Past(m, e)'
  BY StepPersists DEF Persists
<1>b. Named
  BY NamedHolds
<1>1. ASSUME NEW n \in Nodes, Plain(n)
      PROVE  Tasks'
  <2>1. CASE Joins(n)
    BY <2>1, <1>a, <1>b, NodeFacts DEF Joins, At, local, link, Refs, Tables, Tasks, Named, Past
  <2>2. CASE GivesUp(n)
    BY <2>2, <1>a, <1>b DEF GivesUp, Refs, Tasks, Named
  <2>3. CASE Unblocks(n)
    BY <2>3, <1>a, <1>b, NodeFacts DEF Unblocks, At, local, link, Refs, Tables, Tasks, Named,
        Past
  <2>4. CASE Returns(n)
    BY <2>4, <1>a, <1>b, NodeFacts DEF Returns, At, local, link, node, Refs, Tables, Tasks,
        Named, Past
  <2>5. CASE Cancels(n)
    BY <2>5, <1>a, <1>b, NodeFacts DEF Cancels, local, link, node, Refs, Tables, Tasks, Named,
        Past
  <2> QED BY <1>1, <2>1, <2>2, <2>3, <2>4, <2>5 DEF Plain
<1>2. ASSUME NEW n \in Nodes, NEW c \in Conns, Paired(n, c)
      PROVE  Tasks'
  <2>1. CASE Dials(n, c)
    BY <2>1, <1>a, <1>b DEF Dials, Refs, Tasks, Named
  <2>2. CASE StartsReader(n, c)
    BY <2>2, <1>a, <1>b DEF StartsReader, Refs, Tasks, Named
  <2>3. CASE Meets(n, c)
    BY <2>3, <1>a, <1>b DEF Meets, Refs, Tasks, Named
  <2>4. CASE Accepts(n, c)
    BY <2>4, <1>a, <1>b DEF Accepts, Refs, Tasks, Named
  <2>5. CASE Drops(n, c)
    BY <2>5, <1>a, <1>b, NodeFacts DEF Drops, local, node, Refs, Tables, Tasks, Named, Past
  <2>6. CASE Overrules(n, c)
    BY <2>6, <1>a, <1>b, NodeFacts DEF Overrules, Only, Refs, Tables, Tasks, Named
  <2>7. CASE Loses(n, c)
    BY <2>7, <1>a, <1>b DEF Loses, Only, Refs, Tables, Tasks, Named
  <2>8. CASE Fails(n, c)
    BY <2>8, <1>a, <1>b DEF Fails, Refs, Tasks, Named
  <2>9. CASE ClosesLoser(n, c)
    BY <2>9, <1>a, <1>b DEF ClosesLoser, Refs, Tasks, Named
  <2>10. CASE Reads(n, c)
    BY <2>10, <1>a, <1>b DEF Reads, Only, Refs, Tasks, Named
  <2>11. CASE Replaced(n, c)
    BY <2>11, <1>a, <1>b DEF Replaced, Only, Refs, Tasks, Named
  <2>12. CASE ClosedPrevious(n, c)
    BY <2>12, <1>a, <1>b DEF ClosedPrevious, Refs, Tasks, Named
  <2>13. CASE Leaves(n, c)
    BY <2>13, <1>a, <1>b DEF Leaves, Refs, Tasks, Named
  <2>14. CASE Finishes(n, c)
    BY <2>14, <1>a, <1>b DEF Finishes, Refs, Tasks, Named
  <2> QED BY <1>2, <2>1, <2>2, <2>3, <2>4, <2>5, <2>6, <2>7, <2>8, <2>9, <2>10, <2>11, <2>12,
      <2>13, <2>14 DEF Paired
<1>3. ASSUME NEW n \in Nodes, NEW c \in Conns,
             NEW x \in Conns \cup {None}, NEW l \in Conns \cup {None}, Published(n, c, x, l)
      PROVE  Tasks'
  <2>1. CASE InstallsOver(n, c, x)
    <3>1. Past(n, c)'
      BY <2>1 DEF InstallsOver, Only, Past
    <3> QED BY <2>1, <3>1, <1>a, <1>b
            DEF InstallsOver, Installing, Only, Refs, Tasks, Named
  <2>2. CASE InstallsClean(n, c, x)
    <3>1. Past(n, c)'
      BY <2>2 DEF InstallsClean, Only, Past
    <3> QED BY <2>2, <3>1, <1>a, <1>b
            DEF InstallsClean, Installing, Only, Refs, Tasks, Named
  <2>3. CASE AdoptRefused(n, c, x, l)
    BY <2>3, <1>a, <1>b DEF AdoptRefused, Adopting, Only, Refs, Tasks, Named
  <2>4. CASE AdoptsOver(n, c, x, l)
    BY <2>4, <1>a, <1>b DEF AdoptsOver, Adopting, Only, Refs, Tables, Tasks, Named
  <2>5. CASE AdoptsClean(n, c, x, l)
    BY <2>5, <1>a, <1>b DEF AdoptsClean, Adopting, Only, Refs, Tasks, Named
  <2>6. CASE AdoptsLate(n, c, x, l)
    BY <2>6, <1>a, <1>b DEF AdoptsLate, Adopting, Only, Refs, Tasks, Named
  <2> QED BY <1>3, <2>1, <2>2, <2>3, <2>4, <2>5, <2>6 DEF Published
<1>4. ASSUME NEW c \in Conns, Breaks(c)
      PROVE  Tasks'
  BY <1>4, <1>a, <1>b, NodeFacts DEF Breaks, local, node, Refs, Tables, Tasks, Named, Past
<1>5. CASE UNCHANGED vars
  BY <1>5 DEF vars, local, link, node, user, Refs, Tables, Tasks, Named, Past
<1> QED BY <1>1, <1>2, <1>3, <1>4, <1>5, StepKinds

LEMMA ResultsStep ==
  ASSUME TypeOK, Directed, Refs, Order, [Next]_vars
  PROVE  Results'
<1>1. ASSUME NEW n \in Nodes, Plain(n)
      PROVE  Results'
  <2>1. CASE Joins(n)
    BY <2>1, NodeFacts, NamedHolds DEF Joins, At, local, link, Refs, Tables, Results, Named
  <2>2. CASE GivesUp(n)
    BY <2>2, NodeFacts, NamedHolds DEF GivesUp, At, Closes, Refs, Tables, Results, Named
  <2>3. CASE Unblocks(n)
    BY <2>3, NodeFacts, NamedHolds DEF Unblocks, At, local, link, Refs, Tables, Results, Named
  <2>4. CASE Returns(n)
    BY <2>4, NodeFacts, NamedHolds DEF Returns, At, local, link, node, Refs, Tables, Results,
        Named
  <2>5. CASE Cancels(n)
    BY <2>5, NodeFacts, NamedHolds DEF Cancels, local, link, node, Refs, Tables, Results, Named
  <2> QED BY <1>1, <2>1, <2>2, <2>3, <2>4, <2>5 DEF Plain
<1>2. ASSUME NEW n \in Nodes, NEW c \in Conns, Paired(n, c)
      PROVE  Results'
  <2>1. CASE Dials(n, c)
    BY <2>1, NodeFacts, NamedHolds DEF Dials, At, Only, link, Refs, Tables, Results, Named
  <2>2. CASE StartsReader(n, c)
    BY <2>2, NodeFacts, NamedHolds DEF StartsReader, At, Only, link, node, Refs, Tables, Results,
        Named
  <2>3. CASE Meets(n, c)
    BY <2>3, NodeFacts, NamedHolds DEF Meets, link, node, Refs, Tables, Results, Named
  <2>4. CASE Accepts(n, c)
    BY <2>4, NodeFacts, NamedHolds DEF Accepts, Only, link, node, Refs, Tables, Results, Named
  <2>5. CASE Drops(n, c)
    BY <2>5, NodeFacts, NamedHolds DEF Drops, local, node, Refs, Tables, Results, Named
  <2>6. CASE Overrules(n, c)
    BY <2>6, NodeFacts, NamedHolds DEF Overrules, At, Only, link, Refs, Tables, Results, Named
  <2>7. CASE Loses(n, c)
    BY <2>7, NodeFacts, NamedHolds DEF Loses, Only, Closes, node, Refs, Tables, Results, Named
  <2>8. CASE Fails(n, c)
    BY <2>8, NodeFacts, NamedHolds DEF Fails, Only, Closes, Refs, Tables, Results, Named
  <2>9. CASE ClosesLoser(n, c)
    BY <2>9, NodeFacts, NamedHolds DEF ClosesLoser, Only, Closes, node, Refs, Tables, Results,
        Named
  <2>10. CASE Reads(n, c)
    BY <2>10, NodeFacts, NamedHolds DEF Reads, Only, link, node, Refs, Tables, Results, Named
  <2>11. CASE Replaced(n, c)
    BY <2>11, NodeFacts, NamedHolds DEF Replaced, At, Only, Closes, Refs, Tables, Results, Named
  <2>12. CASE ClosedPrevious(n, c)
    BY <2>12, NodeFacts, NamedHolds DEF ClosedPrevious, At, Only, link, Refs, Tables, Results,
        Named
  <2>13. CASE Leaves(n, c)
    BY <2>13, NodeFacts, NamedHolds DEF Leaves, At, Only, Refs, Tables, Results, Named
  <2>14. CASE Finishes(n, c)
    BY <2>14, NodeFacts, NamedHolds DEF Finishes, At, Only, Closes, Refs, Tables, Results, Named
  <2> QED BY <1>2, <2>1, <2>2, <2>3, <2>4, <2>5, <2>6, <2>7, <2>8, <2>9, <2>10, <2>11, <2>12,
      <2>13, <2>14 DEF Paired
<1>3. ASSUME NEW n \in Nodes, NEW c \in Conns,
             NEW x \in Conns \cup {None}, NEW l \in Conns \cup {None}, Published(n, c, x, l)
      PROVE  Results'
  <2>1. CASE InstallsOver(n, c, x)
    BY <2>1, NodeFacts, NamedHolds DEF InstallsOver, Installing, At, Only, Closes, Refs, Tables,
        Results, Named
  <2>2. CASE InstallsClean(n, c, x)
    BY <2>2, NodeFacts, NamedHolds DEF InstallsClean, Installing, At, Only, Refs, Tables,
        Results, Named
  <2>3. CASE AdoptRefused(n, c, x, l)
    BY <2>3, NodeFacts, NamedHolds DEF AdoptRefused, Adopting, At, Only, Closes, Refs, Tables,
        Results, Named
  <2>4. CASE AdoptsOver(n, c, x, l)
    BY <2>4, NodeFacts, NamedHolds DEF AdoptsOver, Adopting, At, Only, Refs, Tables, Results,
        Named
  <2>5. CASE AdoptsClean(n, c, x, l)
    BY <2>5, NodeFacts, NamedHolds DEF AdoptsClean, Adopting, At, Only, Refs, Tables, Results,
        Named
  <2>6. CASE AdoptsLate(n, c, x, l)
    BY <2>6, NodeFacts, NamedHolds DEF AdoptsLate, Adopting, At, Only, Closes, Refs, Tables,
        Results, Named
  <2> QED BY <1>3, <2>1, <2>2, <2>3, <2>4, <2>5, <2>6 DEF Published
<1>4. ASSUME NEW c \in Conns, Breaks(c)
      PROVE  Results'
  BY <1>4, NodeFacts, NamedHolds DEF Breaks, local, node, Refs, Tables, Results, Named
<1>5. CASE UNCHANGED vars
  BY <1>5 DEF vars, local, link, node, user, Refs, Tables, Results, Named
<1> QED BY <1>1, <1>2, <1>3, <1>4, <1>5, StepKinds

\* A session is only set up with a peer whose hello has been sent.
Greeted == \A n \in Nodes, c \in Conns : Open(n, c) => SentHello(Other(n), c)

LEMMA GreetedStep ==
  ASSUME TypeOK, Directed, Refs, Flight, Greeted, [Next]_vars
  PROVE  Greeted'
<1>1. ASSUME NEW n \in Nodes, Plain(n)
      PROVE  Greeted'
  <2>1. CASE Joins(n)
    BY <2>1, NodeFacts, NamedHolds DEF Joins, At, local, link, Greeted, Flight, Named, Open,
        Past, SentHello
  <2>2. CASE GivesUp(n)
    BY <2>2, NodeFacts, NamedHolds DEF GivesUp, At, Closes, Greeted, Flight, Named, Open, Past,
        SentHello
  <2>3. CASE Unblocks(n)
    BY <2>3, NodeFacts, NamedHolds DEF Unblocks, At, local, link, Greeted, Flight, Named, Open,
        Past, SentHello
  <2>4. CASE Returns(n)
    BY <2>4, NodeFacts, NamedHolds DEF Returns, At, local, link, node, Greeted, Flight, Named,
        Open, Past, SentHello
  <2>5. CASE Cancels(n)
    BY <2>5, NodeFacts, NamedHolds DEF Cancels, local, link, node, Greeted, Flight, Named, Open,
        Past, SentHello
  <2> QED BY <1>1, <2>1, <2>2, <2>3, <2>4, <2>5 DEF Plain
<1>2. ASSUME NEW n \in Nodes, NEW c \in Conns, Paired(n, c)
      PROVE  Greeted'
  <2>1. CASE Dials(n, c)
    BY <2>1, NodeFacts, NamedHolds DEF Dials, At, Only, link, Greeted, Flight, Named, Open, Past,
        SentHello
  <2>2. CASE StartsReader(n, c)
    BY <2>2, NodeFacts, NamedHolds DEF StartsReader, At, Only, link, node, Greeted, Flight,
        Named, Open, Past, SentHello
  <2>3. CASE Meets(n, c)
    BY <2>3, NodeFacts, NamedHolds DEF Meets, link, node, Greeted, Flight, Named, Open, Past,
        SentHello
  <2>4. CASE Accepts(n, c)
    BY <2>4, NodeFacts, NamedHolds DEF Accepts, Only, link, node, Greeted, Flight, Named, Open,
        Past, SentHello
  <2>5. CASE Drops(n, c)
    BY <2>5, NodeFacts, NamedHolds DEF Drops, local, node, Greeted, Flight, Named, Open, Past,
        SentHello
  <2>6. CASE Overrules(n, c)
    BY <2>6, NodeFacts, NamedHolds DEF Overrules, At, Only, link, Greeted, Flight, Named, Open,
        Past, SentHello
  <2>7. CASE Loses(n, c)
    BY <2>7, NodeFacts, NamedHolds DEF Loses, Only, Closes, node, Greeted, Flight, Named, Open,
        Past, SentHello
  <2>8. CASE Fails(n, c)
    BY <2>8, NodeFacts, NamedHolds DEF Fails, Only, Closes, Greeted, Flight, Named, Open, Past,
        SentHello
  <2>9. CASE ClosesLoser(n, c)
    BY <2>9, NodeFacts, NamedHolds DEF ClosesLoser, Only, Closes, node, Greeted, Flight, Named,
        Open, Past, SentHello
  <2>10. CASE Reads(n, c)
    BY <2>10, NodeFacts, NamedHolds DEF Reads, Only, link, node, Greeted, Flight, Named, Open,
        Past, SentHello
  <2>11. CASE Replaced(n, c)
    BY <2>11, NodeFacts, NamedHolds DEF Replaced, At, Only, Closes, Greeted, Flight, Named, Open,
        Past, SentHello
  <2>12. CASE ClosedPrevious(n, c)
    BY <2>12, NodeFacts, NamedHolds DEF ClosedPrevious, At, Only, link, Greeted, Flight, Named,
        Open, Past, SentHello
  <2>13. CASE Leaves(n, c)
    BY <2>13, NodeFacts, NamedHolds DEF Leaves, At, Only, Greeted, Flight, Named, Open, Past,
        SentHello
  <2>14. CASE Finishes(n, c)
    BY <2>14, NodeFacts, NamedHolds DEF Finishes, At, Only, Closes, Greeted, Flight, Named, Open,
        Past, SentHello
  <2> QED BY <1>2, <2>1, <2>2, <2>3, <2>4, <2>5, <2>6, <2>7, <2>8, <2>9, <2>10, <2>11, <2>12,
      <2>13, <2>14 DEF Paired
<1>3. ASSUME NEW n \in Nodes, NEW c \in Conns,
             NEW x \in Conns \cup {None}, NEW l \in Conns \cup {None}, Published(n, c, x, l)
      PROVE  Greeted'
  <2>1. CASE InstallsOver(n, c, x)
    BY <2>1, NodeFacts, NamedHolds DEF InstallsOver, Installing, At, Only, Closes, Greeted,
        Flight, Named, Open, Past, SentHello
  <2>2. CASE InstallsClean(n, c, x)
    BY <2>2, NodeFacts, NamedHolds DEF InstallsClean, Installing, At, Only, Greeted, Flight,
        Named, Open, Past, SentHello
  <2>3. CASE AdoptRefused(n, c, x, l)
    BY <2>3, NodeFacts, NamedHolds DEF AdoptRefused, Adopting, At, Only, Closes, Greeted, Flight,
        Named, Open, Past, SentHello
  <2>4. CASE AdoptsOver(n, c, x, l)
    BY <2>4, NodeFacts, NamedHolds DEF AdoptsOver, Adopting, At, Only, Greeted, Flight, Named,
        Open, Past, SentHello
  <2>5. CASE AdoptsClean(n, c, x, l)
    BY <2>5, NodeFacts, NamedHolds DEF AdoptsClean, Adopting, At, Only, Greeted, Flight, Named,
        Open, Past, SentHello
  <2>6. CASE AdoptsLate(n, c, x, l)
    BY <2>6, NodeFacts, NamedHolds DEF AdoptsLate, Adopting, At, Only, Closes, Greeted, Flight,
        Named, Open, Past, SentHello
  <2> QED BY <1>3, <2>1, <2>2, <2>3, <2>4, <2>5, <2>6 DEF Published
<1>4. ASSUME NEW c \in Conns, Breaks(c)
      PROVE  Greeted'
  BY <1>4, NodeFacts, NamedHolds DEF Breaks, local, node, Greeted, Flight, Named, Open, Past,
      SentHello
<1>5. CASE UNCHANGED vars
  BY <1>5 DEF vars, local, link, node, user, Greeted, Flight, Named, Open, Past, SentHello
<1> QED BY <1>1, <1>2, <1>3, <1>4, <1>5, StepKinds

\* A stream only ends because the other end was closed or the network broke it.
EofCause == \A n \in Nodes, c \in Conns : eof[n][c] => shut[Other(n)][c] \/ c \in failed

LEMMA EofCauseStep ==
  ASSUME TypeOK, Directed, Refs, EofCause, [Next]_vars
  PROVE  EofCause'
<1>1. ASSUME NEW n \in Nodes, Plain(n)
      PROVE  EofCause'
  <2>1. CASE Joins(n)
    BY <2>1, NodeFacts DEF Joins, At, local, link, EofCause
  <2>2. CASE GivesUp(n)
    BY <2>2, NodeFacts DEF GivesUp, At, Closes, EofCause
  <2>3. CASE Unblocks(n)
    BY <2>3, NodeFacts DEF Unblocks, At, local, link, EofCause
  <2>4. CASE Returns(n)
    BY <2>4, NodeFacts DEF Returns, At, local, link, node, EofCause
  <2>5. CASE Cancels(n)
    BY <2>5, NodeFacts DEF Cancels, local, link, node, EofCause
  <2> QED BY <1>1, <2>1, <2>2, <2>3, <2>4, <2>5 DEF Plain
<1>2. ASSUME NEW n \in Nodes, NEW c \in Conns, Paired(n, c)
      PROVE  EofCause'
  <2>1. CASE Dials(n, c)
    BY <2>1, NodeFacts DEF Dials, At, Only, link, EofCause
  <2>2. CASE StartsReader(n, c)
    BY <2>2, NodeFacts DEF StartsReader, At, Only, link, node, EofCause
  <2>3. CASE Meets(n, c)
    BY <2>3, NodeFacts DEF Meets, link, node, EofCause
  <2>4. CASE Accepts(n, c)
    BY <2>4, NodeFacts DEF Accepts, Only, link, node, EofCause
  <2>5. CASE Drops(n, c)
    BY <2>5, NodeFacts DEF Drops, local, node, EofCause
  <2>6. CASE Overrules(n, c)
    BY <2>6, NodeFacts DEF Overrules, At, Only, link, EofCause
  <2>7. CASE Loses(n, c)
    BY <2>7, NodeFacts DEF Loses, Only, Closes, node, EofCause
  <2>8. CASE Fails(n, c)
    BY <2>8, NodeFacts DEF Fails, Only, Closes, EofCause
  <2>9. CASE ClosesLoser(n, c)
    BY <2>9, NodeFacts DEF ClosesLoser, Only, Closes, node, EofCause
  <2>10. CASE Reads(n, c)
    BY <2>10, NodeFacts DEF Reads, Only, link, node, EofCause
  <2>11. CASE Replaced(n, c)
    BY <2>11, NodeFacts DEF Replaced, At, Only, Closes, EofCause
  <2>12. CASE ClosedPrevious(n, c)
    BY <2>12, NodeFacts DEF ClosedPrevious, At, Only, link, EofCause
  <2>13. CASE Leaves(n, c)
    BY <2>13, NodeFacts DEF Leaves, At, Only, EofCause
  <2>14. CASE Finishes(n, c)
    BY <2>14, NodeFacts DEF Finishes, At, Only, Closes, EofCause
  <2> QED BY <1>2, <2>1, <2>2, <2>3, <2>4, <2>5, <2>6, <2>7, <2>8, <2>9, <2>10, <2>11, <2>12,
      <2>13, <2>14 DEF Paired
<1>3. ASSUME NEW n \in Nodes, NEW c \in Conns,
             NEW x \in Conns \cup {None}, NEW l \in Conns \cup {None}, Published(n, c, x, l)
      PROVE  EofCause'
  <2>1. CASE InstallsOver(n, c, x)
    BY <2>1, NodeFacts DEF InstallsOver, Installing, At, Only, Closes, EofCause
  <2>2. CASE InstallsClean(n, c, x)
    BY <2>2, NodeFacts DEF InstallsClean, Installing, At, Only, EofCause
  <2>3. CASE AdoptRefused(n, c, x, l)
    BY <2>3, NodeFacts DEF AdoptRefused, Adopting, At, Only, Closes, EofCause
  <2>4. CASE AdoptsOver(n, c, x, l)
    BY <2>4, NodeFacts DEF AdoptsOver, Adopting, At, Only, EofCause
  <2>5. CASE AdoptsClean(n, c, x, l)
    BY <2>5, NodeFacts DEF AdoptsClean, Adopting, At, Only, EofCause
  <2>6. CASE AdoptsLate(n, c, x, l)
    BY <2>6, NodeFacts DEF AdoptsLate, Adopting, At, Only, Closes, EofCause
  <2> QED BY <1>3, <2>1, <2>2, <2>3, <2>4, <2>5, <2>6 DEF Published
<1>4. ASSUME NEW c \in Conns, Breaks(c)
      PROVE  EofCause'
  BY <1>4, NodeFacts DEF Breaks, local, node, EofCause
<1>5. CASE UNCHANGED vars
  BY <1>5 DEF vars, local, link, node, user, EofCause
<1> QED BY <1>1, <1>2, <1>3, <1>4, <1>5, StepKinds

\* Only a connection dialled by Small overrules, and only one dialled by Large.
Preference ==
  \A n \in Nodes, c \in Conns :
    /\ step[n][c] \in {"retire", "retired"} => c \in FromSmall
    /\ step[n][c] = "retire" => loser[n][c] \in FromLarge

LEMMA PreferenceStep ==
  ASSUME TypeOK, Directed, Refs, Preference, [Next]_vars
  PROVE  Preference'
<1>1. ASSUME NEW n \in Nodes, Plain(n)
      PROVE  Preference'
  <2>1. CASE Joins(n)
    BY <2>1, NodeFacts DEF Joins, At, local, link, Preference
  <2>2. CASE GivesUp(n)
    BY <2>2, NodeFacts DEF GivesUp, At, Closes, Preference
  <2>3. CASE Unblocks(n)
    BY <2>3, NodeFacts DEF Unblocks, At, local, link, Preference
  <2>4. CASE Returns(n)
    BY <2>4, NodeFacts DEF Returns, At, local, link, node, Preference
  <2>5. CASE Cancels(n)
    BY <2>5, NodeFacts DEF Cancels, local, link, node, Preference
  <2> QED BY <1>1, <2>1, <2>2, <2>3, <2>4, <2>5 DEF Plain
<1>2. ASSUME NEW n \in Nodes, NEW c \in Conns, Paired(n, c)
      PROVE  Preference'
  <2>1. CASE Dials(n, c)
    BY <2>1, NodeFacts DEF Dials, At, Only, link, Preference
  <2>2. CASE StartsReader(n, c)
    BY <2>2, NodeFacts DEF StartsReader, At, Only, link, node, Preference
  <2>3. CASE Meets(n, c)
    BY <2>3, NodeFacts DEF Meets, link, node, Preference
  <2>4. CASE Accepts(n, c)
    BY <2>4, NodeFacts DEF Accepts, Only, link, node, Preference
  <2>5. CASE Drops(n, c)
    BY <2>5, NodeFacts DEF Drops, local, node, Preference
  <2>6. CASE Overrules(n, c)
    BY <2>6, NodeFacts DEF Overrules, At, Only, link, Preference
  <2>7. CASE Loses(n, c)
    BY <2>7, NodeFacts DEF Loses, Only, Closes, node, Preference
  <2>8. CASE Fails(n, c)
    BY <2>8, NodeFacts DEF Fails, Only, Closes, Preference
  <2>9. CASE ClosesLoser(n, c)
    BY <2>9, NodeFacts DEF ClosesLoser, Only, Closes, node, Preference
  <2>10. CASE Reads(n, c)
    BY <2>10, NodeFacts DEF Reads, Only, link, node, Preference
  <2>11. CASE Replaced(n, c)
    BY <2>11, NodeFacts DEF Replaced, At, Only, Closes, Preference
  <2>12. CASE ClosedPrevious(n, c)
    BY <2>12, NodeFacts DEF ClosedPrevious, At, Only, link, Preference
  <2>13. CASE Leaves(n, c)
    BY <2>13, NodeFacts DEF Leaves, At, Only, Preference
  <2>14. CASE Finishes(n, c)
    BY <2>14, NodeFacts DEF Finishes, At, Only, Closes, Preference
  <2> QED BY <1>2, <2>1, <2>2, <2>3, <2>4, <2>5, <2>6, <2>7, <2>8, <2>9, <2>10, <2>11, <2>12,
      <2>13, <2>14 DEF Paired
<1>3. ASSUME NEW n \in Nodes, NEW c \in Conns,
             NEW x \in Conns \cup {None}, NEW l \in Conns \cup {None}, Published(n, c, x, l)
      PROVE  Preference'
  <2>1. CASE InstallsOver(n, c, x)
    BY <2>1, NodeFacts DEF InstallsOver, Installing, At, Only, Closes, Preference
  <2>2. CASE InstallsClean(n, c, x)
    BY <2>2, NodeFacts DEF InstallsClean, Installing, At, Only, Preference
  <2>3. CASE AdoptRefused(n, c, x, l)
    BY <2>3, NodeFacts DEF AdoptRefused, Adopting, At, Only, Closes, Preference
  <2>4. CASE AdoptsOver(n, c, x, l)
    BY <2>4, NodeFacts DEF AdoptsOver, Adopting, At, Only, Preference
  <2>5. CASE AdoptsClean(n, c, x, l)
    BY <2>5, NodeFacts DEF AdoptsClean, Adopting, At, Only, Preference
  <2>6. CASE AdoptsLate(n, c, x, l)
    BY <2>6, NodeFacts DEF AdoptsLate, Adopting, At, Only, Closes, Preference
  <2> QED BY <1>3, <2>1, <2>2, <2>3, <2>4, <2>5, <2>6 DEF Published
<1>4. ASSUME NEW c \in Conns, Breaks(c)
      PROVE  Preference'
  BY <1>4, NodeFacts DEF Breaks, local, node, Preference
<1>5. CASE UNCHANGED vars
  BY <1>5 DEF vars, local, link, node, user, Preference
<1> QED BY <1>1, <1>2, <1>3, <1>4, <1>5, StepKinds

\* A session whose reader has left is not in the table.
Ended == \A n \in Nodes, c \in Conns : step[n][c] = "ending" => canon[n] # c

LEMMA EndedStep ==
  ASSUME TypeOK, Directed, Refs, Ended, [Next]_vars
  PROVE  Ended'
<1>1. ASSUME NEW n \in Nodes, Plain(n)
      PROVE  Ended'
  <2>1. CASE Joins(n)
    BY <2>1, NodeFacts DEF Joins, At, local, link, Ended
  <2>2. CASE GivesUp(n)
    BY <2>2, NodeFacts DEF GivesUp, At, Closes, Ended
  <2>3. CASE Unblocks(n)
    BY <2>3, NodeFacts DEF Unblocks, At, local, link, Ended
  <2>4. CASE Returns(n)
    BY <2>4, NodeFacts DEF Returns, At, local, link, node, Ended
  <2>5. CASE Cancels(n)
    BY <2>5, NodeFacts DEF Cancels, local, link, node, Ended
  <2> QED BY <1>1, <2>1, <2>2, <2>3, <2>4, <2>5 DEF Plain
<1>2. ASSUME NEW n \in Nodes, NEW c \in Conns, Paired(n, c)
      PROVE  Ended'
  <2>1. CASE Dials(n, c)
    BY <2>1, NodeFacts DEF Dials, At, Only, link, Ended
  <2>2. CASE StartsReader(n, c)
    BY <2>2, NodeFacts DEF StartsReader, At, Only, link, node, Ended
  <2>3. CASE Meets(n, c)
    BY <2>3, NodeFacts DEF Meets, link, node, Ended
  <2>4. CASE Accepts(n, c)
    BY <2>4, NodeFacts DEF Accepts, Only, link, node, Ended
  <2>5. CASE Drops(n, c)
    BY <2>5, NodeFacts DEF Drops, local, node, Ended
  <2>6. CASE Overrules(n, c)
    BY <2>6, NodeFacts DEF Overrules, At, Only, link, Ended
  <2>7. CASE Loses(n, c)
    BY <2>7, NodeFacts DEF Loses, Only, Closes, node, Ended
  <2>8. CASE Fails(n, c)
    BY <2>8, NodeFacts DEF Fails, Only, Closes, Ended
  <2>9. CASE ClosesLoser(n, c)
    BY <2>9, NodeFacts DEF ClosesLoser, Only, Closes, node, Ended
  <2>10. CASE Reads(n, c)
    BY <2>10, NodeFacts DEF Reads, Only, link, node, Ended
  <2>11. CASE Replaced(n, c)
    BY <2>11, NodeFacts DEF Replaced, At, Only, Closes, Ended
  <2>12. CASE ClosedPrevious(n, c)
    BY <2>12, NodeFacts DEF ClosedPrevious, At, Only, link, Ended
  <2>13. CASE Leaves(n, c)
    BY <2>13, NodeFacts DEF Leaves, At, Only, Ended
  <2>14. CASE Finishes(n, c)
    BY <2>14, NodeFacts DEF Finishes, At, Only, Closes, Ended
  <2> QED BY <1>2, <2>1, <2>2, <2>3, <2>4, <2>5, <2>6, <2>7, <2>8, <2>9, <2>10, <2>11, <2>12,
      <2>13, <2>14 DEF Paired
<1>3. ASSUME NEW n \in Nodes, NEW c \in Conns,
             NEW x \in Conns \cup {None}, NEW l \in Conns \cup {None}, Published(n, c, x, l)
      PROVE  Ended'
  <2>1. CASE InstallsOver(n, c, x)
    BY <2>1, NodeFacts DEF InstallsOver, Installing, At, Only, Closes, Ended
  <2>2. CASE InstallsClean(n, c, x)
    BY <2>2, NodeFacts DEF InstallsClean, Installing, At, Only, Ended
  <2>3. CASE AdoptRefused(n, c, x, l)
    BY <2>3, NodeFacts DEF AdoptRefused, Adopting, At, Only, Closes, Ended
  <2>4. CASE AdoptsOver(n, c, x, l)
    BY <2>4, NodeFacts DEF AdoptsOver, Adopting, At, Only, Ended
  <2>5. CASE AdoptsClean(n, c, x, l)
    BY <2>5, NodeFacts DEF AdoptsClean, Adopting, At, Only, Ended
  <2>6. CASE AdoptsLate(n, c, x, l)
    BY <2>6, NodeFacts DEF AdoptsLate, Adopting, At, Only, Closes, Ended
  <2> QED BY <1>3, <2>1, <2>2, <2>3, <2>4, <2>5, <2>6 DEF Published
<1>4. ASSUME NEW c \in Conns, Breaks(c)
      PROVE  Ended'
  BY <1>4, NodeFacts DEF Breaks, local, node, Ended
<1>5. CASE UNCHANGED vars
  BY <1>5 DEF vars, local, link, node, user, Ended
<1> QED BY <1>1, <1>2, <1>3, <1>4, <1>5, StepKinds

\* A claim ends when the claimed connection is closed, or with an attempt nobody
\* awaits that close_peer() cancels, closing the manager's connection too.
Outlives(n, d, c) ==
  Claims(n, d, c) => \/ Claims(n, d, c)' \/ shut'[n][c]
                     \/ d = inFlight[n] /\ d # waiter[n] /\ (mgr[n] \in Conns => shut'[n][mgr[n]])

LEMMA ClaimStays ==
  ASSUME TypeOK, Directed, Refs, Order, [Next]_vars
  PROVE  \A m \in Nodes, d \in Conns, e \in Conns : Outlives(m, d, e)
<1>1. ASSUME NEW n \in Nodes, Plain(n)
      PROVE  \A m \in Nodes, d \in Conns, e \in Conns : Outlives(m, d, e)
  <2>1. CASE Joins(n)
    BY <2>1, NodeFacts DEF Joins, At, local, link, Outlives, Claims
  <2>2. CASE GivesUp(n)
    BY <2>2, NodeFacts DEF GivesUp, Closes, Outlives, Claims
  <2>3. CASE Unblocks(n)
    BY <2>3, NodeFacts DEF Unblocks, At, local, link, Outlives, Claims
  <2>4. CASE Returns(n)
    BY <2>4, NodeFacts DEF Returns, At, local, link, node, Outlives, Claims
  <2>5. CASE Cancels(n)
    BY <2>5, NodeFacts DEF Cancels, local, link, node, Outlives, Claims
  <2> QED BY <1>1, <2>1, <2>2, <2>3, <2>4, <2>5 DEF Plain
<1>2. ASSUME NEW n \in Nodes, NEW c \in Conns, Paired(n, c)
      PROVE  \A m \in Nodes, d \in Conns, e \in Conns : Outlives(m, d, e)
  <2>1. CASE Dials(n, c)
    BY <2>1, NodeFacts DEF Dials, At, Only, link, Outlives, Claims
  <2>2. CASE StartsReader(n, c)
    BY <2>2, NodeFacts DEF StartsReader, At, Only, link, node, Outlives, Claims
  <2>3. CASE Meets(n, c)
    <3>1. n = Dialer(c) /\ \A m \in Nodes : m # n => step[m][c] = "none"
      BY <2>3, NodeFacts DEF Meets, Directed, Order
    <3> QED BY <2>3, <3>1 DEF Meets, link, node, Outlives, Claims
  <2>4. CASE Accepts(n, c)
    BY <2>4, NodeFacts DEF Accepts, Only, link, node, Outlives, Claims
  <2>5. CASE Drops(n, c)
    BY <2>5, NodeFacts DEF Drops, local, node, Outlives, Claims
  <2>6. CASE Overrules(n, c)
    BY <2>6, NodeFacts DEF Overrules, At, Only, link, Outlives, Claims
  <2>7. CASE Loses(n, c)
    BY <2>7, NodeFacts DEF Loses, Only, Closes, node, Outlives, Claims
  <2>8. CASE Fails(n, c)
    BY <2>8, NodeFacts DEF Fails, Only, Closes, Outlives, Claims
  <2>9. CASE ClosesLoser(n, c)
    BY <2>9, NodeFacts DEF ClosesLoser, Only, Closes, node, Outlives, Claims
  <2>10. CASE Reads(n, c)
    BY <2>10, NodeFacts DEF Reads, Only, link, node, Outlives, Claims
  <2>11. CASE Replaced(n, c)
    BY <2>11, NodeFacts DEF Replaced, At, Only, Closes, Outlives, Claims
  <2>12. CASE ClosedPrevious(n, c)
    BY <2>12, NodeFacts DEF ClosedPrevious, At, Only, link, Outlives, Claims
  <2>13. CASE Leaves(n, c)
    BY <2>13, NodeFacts DEF Leaves, At, Only, Outlives, Claims
  <2>14. CASE Finishes(n, c)
    BY <2>14, NodeFacts DEF Finishes, At, Only, Closes, Outlives, Claims
  <2> QED BY <1>2, <2>1, <2>2, <2>3, <2>4, <2>5, <2>6, <2>7, <2>8, <2>9, <2>10, <2>11, <2>12,
      <2>13, <2>14 DEF Paired
<1>3. ASSUME NEW n \in Nodes, NEW c \in Conns,
             NEW x \in Conns \cup {None}, NEW l \in Conns \cup {None}, Published(n, c, x, l)
      PROVE  \A m \in Nodes, d \in Conns, e \in Conns : Outlives(m, d, e)
  <2>1. CASE InstallsOver(n, c, x)
    BY <2>1, NodeFacts DEF InstallsOver, Installing, At, Only, Closes, Outlives, Claims
  <2>2. CASE InstallsClean(n, c, x)
    BY <2>2, NodeFacts DEF InstallsClean, Installing, At, Only, Outlives, Claims
  <2>3. CASE AdoptRefused(n, c, x, l)
    BY <2>3, NodeFacts DEF AdoptRefused, Adopting, At, Only, Closes, Outlives, Claims
  <2>4. CASE AdoptsOver(n, c, x, l)
    BY <2>4, NodeFacts DEF AdoptsOver, Adopting, At, Only, Outlives, Claims
  <2>5. CASE AdoptsClean(n, c, x, l)
    BY <2>5, NodeFacts DEF AdoptsClean, Adopting, At, Only, Outlives, Claims
  <2>6. CASE AdoptsLate(n, c, x, l)
    BY <2>6, NodeFacts DEF AdoptsLate, Adopting, At, Only, Closes, Outlives, Claims
  <2> QED BY <1>3, <2>1, <2>2, <2>3, <2>4, <2>5, <2>6 DEF Published
<1>4. ASSUME NEW c \in Conns, Breaks(c)
      PROVE  \A m \in Nodes, d \in Conns, e \in Conns : Outlives(m, d, e)
  BY <1>4, NodeFacts DEF Breaks, local, node, Outlives, Claims
<1>5. CASE UNCHANGED vars
  BY <1>5 DEF vars, local, link, node, user, Outlives, Claims
<1> QED BY <1>1, <1>2, <1>3, <1>4, <1>5, StepKinds

\* At Small, the manager knows every live connection it did not dial, or another
\* one it did not dial replaces it: close_peer() may cancel the attempt that
\* would have closed it.
LargeClaims(c) == \E d \in FromLarge : Claims(Small, d, c)

SmallKnows ==
  \A c \in FromLarge :
    Live(Small, c) => mgr[Small] = c \/ step[Small][c] = "ending" \/ LargeClaims(c)

LEMMA LargeClaimStays ==
  ASSUME TypeOK, Directed, Refs, Order, Flight, [Next]_vars, NEW e \in FromLarge, LargeClaims(e)
  PROVE  LargeClaims(e)' \/ shut'[Small][e]
<1>1. PICK d \in FromLarge : Claims(Small, d, e)
  BY DEF LargeClaims
<1>2. d \in Conns /\ e \in Conns
  BY DEF Conns
<1>3. Outlives(Small, d, e)
  BY <1>2, ClaimStays, NodeFacts
<1>4. d # inFlight[Small]
  BY <1>2, NodeFacts DEF Flight
<1> QED BY <1>1, <1>3, <1>4 DEF Outlives, LargeClaims

LEMMA SmallKnowsStep ==
  ASSUME TypeOK, Directed, Refs, Flight, Over, Preference, Order, SmallKnows, [Next]_vars
  PROVE  SmallKnows'
<1>a. FromLarge \subseteq Conns
  BY DEF Conns
<1>b. Persists
  BY StepPersists
<1>c. \A e \in FromLarge : LargeClaims(e) => LargeClaims(e)' \/ shut'[Small][e]
  BY LargeClaimStays
<1>1. ASSUME NEW n \in Nodes, Plain(n)
      PROVE  SmallKnows'
  <2>1. CASE Joins(n)
    BY <2>1, <1>a, <1>b, <1>c, NodeFacts
    DEF Joins, At, local, link, SmallKnows, NoMgr, Live, Open, Past
  <2>2. CASE GivesUp(n)
    BY <2>2, <1>a, <1>b, <1>c, NodeFacts, NamedHolds DEF GivesUp, At, Closes, SmallKnows,
        Persists, Named, Live, Open, Past
  <2>3. CASE Unblocks(n)
    BY <2>3, <1>a, <1>b, <1>c, NodeFacts, NamedHolds DEF Unblocks, At, local, link, SmallKnows,
        Persists, Named, Live, Open, Past
  <2>4. CASE Returns(n)
    BY <2>4, <1>a, <1>b, <1>c, NodeFacts, NamedHolds DEF Returns, At, local, link, node,
        SmallKnows, Persists, Named, Live, Open, Past
  <2>5. CASE Cancels(n)
    BY <2>5, <1>a, <1>b, <1>c, NodeFacts, NamedHolds DEF Cancels, local, link, node, SmallKnows,
        Persists, Named, Live, Open, Past
  <2> QED BY <1>1, <2>1, <2>2, <2>3, <2>4, <2>5 DEF Plain
<1>2. ASSUME NEW n \in Nodes, NEW c \in Conns, Paired(n, c)
      PROVE  SmallKnows'
  <2>1. CASE Dials(n, c)
    BY <2>1, <1>a, <1>b, <1>c, NodeFacts
    DEF Dials, At, Only, link, SmallKnows, NoMgr, Live, Open, Past
  <2>2. CASE StartsReader(n, c)
    BY <2>2, <1>a, <1>b, <1>c, NodeFacts, NamedHolds DEF StartsReader, At, Only, link, node,
        SmallKnows, Persists, Named, Live, Open, Past
  <2>3. CASE Meets(n, c)
    BY <2>3, <1>a, <1>b, <1>c, NodeFacts, NamedHolds DEF Meets, link, node, SmallKnows, Persists,
        Named, Live, Open, Past
  <2>4. CASE Accepts(n, c)
    BY <2>4, <1>a, <1>b, <1>c, NodeFacts, NamedHolds DEF Accepts, Only, link, node, SmallKnows,
        Persists, Named, Live, Open, Past
  <2>5. CASE Drops(n, c)
    BY <2>5, <1>a, <1>b, <1>c, NodeFacts, NamedHolds DEF Drops, local, node, SmallKnows,
        Persists, Named, Live, Open, Past
  <2>6. CASE Overrules(n, c)
    BY <2>6, <1>a, <1>b, <1>c, NodeFacts, NamedHolds DEF Overrules, At, Only, link, SmallKnows,
        Persists, Named, Live, Open, Past
  <2>7. CASE Loses(n, c)
    BY <2>7, <1>a, <1>b, <1>c, NodeFacts, NamedHolds DEF Loses, Only, Closes, node, SmallKnows,
        Persists, Named, Live, Open, Past
  <2>8. CASE Fails(n, c)
    BY <2>8, <1>a, <1>b, <1>c, NodeFacts
    DEF Fails, Only, Closes, SmallKnows, NoMgr, Live, Open, Past
  <2>9. CASE ClosesLoser(n, c)
    BY <2>9, <1>a, <1>b, <1>c, NodeFacts, NamedHolds DEF ClosesLoser, Only, Closes, node,
        SmallKnows, Persists, Named, Live, Open, Past
  <2>10. CASE Reads(n, c)
    BY <2>10, <1>a, <1>b, <1>c, NodeFacts, NamedHolds DEF Reads, Only, link, node, SmallKnows,
        Persists, Named, Live, Open, Past
  <2>11. CASE Replaced(n, c)
    BY <2>11, <1>a, <1>b, <1>c, NodeFacts, NamedHolds DEF Replaced, At, Only, Closes, SmallKnows,
        Persists, Named, Live, Open, Past
  <2>12. CASE ClosedPrevious(n, c)
    BY <2>12, <1>a, <1>b, <1>c, NodeFacts, NamedHolds DEF ClosedPrevious, At, Only, link,
        SmallKnows, Persists, Named, Live, Open, Past
  <2>13. CASE Leaves(n, c)
    BY <2>13, <1>a, <1>b, <1>c, NodeFacts, NamedHolds DEF Leaves, At, Only, SmallKnows, Persists,
        Named, Live, Open, Past
  <2>14. CASE Finishes(n, c)
    BY <2>14, <1>a, <1>b, <1>c, NodeFacts, NamedHolds DEF Finishes, At, Only, Closes, SmallKnows,
        Persists, Named, Live, Open, Past
  <2> QED BY <1>2, <2>1, <2>2, <2>3, <2>4, <2>5, <2>6, <2>7, <2>8, <2>9, <2>10, <2>11, <2>12,
      <2>13, <2>14 DEF Paired
<1>3. ASSUME NEW n \in Nodes, NEW c \in Conns,
             NEW x \in Conns \cup {None}, NEW l \in Conns \cup {None}, Published(n, c, x, l)
      PROVE  SmallKnows'
  <2>1. CASE InstallsOver(n, c, x)
    BY <2>1, <1>a, <1>b, <1>c, NodeFacts, NamedHolds DEF InstallsOver, Installing, At, Only,
        Closes, SmallKnows, Persists, Named, Live, Open, Past
  <2>2. CASE InstallsClean(n, c, x)
    BY <2>2, <1>a, <1>b, <1>c, NodeFacts, NamedHolds DEF InstallsClean, Installing, At, Only,
        SmallKnows, Persists, Named, Live, Open, Past
  <2>3. CASE AdoptRefused(n, c, x, l)
    BY <2>3, <1>a, <1>b, <1>c, NodeFacts, NamedHolds DEF AdoptRefused, Adopting, At, Only,
        Closes, SmallKnows, Persists, Named, Live, Open, Past
  <2>4. CASE AdoptsOver(n, c, x, l)
    <3>1. \A e \in Conns : n = Small /\ e = mgr[n] => LargeClaims(e)'
      <4>1. n = Small => c \in FromLarge
        BY <2>4, NodeFacts DEF AdoptsOver, Adopting, Nodes
      <4>2. step'[n][c] = "retirePrev" /\ loser'[n][c] = mgr[n]
        BY <2>4 DEF AdoptsOver, Only
      <4> QED BY <4>1, <4>2 DEF LargeClaims, Claims
    <3> QED BY <2>4, <3>1, <1>a, <1>b, <1>c, NodeFacts
            DEF AdoptsOver, Adopting, At, Only, SmallKnows, Persists, Live, Open, Past
  <2>5. CASE AdoptsClean(n, c, x, l)
    <3>1. n = Small => mgr[n] \in {None, c}
      BY <2>5, NodeFacts DEF AdoptsClean, Adopting, Preference
    <3> QED BY <2>5, <3>1, <1>a, <1>b, <1>c, NodeFacts
            DEF AdoptsClean, Adopting, At, Only, SmallKnows, Persists, Live, Open, Past
  <2>6. CASE AdoptsLate(n, c, x, l)
    <3>1. n = Small => mgr[n] \in {None, c}
      BY <2>6, NodeFacts DEF AdoptsLate, Adopting, Preference
    <3> QED BY <2>6, <3>1, <1>a, <1>b, <1>c, NodeFacts
            DEF AdoptsLate, At, Only, Closes, SmallKnows, Persists, Live, Open, Past
  <2> QED BY <1>3, <2>1, <2>2, <2>3, <2>4, <2>5, <2>6 DEF Published
<1>4. ASSUME NEW c \in Conns, Breaks(c)
      PROVE  SmallKnows'
  BY <1>4, <1>a, <1>b, <1>c, NodeFacts, NamedHolds DEF Breaks, local, node, SmallKnows, Persists,
      Named, Live, Open, Past
<1>5. CASE UNCHANGED vars
  BY <1>5 DEF vars, local, link, node, user, SmallKnows, LargeClaims, Claims,
    Live, Open, Past
<1> QED BY <1>1, <1>2, <1>3, <1>4, <1>5, StepKinds

\* A live connection that is not the session is on its way out: its reader has
\* left, or a task that replaced it is about to close it.
Closers ==
  \A n \in Nodes, c \in Conns :
    Live(n, c) /\ canon[n] # c => step[n][c] = "ending" \/ Claimed(n, c)

LEMMA ClaimedStays ==
  ASSUME TypeOK, Directed, Refs, Order, Flight, Preference, SmallKnows, [Next]_vars,
         NEW n \in Nodes, NEW c \in Conns, Claimed(n, c), Live(n, c)
  PROVE  Claimed(n, c)' \/ shut'[n][c] \/ step[n][c] = "ending"
<1>1. PICK d \in Conns : Claims(n, d, c)
  BY DEF Claimed
<1>2. Outlives(n, d, c)
  BY ClaimStays
<1>3. CASE Claims(n, d, c)' \/ shut'[n][c]
  BY <1>3 DEF Claimed
<1>4. CASE d = inFlight[n] /\ (mgr[n] \in Conns => shut'[n][mgr[n]])
  <2>1. n = Small /\ c \in FromLarge
    BY <1>1, <1>4, NodeFacts DEF Flight, Directed, Preference, Claims, InFlightSteps
  <2>2. CASE mgr[n] = c \/ step[n][c] = "ending"
    BY <1>4, <2>2
  <2>3. CASE LargeClaims(c)
    <3>1. LargeClaims(c)' \/ shut'[n][c]
      BY <2>1, <2>3, LargeClaimStays
    <3> QED BY <2>1, <3>1 DEF LargeClaims, Claimed, Conns
  <2> QED BY <2>1, <2>2, <2>3 DEF SmallKnows
<1> QED BY <1>1, <1>2, <1>3, <1>4 DEF Outlives

LEMMA ClosersStep ==
  ASSUME TypeOK, Directed, Refs, Flight, Order, Preference, SmallKnows, Over, Closers, [Next]_vars
  PROVE  Closers'
<1>a. Persists
  BY StepPersists
<1>b. \A m \in Nodes, e \in Conns : Claimed(m, e) /\ Live(m, e)
        => Claimed(m, e)' \/ shut'[m][e] \/ step[m][e] = "ending"
  BY ClaimedStays
<1>1. ASSUME NEW n \in Nodes, Plain(n)
      PROVE  Closers'
  <2>1. CASE Joins(n)
    BY <2>1, <1>a, <1>b, NodeFacts DEF Joins, At, local, link, Closers, Persists, NoCanon, Live,
        Open, Past
  <2>2. CASE GivesUp(n)
    BY <2>2, <1>a, <1>b, NodeFacts
    DEF GivesUp, Closes, Closers, Persists, Live, Open, Past
  <2>3. CASE Unblocks(n)
    BY <2>3, <1>a, <1>b, NodeFacts DEF Unblocks, At, local, link, Closers, Persists, NoCanon,
        Live, Open, Past
  <2>4. CASE Returns(n)
    BY <2>4, <1>a, <1>b, NodeFacts DEF Returns, At, local, link, node, Closers, Persists,
        NoCanon, Live, Open, Past
  <2>5. CASE Cancels(n)
    BY <2>5, <1>a, <1>b, NodeFacts DEF Cancels, local, link, node, Closers, Persists, NoCanon,
        Live, Open, Past
  <2> QED BY <1>1, <2>1, <2>2, <2>3, <2>4, <2>5 DEF Plain
<1>2. ASSUME NEW n \in Nodes, NEW c \in Conns, Paired(n, c)
      PROVE  Closers'
  <2>1. CASE Dials(n, c)
    BY <2>1, <1>a, <1>b, NodeFacts DEF Dials, At, Only, link, Closers, Persists, NoCanon, Live,
        Open, Past
  <2>2. CASE StartsReader(n, c)
    BY <2>2, <1>a, <1>b, NodeFacts DEF StartsReader, At, Only, link, node, Closers, Persists,
        NoCanon, Live, Open, Past
  <2>3. CASE Meets(n, c)
    BY <2>3, <1>a, <1>b, NodeFacts DEF Meets, link, node, Closers, Persists, NoCanon, Live, Open,
        Past
  <2>4. CASE Accepts(n, c)
    BY <2>4, <1>a, <1>b, NodeFacts DEF Accepts, Only, link, node, Closers, Persists, NoCanon,
        Live, Open, Past
  <2>5. CASE Drops(n, c)
    BY <2>5, <1>a, <1>b, NodeFacts DEF Drops, local, node, Closers, Persists, NoCanon, Live,
        Open, Past
  <2>6. CASE Overrules(n, c)
    <3>1. \A e \in Conns : e = canon[n] => Claimed(n, e)'
      BY <2>6, NodeFacts DEF Overrules, Only, Claimed, Claims
    <3> QED BY <2>6, <3>1, <1>a, <1>b, NodeFacts
            DEF Overrules, At, Only, link, Closers, Persists, Live, Open, Past
  <2>7. CASE Loses(n, c)
    BY <2>7, <1>a, <1>b, NodeFacts DEF Loses, Only, Closes, node, Closers, Persists, NoCanon,
        Live, Open, Past
  <2>8. CASE Fails(n, c)
    BY <2>8, <1>a, <1>b, NodeFacts DEF Fails, Only, Closes, Closers, Persists, NoCanon, Live,
        Open, Past
  <2>9. CASE ClosesLoser(n, c)
    BY <2>9, <1>a, <1>b, NodeFacts DEF ClosesLoser, Only, Closes, node, Closers, Persists,
        NoCanon, Live, Open, Past
  <2>10. CASE Reads(n, c)
    BY <2>10, <1>a, <1>b, NodeFacts DEF Reads, Only, link, node, Closers, Persists, NoCanon,
        Live, Open, Past
  <2>11. CASE Replaced(n, c)
    BY <2>11, <1>a, <1>b, NodeFacts DEF Replaced, At, Only, Closes, Closers, Persists, NoCanon,
        Live, Open, Past
  <2>12. CASE ClosedPrevious(n, c)
    BY <2>12, <1>a, <1>b, NodeFacts DEF ClosedPrevious, At, Only, link, Closers, Persists,
        NoCanon, Live, Open, Past
  <2>13. CASE Leaves(n, c)
    BY <2>13, <1>a, <1>b, NodeFacts DEF Leaves, At, Only, Closers, Persists, NoCanon, Live, Open,
        Past
  <2>14. CASE Finishes(n, c)
    BY <2>14, <1>a, <1>b, NodeFacts DEF Finishes, At, Only, Closes, Closers, Persists, NoCanon,
        Live, Open, Past
  <2> QED BY <1>2, <2>1, <2>2, <2>3, <2>4, <2>5, <2>6, <2>7, <2>8, <2>9, <2>10, <2>11, <2>12,
      <2>13, <2>14 DEF Paired
<1>3. ASSUME NEW n \in Nodes, NEW c \in Conns,
             NEW x \in Conns \cup {None}, NEW l \in Conns \cup {None}, Published(n, c, x, l)
      PROVE  Closers'
  <2>1. CASE InstallsOver(n, c, x)
    BY <2>1, <1>a, <1>b, NodeFacts DEF InstallsOver, Installing, At, Only, Closes, Closers,
        Persists, NoCanon, Live, Open, Past
  <2>2. CASE InstallsClean(n, c, x)
    BY <2>2, <1>a, <1>b, NodeFacts DEF InstallsClean, Installing, At, Only, Closers, Persists,
        NoCanon, Live, Open, Past
  <2>3. CASE AdoptRefused(n, c, x, l)
    BY <2>3, <1>a, <1>b, NodeFacts DEF AdoptRefused, Adopting, At, Only, Closes, Closers,
        Persists, NoCanon, Live, Open, Past
  <2>4. CASE AdoptsOver(n, c, x, l)
    <3>1. \A e \in Conns : e = mgr[n] => Claimed(n, e)'
      BY <2>4 DEF AdoptsOver, Only, Claimed, Claims
    <3> QED BY <2>4, <3>1, <1>a, <1>b, NodeFacts
            DEF AdoptsOver, Adopting, At, Only, Closers, Persists, NoCanon, Live, Open, Past
  <2>5. CASE AdoptsClean(n, c, x, l)
    BY <2>5, <1>a, <1>b, NodeFacts DEF AdoptsClean, Adopting, At, Only, Closers, Persists,
        NoCanon, Live, Open, Past
  <2>6. CASE AdoptsLate(n, c, x, l)
    BY <2>6, <1>a, <1>b, NodeFacts DEF AdoptsLate, Adopting, At, Only, Closes, Closers, Persists,
        NoCanon, Live, Open, Past
  <2> QED BY <1>3, <2>1, <2>2, <2>3, <2>4, <2>5, <2>6 DEF Published
<1>4. ASSUME NEW c \in Conns, Breaks(c)
      PROVE  Closers'
  BY <1>4, <1>a, <1>b, NodeFacts DEF Breaks, local, node, Closers, Persists, NoCanon, Live, Open,
      Past
<1>5. CASE UNCHANGED vars
  BY <1>5 DEF vars, local, link, node, user, Closers, Claimed, Claims, Live, Open, Past
<1> QED BY <1>1, <1>2, <1>3, <1>4, <1>5, StepKinds

\* A node does not dial while the connection it dialled is its live session.
Alone ==
  \A n \in Nodes, c \in Conns :
    Dialer(c) = n /\ step[n][c] \in {"dial", "hello"}
      => \A x \in Conns : canon[n] = x /\ Live(n, x) => Dialer(x) # n

LEMMA AloneStep ==
  ASSUME TypeOK, Directed, Refs, Flight, Order, Alone, [Next]_vars
  PROVE  Alone'
<1>1. ASSUME NEW n \in Nodes, Plain(n)
      PROVE  Alone'
  <2>1. CASE Joins(n)
    BY <2>1, NodeFacts, NamedHolds DEF Joins, At, local, link, Alone, Flight, Named, NoCanon,
        InFlightSteps, Live, Open, Past
  <2>2. CASE GivesUp(n)
    BY <2>2, NodeFacts, NamedHolds DEF GivesUp, At, Closes, Alone, Flight, Named, NoCanon,
        InFlightSteps, Live, Open, Past
  <2>3. CASE Unblocks(n)
    BY <2>3, NodeFacts, NamedHolds DEF Unblocks, At, local, link, Alone, Flight, Named, NoCanon,
        InFlightSteps, Live, Open, Past
  <2>4. CASE Returns(n)
    BY <2>4, NodeFacts, NamedHolds DEF Returns, At, local, link, node, Alone, Flight, Named,
        NoCanon, InFlightSteps, Live, Open, Past
  <2>5. CASE Cancels(n)
    BY <2>5, NodeFacts, NamedHolds DEF Cancels, local, link, node, Alone, Flight, Named, NoCanon,
        InFlightSteps, Live, Open, Past
  <2> QED BY <1>1, <2>1, <2>2, <2>3, <2>4, <2>5 DEF Plain
<1>2. ASSUME NEW n \in Nodes, NEW c \in Conns, Paired(n, c)
      PROVE  Alone'
  <2>1. CASE Dials(n, c)
    BY <2>1, NodeFacts, NamedHolds DEF Dials, At, Only, link, Alone, Flight, Named, NoCanon,
        InFlightSteps, Live, Open, Past
  <2>2. CASE StartsReader(n, c)
    BY <2>2, NodeFacts, NamedHolds DEF StartsReader, At, Only, link, node, Alone, Flight, Named,
        NoCanon, InFlightSteps, Live, Open, Past
  <2>3. CASE Meets(n, c)
    BY <2>3, NodeFacts, NamedHolds DEF Meets, link, node, Alone, Flight, Named, NoCanon,
        InFlightSteps, Live, Open, Past
  <2>4. CASE Accepts(n, c)
    <3>1. Dialer(c) # n
      BY <2>4 DEF Accepts, Directed, InFlightSteps, DoneSteps
    <3> QED BY <2>4, <3>1, NodeFacts DEF Accepts, Only, link, node, Alone, Live, Open, Past
  <2>5. CASE Drops(n, c)
    BY <2>5, NodeFacts, NamedHolds DEF Drops, local, node, Alone, Flight, Named, NoCanon,
        InFlightSteps, Live, Open, Past
  <2>6. CASE Overrules(n, c)
    BY <2>6, NodeFacts, NamedHolds DEF Overrules, At, Only, link, Alone, Flight, Named, NoCanon,
        InFlightSteps, Live, Open, Past
  <2>7. CASE Loses(n, c)
    BY <2>7, NodeFacts, NamedHolds DEF Loses, Only, Closes, node, Alone, Flight, Named, NoCanon,
        InFlightSteps, Live, Open, Past
  <2>8. CASE Fails(n, c)
    BY <2>8, NodeFacts, NamedHolds DEF Fails, Only, Closes, Alone, Flight, Named, NoCanon,
        InFlightSteps, Live, Open, Past
  <2>9. CASE ClosesLoser(n, c)
    BY <2>9, NodeFacts, NamedHolds DEF ClosesLoser, Only, Closes, node, Alone, Flight, Named,
        NoCanon, InFlightSteps, Live, Open, Past
  <2>10. CASE Reads(n, c)
    BY <2>10, NodeFacts, NamedHolds DEF Reads, Only, link, node, Alone, Flight, Named, NoCanon,
        InFlightSteps, Live, Open, Past
  <2>11. CASE Replaced(n, c)
    BY <2>11, NodeFacts, NamedHolds DEF Replaced, At, Only, Closes, Alone, Flight, Named,
        NoCanon, InFlightSteps, Live, Open, Past
  <2>12. CASE ClosedPrevious(n, c)
    BY <2>12, NodeFacts, NamedHolds DEF ClosedPrevious, At, Only, link, Alone, Flight, Named,
        NoCanon, InFlightSteps, Live, Open, Past
  <2>13. CASE Leaves(n, c)
    BY <2>13, NodeFacts, NamedHolds DEF Leaves, At, Only, Alone, Flight, Named, NoCanon,
        InFlightSteps, Live, Open, Past
  <2>14. CASE Finishes(n, c)
    BY <2>14, NodeFacts, NamedHolds DEF Finishes, At, Only, Closes, Alone, Flight, Named,
        NoCanon, InFlightSteps, Live, Open, Past
  <2> QED BY <1>2, <2>1, <2>2, <2>3, <2>4, <2>5, <2>6, <2>7, <2>8, <2>9, <2>10, <2>11, <2>12,
      <2>13, <2>14 DEF Paired
<1>3. ASSUME NEW n \in Nodes, NEW c \in Conns,
             NEW x \in Conns \cup {None}, NEW l \in Conns \cup {None}, Published(n, c, x, l)
      PROVE  Alone'
  <2>1. CASE InstallsOver(n, c, x)
    BY <2>1, NodeFacts, NamedHolds DEF InstallsOver, Installing, At, Only, Closes, Alone, Flight,
        Named, NoCanon, InFlightSteps, Live, Open, Past
  <2>2. CASE InstallsClean(n, c, x)
    BY <2>2, NodeFacts, NamedHolds DEF InstallsClean, Installing, At, Only, Alone, Flight, Named,
        NoCanon, InFlightSteps, Live, Open, Past
  <2>3. CASE AdoptRefused(n, c, x, l)
    BY <2>3, NodeFacts, NamedHolds DEF AdoptRefused, Adopting, At, Only, Closes, Alone, Flight,
        Named, NoCanon, InFlightSteps, Live, Open, Past
  <2>4. CASE AdoptsOver(n, c, x, l)
    BY <2>4, NodeFacts, NamedHolds DEF AdoptsOver, Adopting, At, Only, Alone, Flight, Named,
        NoCanon, InFlightSteps, Live, Open, Past
  <2>5. CASE AdoptsClean(n, c, x, l)
    BY <2>5, NodeFacts, NamedHolds DEF AdoptsClean, Adopting, At, Only, Alone, Flight, Named,
        NoCanon, InFlightSteps, Live, Open, Past
  <2>6. CASE AdoptsLate(n, c, x, l)
    BY <2>6, NodeFacts, NamedHolds DEF AdoptsLate, Adopting, At, Only, Closes, Alone, Flight,
        Named, NoCanon, InFlightSteps, Live, Open, Past
  <2> QED BY <1>3, <2>1, <2>2, <2>3, <2>4, <2>5, <2>6 DEF Published
<1>4. ASSUME NEW c \in Conns, Breaks(c)
      PROVE  Alone'
  BY <1>4, NodeFacts, NamedHolds DEF Breaks, local, node, Alone, Flight, Named, NoCanon,
      InFlightSteps, Live, Open, Past
<1>5. CASE UNCHANGED vars
  BY <1>5 DEF vars, local, link, node, user, Alone, Flight, Named, NoCanon, InFlightSteps, Live,
      Open, Past
<1> QED BY <1>1, <1>2, <1>3, <1>4, <1>5, StepKinds

\* Once its task has published it, the live session is the one the manager has.
PublishedSteps == {"closePrev", "installed", "retirePrev", "retiredPrev", "reading"}

MgrKnows ==
  \A n \in Nodes, c \in Conns :
    Live(n, c) /\ canon[n] = c /\ step[n][c] \in PublishedSteps => mgr[n] = c

LEMMA MgrKnowsStep ==
  ASSUME TypeOK, Directed, Refs, Over, Order, MgrKnows, [Next]_vars
  PROVE  MgrKnows'
<1>1. ASSUME NEW n \in Nodes, Plain(n)
      PROVE  MgrKnows'
  <2>1. CASE Joins(n)
    BY <2>1, NodeFacts, NamedHolds, LoserNamed DEF Joins, At, local, link, MgrKnows,
        PublishedSteps, Over, Named, NoCanon, NoMgr, Live, Open, Past
  <2>2. CASE GivesUp(n)
    BY <2>2, NodeFacts, NamedHolds, LoserNamed DEF GivesUp, At, Closes, MgrKnows, PublishedSteps,
        Over, Named, NoCanon, NoMgr, Live, Open, Past
  <2>3. CASE Unblocks(n)
    BY <2>3, NodeFacts, NamedHolds, LoserNamed DEF Unblocks, At, local, link, MgrKnows,
        PublishedSteps, Over, Named, NoCanon, NoMgr, Live, Open, Past
  <2>4. CASE Returns(n)
    BY <2>4, NodeFacts, NamedHolds, LoserNamed DEF Returns, At, local, link, node, MgrKnows,
        PublishedSteps, Over, Named, NoCanon, NoMgr, Live, Open, Past
  <2>5. CASE Cancels(n)
    BY <2>5, NodeFacts, NamedHolds, LoserNamed DEF Cancels, local, link, node, MgrKnows,
        PublishedSteps, Over, Named, NoCanon, NoMgr, Live, Open, Past
  <2> QED BY <1>1, <2>1, <2>2, <2>3, <2>4, <2>5 DEF Plain
<1>2. ASSUME NEW n \in Nodes, NEW c \in Conns, Paired(n, c)
      PROVE  MgrKnows'
  <2>1. CASE Dials(n, c)
    BY <2>1, NodeFacts, NamedHolds, LoserNamed DEF Dials, At, Only, link, MgrKnows,
        PublishedSteps, Over, Named, NoCanon, NoMgr, Live, Open, Past
  <2>2. CASE StartsReader(n, c)
    BY <2>2, NodeFacts, NamedHolds, LoserNamed DEF StartsReader, At, Only, link, node, MgrKnows,
        PublishedSteps, Over, Named, NoCanon, NoMgr, Live, Open, Past
  <2>3. CASE Meets(n, c)
    BY <2>3, NodeFacts, NamedHolds, LoserNamed DEF Meets, link, node, MgrKnows, PublishedSteps,
        Over, Named, NoCanon, NoMgr, Live, Open, Past
  <2>4. CASE Accepts(n, c)
    BY <2>4, NodeFacts, NamedHolds, LoserNamed DEF Accepts, Only, link, node, MgrKnows,
        PublishedSteps, Over, Named, NoCanon, NoMgr, Live, Open, Past
  <2>5. CASE Drops(n, c)
    BY <2>5, NodeFacts, NamedHolds, LoserNamed DEF Drops, local, node, MgrKnows, PublishedSteps,
        Over, Named, NoCanon, NoMgr, Live, Open, Past
  <2>6. CASE Overrules(n, c)
    BY <2>6, NodeFacts, NamedHolds, LoserNamed DEF Overrules, At, Only, link, MgrKnows,
        PublishedSteps, Over, Named, NoCanon, NoMgr, Live, Open, Past
  <2>7. CASE Loses(n, c)
    BY <2>7, NodeFacts, NamedHolds, LoserNamed DEF Loses, Only, Closes, node, MgrKnows,
        PublishedSteps, Over, Named, NoCanon, NoMgr, Live, Open, Past
  <2>8. CASE Fails(n, c)
    BY <2>8, NodeFacts, NamedHolds, LoserNamed DEF Fails, Only, Closes, MgrKnows, PublishedSteps,
        Over, Named, NoCanon, NoMgr, Live, Open, Past
  <2>9. CASE ClosesLoser(n, c)
    BY <2>9, NodeFacts, NamedHolds, LoserNamed DEF ClosesLoser, Only, Closes, node, MgrKnows,
        PublishedSteps, Over, Named, NoCanon, NoMgr, Live, Open, Past
  <2>10. CASE Reads(n, c)
    BY <2>10, NodeFacts, NamedHolds, LoserNamed DEF Reads, Only, link, node, MgrKnows,
        PublishedSteps, Over, Named, NoCanon, NoMgr, Live, Open, Past
  <2>11. CASE Replaced(n, c)
    BY <2>11, NodeFacts, NamedHolds, LoserNamed DEF Replaced, At, Only, Closes, MgrKnows,
        PublishedSteps, Over, Named, NoCanon, NoMgr, Live, Open, Past
  <2>12. CASE ClosedPrevious(n, c)
    BY <2>12, NodeFacts, NamedHolds, LoserNamed DEF ClosedPrevious, At, Only, link, MgrKnows,
        PublishedSteps, Over, Named, NoCanon, NoMgr, Live, Open, Past
  <2>13. CASE Leaves(n, c)
    BY <2>13, NodeFacts, NamedHolds, LoserNamed DEF Leaves, At, Only, MgrKnows, PublishedSteps,
        Over, Named, NoCanon, NoMgr, Live, Open, Past
  <2>14. CASE Finishes(n, c)
    BY <2>14, NodeFacts, NamedHolds, LoserNamed DEF Finishes, At, Only, Closes, MgrKnows,
        PublishedSteps, Over, Named, NoCanon, NoMgr, Live, Open, Past
  <2> QED BY <1>2, <2>1, <2>2, <2>3, <2>4, <2>5, <2>6, <2>7, <2>8, <2>9, <2>10, <2>11, <2>12,
      <2>13, <2>14 DEF Paired
<1>3. ASSUME NEW n \in Nodes, NEW c \in Conns,
             NEW x \in Conns \cup {None}, NEW l \in Conns \cup {None}, Published(n, c, x, l)
      PROVE  MgrKnows'
  <2>1. CASE InstallsOver(n, c, x)
    BY <2>1, NodeFacts, NamedHolds, LoserNamed, SMTT(20)
    DEF InstallsOver, Installing, At, Only, Closes,
        MgrKnows, PublishedSteps, Over, Named, NoCanon, NoMgr, Live, Open, Past
  <2>2. CASE InstallsClean(n, c, x)
    BY <2>2, NodeFacts, NamedHolds, LoserNamed DEF InstallsClean, Installing, At, Only, MgrKnows,
        PublishedSteps, Over, Named, NoCanon, NoMgr, Live, Open, Past
  <2>3. CASE AdoptRefused(n, c, x, l)
    BY <2>3, NodeFacts, NamedHolds, LoserNamed DEF AdoptRefused, Adopting, At, Only, Closes,
        MgrKnows, PublishedSteps, Over, Named, NoCanon, NoMgr, Live, Open, Past
  <2>4. CASE AdoptsOver(n, c, x, l)
    BY <2>4, NodeFacts, NamedHolds, LoserNamed DEF AdoptsOver, Adopting, At, Only, MgrKnows,
        PublishedSteps, Over, Named, NoCanon, NoMgr, Live, Open, Past
  <2>5. CASE AdoptsClean(n, c, x, l)
    BY <2>5, NodeFacts, NamedHolds, LoserNamed DEF AdoptsClean, Adopting, At, Only, MgrKnows,
        PublishedSteps, Over, Named, NoCanon, NoMgr, Live, Open, Past
  <2>6. CASE AdoptsLate(n, c, x, l)
    BY <2>6, NodeFacts, NamedHolds, LoserNamed, SMTT(20) DEF AdoptsLate, Adopting, At, Only, Closes,
        MgrKnows, PublishedSteps, Over, Named, NoCanon, NoMgr, Live, Open, Past
  <2> QED BY <1>3, <2>1, <2>2, <2>3, <2>4, <2>5, <2>6 DEF Published
<1>4. ASSUME NEW c \in Conns, Breaks(c)
      PROVE  MgrKnows'
  BY <1>4, NodeFacts, NamedHolds, LoserNamed DEF Breaks, local, node, MgrKnows, PublishedSteps,
      Over, Named, NoCanon, NoMgr, Live, Open, Past
<1>5. CASE UNCHANGED vars
  BY <1>5 DEF vars, local, link, node, user, MgrKnows, PublishedSteps, Over, Named, NoCanon,
      NoMgr, Live, Open, Past
<1> QED BY <1>1, <1>2, <1>3, <1>4, <1>5, StepKinds

\* While no caller has been cancelled, a connect() awaits the attempt in flight,
\* and a connection that is installed but not read is being replaced or awaited.
Expected == cancels = 0 => \A n \in Nodes : inFlight[n] # None => waiter[n] = inFlight[n]

LEMMA ExpectedStep ==
  ASSUME TypeOK, Directed, Refs, Flight, Expected, [Next]_vars
  PROVE  Expected'
<1>a. cancels' = 0 => cancels = 0
  BY CancelsStep
<1>1. ASSUME NEW n \in Nodes, Plain(n)
      PROVE  Expected'
  <2>1. CASE Joins(n)
    BY <2>1, <1>a, NodeFacts, NamedHolds DEF Joins, At, local, link, Expected, Flight, Named,
        InFlightSteps
  <2>2. CASE GivesUp(n)
    BY <2>2, <1>a, NodeFacts, NamedHolds DEF GivesUp, At, Closes, Expected, Flight, Named,
        InFlightSteps
  <2>3. CASE Unblocks(n)
    BY <2>3, <1>a, NodeFacts, NamedHolds DEF Unblocks, At, local, link, user, Expected, Flight,
        Named, InFlightSteps
  <2>4. CASE Returns(n)
    BY <2>4, <1>a, NodeFacts, NamedHolds DEF Returns, At, local, link, node, Expected, Flight,
        Named, InFlightSteps
  <2>5. CASE Cancels(n)
    BY <2>5, <1>a, NodeFacts, NamedHolds DEF Cancels, local, link, node, Expected, Flight, Named,
        InFlightSteps
  <2> QED BY <1>1, <2>1, <2>2, <2>3, <2>4, <2>5 DEF Plain
<1>2. ASSUME NEW n \in Nodes, NEW c \in Conns, Paired(n, c)
      PROVE  Expected'
  <2>1. CASE Dials(n, c)
    BY <2>1, <1>a, NodeFacts, NamedHolds DEF Dials, At, Only, link, Expected, Flight, Named,
        InFlightSteps
  <2>2. CASE StartsReader(n, c)
    BY <2>2, <1>a, NodeFacts, NamedHolds DEF StartsReader, At, Only, link, node, Expected,
        Flight, Named, InFlightSteps
  <2>3. CASE Meets(n, c)
    BY <2>3, <1>a, NodeFacts, NamedHolds DEF Meets, link, node, user, Expected, Flight, Named,
        InFlightSteps
  <2>4. CASE Accepts(n, c)
    BY <2>4, <1>a, NodeFacts, NamedHolds DEF Accepts, Only, link, node, user, Expected, Flight,
        Named, InFlightSteps
  <2>5. CASE Drops(n, c)
    BY <2>5, <1>a, NodeFacts, NamedHolds DEF Drops, local, node, user, Expected, Flight, Named,
        InFlightSteps
  <2>6. CASE Overrules(n, c)
    BY <2>6, <1>a, NodeFacts, NamedHolds DEF Overrules, At, Only, link, user, Expected, Flight,
        Named, InFlightSteps
  <2>7. CASE Loses(n, c)
    BY <2>7, <1>a, NodeFacts, NamedHolds DEF Loses, Only, Closes, node, user, Expected, Flight,
        Named, InFlightSteps
  <2>8. CASE Fails(n, c)
    BY <2>8, <1>a, NodeFacts, NamedHolds DEF Fails, Only, Closes, user, Expected, Flight, Named,
        InFlightSteps
  <2>9. CASE ClosesLoser(n, c)
    BY <2>9, <1>a, NodeFacts, NamedHolds DEF ClosesLoser, Only, Closes, node, user, Expected,
        Flight, Named, InFlightSteps
  <2>10. CASE Reads(n, c)
    BY <2>10, <1>a, NodeFacts, NamedHolds DEF Reads, Only, link, node, user, Expected, Flight,
        Named, InFlightSteps
  <2>11. CASE Replaced(n, c)
    BY <2>11, <1>a, NodeFacts, NamedHolds DEF Replaced, At, Only, Closes, user, Expected, Flight,
        Named, InFlightSteps
  <2>12. CASE ClosedPrevious(n, c)
    BY <2>12, <1>a, NodeFacts, NamedHolds DEF ClosedPrevious, At, Only, link, user, Expected,
        Flight, Named, InFlightSteps
  <2>13. CASE Leaves(n, c)
    BY <2>13, <1>a, NodeFacts, NamedHolds DEF Leaves, At, Only, user, Expected, Flight, Named,
        InFlightSteps
  <2>14. CASE Finishes(n, c)
    BY <2>14, <1>a, NodeFacts, NamedHolds DEF Finishes, At, Only, Closes, user, Expected, Flight,
        Named, InFlightSteps
  <2> QED BY <1>2, <2>1, <2>2, <2>3, <2>4, <2>5, <2>6, <2>7, <2>8, <2>9, <2>10, <2>11, <2>12,
      <2>13, <2>14 DEF Paired
<1>3. ASSUME NEW n \in Nodes, NEW c \in Conns,
             NEW x \in Conns \cup {None}, NEW l \in Conns \cup {None}, Published(n, c, x, l)
      PROVE  Expected'
  <2>1. CASE InstallsOver(n, c, x)
    BY <2>1, <1>a, NodeFacts, NamedHolds DEF InstallsOver, Installing, At, Only, Closes, user,
        Expected, Flight, Named, InFlightSteps
  <2>2. CASE InstallsClean(n, c, x)
    BY <2>2, <1>a, NodeFacts, NamedHolds DEF InstallsClean, Installing, At, Only, user, Expected,
        Flight, Named, InFlightSteps
  <2>3. CASE AdoptRefused(n, c, x, l)
    BY <2>3, <1>a, NodeFacts, NamedHolds DEF AdoptRefused, Adopting, At, Only, Closes, user,
        Expected, Flight, Named, InFlightSteps
  <2>4. CASE AdoptsOver(n, c, x, l)
    BY <2>4, <1>a, NodeFacts, NamedHolds DEF AdoptsOver, Adopting, At, Only, user, Expected,
        Flight, Named, InFlightSteps
  <2>5. CASE AdoptsClean(n, c, x, l)
    BY <2>5, <1>a, NodeFacts, NamedHolds DEF AdoptsClean, Adopting, At, Only, user, Expected,
        Flight, Named, InFlightSteps
  <2>6. CASE AdoptsLate(n, c, x, l)
    BY <2>6, <1>a, NodeFacts, NamedHolds DEF AdoptsLate, Adopting, At, Only, Closes, user,
        Expected, Flight, Named, InFlightSteps
  <2> QED BY <1>3, <2>1, <2>2, <2>3, <2>4, <2>5, <2>6 DEF Published
<1>4. ASSUME NEW c \in Conns, Breaks(c)
      PROVE  Expected'
  BY <1>4, <1>a, NodeFacts, NamedHolds DEF Breaks, local, node, user, Expected, Flight, Named,
      InFlightSteps
<1>5. CASE UNCHANGED vars
  BY <1>5 DEF vars, local, link, node, user, Expected, Flight, Named, InFlightSteps
<1> QED BY <1>1, <1>2, <1>3, <1>4, <1>5, StepKinds

\* While no caller was cancelled, an installed connection that nobody reads yet is
\* being replaced, or its caller is about to start the reader.
Awaited ==
  cancels = 0 => \A n \in Nodes, c \in Conns :
    Open(n, c) /\ step[n][c] \in {"closePrev", "installed"}
      => Claimed(n, c) \/ (waiter[n] = c /\ mgr[n] = c)

LEMMA AwaitedStep ==
  ASSUME TypeOK, Directed, Refs, Flight, Over, Order, Expected, Awaited, [Next]_vars
  PROVE  Awaited'
<1>a. cancels' = 0 => cancels = 0
  BY CancelsStep
<1>b. Persists
  BY StepPersists
<1>c. cancels = 0 => \A m \in Nodes, e \in Conns :
        Claimed(m, e) => Claimed(m, e)' \/ shut'[m][e]
  <2> SUFFICES ASSUME cancels = 0, NEW m \in Nodes, NEW e \in Conns, NEW d \in Conns,
                      Claims(m, d, e)
               PROVE  Claimed(m, e)' \/ shut'[m][e]
    BY DEF Claimed
  <2>1. Outlives(m, d, e)
    BY ClaimStays
  <2>2. d = inFlight[m] => d = waiter[m]
    BY NodeFacts DEF Expected
  <2> QED BY <2>1, <2>2 DEF Outlives, Claimed
<1>1. ASSUME NEW n \in Nodes, Plain(n)
      PROVE  Awaited'
  <2>1. CASE Joins(n)
    BY <2>1, <1>a, <1>b, <1>c, NodeFacts, NamedHolds DEF Joins, At, local, link, Awaited,
        Expected, Flight, Named, InFlightSteps, DoneSteps, Persists, Open, Past
  <2>2. CASE GivesUp(n)
    BY <2>2, <1>a, <1>b, <1>c, NodeFacts, NamedHolds DEF GivesUp, At, Closes, Awaited, Expected,
        Flight, Named, InFlightSteps, DoneSteps, Persists, Open, Past
  <2>3. CASE Unblocks(n)
    BY <2>3, <1>a, <1>b, <1>c, NodeFacts, NamedHolds DEF Unblocks, At, local, link, user,
        Awaited, Expected, Flight, Named, InFlightSteps, DoneSteps, Persists, Open, Past
  <2>4. CASE Returns(n)
    BY <2>4, <1>a, <1>b, <1>c, NodeFacts, NamedHolds DEF Returns, At, local, link, node, Awaited,
        Refs, Results, Open, Past
  <2>5. CASE Cancels(n)
    BY <2>5, <1>a, <1>b, <1>c, NodeFacts, NamedHolds DEF Cancels, local, link, node, Awaited,
        Expected, Flight, Named, InFlightSteps, DoneSteps, Persists, Open, Past
  <2> QED BY <1>1, <2>1, <2>2, <2>3, <2>4, <2>5 DEF Plain
<1>2. ASSUME NEW n \in Nodes, NEW c \in Conns, Paired(n, c)
      PROVE  Awaited'
  <2>1. CASE Dials(n, c)
    BY <2>1, <1>a, <1>b, <1>c, NodeFacts, NamedHolds DEF Dials, At, Only, link, Awaited,
        Expected, Flight, Named, InFlightSteps, DoneSteps, Persists, Open, Past
  <2>2. CASE StartsReader(n, c)
    BY <2>2, <1>a, <1>b, <1>c, NodeFacts, NamedHolds DEF StartsReader, At, Only, link, node,
        Awaited, Refs, Results, Named, DoneSteps, Open, Past
  <2>3. CASE Meets(n, c)
    BY <2>3, <1>a, <1>b, <1>c, NodeFacts, NamedHolds DEF Meets, link, node, user, Awaited,
        Expected, Flight, Named, InFlightSteps, DoneSteps, Persists, Open, Past
  <2>4. CASE Accepts(n, c)
    BY <2>4, <1>a, <1>b, <1>c, NodeFacts, NamedHolds DEF Accepts, Only, link, node, user,
        Awaited, Expected, Flight, Named, InFlightSteps, DoneSteps, Persists, Open, Past
  <2>5. CASE Drops(n, c)
    BY <2>5, <1>a, <1>b, <1>c, NodeFacts, NamedHolds DEF Drops, local, node, user, Awaited,
        Expected, Flight, Named, InFlightSteps, DoneSteps, Persists, Open, Past
  <2>6. CASE Overrules(n, c)
    BY <2>6, <1>a, <1>b, <1>c, NodeFacts, NamedHolds DEF Overrules, At, Only, link, user,
        Awaited, Expected, Flight, Named, InFlightSteps, DoneSteps, Persists, Open, Past
  <2>7. CASE Loses(n, c)
    BY <2>7, <1>a, <1>b, <1>c, NodeFacts, NamedHolds DEF Loses, Only, Closes, node, user,
        Awaited, Expected, Flight, Named, InFlightSteps, DoneSteps, Persists, Open, Past
  <2>8. CASE Fails(n, c)
    BY <2>8, <1>a, <1>b, <1>c, NodeFacts, NamedHolds DEF Fails, Only, Closes, user, Awaited,
        Expected, Flight, Named, InFlightSteps, DoneSteps, Persists, Open, Past
  <2>9. CASE ClosesLoser(n, c)
    BY <2>9, <1>a, <1>b, <1>c, NodeFacts, NamedHolds DEF ClosesLoser, Only, Closes, node, user,
        Awaited, Expected, Flight, Named, InFlightSteps, DoneSteps, Persists, Open, Past
  <2>10. CASE Reads(n, c)
    BY <2>10, <1>a, <1>b, <1>c, NodeFacts, NamedHolds DEF Reads, Only, link, node, user, Awaited,
        Expected, Flight, Named, InFlightSteps, DoneSteps, Persists, Open, Past
  <2>11. CASE Replaced(n, c)
    BY <2>11, <1>a, <1>b, <1>c, NodeFacts, NamedHolds DEF Replaced, At, Only, Closes, user,
        Awaited, Expected, Flight, Named, InFlightSteps, DoneSteps, Persists, Open, Past
  <2>12. CASE ClosedPrevious(n, c)
    BY <2>12, <1>a, <1>b, <1>c, NodeFacts, NamedHolds DEF ClosedPrevious, At, Only, link, user,
        Awaited, Expected, Flight, Named, InFlightSteps, DoneSteps, Persists, Open, Past
  <2>13. CASE Leaves(n, c)
    BY <2>13, <1>a, <1>b, <1>c, NodeFacts, NamedHolds DEF Leaves, At, Only, user, Awaited,
        Expected, Flight, Named, InFlightSteps, DoneSteps, Persists, Open, Past
  <2>14. CASE Finishes(n, c)
    BY <2>14, <1>a, <1>b, <1>c, NodeFacts, NamedHolds DEF Finishes, At, Only, Closes, user,
        Awaited, Expected, Flight, Named, InFlightSteps, DoneSteps, Persists, Open, Past
  <2> QED BY <1>2, <2>1, <2>2, <2>3, <2>4, <2>5, <2>6, <2>7, <2>8, <2>9, <2>10, <2>11, <2>12,
      <2>13, <2>14 DEF Paired
<1>3. ASSUME NEW n \in Nodes, NEW c \in Conns,
             NEW x \in Conns \cup {None}, NEW l \in Conns \cup {None}, Published(n, c, x, l)
      PROVE  Awaited'
  <2>1. CASE InstallsOver(n, c, x)
    <3>1. cancels = 0 => waiter[n] = c
      BY <2>1, NodeFacts DEF InstallsOver, Installing, Expected, Flight, InFlightSteps
    <3>2. x # c => shut[n][c]
      BY <2>1 DEF InstallsOver, Installing, Over
    <3> QED BY <2>1, <3>1, <3>2, <1>a, <1>b, <1>c, NodeFacts
            DEF InstallsOver, Installing, At, Only, user, Awaited, Persists, Open, Past
  <2>2. CASE InstallsClean(n, c, x)
    BY <2>2, <1>a, <1>b, <1>c, NodeFacts, NamedHolds DEF InstallsClean, Installing, At, Only,
        user, Awaited, Expected, Flight, Named, InFlightSteps, DoneSteps, Persists, Open, Past
  <2>3. CASE AdoptRefused(n, c, x, l)
    BY <2>3, <1>a, <1>b, <1>c, NodeFacts, NamedHolds DEF AdoptRefused, Adopting, At, Only,
        Closes, user, Awaited, Expected, Flight, Named, InFlightSteps, DoneSteps, Persists, Open,
        Past
  <2>4. CASE AdoptsOver(n, c, x, l)
    <3>1. \A e \in Conns : e = mgr[n] => Claimed(n, e)'
      BY <2>4 DEF AdoptsOver, Only, Claimed, Claims
    <3> QED BY <2>4, <3>1, <1>a, <1>b, <1>c, NodeFacts
            DEF AdoptsOver, Adopting, At, Only, user, Awaited, Persists, Open, Past
  <2>5. CASE AdoptsClean(n, c, x, l)
    <3>1. mgr[n] \in Conns => mgr[n] = c \/ shut[n][mgr[n]]
      BY <2>5, NodeFacts DEF AdoptsClean, Adopting, Over
    <3> QED BY <2>5, <3>1, <1>a, <1>b, <1>c, NodeFacts
            DEF AdoptsClean, Adopting, At, Only, user, Awaited, Persists, Open, Past
  <2>6. CASE AdoptsLate(n, c, x, l)
    <3>1. mgr[n] \in Conns => mgr[n] = c \/ shut[n][mgr[n]]
      BY <2>6, NodeFacts DEF AdoptsLate, Adopting, Over
    <3> QED BY <2>6, <3>1, <1>a, <1>b, <1>c, NodeFacts
            DEF AdoptsLate, Adopting, At, Only, Closes, user, Awaited, Persists, Open, Past
  <2> QED BY <1>3, <2>1, <2>2, <2>3, <2>4, <2>5, <2>6 DEF Published
<1>4. ASSUME NEW c \in Conns, Breaks(c)
      PROVE  Awaited'
  BY <1>4, <1>a, <1>b, <1>c, NodeFacts, NamedHolds DEF Breaks, local, node, user, Awaited,
      Expected, Flight, Named, InFlightSteps, DoneSteps, Persists, Open, Past
<1>5. CASE UNCHANGED vars
  BY <1>5 DEF vars, local, link, node, user, Awaited, Claimed, Claims, Open, Past
<1> QED BY <1>1, <1>2, <1>3, <1>4, <1>5, StepKinds

\* While no link failed and no connect() gave up, one connection is favoured: the
\* one dialled by Small, or if there is none the one dialled by Large.
Calm         == failures = 0 /\ ~gaveUp
Started(c)   == step[Dialer(c)][c] # "none"
Favoured(c)  == Started(c) /\ (c \in FromSmall \/ \A a \in FromSmall : ~Started(a))

\* Nothing closes or replaces it, and who gets past its hello makes it the session.
Spared(n, c) ==
  /\ ~shut[n][c]
  /\ Past(n, c) => canon[n] = c
  /\ \A d \in Conns : ~Claims(n, d, c)
  /\ \A d \in Conns : step[n][d] = "closeOpened" => selected[n][d] = c

Kept ==
  Calm => /\ failed = {} /\ \A n \in Nodes : ~closing[n]
          /\ \A c, d \in Conns : Favoured(c) /\ Favoured(d) => c = d
          /\ \A n \in Nodes, c \in Conns : Favoured(c) => Spared(n, c)

LEMMA CalmStep ==
  ASSUME TypeOK, Directed, Refs, [Next]_vars
  PROVE  Calm' => Calm /\ failed' = failed /\ \A m \in Nodes : closing'[m] => closing[m]
<1>1. ASSUME NEW n \in Nodes, Plain(n)
      PROVE  Calm' => Calm /\ failed' = failed /\ \A m \in Nodes : closing'[m] => closing[m]
  <2>1. CASE Joins(n)
    BY <2>1, NodeFacts DEF Joins, At, local, link, Calm
  <2>2. CASE GivesUp(n)
    BY <2>2, NodeFacts DEF GivesUp, At, Closes, Calm
  <2>3. CASE Unblocks(n)
    BY <2>3, NodeFacts DEF Unblocks, At, local, link, user, Calm
  <2>4. CASE Returns(n)
    BY <2>4, NodeFacts DEF Returns, At, local, link, node, Calm
  <2>5. CASE Cancels(n)
    BY <2>5, NodeFacts DEF Cancels, local, link, node, Calm
  <2> QED BY <1>1, <2>1, <2>2, <2>3, <2>4, <2>5 DEF Plain
<1>2. ASSUME NEW n \in Nodes, NEW c \in Conns, Paired(n, c)
      PROVE  Calm' => Calm /\ failed' = failed /\ \A m \in Nodes : closing'[m] => closing[m]
  <2>1. CASE Dials(n, c)
    BY <2>1, NodeFacts DEF Dials, At, Only, link, Calm
  <2>2. CASE StartsReader(n, c)
    BY <2>2, NodeFacts DEF StartsReader, At, Only, link, node, Calm
  <2>3. CASE Meets(n, c)
    BY <2>3, NodeFacts DEF Meets, link, node, user, Calm
  <2>4. CASE Accepts(n, c)
    BY <2>4, NodeFacts DEF Accepts, Only, link, node, user, Calm
  <2>5. CASE Drops(n, c)
    BY <2>5, NodeFacts DEF Drops, local, node, user, Calm
  <2>6. CASE Overrules(n, c)
    BY <2>6, NodeFacts DEF Overrules, At, Only, link, user, Calm
  <2>7. CASE Loses(n, c)
    BY <2>7, NodeFacts DEF Loses, Only, Closes, node, user, Calm
  <2>8. CASE Fails(n, c)
    BY <2>8, NodeFacts DEF Fails, Only, Closes, user, Calm
  <2>9. CASE ClosesLoser(n, c)
    BY <2>9, NodeFacts DEF ClosesLoser, Only, Closes, node, user, Calm
  <2>10. CASE Reads(n, c)
    BY <2>10, NodeFacts DEF Reads, Only, link, node, user, Calm
  <2>11. CASE Replaced(n, c)
    BY <2>11, NodeFacts DEF Replaced, At, Only, Closes, user, Calm
  <2>12. CASE ClosedPrevious(n, c)
    BY <2>12, NodeFacts DEF ClosedPrevious, At, Only, link, user, Calm
  <2>13. CASE Leaves(n, c)
    BY <2>13, NodeFacts DEF Leaves, At, Only, user, Calm
  <2>14. CASE Finishes(n, c)
    BY <2>14, NodeFacts DEF Finishes, At, Only, Closes, user, Calm
  <2> QED BY <1>2, <2>1, <2>2, <2>3, <2>4, <2>5, <2>6, <2>7, <2>8, <2>9, <2>10, <2>11, <2>12,
      <2>13, <2>14 DEF Paired
<1>3. ASSUME NEW n \in Nodes, NEW c \in Conns,
             NEW x \in Conns \cup {None}, NEW l \in Conns \cup {None}, Published(n, c, x, l)
      PROVE  Calm' => Calm /\ failed' = failed /\ \A m \in Nodes : closing'[m] => closing[m]
  <2>1. CASE InstallsOver(n, c, x)
    BY <2>1, NodeFacts DEF InstallsOver, Installing, At, Only, Closes, user, Calm
  <2>2. CASE InstallsClean(n, c, x)
    BY <2>2, NodeFacts DEF InstallsClean, Installing, At, Only, user, Calm
  <2>3. CASE AdoptRefused(n, c, x, l)
    BY <2>3, NodeFacts DEF AdoptRefused, Adopting, At, Only, Closes, user, Calm
  <2>4. CASE AdoptsOver(n, c, x, l)
    BY <2>4, NodeFacts DEF AdoptsOver, Adopting, At, Only, user, Calm
  <2>5. CASE AdoptsClean(n, c, x, l)
    BY <2>5, NodeFacts DEF AdoptsClean, Adopting, At, Only, user, Calm
  <2>6. CASE AdoptsLate(n, c, x, l)
    BY <2>6, NodeFacts DEF AdoptsLate, Adopting, At, Only, Closes, user, Calm
  <2> QED BY <1>3, <2>1, <2>2, <2>3, <2>4, <2>5, <2>6 DEF Published
<1>4. ASSUME NEW c \in Conns, Breaks(c)
      PROVE  Calm' => Calm /\ failed' = failed /\ \A m \in Nodes : closing'[m] => closing[m]
  BY <1>4, NodeFacts DEF Breaks, local, node, user, Calm
<1>5. CASE UNCHANGED vars
  BY <1>5 DEF vars, local, link, node, user, Calm
<1> QED BY <1>1, <1>2, <1>3, <1>4, <1>5, StepKinds

LEMMA StartedStep ==
  ASSUME TypeOK, Directed, Refs, Flight, [Next]_vars
  PROVE  \A d \in Conns : Started(d)' => Started(d) \/ Dials(Dialer(d), d)
<1>1. ASSUME NEW n \in Nodes, Plain(n)
      PROVE  \A d \in Conns : Started(d)' => Started(d) \/ Dials(Dialer(d), d)
  <2>1. CASE Joins(n)
    BY <2>1, NodeFacts DEF Joins, At, local, link, Started
  <2>2. CASE GivesUp(n)
    BY <2>2, NodeFacts DEF GivesUp, Started, Flight, InFlightSteps
  <2>3. CASE Unblocks(n)
    BY <2>3, NodeFacts DEF Unblocks, At, local, link, Started
  <2>4. CASE Returns(n)
    BY <2>4, NodeFacts DEF Returns, At, local, link, node, Started
  <2>5. CASE Cancels(n)
    BY <2>5, NodeFacts DEF Cancels, local, link, node, Started
  <2> QED BY <1>1, <2>1, <2>2, <2>3, <2>4, <2>5 DEF Plain
<1>2. ASSUME NEW n \in Nodes, NEW c \in Conns, Paired(n, c)
      PROVE  \A d \in Conns : Started(d)' => Started(d) \/ Dials(Dialer(d), d)
  <2>1. CASE Dials(n, c)
    <3>1. \A d \in Conns : Started(d)' => Started(d) \/ d = c
      BY <2>1, NodeFacts DEF Dials, Only, Started
    <3>2. n = Dialer(c)
      BY <2>1 DEF Dials
    <3> QED BY <2>1, <3>1, <3>2
  <2>2. CASE StartsReader(n, c)
    BY <2>2, NodeFacts DEF StartsReader, At, Only, link, node, Started
  <2>3. CASE Meets(n, c)
    <3>1. n = Dialer(c)
      BY <2>3, NodeFacts DEF Meets, Directed
    <3> QED BY <2>3, <3>1, NodeFacts DEF Meets, Started
  <2>4. CASE Accepts(n, c)
    BY <2>4, NodeFacts DEF Accepts, Only, link, node, Started
  <2>5. CASE Drops(n, c)
    BY <2>5, NodeFacts DEF Drops, local, node, Started
  <2>6. CASE Overrules(n, c)
    BY <2>6, NodeFacts DEF Overrules, At, Only, link, Started
  <2>7. CASE Loses(n, c)
    BY <2>7, NodeFacts DEF Loses, Only, Closes, node, Started
  <2>8. CASE Fails(n, c)
    BY <2>8, NodeFacts DEF Fails, Only, Closes, Started
  <2>9. CASE ClosesLoser(n, c)
    BY <2>9, NodeFacts DEF ClosesLoser, Only, Closes, node, Started
  <2>10. CASE Reads(n, c)
    BY <2>10, NodeFacts DEF Reads, Only, link, node, Started
  <2>11. CASE Replaced(n, c)
    BY <2>11, NodeFacts DEF Replaced, At, Only, Closes, Started
  <2>12. CASE ClosedPrevious(n, c)
    BY <2>12, NodeFacts DEF ClosedPrevious, At, Only, link, Started
  <2>13. CASE Leaves(n, c)
    BY <2>13, NodeFacts DEF Leaves, At, Only, Started
  <2>14. CASE Finishes(n, c)
    BY <2>14, NodeFacts DEF Finishes, At, Only, Closes, Started
  <2> QED BY <1>2, <2>1, <2>2, <2>3, <2>4, <2>5, <2>6, <2>7, <2>8, <2>9, <2>10, <2>11, <2>12,
      <2>13, <2>14 DEF Paired
<1>3. ASSUME NEW n \in Nodes, NEW c \in Conns,
             NEW x \in Conns \cup {None}, NEW l \in Conns \cup {None}, Published(n, c, x, l)
      PROVE  \A d \in Conns : Started(d)' => Started(d) \/ Dials(Dialer(d), d)
  <2>1. CASE InstallsOver(n, c, x)
    BY <2>1, NodeFacts DEF InstallsOver, Installing, At, Only, Closes, Started
  <2>2. CASE InstallsClean(n, c, x)
    BY <2>2, NodeFacts DEF InstallsClean, Installing, At, Only, Started
  <2>3. CASE AdoptRefused(n, c, x, l)
    BY <2>3, NodeFacts DEF AdoptRefused, Adopting, At, Only, Closes, Started
  <2>4. CASE AdoptsOver(n, c, x, l)
    BY <2>4, NodeFacts DEF AdoptsOver, Adopting, At, Only, Started
  <2>5. CASE AdoptsClean(n, c, x, l)
    BY <2>5, NodeFacts DEF AdoptsClean, Adopting, At, Only, Started
  <2>6. CASE AdoptsLate(n, c, x, l)
    BY <2>6, NodeFacts DEF AdoptsLate, Adopting, At, Only, Closes, Started
  <2> QED BY <1>3, <2>1, <2>2, <2>3, <2>4, <2>5, <2>6 DEF Published
<1>4. ASSUME NEW c \in Conns, Breaks(c)
      PROVE  \A d \in Conns : Started(d)' => Started(d) \/ Dials(Dialer(d), d)
  BY <1>4, NodeFacts DEF Breaks, local, node, Started
<1>5. CASE UNCHANGED vars
  BY <1>5 DEF vars, local, link, node, user, Started
<1> QED BY <1>1, <1>2, <1>3, <1>4, <1>5, StepKinds

LEMMA FavouredFacts ==
  ASSUME TypeOK, Order, EofCause, Kept, Calm
  PROVE  /\ \A n \in Nodes, c \in Conns : step[n][c] # "none" => Started(c)
         /\ \A n \in Nodes, c \in FromSmall : step[n][c] # "none" => Favoured(c)
         /\ \A c, d \in Conns : Favoured(c) /\ Favoured(d) => c = d
         /\ \A n \in Nodes, c \in Conns : Favoured(c) => Spared(n, c) /\ ~eof[n][c]
         /\ \A n \in Nodes, c \in Conns :
              Favoured(c) /\ Past(n, c) => canon[n] = c /\ Live(n, c) /\ ~NoCanon(n)
<1>1. \A n \in Nodes, c \in Conns : step[n][c] # "none" => Started(c)
  BY NodeFacts DEF Order, Started
<1>2. \A n \in Nodes, c \in FromSmall : step[n][c] # "none" => Favoured(c)
  BY <1>1, NodeFacts DEF Favoured, Conns
<1>3. /\ \A c, d \in Conns : Favoured(c) /\ Favoured(d) => c = d
      /\ \A n \in Nodes, c \in Conns : Favoured(c) => Spared(n, c)
      /\ failed = {}
  BY DEF Kept
<1>4. \A n \in Nodes, c \in Conns : Favoured(c) => ~eof[n][c]
  BY <1>3, NodeFacts DEF EofCause, Spared
<1>5. \A n \in Nodes, c \in Conns :
        Favoured(c) /\ Past(n, c) => canon[n] = c /\ Live(n, c) /\ ~NoCanon(n)
  BY <1>3, <1>4, NodeFacts DEF Spared, Live, Open, NoCanon
<1> QED BY <1>1, <1>2, <1>3, <1>4, <1>5

LEMMA SparedStep ==
  ASSUME TypeOK, Directed, Refs, ClosedPast, Order, EofCause, Preference, Ended, Alone, Kept,
         Calm, Calm', [Next]_vars
  PROVE  \A m \in Nodes, e \in Conns : Favoured(e) => Spared(m, e)'
<1>a. /\ \A m \in Nodes, e \in FromSmall : step[m][e] # "none" => Favoured(e)
      /\ \A d, e \in Conns : Favoured(d) /\ Favoured(e) => d = e
      /\ \A m \in Nodes, e \in Conns : Favoured(e) => Spared(m, e) /\ ~eof[m][e]
  BY FavouredFacts
<1>b. \A m \in Nodes, e \in Conns : Favoured(e) /\ Past(m, e) => canon[m] = e /\ ~NoCanon(m)
  BY FavouredFacts
<1>c. failed = {} /\ \A m \in Nodes : ~closing[m]
  BY DEF Kept
<1>1. ASSUME NEW n \in Nodes, Plain(n)
      PROVE  \A m \in Nodes, e \in Conns : Favoured(e) => Spared(m, e)'
  <2>1. CASE Joins(n)
    BY <2>1, <1>a, <1>b, NodeFacts DEF Joins, At, local, link, Spared, Claims, Past
  <2>2. CASE GivesUp(n)
    BY <2>2 DEF GivesUp, Calm
  <2>3. CASE Unblocks(n)
    BY <2>3, <1>a, <1>b, NodeFacts DEF Unblocks, At, local, link, Spared, Claims, Past
  <2>4. CASE Returns(n)
    BY <2>4, <1>a, <1>b, NodeFacts DEF Returns, At, local, link, node, Spared, Claims, Past
  <2>5. CASE Cancels(n)
    BY <2>5, <1>a, <1>b, NodeFacts DEF Cancels, local, link, node, Spared, Claims, Past
  <2> QED BY <1>1, <2>1, <2>2, <2>3, <2>4, <2>5 DEF Plain
<1>2. ASSUME NEW n \in Nodes, NEW c \in Conns, Paired(n, c)
      PROVE  \A m \in Nodes, e \in Conns : Favoured(e) => Spared(m, e)'
  <2>1. CASE Dials(n, c)
    BY <2>1, <1>a, <1>b, NodeFacts DEF Dials, At, Only, link, Spared, Claims, Past
  <2>2. CASE StartsReader(n, c)
    BY <2>2, <1>a, <1>b, NodeFacts DEF StartsReader, At, Only, link, node, Spared, Claims, Past
  <2>3. CASE Meets(n, c)
    <3>1. n = Dialer(c) /\ \A m \in Nodes : m # n => step[m][c] = "none"
      BY <2>3, NodeFacts DEF Meets, Directed, Order
    <3> QED BY <2>3, <3>1, <1>a DEF Meets, link, node, Spared, Claims, Past
  <2>4. CASE Accepts(n, c)
    BY <2>4, <1>a, <1>b, NodeFacts DEF Accepts, Only, link, node, Spared, Claims, Past
  <2>5. CASE Drops(n, c)
    BY <2>5, <1>a, <1>b, NodeFacts DEF Drops, local, node, Spared, Claims, Past
  <2>6. CASE Overrules(n, c)
    <3>1. Favoured(c) /\ canon[n] # c
      BY <2>6, <1>a, NodeFacts DEF Overrules
    <3> QED BY <2>6, <1>a, <3>1 DEF Overrules, At, Only, link, Spared, Claims, Past
  <2>7. CASE Loses(n, c)
    <3>0. canon[n] \in Conns /\ canon[n] # c /\ Past(n, canon[n])
      BY <2>7, NamedHolds DEF Loses, Named, Live, Open, Past
    <3>1. ~Favoured(c)
      <4>1. CASE c \in FromSmall
        <5>1. canon[n] \in FromSmall /\ step[n][canon[n]] # "none"
          BY <2>7, <3>0, <4>1 DEF Loses, Conns, Past
        <5> QED BY <3>0, <5>1, <1>a
      <4>2. CASE c \in FromLarge /\ Favoured(c)
        <5>1. \A a \in FromSmall : ~Started(a)
          BY <4>2, NodeFacts DEF Favoured
        <5>2. Started(canon[n])
          BY <3>0, FavouredFacts DEF Past
        <5>3. Favoured(canon[n])
          BY <5>1, <5>2 DEF Favoured
        <5> QED BY <3>0, <4>2, <5>3, <1>a
      <4> QED BY <4>1, <4>2 DEF Conns
    <3>2. Dialer(c) = n => \A e \in Conns : Favoured(e) => canon[n] = e
      <4> SUFFICES ASSUME Dialer(c) = n PROVE \A e \in Conns : Favoured(e) => canon[n] = e
        OBVIOUS
      <4>1. Dialer(canon[n]) # n
        BY <2>7, <3>0 DEF Loses, Alone
      <4>2. canon[n] \in FromSmall /\ step[n][canon[n]] # "none"
        BY <2>7, <3>0, <4>1, NodeFacts DEF Loses, Past, Nodes
      <4> QED BY <3>0, <4>2, <1>a
    <3> QED BY <2>7, <1>a, <1>b, <3>1, <3>2
            DEF Loses, Only, Closes, node, Spared, Claims, Past
  <2>8. CASE Fails(n, c)
    <3>1. FALSE
      BY <2>8, <1>c, NodeFacts DEF Fails, EofCause, ClosedPast, Past, SentHello
    <3> QED BY <3>1
  <2>9. CASE ClosesLoser(n, c)
    BY <2>9, <1>a, <1>b, NodeFacts DEF ClosesLoser, Only, Closes, node, Spared, Claims, Past
  <2>10. CASE Reads(n, c)
    BY <2>10, <1>a, <1>b, NodeFacts DEF Reads, Only, link, node, Spared, Claims, Past
  <2>11. CASE Replaced(n, c)
    <3>1. ~Favoured(c)
      BY <2>11, <1>b DEF Replaced, Past
    <3> QED BY <2>11, <1>a, <3>1 DEF Replaced, Only, Closes, Spared, Claims, Past
  <2>12. CASE ClosedPrevious(n, c)
    BY <2>12, <1>a, <1>b, NodeFacts DEF ClosedPrevious, At, Only, link, Spared, Claims, Past
  <2>13. CASE Leaves(n, c)
    <3>1. ~Favoured(c)
      BY <2>13, <1>a DEF Leaves, Calm, Spared
    <3> QED BY <2>13, <1>a, <3>1 DEF Leaves, At, Only, Spared, Claims, Past
  <2>14. CASE Finishes(n, c)
    <3>1. ~Favoured(c)
      BY <2>14, <1>b DEF Finishes, Ended, Past
    <3> QED BY <2>14, <1>a, <3>1 DEF Finishes, Only, Closes, Spared, Claims, Past
  <2> QED BY <1>2, <2>1, <2>2, <2>3, <2>4, <2>5, <2>6, <2>7, <2>8, <2>9, <2>10, <2>11, <2>12,
      <2>13, <2>14 DEF Paired
<1>3. ASSUME NEW n \in Nodes, NEW c \in Conns,
             NEW x \in Conns \cup {None}, NEW l \in Conns \cup {None}, Published(n, c, x, l)
      PROVE  \A m \in Nodes, e \in Conns : Favoured(e) => Spared(m, e)'
  <2>1. CASE InstallsOver(n, c, x)
    <3>0. mgr[n] \in Conns /\ Past(n, mgr[n])
      BY <2>1, NamedHolds DEF InstallsOver, Named, Refs, Tables
    <3>1. step[n][c] = "retired" => Favoured(c)
      BY <1>a DEF Preference
    <3>2. ~Favoured(mgr[n])
      <4>1. CASE step[n][c] = "hello"
        BY <2>1, <1>b, <3>0, <4>1 DEF InstallsOver, Installing
      <4>2. CASE step[n][c] = "retired"
        BY <2>1, <1>a, <3>0, <3>1, <4>2 DEF InstallsOver, Installing
      <4>3. CASE step[n][c] = "closeOpened"
        BY <2>1, <1>a, <3>0, <4>3 DEF InstallsOver, Installing, Spared
      <4> QED BY <2>1, <4>1, <4>2, <4>3 DEF InstallsOver, Installing
    <3>3. step[n][c] = "hello" => \A e \in Conns : Favoured(e) => ~Past(n, e)
      BY <2>1, <1>b DEF InstallsOver, Installing
    <3> QED BY <2>1, <1>a, <3>2, <3>3
            DEF InstallsOver, Installing, At, Only, Closes, Spared, Claims, Past
  <2>2. CASE InstallsClean(n, c, x)
    <3>1. step[n][c] = "hello" => \A e \in Conns : Favoured(e) => ~Past(n, e)
      BY <2>2, <1>b DEF InstallsClean, Installing
    <3> QED BY <2>2, <1>a, <3>1
            DEF InstallsClean, Installing, At, Only, Spared, Claims, Past
  <2>3. CASE AdoptRefused(n, c, x, l)
    BY <2>3, <1>c DEF AdoptRefused
  <2>4. CASE AdoptsOver(n, c, x, l)
    <3>0. mgr[n] \in Conns /\ Past(n, mgr[n])
      BY <2>4, NamedHolds DEF AdoptsOver, Named, Refs, Tables
    <3>1. step[n][c] = "retired" => Favoured(c)
      BY <1>a DEF Preference
    <3>2. ~Favoured(mgr[n])
      BY <2>4, <1>a, <1>b, <3>0, <3>1 DEF AdoptsOver, Adopting
    <3>3. step[n][c] = "hello" => \A e \in Conns : Favoured(e) => ~Past(n, e)
      BY <2>4, <1>b DEF AdoptsOver, Adopting
    <3> QED BY <2>4, <1>a, <3>0, <3>2, <3>3
            DEF AdoptsOver, Adopting, At, Only, Spared, Claims, Past
  <2>5. CASE AdoptsClean(n, c, x, l)
    <3>1. step[n][c] = "hello" => \A e \in Conns : Favoured(e) => ~Past(n, e)
      BY <2>5, <1>b DEF AdoptsClean, Adopting
    <3> QED BY <2>5, <1>a, <3>1
            DEF AdoptsClean, Adopting, At, Only, Spared, Claims, Past
  <2>6. CASE AdoptsLate(n, c, x, l)
    <3>1. step[n][c] = "retired" /\ canon[n] # c
      BY <2>6 DEF AdoptsLate, Adopting
    <3>2. Favoured(c) /\ Past(n, c)
      BY <1>a, <3>1 DEF Preference, Past
    <3> QED BY <1>b, <3>1, <3>2
  <2> QED BY <1>3, <2>1, <2>2, <2>3, <2>4, <2>5, <2>6 DEF Published
<1>4. ASSUME NEW c \in Conns, Breaks(c)
      PROVE  \A m \in Nodes, e \in Conns : Favoured(e) => Spared(m, e)'
  BY <1>4 DEF Breaks, Calm
<1>5. CASE UNCHANGED vars
  BY <1>5, <1>a DEF vars, local, link, node, user, Spared, Claims, Past
<1> QED BY <1>1, <1>2, <1>3, <1>4, <1>5, StepKinds

\* A new dial leaves one favourite: whoever dials has no live session, so the
\* favourite of before, if there is one, was dialled by the other node.
LEMMA NewFavourite ==
  ASSUME TypeOK, Directed, Refs, Flight, ClosedPast, Order, Over, EofCause, Kept, Calm,
         NEW n \in Nodes, NEW c \in Conns, Dials(n, c), Favoured(c)'
  PROVE  /\ \A e \in Conns : Favoured(e)' => e = c
         /\ \A m \in Nodes : Spared(m, c)'
<1>0. /\ Dialer(c) = n /\ step[n][c] = "none" /\ step[Other(n)][c] = "none"
      /\ inFlight[n] = None /\ NoCanon(n)
      /\ \A d \in Conns : Started(d)' <=> Started(d) \/ d = c
  BY NodeFacts DEF Dials, Order, Only, Started
<1>1. \A e \in Conns : Dialer(e) = n => ~Favoured(e)
  <2> SUFFICES ASSUME NEW e \in Conns, Dialer(e) = n, Favoured(e) PROVE FALSE
    OBVIOUS
  <2>1. step[n][e] # "none" /\ step[n][e] \notin InFlightSteps
    BY <1>0, NodeFacts DEF Favoured, Started, Flight
  <2>2. Past(n, e)
    BY <2>1 DEF Directed, DoneSteps, Past
  <2> QED BY <1>0, <2>2, FavouredFacts
<1>2. \A e \in Conns : Favoured(e)' => e = c
  BY <1>0, <1>1, NodeFacts DEF Favoured, Conns, Nodes
<1>3. \A m \in Nodes, d \in Conns : step[m][d] # "closeOpened"
  <2> SUFFICES ASSUME NEW m \in Nodes, NEW d \in Conns, step[m][d] = "closeOpened" PROVE FALSE
    OBVIOUS
  <2>1. Dialer(d) = m /\ m # n /\ shut[m][d] /\ Started(d)
    BY <1>0, NodeFacts DEF Directed, Flight, Over, InFlightSteps, Started
  <2>2. ~Favoured(d)
    BY <2>1, FavouredFacts DEF Spared
  <2>3. d \in FromLarge /\ n = Small /\ \E a \in FromSmall : Started(a)
    BY <2>1, <2>2, NodeFacts DEF Favoured, Nodes, Conns
  <2>4. PICK a \in FromSmall : Started(a)
    BY <2>3
  <2> QED BY <1>1, <2>3, <2>4, NodeFacts DEF Favoured, Conns
<1>4. \A m \in Nodes : ~Past(m, c)
  BY <1>0, NodeFacts DEF Past
<1>5. \A m \in Nodes : Spared(m, c)'
  BY <1>0, <1>3, <1>4, NodeFacts
  DEF Dials, At, Only, link, Spared, Claims, ClosedPast, Refs, Tasks, Past
<1> QED BY <1>2, <1>5

LEMMA KeptStep ==
  ASSUME TypeOK, Directed, Refs, Flight, ClosedPast, Order, Over, EofCause, Preference, Ended,
         Alone, Kept, [Next]_vars
  PROVE  Kept'
<1> SUFFICES ASSUME Calm'
             PROVE  /\ failed' = {} /\ \A n \in Nodes : ~closing'[n]
                    /\ \A c, d \in Conns : Favoured(c)' /\ Favoured(d)' => c = d
                    /\ \A n \in Nodes, c \in Conns : Favoured(c)' => Spared(n, c)'
  BY DEF Kept
<1>1. Calm /\ failed' = failed /\ \A m \in Nodes : closing'[m] => closing[m]
  BY CalmStep
<1>2. \A n \in Nodes, c \in Conns : Favoured(c) => Spared(n, c)'
  BY <1>1, SparedStep
<1>3. \A c \in Conns : Favoured(c)' => Favoured(c) \/ Dials(Dialer(c), c)
  <2> SUFFICES ASSUME NEW c \in Conns, Favoured(c)', ~Dials(Dialer(c), c) PROVE Favoured(c)
    OBVIOUS
  <2>1. Started(c)
    BY StartedStep DEF Favoured
  <2>2. \A a \in FromSmall : Started(a) => Started(a)'
    BY StepPersists, NodeFacts DEF Persists, Started, Conns
  <2> QED BY <2>1, <2>2 DEF Favoured
<1>4. \A c \in Conns : Favoured(c)' /\ Dials(Dialer(c), c)
        => (\A e \in Conns : Favoured(e)' => e = c) /\ \A m \in Nodes : Spared(m, c)'
  BY <1>1, NewFavourite, NodeFacts
<1>5. failed = {} /\ (\A n \in Nodes : ~closing[n])
      /\ \A c, d \in Conns : Favoured(c) /\ Favoured(d) => c = d
  BY <1>1 DEF Kept
<1> QED BY <1>1, <1>2, <1>3, <1>4, <1>5

\* Every connect() that got this far has dialled, or found a dial.
Tried == Connects > 0 => \E c \in Conns : Started(c)

LEMMA ConnectsStep ==
  ASSUME TypeOK, Directed, Refs, Flight, Order, [Next]_vars
  PROVE  connects' = connects \/ \E d \in Conns : Started(d)'
<1>1. ASSUME NEW n \in Nodes, Plain(n)
      PROVE  connects' = connects \/ \E d \in Conns : Started(d)'
  <2>1. CASE Joins(n)
    <3>1. inFlight[n] \in Conns
      BY <2>1, NamedHolds DEF Joins, Named
    <3>2. Started(inFlight[n])
      BY <3>1, NodeFacts DEF Flight, Started, InFlightSteps
    <3> QED BY <2>1, <3>1, <3>2 DEF Joins, local, Started
  <2>2. CASE GivesUp(n)
    <3>1. CASE mgr[n] # None /\ Live(n, mgr[n])
      <4>1. mgr[n] \in Conns /\ step[n][mgr[n]] # "none"
        BY <3>1, NamedHolds DEF Named, Live, Open, Past
      <4>2. step[Dialer(mgr[n])][mgr[n]] # "none"
        BY <4>1, NodeFacts DEF Order
      <4>3. PICK e \in Conns : e = mgr[n]
        BY <4>1
      <4>4. Started(e)'
        BY <2>2, <4>2, <4>3, NodeFacts DEF GivesUp, Started
      <4> QED BY <4>4
    <3> QED BY <2>2, <3>1 DEF GivesUp
  <2>3. CASE Unblocks(n)
    BY <2>3, NodeFacts DEF Unblocks, At, local, link, user, Started
  <2>4. CASE Returns(n)
    BY <2>4, NodeFacts DEF Returns, At, local, link, node, Started
  <2>5. CASE Cancels(n)
    BY <2>5, NodeFacts DEF Cancels, local, link, node, Started
  <2> QED BY <1>1, <2>1, <2>2, <2>3, <2>4, <2>5 DEF Plain
<1>2. ASSUME NEW n \in Nodes, NEW c \in Conns, Paired(n, c)
      PROVE  connects' = connects \/ \E d \in Conns : Started(d)'
  <2>1. CASE Dials(n, c)
    BY <2>1, NodeFacts DEF Dials, At, Only, link, Started
  <2>2. CASE StartsReader(n, c)
    BY <2>2, NodeFacts DEF StartsReader, At, Only, link, node, Started
  <2>3. CASE Meets(n, c)
    BY <2>3, NodeFacts DEF Meets, link, node, user, Started
  <2>4. CASE Accepts(n, c)
    BY <2>4, NodeFacts DEF Accepts, Only, link, node, user, Started
  <2>5. CASE Drops(n, c)
    BY <2>5, NodeFacts DEF Drops, local, node, user, Started
  <2>6. CASE Overrules(n, c)
    BY <2>6, NodeFacts DEF Overrules, At, Only, link, user, Started
  <2>7. CASE Loses(n, c)
    BY <2>7, NodeFacts DEF Loses, Only, Closes, node, user, Started
  <2>8. CASE Fails(n, c)
    BY <2>8, NodeFacts DEF Fails, Only, Closes, user, Started
  <2>9. CASE ClosesLoser(n, c)
    BY <2>9, NodeFacts DEF ClosesLoser, Only, Closes, node, user, Started
  <2>10. CASE Reads(n, c)
    BY <2>10, NodeFacts DEF Reads, Only, link, node, user, Started
  <2>11. CASE Replaced(n, c)
    BY <2>11, NodeFacts DEF Replaced, At, Only, Closes, user, Started
  <2>12. CASE ClosedPrevious(n, c)
    BY <2>12, NodeFacts DEF ClosedPrevious, At, Only, link, user, Started
  <2>13. CASE Leaves(n, c)
    BY <2>13, NodeFacts DEF Leaves, At, Only, user, Started
  <2>14. CASE Finishes(n, c)
    BY <2>14, NodeFacts DEF Finishes, At, Only, Closes, user, Started
  <2> QED BY <1>2, <2>1, <2>2, <2>3, <2>4, <2>5, <2>6, <2>7, <2>8, <2>9, <2>10, <2>11, <2>12,
      <2>13, <2>14 DEF Paired
<1>3. ASSUME NEW n \in Nodes, NEW c \in Conns,
             NEW x \in Conns \cup {None}, NEW l \in Conns \cup {None}, Published(n, c, x, l)
      PROVE  connects' = connects \/ \E d \in Conns : Started(d)'
  <2>1. CASE InstallsOver(n, c, x)
    BY <2>1, NodeFacts DEF InstallsOver, Installing, At, Only, Closes, user, Started
  <2>2. CASE InstallsClean(n, c, x)
    BY <2>2, NodeFacts DEF InstallsClean, Installing, At, Only, user, Started
  <2>3. CASE AdoptRefused(n, c, x, l)
    BY <2>3, NodeFacts DEF AdoptRefused, Adopting, At, Only, Closes, user, Started
  <2>4. CASE AdoptsOver(n, c, x, l)
    BY <2>4, NodeFacts DEF AdoptsOver, Adopting, At, Only, user, Started
  <2>5. CASE AdoptsClean(n, c, x, l)
    BY <2>5, NodeFacts DEF AdoptsClean, Adopting, At, Only, user, Started
  <2>6. CASE AdoptsLate(n, c, x, l)
    BY <2>6, NodeFacts DEF AdoptsLate, Adopting, At, Only, Closes, user, Started
  <2> QED BY <1>3, <2>1, <2>2, <2>3, <2>4, <2>5, <2>6 DEF Published
<1>4. ASSUME NEW c \in Conns, Breaks(c)
      PROVE  connects' = connects \/ \E d \in Conns : Started(d)'
  BY <1>4 DEF Breaks, user
<1>5. CASE UNCHANGED vars
  BY <1>5 DEF vars, user
<1> QED BY <1>1, <1>2, <1>3, <1>4, <1>5, StepKinds

LEMMA TriedStep ==
  ASSUME TypeOK, Directed, Refs, Flight, Order, Tried, [Next]_vars
  PROVE  Tried'
<1>1. CASE connects' = connects
  <2>1. \A c \in Conns : Started(c) => Started(c)'
    BY StepPersists, NodeFacts DEF Persists, Started
  <2> QED BY <1>1, <2>1 DEF Tried, Connects
<1>2. CASE \E d \in Conns : Started(d)'
  BY <1>2 DEF Tried
<1> QED BY <1>1, <1>2, ConnectsStep

-----------------------------------------------------------------------------
(* The theorems *)

Sound ==
  /\ TypeOK /\ Directed /\ Refs /\ Flight /\ Order /\ ClosedPast /\ Over /\ Greeted /\ EofCause
  /\ Preference /\ Ended /\ SmallKnows /\ Closers /\ Alone /\ MgrKnows
  /\ Expected /\ Awaited /\ Kept /\ Tried

LEMMA SoundInit == Init => Sound
<1> SUFFICES ASSUME Init PROVE Sound
  OBVIOUS
<1>0. TypeOK
  BY TypeInit
<1>1. /\ \A n \in Nodes, c \in Conns : /\ step[n][c] = "none" /\ ~shut[n][c] /\ ~eof[n][c]
                                       /\ loser[n][c] = None /\ selected[n][c] = None
      /\ \A n \in Nodes : /\ canon[n] = None /\ mgr[n] = None /\ inFlight[n] = None
                          /\ ~closing[n] /\ connects[n] = 0
      /\ failed = {}
  BY DEF Init
<1>2. Directed /\ Refs /\ Flight /\ Order
  BY <1>1, NodeFacts DEF Directed, Refs, Tables, Tasks, Results, Flight, Order, InFlightSteps
<1>3. ClosedPast /\ Over /\ Greeted /\ EofCause /\ Preference /\ Ended
  BY <1>1, NodeFacts DEF ClosedPast, Over, Greeted, EofCause, Preference, Ended, Open, Past
<1>4. SmallKnows /\ Closers /\ Alone /\ MgrKnows
  BY <1>1, NodeFacts DEF SmallKnows, Closers, Alone, MgrKnows, Live, Open, Past, Conns
<1>5. Expected /\ Awaited
  BY <1>1, NodeFacts DEF Expected, Awaited, Open, Past
<1>6. Kept
  BY <1>1, NodeFacts DEF Kept, Favoured, Started
<1>7. Tried
  BY <1>1, NodeFacts DEF Tried, Connects
<1> QED BY <1>0, <1>2, <1>3, <1>4, <1>5, <1>6, <1>7 DEF Sound

LEMMA SoundStep == Sound /\ [Next]_vars => Sound'
<1> SUFFICES ASSUME Sound, [Next]_vars PROVE Sound'
  OBVIOUS
<1> USE DEF Sound
<1>0. TypeOK'
  BY TypeStep
<1>1. Directed'
  BY DirectedStep
<1>2. Refs'
  BY TablesStep, TasksStep, ResultsStep DEF Refs
<1>3. Flight' /\ Order'
  BY FlightStep, OrderStep
<1>4. ClosedPast' /\ Over' /\ Greeted' /\ EofCause'
  BY ClosedPastStep, OverStep, GreetedStep, EofCauseStep
<1>5. Preference' /\ Ended' /\ SmallKnows' /\ Closers'
  BY PreferenceStep, EndedStep, SmallKnowsStep, ClosersStep
<1>6. Alone' /\ MgrKnows' /\ Expected' /\ Awaited'
  BY AloneStep, MgrKnowsStep, ExpectedStep, AwaitedStep
<1>7. Kept' /\ Tried'
  BY KeptStep, TriedStep
<1> QED BY <1>0, <1>1, <1>2, <1>3, <1>4, <1>5, <1>6, <1>7

LEMMA SoundHolds == Spec => []Sound
BY SoundInit, SoundStep, PTL DEF Spec

\* What Quiescent leaves of the steps: nobody retires or closes anything.
LEMMA QuietFacts ==
  ASSUME Quiescent
  PROVE  \A n \in Nodes, c \in Conns :
           /\ ~Claimed(n, c) /\ step[n][c] # "ending"
           /\ step[n][c] # "none" => Past(n, c) /\ step[n][c] \in {"installed", "reading", "ended"}
BY DEF Quiescent, Claimed, Claims, Past

\* The live session of one node is live, and the session, at the other.
LEMMA SameSession ==
  ASSUME Sound, Quiescent, NEW n \in Nodes, LiveCanon(n) # None
  PROVE  LiveCanon(Other(n)) = LiveCanon(n)
<1> DEFINE o == Other(n)
           c == canon[n]
<1> USE DEF Sound
<1>1. /\ c \in Conns /\ Live(n, c) /\ LiveCanon(n) = c
      /\ o \in Nodes /\ Other(o) = n
  BY LiveFacts, NamedHolds, NodeFacts DEF Named
<1>2. step[n][c] # "none" /\ step[o][c] # "none"
  BY <1>1 DEF Greeted, Live, Open, Past, SentHello
<1>3. ~shut[o][c] /\ c \notin failed
  BY <1>1, <1>2 DEF Quiescent, Live, Open
<1>4. ~eof[o][c]
  BY <1>1, <1>3 DEF EofCause, Live, Open
<1>5. Live(o, c)
  BY <1>1, <1>2, <1>3, <1>4, QuietFacts DEF Live, Open
<1>6. canon[o] = c
  BY <1>1, <1>5, QuietFacts DEF Closers
<1> HIDE DEF o, c
<1> QED BY <1>1, <1>5, <1>6, LiveFacts, NodeFacts DEF o

\* Both nodes settle on the same connection, or on none; and, as long as no link
\* failed and no connect() gave up, on one as soon as anybody has called connect().
\* Whatever the order of the two hello exchanges, of the retirements and of the
\* ends of stream: _select_ready_connection, _retire_replaced_connection, adopt()
\* and _connection_ended never leave the nodes with different sessions.
THEOREM NodesAgree == Spec => []Agreement
<1>1. Sound => Agreement
  <2> SUFFICES ASSUME Sound, Quiescent PROVE Agreement
    BY DEF Agreement
  <2>0. Other(Small) = Large /\ Other(Large) = Small
    BY NodeFacts DEF Other
  <2>1. LiveCanon(Small) = LiveCanon(Large)
    BY <2>0, SameSession, NodeFacts
  <2>2. ASSUME failures = 0, ~gaveUp, Connects > 0
        PROVE  LiveCanon(Small) # None
    <3>1. PICK g \in Conns : Favoured(g)
      BY <2>2, NodeFacts DEF Sound, Tried, Favoured, Conns
    <3>2. Calm
      BY <2>2 DEF Calm
    <3>3. Dialer(g) \in Nodes /\ Past(Dialer(g), g)
      BY <3>1, QuietFacts, NodeFacts DEF Favoured, Started
    <3>4. canon[Dialer(g)] = g /\ Live(Dialer(g), g)
      BY <3>1, <3>2, <3>3, FavouredFacts DEF Sound
    <3>5. LiveCanon(Dialer(g)) # None
      BY <3>1, <3>3, <3>4, LiveFacts, NodeFacts DEF Sound
    <3> QED BY <2>1, <3>3, <3>5 DEF Nodes
  <2> QED BY <2>1, <2>2 DEF Agreement
<1> QED BY <1>1, SoundHolds, PTL

\* While no connect() caller has been cancelled, what settles is complete: the
\* session is read, it is the manager's connection, and every other connection
\* is closed; connect(), the attempt and the incoming task, who share that work,
\* never all leave it to each other.
THEOREM NothingHalfDone == Spec => []Complete
<1>1. Sound => Complete
  <2> SUFFICES ASSUME Sound, cancels = 0, Quiescent PROVE NoStray /\ HasReader
    BY DEF Complete, NoStray, HasReader
  <2> USE DEF Sound
  <2>1. \A n \in Nodes, c \in Conns : step[n][c] = "installed" => ~Open(n, c)
    BY QuietFacts, NodeFacts DEF Awaited, Quiescent
  <2>2. ASSUME NEW n \in Nodes, LiveCanon(n) # None
        PROVE  step[n][LiveCanon(n)] = "reading" /\ LiveMgr(n) = LiveCanon(n)
    <3>1. LiveCanon(n) = canon[n] /\ canon[n] \in Conns /\ Live(n, canon[n])
      BY <2>2, LiveFacts, NamedHolds DEF Named
    <3>2. step[n][canon[n]] = "reading"
      BY <2>1, <3>1, QuietFacts DEF Live, Open, Past, Over
    <3>3. mgr[n] = canon[n]
      BY <3>1, <3>2 DEF MgrKnows, PublishedSteps
    <3> QED BY <2>2, <3>1, <3>2, <3>3, LiveFacts, NodeFacts
  <2>3. ASSUME NEW n \in Nodes, LiveCanon(n) = None
        PROVE  LiveMgr(n) = None
    <3> SUFFICES ASSUME LiveMgr(n) # None PROVE FALSE
      OBVIOUS
    <3>1. mgr[n] \in Conns /\ Live(n, mgr[n])
      BY LiveFacts, NamedHolds DEF Named
    <3>2. canon[n] = mgr[n]
      BY <3>1, QuietFacts DEF Closers
    <3> QED BY <2>3, <3>1, <3>2, LiveFacts, NodeFacts
  <2>4. ASSUME NEW n \in Nodes, NEW c \in Conns, step[n][c] # "none"
        PROVE  shut[n][c] \/ c = canon[n]
    <3> SUFFICES ASSUME ~shut[n][c], c # canon[n] PROVE FALSE
      OBVIOUS
    <3>1. Open(n, c) /\ step[n][c] = "reading"
      BY <2>1, <2>4, QuietFacts DEF Open, Over
    <3>2. Live(n, c)
      BY <3>1 DEF Quiescent, IsClosed, Live
    <3> QED BY <3>2, QuietFacts DEF Closers
  <2> QED BY <2>2, <2>3, <2>4 DEF NoStray, HasReader
<1> QED BY <1>1, SoundHolds, PTL
=============================================================================
