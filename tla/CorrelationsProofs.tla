------------------------- MODULE CorrelationsProofs -------------------------
(***************************************************************************)
(* Safety of the pending tables for any number of calls and connections    *)
(* and any limits.                                                         *)
(***************************************************************************)
EXTENDS Correlations, FiniteSetTheorems, TLAPS

\* What the properties rest on: a session in the table has not been read to its
\* end, each table holds its own kind of call, a wait follows the one before it,
\* and no deadline passes once the answer has been read, as the future of a call
\* whose answer has been read is not pending.
CallInv(k) ==
  /\ k \in pendReq => WantsReply(k)
  /\ k \in pendAck => WantsAck(k)
  /\ k \in pendPing => IsPing(k)
  /\ pc[k] = "ack" => WantsAck(k)
  /\ pc[k] = "answer" => form[k] # "send" /\ (WantsAck(k) => k \in acks)
  /\ pc[k] \in {"idle"} \cup Finished => fut[k] # "result" /\ ackFut[k] # "result"
  /\ fut[k] = "pending" => k \notin answers
  /\ ackFut[k] = "pending" => k \notin acks
  /\ pc[k] = "idle" => frame[k] = "none" /\ k \notin answers \cup acks
  /\ deadline[k] # "answered"
  /\ pc[k] \in {"expired", "close"} => deadline[k] # "ahead"

LinkInv ==
  \A c \in Conns : /\ session[c] = "none" => reader[c] = "idle"
                   /\ session[c] = "ready" => running /\ reader[c] # "ended"

WaitInv == LinkInv /\ \A k \in Calls : CallInv(k)

-----------------------------------------------------------------------------
(* The limits *)

LEMMA BoundedSubset ==
  ASSUME NEW S, NEW T, NEW n \in Nat, Bounded(S, n), T \subseteq S
  PROVE  Bounded(T, n)
<1>1. IsFiniteSet(T) /\ Cardinality(T) <= Cardinality(S)
  BY FS_Subset DEF Bounded
<1>2. Cardinality(S) \in Nat /\ Cardinality(T) \in Nat
  BY <1>1, FS_CardinalityType DEF Bounded
<1> QED BY <1>1, <1>2 DEF Bounded

LEMMA BoundedAdd ==
  ASSUME NEW S, NEW x, NEW n \in Nat, Bounded(S, n), ~(Cardinality(S) >= n)
  PROVE  Bounded(S \cup {x}, n)
<1>1. /\ IsFiniteSet(S \cup {x})
      /\ Cardinality(S \cup {x}) = IF x \in S THEN Cardinality(S) ELSE Cardinality(S) + 1
  BY FS_AddElement DEF Bounded
<1>2. Cardinality(S) \in Nat
  BY FS_CardinalityType DEF Bounded
<1> QED BY <1>1, <1>2 DEF Bounded

LEMMA BoundedEmpty == ASSUME NEW n \in Nat PROVE Bounded({}, n)
BY FS_EmptySet DEF Bounded

LEMMA Limits == MaxRequests \in Nat /\ MaxAcks \in Nat
BY ConstantsAssumption

-----------------------------------------------------------------------------
(* Type correctness *)

LEMMA TypeOKInit == Init => TypeOK
<1> SUFFICES ASSUME Init PROVE TypeOK
  OBVIOUS
<1>1. Bounded(pendReq, MaxRequests) /\ Bounded(pendAck, MaxAcks)
  BY BoundedEmpty, Limits DEF Init
<1>2. /\ fut \in [Calls -> Futures] /\ ackFut \in [Calls -> Futures]
      /\ pc \in [Calls -> {"idle"} \cup Waiting \cup Ending \cup Finished]
      /\ frame \in [Calls -> {"none", "queued", "written"}]
      /\ conn \in [Calls -> Conns \cup {None}]
      /\ deadline \in [Calls -> {"ahead", "unanswered", "answered"}]
  BY DEF Init, Futures
<1>3. /\ session \in [Conns -> {"none", "ready", "gone"}]
      /\ open \in [Conns -> BOOLEAN] /\ closing \in [Conns -> BOOLEAN]
      /\ reader \in [Conns -> {"idle", "reading", "ended"}]
  BY DEF Init
<1> QED BY <1>1, <1>2, <1>3 DEF Init, TypeOK

LEMMA ResolveType ==
  ASSUME NEW f \in [Calls -> Futures], NEW S, NEW v \in Futures
  PROVE  Resolve(f, S, v) \in [Calls -> Futures]
BY DEF Resolve

LEMMA FailPendingType ==
  ASSUME TypeOK, NEW S, FailPending(S)
  PROVE  /\ pendReq' \subseteq Calls /\ Bounded(pendReq', MaxRequests)
         /\ pendAck' \subseteq Calls /\ Bounded(pendAck', MaxAcks)
         /\ fut' \in [Calls -> Futures] /\ ackFut' \in [Calls -> Futures]
<1>1. "error" \in Futures  BY DEF Futures
<1>2. fut' \in [Calls -> Futures] /\ ackFut' \in [Calls -> Futures]
  BY <1>1, ResolveType DEF TypeOK, FailPending
<1>3. pendReq' \subseteq pendReq /\ pendAck' \subseteq pendAck
  BY DEF FailPending
<1> QED BY <1>2, <1>3, BoundedSubset, Limits DEF TypeOK

LEMMA FinishType ==
  ASSUME TypeOK, NEW k \in Calls, NEW o \in Finished, Finish(k, o), pc[k] # "idle"
  PROVE  TypeOK'
<1>1. pendReq' \subseteq pendReq /\ pendAck' \subseteq pendAck /\ pendPing' \subseteq pendPing
  BY DEF Finish
<1>2. Bounded(pendReq', MaxRequests) /\ Bounded(pendAck', MaxAcks)
  BY <1>1, BoundedSubset, Limits DEF TypeOK
<1>3. fut' \in [Calls -> Futures] /\ ackFut' \in [Calls -> Futures]
  BY DEF Finish, TypeOK, Futures
<1>4. /\ pc' \in [Calls -> {"idle"} \cup Waiting \cup Ending \cup Finished]
      /\ \A j \in Calls : pc'[j] = "idle" \/ conn'[j] # None
  BY DEF Finish, TypeOK
<1>5. /\ doomed' \subseteq Calls /\ answers' \subseteq Calls /\ acks' \subseteq Calls
      /\ deadline' \in [Calls -> {"ahead", "unanswered", "answered"}]
  BY DEF Finish, TypeOK, Kept
<1> QED BY <1>1, <1>2, <1>3, <1>4, <1>5 DEF Finish, TypeOK, linkVars

LEMMA EndWaitType ==
  ASSUME TypeOK, NEW k \in Calls, NEW h \in Ending, EndWait(k, h), pc[k] # "idle"
  PROVE  TypeOK'
<1>1. "cancelled" \in Futures  BY DEF Futures
<1>2. fut' \in [Calls -> Futures] /\ ackFut' \in [Calls -> Futures]
  BY <1>1, ResolveType DEF EndWait, TypeOK
<1>3. /\ pc' \in [Calls -> {"idle"} \cup Waiting \cup Ending \cup Finished]
      /\ \A j \in Calls : pc'[j] = "idle" \/ conn'[j] # None
  BY DEF EndWait, TypeOK
<1> QED BY <1>2, <1>3 DEF EndWait, TypeOK, linkVars, history

\* One case per handler: no step leaves the types, and the tables stay within
\* max_pending_requests and max_pending_acknowledgements.
LEMMA TypeOKStep == TypeOK /\ [Next]_vars => TypeOK'
<1> SUFFICES ASSUME TypeOK, [Next]_vars PROVE TypeOK'
  OBVIOUS
<1> USE DEF linkVars, waitVars, history
<1>1. CASE Stop
  <2>1. "error" \in Futures /\ "cancelled" \in Futures  BY DEF Futures
  <2>2. fut' \in [Calls -> Futures] /\ ackFut' \in [Calls -> Futures]
    BY <1>1, <2>1, ResolveType DEF Stop, TypeOK
  <2>3. Bounded(pendReq', MaxRequests) /\ Bounded(pendAck', MaxAcks)
    BY <1>1, BoundedEmpty, Limits DEF Stop
  <2>4. doomed' \subseteq Calls
    BY <1>1 DEF Stop, TypeOK, Pings, On
  <2> QED BY <1>1, <2>2, <2>3, <2>4 DEF Stop, TypeOK
<1>2. ASSUME NEW c \in Conns, Teardown(c), reader' \in [Conns -> {"idle", "reading", "ended"}]
      PROVE  TypeOK'
  <2>1. FailPending(On(c))  BY <1>2 DEF Teardown
  <2>2. doomed' \subseteq Calls  BY <1>2 DEF Teardown, TypeOK, Pings, On
  <2> QED BY <1>2, <2>1, <2>2, FailPendingType DEF Teardown, TypeOK
<1>3. ASSUME NEW c \in Conns, SessionReady(c) PROVE TypeOK'
  BY <1>3 DEF SessionReady, TypeOK
<1>4. ASSUME NEW c \in Conns, ReaderStarts(c) PROVE TypeOK'
  BY <1>4 DEF ReaderStarts, TypeOK
<1>5. ASSUME NEW c \in Conns, LinkCloses(c) PROVE TypeOK'
  BY <1>5 DEF LinkCloses, TypeOK
<1>6. ASSUME NEW c \in Conns, Displace(c) PROVE TypeOK'
  BY <1>6 DEF Displace, TypeOK
<1>7. ASSUME NEW c \in Conns, Retire(c) PROVE TypeOK'
  BY <1>2, <1>7 DEF Retire, TypeOK
<1>8. ASSUME NEW c \in Conns, EndReader(c) PROVE TypeOK'
  BY <1>2, <1>8 DEF EndReader, TypeOK
<1>9. ASSUME NEW c \in Conns, TeardownCloses(c) PROVE TypeOK'
  BY <1>9 DEF TeardownCloses, TypeOK
<1>10. ASSUME NEW c \in Conns, IncomingEnds(c) PROVE TypeOK'
  <2>1. FailPending(On(c))  BY <1>10 DEF IncomingEnds
  <2> QED BY <1>10, <2>1, FailPendingType DEF IncomingEnds, TypeOK
<1>11. ASSUME NEW k \in Calls, FrameWritten(k) PROVE TypeOK'
  BY <1>11 DEF FrameWritten, TypeOK
<1>12. ASSUME NEW k \in Calls, QueueReturns(k) PROVE TypeOK'
  BY <1>12 DEF QueueReturns, TypeOK, Waiting, Finished
<1>13. ASSUME NEW k \in Calls, NEW o \in Finished, Finish(k, o),
              pc[k] # "idle"
       PROVE  TypeOK'
  BY <1>13, FinishType
<1>14. ASSUME NEW k \in Calls, AckReturns(k) PROVE TypeOK'
  <2>1. CASE pc' = [pc EXCEPT ![k] = "answer"]
             /\ deadline' = [deadline EXCEPT ![k] = "ahead"]
             /\ UNCHANGED <<linkVars, conn, form, frame, doomed, waitVars, history>>
    BY <1>14, <2>1 DEF AckReturns, TypeOK, Waiting, Finished
  <2> QED BY <1>13, <1>14, <2>1 DEF AckReturns, Finished
<1>15. ASSUME NEW k \in Calls, PingTimeout(k) PROVE TypeOK'
  BY <1>15 DEF PingTimeout, TypeOK, Ending
<1>16. ASSUME NEW k \in Calls, NEW c \in Conns, Call(k, c) PROVE TypeOK'
  <2>1. conn' \in [Calls -> Conns \cup {None}]
        /\ \A j \in Calls : pc'[j] = "idle" \/ conn'[j] # None
    BY <1>16, ConstantsAssumption DEF Call, TypeOK
  <2>2. CASE NoRoom(k)
    BY <1>16, <2>1, <2>2 DEF Call, TypeOK, Finished
  <2>3. CASE ~NoRoom(k)
    <3>1. Bounded(pendReq', MaxRequests)
      <4>1. CASE WantsReply(k)
        <5>1. pendReq' = pendReq \cup {k} /\ ~(Cardinality(pendReq) >= MaxRequests)
          BY <1>16, <2>3, <4>1 DEF Call, NoRoom
        <5> QED BY <5>1, BoundedAdd, Limits DEF TypeOK
      <4>2. CASE ~WantsReply(k)  BY <1>16, <2>3, <4>2 DEF Call, TypeOK
      <4> QED BY <4>1, <4>2
    <3>2. Bounded(pendAck', MaxAcks)
      <4>1. CASE WantsAck(k)
        <5>1. pendAck' = pendAck \cup {k} /\ ~(Cardinality(pendAck) >= MaxAcks)
          BY <1>16, <2>3, <4>1 DEF Call, NoRoom
        <5> QED BY <5>1, BoundedAdd, Limits DEF TypeOK
      <4>2. CASE ~WantsAck(k)  BY <1>16, <2>3, <4>2 DEF Call, TypeOK
      <4> QED BY <4>1, <4>2
    <3>3. fut' \in [Calls -> Futures] /\ ackFut' \in [Calls -> Futures]
      BY <1>16, <2>3 DEF Call, TypeOK, Futures
    <3> QED BY <1>16, <2>1, <2>3, <3>1, <3>2, <3>3 DEF Call, TypeOK, Waiting
  <2> QED BY <2>2, <2>3
<1>17. ASSUME NEW k \in Calls, NEW c \in Conns, Ping(k, c) PROVE TypeOK'
  BY <1>17, ConstantsAssumption DEF Ping, TypeOK, Waiting, Futures
<1>18. ASSUME NEW k \in Calls, NEW c \in Conns,
              ReceiveReply(c, k) \/ ReceiveAck(c, k) \/ ReceivePong(c, k)
       PROVE  TypeOK'
  <2>1. "result" \in Futures  BY DEF Futures
  <2>2. fut' \in [Calls -> Futures] /\ ackFut' \in [Calls -> Futures]
    BY <1>18, <2>1, ResolveType DEF ReceiveReply, ReceiveAck, ReceivePong, TypeOK
  <2>3. pendReq' \subseteq pendReq /\ pendAck' \subseteq pendAck /\ pendPing' \subseteq pendPing
    BY <1>18 DEF ReceiveReply, ReceiveAck, ReceivePong
  <2>4. Bounded(pendReq', MaxRequests) /\ Bounded(pendAck', MaxAcks)
    BY <2>3, BoundedSubset, Limits DEF TypeOK
  <2>5. answers' \subseteq Calls /\ acks' \subseteq Calls
    BY <1>18 DEF ReceiveReply, ReceiveAck, ReceivePong, TypeOK, Note
  <2>6. UNCHANGED <<linkVars, pc, conn, form, frame, doomed, deadline>>
    BY <1>18 DEF ReceiveReply, ReceiveAck, ReceivePong
  <2> QED BY <2>2, <2>3, <2>4, <2>5, <2>6 DEF TypeOK
<1>19. CASE UNCHANGED vars
  BY <1>19 DEF vars, TypeOK
<1>20. ASSUME NEW k \in Calls,
              \/ QueueFails(k) \/ AnswerReturns(k) \/ Raised(k)
              \/ PingCloses(k) \/ HeartbeatCancelled(k)
       PROVE  TypeOK'
  BY <1>13, <1>20 DEF QueueFails, AnswerReturns, Raised, PingCloses,
                      HeartbeatCancelled, Waiting, Finished
<1>21. ASSUME NEW k \in Calls, DeadlinePasses(k) PROVE TypeOK'
  BY <1>21 DEF DeadlinePasses, TypeOK
<1>22. ASSUME NEW k \in Calls, Timeout(k) \/ Cancelled(k) PROVE TypeOK'
  BY <1>22, EndWaitType DEF Timeout, Cancelled, Waiting, Ending
<1> QED
  BY <1>1, <1>3, <1>4, <1>5, <1>6, <1>7, <1>8, <1>9, <1>10, <1>11, <1>12, <1>14, <1>15,
     <1>16, <1>17, <1>18, <1>19, <1>20, <1>21, <1>22
  DEF Next, ReaderEnds, ReaderAborts

\* The node's tables always have their types and respect their limits.
THEOREM TypeCorrect == Spec => []TypeOK
<1>1. Init => TypeOK                   BY TypeOKInit
<1>2. TypeOK /\ [Next]_vars => TypeOK'  BY TypeOKStep
<1> QED BY <1>1, <1>2, PTL DEF Spec

-----------------------------------------------------------------------------
(* The tables *)

Inv == TypeOK /\ TablesExact /\ Owned /\ ExactConnection /\ WaitInv

\* NoFalseAlarm follows from the last two conjuncts of WaitInv.
LEMMA NoAlarm == ASSUME TypeOK, WaitInv PROVE NoFalseAlarm
BY DEF TypeOK, WaitInv, LinkInv, CallInv, NoFalseAlarm

LEMMA InvInit == Init => Inv
<1> SUFFICES ASSUME Init PROVE Inv
  OBVIOUS
<1>1. TypeOK  BY TypeOKInit
<1>2. TablesExact /\ Owned /\ ExactConnection
  BY DEF Init, TablesExact, Owned, ExactConnection
<1>3. WaitInv  BY DEF Init, WaitInv, LinkInv, CallInv, Finished
<1> QED BY <1>1, <1>2, <1>3 DEF Inv

\* The calls a teardown does not concern keep their entries; the others lose
\* the entry and the future together.
LEMMA FailPendingStep ==
  ASSUME Inv, NEW c \in Conns, FailPending(On(c)),
         session' = [session EXCEPT ![c] = "gone"],
         reader' = reader \/ reader' = [reader EXCEPT ![c] = "ended"],
         UNCHANGED <<running, pc, conn, form, frame, deadline, pendPing, history>>
  PROVE  TablesExact' /\ Owned' /\ ExactConnection' /\ WaitInv'
<1> USE DEF Inv, FailPending, On, Resolve, history
<1>1. TablesExact'
  BY DEF TypeOK, TablesExact, WaitInv, LinkInv, CallInv, WantsReply, IsPing
<1>2. Owned'
  BY DEF TypeOK, Owned, TablesExact, Waiting, Ending
<1>3. ExactConnection'
  BY DEF TypeOK, ExactConnection, WantsAck
<1>4. /\ \A k \in Calls : /\ fut'[k] = fut[k] \/ (fut[k] = "pending" /\ fut'[k] = "error")
                          /\ \/ ackFut'[k] = ackFut[k]
                             \/ ackFut[k] = "pending" /\ ackFut'[k] = "error"
      /\ pendReq' \subseteq pendReq /\ pendAck' \subseteq pendAck
      /\ \A d \in Conns : session'[d] # "gone" => session[d] = session'[d] /\ reader'[d] = reader[d]
  BY DEF TypeOK
<1>5. WaitInv'
  <2>1. LinkInv'  BY <1>4 DEF WaitInv, LinkInv
  <2>2. ASSUME NEW k \in Calls PROVE CallInv(k)'
    BY <1>4 DEF WaitInv, CallInv, WantsAck, WantsReply, IsPing
  <2> QED BY <2>1, <2>2 DEF WaitInv
<1> QED BY <1>1, <1>2, <1>3, <1>5

LEMMA FinishStep ==
  ASSUME Inv, NEW k \in Calls, NEW o \in Finished, Finish(k, o),
         o = "ok" => /\ WantsAck(k) => k \in acks
                     /\ form[k] # "send" => k \in answers
  PROVE  TablesExact' /\ Owned' /\ ExactConnection' /\ WaitInv'
<1>1. /\ \A j \in Calls \ {k} : /\ pc'[j] = pc[j] /\ fut'[j] = fut[j]
                                /\ ackFut'[j] = ackFut[j] /\ deadline'[j] = deadline[j]
                                /\ j \in answers' <=> j \in answers
                                /\ j \in acks' <=> j \in acks
                                /\ j \in pendReq' <=> j \in pendReq
                                /\ j \in pendAck' <=> j \in pendAck
                                /\ j \in pendPing' <=> j \in pendPing
      /\ pc'[k] = o /\ fut'[k] = "none" /\ ackFut'[k] = "none" /\ deadline'[k] = "ahead"
      /\ k \notin pendReq' \cup pendAck' \cup pendPing'
      /\ o = "ok" => answers' = answers /\ acks' = acks
      /\ UNCHANGED <<running, session, reader, conn, form, frame>>
  BY DEF Inv, TypeOK, Finish, Kept, linkVars
<1>2. TablesExact'
  BY <1>1 DEF Inv, TablesExact
<1>3. Owned'
  BY <1>1 DEF Inv, TypeOK, Owned, Finish
<1>4. ExactConnection'
  BY <1>1 DEF Inv, ExactConnection, WantsAck, Finished
<1>5. WaitInv'
  BY <1>1 DEF Inv, WaitInv, LinkInv, CallInv, WantsAck, WantsReply, IsPing, Finished
<1> QED BY <1>2, <1>3, <1>4, <1>5

\* The wait of k ends early: the future it awaits is no longer pending, and its
\* entries stay for the finally clauses.
LEMMA EndWaitStep ==
  ASSUME Inv, NEW k \in Calls, NEW h \in {"expired", "cancelled"}, EndWait(k, h),
         pc[k] \in Waiting, h = "expired" => deadline[k] # "ahead"
  PROVE  TablesExact' /\ Owned' /\ ExactConnection' /\ WaitInv'
<1>1. /\ \A j \in Calls \ {k} : pc'[j] = pc[j] /\ fut'[j] = fut[j] /\ ackFut'[j] = ackFut[j]
      /\ pc'[k] = h
      /\ fut'[k] = fut[k] \/ fut'[k] = "cancelled"
      /\ ackFut'[k] = ackFut[k] \/ ackFut'[k] = "cancelled"
      /\ UNCHANGED <<running, session, reader, conn, form, frame, deadline, pendReq,
                     pendAck, pendPing, answers, acks>>
  BY DEF Inv, TypeOK, EndWait, Resolve, linkVars, history
<1>2. h \in Ending /\ h \notin {"idle", "ack", "answer", "close", "ok"} \cup Finished
  BY DEF Ending, Finished
<1>3. TablesExact'
  BY <1>1, <1>2 DEF Inv, TablesExact
<1>4. Owned'
  BY <1>1 DEF Inv, Owned
<1>5. ExactConnection'
  BY <1>1, <1>2 DEF Inv, ExactConnection, WantsAck
<1>6. WaitInv'
  BY <1>1, <1>2 DEF Inv, WaitInv, LinkInv, CallInv, WantsAck, WantsReply, IsPing
<1> QED BY <1>3, <1>4, <1>5, <1>6

\* A step that concerns no call.
LEMMA Unaffected ==
  ASSUME Inv, UNCHANGED <<linkVars, pc, conn, form, frame, deadline, waitVars, history>>
  PROVE  TablesExact' /\ Owned' /\ ExactConnection' /\ WaitInv'
BY DEF linkVars, waitVars, history, Inv, TablesExact, Owned, ExactConnection, WaitInv,
       LinkInv, CallInv, WantsAck, WantsReply, IsPing

\* An answer read on the call's own connection: a pending wait is over, any other
\* call is as before.
LEMMA AnswerStep ==
  ASSUME Inv, NEW k \in Calls, form[k] # "send", pc[k] # "idle",
         UNCHANGED <<linkVars, pc, conn, form, frame, deadline, pendAck, ackFut, acks>>,
         answers' = Note(answers, k),
         pendReq' = pendReq \ {k}, pendPing' = pendPing \ {k},
         fut' = Resolve(fut, {k} \cap (pendReq \cup pendPing), "result")
  PROVE  TablesExact' /\ Owned' /\ ExactConnection' /\ WaitInv'
<1> USE DEF linkVars
<1>1. \A j \in Calls \ {k} : fut'[j] = fut[j] /\ (j \in answers' <=> j \in answers)
  BY DEF Resolve, Note
<1>2. answers \subseteq answers' /\ (pc[k] \notin Finished => k \in answers')
  BY DEF Note
<1>3. CASE fut[k] = "pending"
  <2>1. fut'[k] = "result" /\ pc[k] \in Waiting \cup Ending
    BY <1>3 DEF Resolve, Inv, TablesExact
  <2>2. k \in answers'
    BY <1>2, <2>1 DEF Waiting, Ending, Finished
  <2>3. TablesExact' /\ Owned'
    BY <1>1, <2>1 DEF Inv, TablesExact, Owned
  <2>4. ExactConnection'
    BY <1>1, <1>2, <2>2 DEF Inv, ExactConnection, WantsAck
  <2>5. WaitInv'
    BY <1>1, <2>1 DEF Inv, WaitInv, LinkInv, CallInv, WantsAck, WantsReply, IsPing,
                           Waiting, Ending, Finished
  <2> QED BY <2>3, <2>4, <2>5
<1>4. CASE fut[k] # "pending"
  <2>1. fut'[k] = fut[k] /\ fut[k] # "pending"
    BY <1>4 DEF Resolve
  <2>2. pendReq' \subseteq pendReq /\ pendPing' \subseteq pendPing
    OBVIOUS
  <2>3. TablesExact' /\ Owned'
    BY <1>1, <2>1, <2>2 DEF Inv, TablesExact, Owned
  <2>4. ExactConnection'
    BY <1>1, <1>2, <2>1 DEF Inv, ExactConnection, WantsAck
  <2>5. WaitInv'
    BY <1>1, <2>1, <2>2 DEF Inv, WaitInv, LinkInv, CallInv, WantsAck, WantsReply, IsPing
  <2> QED BY <2>3, <2>4, <2>5
<1> QED BY <1>3, <1>4

LEMMA AckStep ==
  ASSUME Inv, NEW k \in Calls, pc[k] # "idle",
         UNCHANGED <<linkVars, pc, conn, form, frame, deadline, pendReq, pendPing, fut,
                     answers>>,
         acks' = Note(acks, k),
         pendAck' = pendAck \ {k},
         ackFut' = Resolve(ackFut, {k} \cap pendAck, "result")
  PROVE  TablesExact' /\ Owned' /\ ExactConnection' /\ WaitInv'
<1> USE DEF linkVars
<1>1. \A j \in Calls \ {k} : ackFut'[j] = ackFut[j] /\ (j \in acks' <=> j \in acks)
  BY DEF Resolve, Note
<1>2. acks \subseteq acks' /\ (pc[k] \notin Finished => k \in acks')
  BY DEF Note
<1>3. CASE ackFut[k] = "pending"
  <2>1. ackFut'[k] = "result" /\ pc[k] \in Waiting \cup Ending
    BY <1>3 DEF Resolve, Inv, TablesExact
  <2>2. k \in acks'
    BY <1>2, <2>1 DEF Waiting, Ending, Finished
  <2>3. TablesExact' /\ Owned'
    BY <1>1, <2>1 DEF Inv, TablesExact, Owned
  <2>4. ExactConnection'
    BY <1>1, <1>2, <2>2 DEF Inv, ExactConnection, WantsAck
  <2>5. WaitInv'
    BY <1>1, <1>2, <2>1 DEF Inv, WaitInv, LinkInv, CallInv, WantsAck, WantsReply, IsPing,
                           Waiting, Ending, Finished
  <2> QED BY <2>3, <2>4, <2>5
<1>4. CASE ackFut[k] # "pending"
  <2>1. ackFut'[k] = ackFut[k] /\ ackFut[k] # "pending"
    BY <1>4 DEF Resolve
  <2>2. TablesExact' /\ Owned'
    BY <1>1, <2>1 DEF Inv, TablesExact, Owned
  <2>3. ExactConnection'
    BY <1>1, <1>2, <2>1 DEF Inv, ExactConnection, WantsAck
  <2>4. WaitInv'
    BY <1>1, <1>2, <2>1 DEF Inv, WaitInv, LinkInv, CallInv, WantsAck, WantsReply, IsPing
  <2> QED BY <2>2, <2>3, <2>4
<1> QED BY <1>3, <1>4

LEMMA InvStep == Inv /\ [Next]_vars => Inv'
<1> SUFFICES ASSUME Inv, [Next]_vars
             PROVE  TablesExact' /\ Owned' /\ ExactConnection' /\ WaitInv'
  BY TypeOKStep DEF Inv
<1> DEFINE Goal == TablesExact' /\ Owned' /\ ExactConnection' /\ WaitInv'
<1> USE DEF linkVars, waitVars, history
<1>1. CASE Stop
  <2>1. TablesExact' /\ Owned'
    BY <1>1 DEF Stop, Inv, TypeOK, TablesExact, Owned, WaitInv, LinkInv, CallInv, Resolve
  <2>2. ExactConnection'
    BY <1>1 DEF Stop, Inv, TypeOK, ExactConnection, WantsAck, Resolve
  <2>3. WaitInv'
    BY <1>1 DEF Stop, Inv, TypeOK, WaitInv, LinkInv, CallInv, WantsAck, WantsReply,
                 IsPing, Resolve, Finished
  <2> QED BY <2>1, <2>2, <2>3
<1>2. ASSUME NEW c \in Conns, Retire(c) PROVE Goal
  <2>1. FailPending(On(c))  BY <1>2 DEF Retire, Teardown
  <2> QED BY <1>2, <2>1, FailPendingStep DEF Retire, Teardown
<1>3. ASSUME NEW c \in Conns, EndReader(c) PROVE Goal
  <2>1. FailPending(On(c))  BY <1>3 DEF EndReader, Teardown
  <2> QED BY <1>3, <2>1, FailPendingStep DEF EndReader, Teardown
<1>4. ASSUME NEW c \in Conns, IncomingEnds(c) PROVE Goal
  <2>1. FailPending(On(c))  BY <1>4 DEF IncomingEnds
  <2> QED BY <1>4, <2>1, FailPendingStep DEF IncomingEnds
<1>5. ASSUME NEW c \in Conns,
             \/ SessionReady(c) \/ ReaderStarts(c) \/ LinkCloses(c) \/ Displace(c)
             \/ TeardownCloses(c)
      PROVE  Goal
  <2>1. UNCHANGED <<running, pc, conn, form, frame, deadline, waitVars, history>>
    BY <1>5 DEF SessionReady, ReaderStarts, LinkCloses, Displace, TeardownCloses
  <2>2. TablesExact' /\ ExactConnection'
    BY <2>1 DEF Inv, TablesExact, ExactConnection, WantsAck
  <2>3. Owned'
    BY <1>5, <2>1 DEF Inv, TypeOK, Owned, TablesExact, Waiting, Ending, SessionReady, ReaderStarts,
                      LinkCloses, Displace, TeardownCloses
  <2>4. \A d \in Conns : /\ session'[d] = "none" => reader'[d] = "idle"
                         /\ session'[d] = "ready" => running' /\ reader'[d] # "ended"
    BY <1>5, <2>1 DEF Inv, TypeOK, WaitInv, LinkInv, CallInv, SessionReady, ReaderStarts,
                      LinkCloses, Displace, TeardownCloses
  <2>5. WaitInv'
    BY <2>1, <2>4 DEF Inv, WaitInv, LinkInv, CallInv, WantsAck, WantsReply, IsPing
  <2> QED BY <2>2, <2>3, <2>5
<1>6. ASSUME NEW k \in Calls, FrameWritten(k) PROVE Goal
  <2>1. TablesExact' /\ Owned' /\ ExactConnection'
    BY <1>6 DEF FrameWritten, Inv, TablesExact, Owned, ExactConnection, WantsAck
  <2>2. /\ \A j \in Calls : pc[j] = "idle" => frame'[j] = frame[j]
        /\ UNCHANGED <<running, session, reader, pc, form, deadline, waitVars, history>>
    BY <1>6 DEF FrameWritten, Inv, TypeOK, WaitInv, LinkInv, CallInv
  <2>3. WaitInv'
    BY <2>2 DEF Inv, WaitInv, LinkInv, CallInv, WantsAck, WantsReply, IsPing
  <2> QED BY <2>1, <2>3
<1>7. ASSUME NEW k \in Calls, QueueReturns(k) PROVE Goal
  <2>0. /\ \A j \in Calls \ {k} : pc'[j] = pc[j] /\ deadline'[j] = deadline[j]
        /\ pc[k] = "queue" /\ deadline'[k] = "ahead"
        /\ pc'[k] = IF WantsAck(k) THEN "ack" ELSE "answer"
        /\ UNCHANGED <<linkVars, conn, form, frame, waitVars, history>>
    BY <1>7 DEF QueueReturns, Inv, TypeOK
  <2>1. TablesExact' /\ Owned'
    BY <2>0 DEF Inv, TablesExact, Owned, Waiting, Ending
  <2>2. ExactConnection'
    BY <2>0 DEF Inv, ExactConnection, WantsAck
  <2>3. WaitInv'
    <3>1. LinkInv'  BY <2>0 DEF Inv, WaitInv, LinkInv
    <3>2. CallInv(k)'
      BY <2>0 DEF Inv, TypeOK, Forms, WaitInv, CallInv, WantsAck, WantsReply, IsPing, Finished
    <3>3. ASSUME NEW j \in Calls \ {k} PROVE CallInv(j)'
      BY <2>0 DEF Inv, WaitInv, CallInv, WantsAck, WantsReply, IsPing
    <3> QED BY <3>1, <3>2, <3>3 DEF WaitInv
  <2> QED BY <2>1, <2>2, <2>3
<1>8. ASSUME NEW k \in Calls,
             QueueFails(k) \/ Raised(k) \/ PingCloses(k) \/ HeartbeatCancelled(k)
      PROVE  Goal
  <2>1. Finish(k, "raised")
    BY <1>8 DEF QueueFails, Raised, PingCloses, HeartbeatCancelled
  <2> QED BY <2>1, FinishStep DEF Finished
<1>9. ASSUME NEW k \in Calls, AckReturns(k) PROVE Goal
  <2>1. CASE Finish(k, "raised")  BY <2>1, FinishStep DEF Finished
  <2>2. CASE pc[k] = "ack" /\ ackFut[k] = "result" /\ ~WantsReply(k) /\ Finish(k, "ok")
    <3>1. k \in acks /\ form[k] = "send"
      BY <2>2 DEF Inv, TypeOK, Forms, ExactConnection, WaitInv, CallInv, WantsAck,
                   WantsReply
    <3> QED BY <2>2, <3>1, FinishStep DEF Finished
  <2>3. CASE /\ pc[k] = "ack" /\ ackFut[k] = "result" /\ WantsReply(k)
             /\ pc' = [pc EXCEPT ![k] = "answer"]
             /\ deadline' = [deadline EXCEPT ![k] = "ahead"]
             /\ UNCHANGED <<linkVars, conn, form, frame, doomed, waitVars, history>>
    <3>0. /\ \A j \in Calls \ {k} : pc'[j] = pc[j] /\ deadline'[j] = deadline[j]
          /\ pc'[k] = "answer" /\ deadline'[k] = "ahead" /\ k \in acks
      BY <2>3 DEF Inv, TypeOK, ExactConnection
    <3>1. TablesExact' /\ Owned'
      BY <2>3, <3>0 DEF Inv, TablesExact, Owned, Waiting, Ending
    <3>2. ExactConnection'
      BY <2>3, <3>0 DEF Inv, ExactConnection, WantsAck
    <3>3. WaitInv'
      <4>1. LinkInv'  BY <2>3 DEF Inv, WaitInv, LinkInv
      <4>2. CallInv(k)'
        BY <2>3, <3>0 DEF Inv, WaitInv, CallInv, WantsAck, WantsReply, IsPing, Finished
      <4>3. ASSUME NEW j \in Calls \ {k} PROVE CallInv(j)'
        BY <2>3, <3>0 DEF Inv, WaitInv, CallInv, WantsAck, WantsReply, IsPing
      <4> QED BY <4>1, <4>2, <4>3 DEF WaitInv
    <3> QED BY <3>1, <3>2, <3>3
  <2> QED BY <1>9, <2>1, <2>2, <2>3 DEF AckReturns
<1>10. ASSUME NEW k \in Calls, AnswerReturns(k) PROVE Goal
  <2>1. CASE Finish(k, "raised")  BY <2>1, FinishStep DEF Finished
  <2>2. CASE pc[k] = "answer" /\ fut[k] = "result" /\ Finish(k, "ok")
    <3>1. k \in answers /\ (WantsAck(k) => k \in acks)
      BY <2>2 DEF Inv, ExactConnection, WaitInv, LinkInv, CallInv
    <3> QED BY <2>2, <3>1, FinishStep DEF Finished
  <2> QED BY <1>10, <2>1, <2>2 DEF AnswerReturns
<1>11. ASSUME NEW k \in Calls, PingTimeout(k) PROVE Goal
  <2>1. /\ \A j \in Calls \ {k} : pc'[j] = pc[j]
        /\ pc[k] = "expired" /\ pc'[k] = "close"
        /\ UNCHANGED <<running, session, reader, conn, form, frame, deadline, waitVars, history>>
    BY <1>11 DEF PingTimeout, Inv, TypeOK
  <2>2. TablesExact' /\ Owned'
    BY <2>1 DEF Inv, TablesExact, Owned, Ending
  <2>3. ExactConnection'
    BY <2>1 DEF Inv, ExactConnection, WantsAck
  <2>4. WaitInv'
    BY <2>1 DEF Inv, WaitInv, LinkInv, CallInv, WantsAck, WantsReply, IsPing, Finished
  <2> QED BY <2>2, <2>3, <2>4
<1>12. ASSUME NEW k \in Calls, NEW c \in Conns, Call(k, c) PROVE Goal
  <2>1. k \notin pendReq \cup pendAck \cup pendPing /\ fut[k] # "pending" /\ ackFut[k] # "pending"
    BY <1>12 DEF Call, Inv, TablesExact, Waiting, Ending
  <2>2. CASE NoRoom(k)
    <3>1. TablesExact' /\ Owned'
      BY <1>12, <2>1, <2>2 DEF Call, Inv, TypeOK, TablesExact, Owned, Waiting
    <3>2. ExactConnection'
      BY <1>12, <2>2 DEF Call, Inv, TypeOK, ExactConnection, WantsAck
    <3>3. WaitInv'
      <4>1. /\ \A j \in Calls \ {k} : pc'[j] = pc[j]
            /\ pc'[k] = "raised" /\ pc[k] = "idle"
            /\ UNCHANGED <<running, session, reader, form, frame, deadline, waitVars, history>>
        BY <1>12, <2>2 DEF Call, Inv, TypeOK
      <4> QED BY <4>1 DEF Inv, WaitInv, LinkInv, CallInv, WantsAck, WantsReply, IsPing, Finished
    <3> QED BY <3>1, <3>2, <3>3
  <2>3. CASE ~NoRoom(k)
    <3>1. TablesExact'
      BY <1>12, <2>1, <2>3 DEF Call, Inv, TypeOK, TablesExact, Waiting
    <3>2. Owned'
      BY <1>12, <2>1, <2>3 DEF Call, Inv, TypeOK, Owned, WaitInv, LinkInv, CallInv
    <3>3. ExactConnection'
      <4>1. /\ \A j \in Calls : fut'[j] \in {fut[j], "pending"}
            /\ \A j \in Calls : ackFut'[j] \in {ackFut[j], "pending"}
            /\ \A j \in Calls : pc'[j] \in {pc[j], "queue"}
        BY <1>12, <2>3 DEF Call, Inv, TypeOK
      <4> QED BY <1>12, <4>1 DEF Call, Inv, ExactConnection, WantsAck
    <3>4. WaitInv'
      <4>1. \A j \in Calls \ {k} : /\ fut'[j] = fut[j] /\ ackFut'[j] = ackFut[j]
                                   /\ pc'[j] = pc[j] /\ frame'[j] = frame[j]
        BY <1>12, <2>3 DEF Call, Inv, TypeOK
      <4>2. /\ pc'[k] = "queue" /\ k \notin answers \cup acks
            /\ k \in pendReq' => WantsReply(k)
            /\ k \in pendAck' => WantsAck(k)
        BY <1>12, <2>1, <2>3 DEF Call, Inv, TypeOK, WaitInv, LinkInv, CallInv
      <4>3. UNCHANGED <<running, session, reader, form, deadline, pendPing, answers, acks>>
        BY <1>12 DEF Call
      <4>4. ASSUME NEW j \in Calls \ {k}
            PROVE  /\ j \in pendReq' <=> j \in pendReq
                   /\ j \in pendAck' <=> j \in pendAck
        BY <1>12, <2>3 DEF Call
      <4>5. /\ pc'[k] \notin {"idle", "ack", "answer", "expired", "close"} \cup Finished
            /\ k \notin pendPing
        BY <2>1, <4>2 DEF Finished
      <4> QED BY <4>1, <4>2, <4>3, <4>4, <4>5
              DEF Inv, WaitInv, LinkInv, CallInv, WantsAck, WantsReply, IsPing
    <3> QED BY <3>1, <3>2, <3>3, <3>4
  <2> QED BY <2>2, <2>3
<1>13. ASSUME NEW k \in Calls, NEW c \in Conns, Ping(k, c) PROVE Goal
  <2>1. k \notin pendReq \cup pendAck \cup pendPing
    BY <1>13 DEF Ping, Inv, TablesExact, Waiting, Ending
  <2>2. TablesExact' /\ Owned'
    BY <1>13, <2>1 DEF Ping, Inv, TypeOK, TablesExact, Owned, Waiting
  <2>3. ExactConnection'
    BY <1>13 DEF Ping, Inv, TypeOK, ExactConnection, WantsAck
  <2>4. /\ \A j \in Calls \ {k} : fut'[j] = fut[j] /\ pc'[j] = pc[j] /\ frame'[j] = frame[j]
        /\ pendPing' = pendPing \cup {k}
        /\ pc[k] = "idle" /\ pc'[k] = "queue" /\ IsPing(k) /\ k \notin pendReq \cup pendAck
        /\ UNCHANGED <<linkVars, form, deadline, pendReq, pendAck, ackFut, history>>
    BY <1>13, <2>1 DEF Ping, Inv, TypeOK
  <2>5. WaitInv'
    <3>1. LinkInv'  BY <2>4 DEF Inv, WaitInv, LinkInv
    <3>2. CallInv(k)'
      BY <2>4 DEF Inv, WaitInv, CallInv, WantsAck, WantsReply, IsPing, Finished
    <3>3. ASSUME NEW j \in Calls \ {k} PROVE CallInv(j)'
      BY <2>4 DEF Inv, WaitInv, CallInv, WantsAck, WantsReply, IsPing
    <3> QED BY <3>1, <3>2, <3>3 DEF WaitInv
  <2> QED BY <2>2, <2>3, <2>5
<1>14. ASSUME NEW k \in Calls, NEW c \in Conns,
              ReceiveReply(c, k) \/ ReceiveAck(c, k) \/ ReceivePong(c, k)
       PROVE  Goal
  <2>1. pc[k] # "idle"
    BY <1>14 DEF ReceiveReply, ReceiveAck, ReceivePong, Reads, Inv, WaitInv, LinkInv, CallInv
  <2>2. CASE ReceiveReply(c, k)
    <3>1. CASE conn[k] = c
      <4>1. form[k] # "send" /\ k \notin pendPing
        BY <2>2 DEF ReceiveReply, Inv, WaitInv, LinkInv, CallInv, WantsReply, IsPing
      <4>2. {k} \cap pendReq = {k} \cap (pendReq \cup pendPing) /\ pendPing = pendPing \ {k}
        BY <4>1
      <4> QED BY <2>1, <2>2, <3>1, <4>1, <4>2, AnswerStep DEF ReceiveReply
    <3>2. CASE conn[k] # c
      BY <2>2, <3>2, Unaffected DEF ReceiveReply
    <3> QED BY <3>1, <3>2
  <2>3. CASE ReceivePong(c, k)
    <3>1. CASE conn[k] = c
      <4>1. form[k] # "send" /\ k \notin pendReq
        BY <2>3 DEF ReceivePong, Inv, WaitInv, LinkInv, CallInv, WantsReply, IsPing
      <4>2. {k} \cap pendPing = {k} \cap (pendReq \cup pendPing) /\ pendReq = pendReq \ {k}
        BY <4>1
      <4> QED BY <2>1, <2>3, <3>1, <4>1, <4>2, AnswerStep DEF ReceivePong
    <3>2. CASE conn[k] # c
      BY <2>3, <3>2, Unaffected DEF ReceivePong
    <3> QED BY <3>1, <3>2
  <2>4. CASE ReceiveAck(c, k)
    <3>1. CASE conn[k] = c
      BY <2>1, <2>4, <3>1, AckStep DEF ReceiveAck
    <3>2. CASE conn[k] # c
      BY <2>4, <3>2, Unaffected DEF ReceiveAck
    <3> QED BY <3>1, <3>2
  <2> QED BY <1>14, <2>2, <2>3, <2>4
<1>15. CASE UNCHANGED vars
  BY <1>15, Unaffected DEF vars
<1>16. ASSUME NEW k \in Calls, DeadlinePasses(k) PROVE Goal
  <2>1. /\ \A j \in Calls \ {k} : deadline'[j] = deadline[j]
        /\ pc[k] \in Waiting
        /\ UNCHANGED <<linkVars, pc, conn, form, frame, waitVars, history>>
    BY <1>16 DEF DeadlinePasses, Inv, TypeOK
  <2>2. deadline'[k] = "unanswered"
    BY <1>16 DEF DeadlinePasses, Answered, Inv, TypeOK, WaitInv, LinkInv, CallInv
  <2>3. TablesExact' /\ Owned' /\ ExactConnection'
    BY <2>1 DEF Inv, TablesExact, Owned, ExactConnection, WantsAck
  <2>4. WaitInv'
    BY <2>1, <2>2 DEF Inv, WaitInv, LinkInv, CallInv, WantsAck, WantsReply, IsPing
  <2> QED BY <2>3, <2>4
<1>17. ASSUME NEW k \in Calls, Timeout(k) \/ Cancelled(k) PROVE Goal
  BY <1>17, EndWaitStep DEF Timeout, Cancelled
<1> QED
  BY <1>1, <1>2, <1>3, <1>4, <1>5, <1>6, <1>7, <1>8, <1>9, <1>10, <1>11, <1>12, <1>13,
     <1>14, <1>15, <1>16, <1>17
  DEF Next, ReaderEnds, ReaderAborts

LEMMA InvHolds == Spec => []Inv
<1>1. Init => Inv                  BY InvInit
<1>2. Inv /\ [Next]_vars => Inv'    BY InvStep
<1> QED BY <1>1, <1>2, PTL DEF Spec

\* Entries and futures come and go together, on every path out of request(),
\* _send_message() and the heartbeat loop.
THEOREM TablesAreExact == Spec => []TablesExact
<1>1. Inv => TablesExact  BY DEF Inv
<1> QED BY <1>1, InvHolds, PTL

\* Whichever teardown comes first, no call is left waiting on a connection whose
\* reader has ended, nor on a stopped node.
THEOREM WaitsAreOwned == Spec => []Owned
<1>1. Inv => Owned  BY DEF Inv
<1> QED BY <1>1, InvHolds, PTL

\* Only an answer read on the call's own connection completes it.
THEOREM AnswersAreExact == Spec => []ExactConnection
<1>1. Inv => ExactConnection  BY DEF Inv
<1> QED BY <1>1, InvHolds, PTL

\* No call gives up, and no heartbeat closes its connection, over an answer that
\* had been read when the deadline passed: wherever the reader runs between the
\* deadline, the timer's callback and the task, the deadline of an answered wait
\* does not pass.
THEOREM HeartbeatIsJust == Spec => []NoFalseAlarm
<1>1. Inv => NoFalseAlarm  BY NoAlarm DEF Inv
<1> QED BY <1>1, InvHolds, PTL
=============================================================================
