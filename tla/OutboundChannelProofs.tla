------------------------ MODULE OutboundChannelProofs ------------------------
(***************************************************************************)
(* The writer channel loses no frame, no wake-up and reports no success that *)
(* did not happen, for any number of calls and teardowns, any                *)
(* max_outbound_queue and both backpressure policies.                        *)
(***************************************************************************)
EXTENDS OutboundChannel, FiniteSetTheorems, FunctionTheorems, SequenceTheorems, TLAPS

PCs     == {"idle", "returned", "raised"} \cup Inside
Futures == {"none", Pending, "ok", "error", "cancelled"}

Distinct(q) == \A i, j \in 1..Len(q) : q[i] = q[j] => i = j

-----------------------------------------------------------------------------
(* The deque of blocked putters *)

LEMMA ElemsType ==
  ASSUME NEW q \in Seq(Calls)
  PROVE  Elems(q) \subseteq Calls /\ Len(q) \in Nat
BY LenProperties, ElementOfSeq DEF Elems

LEMMA ElemsAppend ==
  ASSUME NEW q \in Seq(Calls), NEW s \in Calls
  PROVE  /\ Append(q, s) \in Seq(Calls) /\ Len(Append(q, s)) = Len(q) + 1
         /\ Elems(Append(q, s)) = Elems(q) \cup {s}
         /\ Distinct(q) /\ s \notin Elems(q) => Distinct(Append(q, s))
<1>1. /\ Append(q, s) \in Seq(Calls) /\ Len(Append(q, s)) = Len(q) + 1 /\ Len(q) \in Nat
      /\ \A i \in 1..Len(q) : Append(q, s)[i] = q[i]
      /\ Append(q, s)[Len(q) + 1] = s
  BY LenProperties
<1>2. \A i \in 1..(Len(q) + 1) : i \in 1..Len(q) \/ i = Len(q) + 1
  BY <1>1
<1>3. Elems(Append(q, s)) = Elems(q) \cup {s}
  BY <1>1, <1>2 DEF Elems
<1>4. Distinct(q) /\ s \notin Elems(q) => Distinct(Append(q, s))
  BY <1>1, <1>2 DEF Elems, Distinct
<1> QED BY <1>1, <1>3, <1>4

LEMMA ElemsTail ==
  ASSUME NEW q \in Seq(Calls), q # <<>>
  PROVE  /\ Head(q) \in Calls /\ Tail(q) \in Seq(Calls) /\ Len(Tail(q)) = Len(q) - 1
         /\ Elems(q) = {Head(q)} \cup Elems(Tail(q)) /\ Len(q) \in Nat \ {0}
<1>1. /\ Head(q) \in Calls /\ Tail(q) \in Seq(Calls) /\ Len(Tail(q)) = Len(q) - 1
      /\ Len(q) \in Nat \ {0} /\ Head(q) = q[1]
      /\ \A i \in 1..(Len(q) - 1) : Tail(q)[i] = q[i + 1]
  BY EmptySeq, HeadTailProperties
<1>2. \A i \in 1..Len(q) : i = 1 \/ (i - 1 \in 1..(Len(q) - 1) /\ (i - 1) + 1 = i)
  BY <1>1
<1>3. \A i \in 1..(Len(q) - 1) : i + 1 \in 1..Len(q)
  BY <1>1
<1>4. Elems(q) \subseteq {Head(q)} \cup Elems(Tail(q))
  <2> SUFFICES ASSUME NEW i \in 1..Len(q) PROVE q[i] \in {Head(q)} \cup Elems(Tail(q))
    BY DEF Elems
  <2>1. CASE i = 1
    BY <1>1, <2>1
  <2>2. CASE i # 1
    <3>1. i - 1 \in 1..Len(Tail(q)) /\ Tail(q)[i - 1] = q[i]
      BY <1>1, <1>2, <2>2
    <3> QED BY <3>1 DEF Elems
  <2> QED BY <2>1, <2>2
<1>5. Elems(Tail(q)) \subseteq Elems(q) /\ Head(q) \in Elems(q)
  BY <1>1, <1>3 DEF Elems
<1> QED BY <1>1, <1>4, <1>5

\* Cancelling one blocked call leaves the others, in their order.
LEMMA WithoutRemoves ==
  ASSUME putters \in Seq(Calls), Distinct(putters), NEW s \in Elems(putters)
  PROVE  /\ Without(s) \in Seq(Calls) /\ Distinct(Without(s))
         /\ Elems(Without(s)) = Elems(putters) \ {s}
<1> DEFINE i == CHOOSE k \in 1..Len(putters) : putters[k] = s
           n == Len(putters)
           a == SubSeq(putters, 1, i - 1)
           b == SubSeq(putters, i + 1, n)
           c == a \o b
<1>1. i \in 1..n /\ putters[i] = s /\ n \in Nat
  BY LenProperties DEF Elems
<1>2. \A k \in 1..n : putters[k] \in Calls
  BY ElementOfSeq
<1> HIDE DEF i
<1>3. /\ a \in Seq(Calls) /\ Len(a) = i - 1
      /\ \A k \in 1..(i - 1) : a[k] = putters[k]
  <2>1. \A k \in 1..(i - 1) : putters[k] \in Calls
    BY <1>1, <1>2
  <2> QED BY <1>1, <2>1, SubSeqProperties
<1>4. /\ b \in Seq(Calls) /\ Len(b) = n - i
      /\ \A k \in 1..(n - i) : b[k] = putters[i + k]
  <2>1. \A k \in (i + 1)..n : putters[k] \in Calls
    BY <1>1, <1>2
  <2> QED BY <1>1, <2>1, SubSeqProperties
<1> HIDE DEF a, b
<1>5. /\ c \in Seq(Calls) /\ Len(c) = n - 1
      /\ \A k \in 1..(i - 1) : c[k] = putters[k]
      /\ \A k \in i..(n - 1) : c[k] = putters[k + 1]
  <2>1. /\ c \in Seq(Calls) /\ Len(c) = n - 1
        /\ \A k \in 1..(n - 1) : c[k] = IF k <= i - 1 THEN a[k] ELSE b[k - (i - 1)]
    <3>1. /\ c \in Seq(Calls) /\ Len(c) = Len(a) + Len(b)
          /\ \A k \in 1..(Len(a) + Len(b)) : c[k] = IF k <= Len(a) THEN a[k] ELSE b[k - Len(a)]
      BY <1>3, <1>4, ConcatProperties
    <3>2. Len(a) + Len(b) = n - 1 /\ Len(a) = i - 1
      BY <1>1, <1>3, <1>4
    <3> QED BY <3>1, <3>2
  <2>2. ASSUME NEW k \in 1..(i - 1) PROVE c[k] = putters[k]
    BY <1>1, <1>3, <2>1
  <2>3. ASSUME NEW k \in i..(n - 1) PROVE c[k] = putters[k + 1]
    <3>1. k - (i - 1) \in 1..(n - i) /\ i + (k - (i - 1)) = k + 1 /\ k \in 1..(n - 1) /\ ~(k <= i - 1)
      BY <1>1
    <3> QED BY <1>4, <2>1, <3>1
  <2> QED BY <2>1, <2>2, <2>3
<1> HIDE DEF c
<1>6. \A k \in 1..(n - 1) : k \in 1..(i - 1) \/ k \in i..(n - 1)
  BY <1>1
<1>7. Distinct(c)
  <2> SUFFICES ASSUME NEW j \in 1..(n - 1), NEW k \in 1..(n - 1), c[j] = c[k] PROVE j = k
    BY <1>5 DEF Distinct
  <2> DEFINE up(x) == IF x < i THEN x ELSE x + 1
  <2>1. /\ up(j) \in 1..n /\ c[j] = putters[up(j)]
        /\ up(k) \in 1..n /\ c[k] = putters[up(k)]
    BY <1>1, <1>5
  <2>2. up(j) = up(k)
    BY <2>1 DEF Distinct
  <2> QED BY <1>1, <2>2
<1>8. Elems(c) = Elems(putters) \ {s}
  <2>1. Elems(c) \subseteq Elems(putters) \ {s}
    <3> SUFFICES ASSUME NEW k \in 1..(n - 1) PROVE c[k] \in Elems(putters) /\ c[k] # s
      BY <1>5 DEF Elems
    <3>1. CASE k \in 1..(i - 1)
      <4>1. k \in 1..n /\ k # i /\ c[k] = putters[k]
        BY <1>1, <1>5, <3>1
      <4> QED BY <1>1, <4>1 DEF Elems, Distinct
    <3>2. CASE k \in i..(n - 1)
      <4>1. k + 1 \in 1..n /\ k + 1 # i /\ c[k] = putters[k + 1]
        BY <1>1, <1>5, <3>2
      <4> QED BY <1>1, <4>1 DEF Elems, Distinct
    <3> QED BY <1>6, <3>1, <3>2
  <2>2. Elems(putters) \ {s} \subseteq Elems(c)
    <3> SUFFICES ASSUME NEW k \in 1..n, putters[k] # s PROVE putters[k] \in Elems(c)
      BY DEF Elems
    <3>1. CASE k < i
      <4>1. k \in 1..(i - 1) /\ k \in 1..(n - 1)
        BY <1>1, <3>1
      <4> QED BY <1>5, <4>1 DEF Elems
    <3>2. CASE k > i
      <4>1. k - 1 \in i..(n - 1) /\ k - 1 \in 1..(n - 1) /\ (k - 1) + 1 = k
        BY <1>1, <3>2
      <4> QED BY <1>5, <4>1 DEF Elems
    <3> QED BY <1>1, <3>1, <3>2
  <2> QED BY <2>1, <2>2
<1>9. c = Without(s)
  BY DEF c, a, b, i, Without
<1> QED BY <1>5, <1>7, <1>8, <1>9

\* n gets wake n different calls, if there are so many, and leave the rest blocked.
LEMMA WakeSplits ==
  ASSUME putters \in Seq(Calls), Distinct(putters), NEW n \in Nat
  PROVE  /\ PuttersAfter(n) \in Seq(Calls) /\ Distinct(PuttersAfter(n))
         /\ Elems(PuttersAfter(n)) = Elems(putters) \ WokenBy(n)
         /\ WokenBy(n) \subseteq Elems(putters)
         /\ PuttersAfter(n) # <<>> => n < Len(putters)
<1> DEFINE m == Len(putters)
           b == PuttersAfter(n)
<1>1. m \in Nat /\ \A k \in 1..m : putters[k] \in Calls
  BY LenProperties, ElementOfSeq
<1>2. /\ b \in Seq(Calls) /\ Len(b) = (IF n + 1 <= m THEN m - n ELSE 0)
      /\ \A k \in 1..(m - n) : b[k] = putters[n + k]
  <2>1. \A k \in (n + 1)..m : putters[k] \in Calls
    BY <1>1
  <2> QED BY <1>1, <2>1, SubSeqProperties DEF PuttersAfter
<1> HIDE DEF b
<1>3. \A k \in 1..Len(b) : k \in 1..(m - n) /\ n + k \in 1..m /\ n + k > n
  BY <1>1, <1>2
<1>4. Distinct(b)
  <2> SUFFICES ASSUME NEW j \in 1..Len(b), NEW k \in 1..Len(b), b[j] = b[k] PROVE j = k
    BY DEF Distinct
  <2>1. putters[n + j] = putters[n + k] /\ n + j \in 1..m /\ n + k \in 1..m
    BY <1>2, <1>3
  <2>2. n + j = n + k
    BY <2>1 DEF Distinct
  <2> QED BY <1>1, <1>2, <2>2
<1>5. WokenBy(n) \subseteq Elems(putters)
  BY DEF WokenBy, Elems
<1>6. Elems(b) \subseteq Elems(putters) \ WokenBy(n)
  <2> SUFFICES ASSUME NEW k \in 1..Len(b) PROVE b[k] \in Elems(putters) \ WokenBy(n)
    BY DEF Elems
  <2>1. b[k] = putters[n + k] /\ n + k \in 1..m /\ n + k > n
    BY <1>2, <1>3
  <2>2. ASSUME NEW j \in 1..m, j <= n PROVE putters[j] # putters[n + k]
    BY <1>1, <2>1, <2>2 DEF Distinct
  <2> QED BY <2>1, <2>2 DEF Elems, WokenBy
<1>7. Elems(putters) \ WokenBy(n) \subseteq Elems(b)
  <2> SUFFICES ASSUME NEW k \in 1..m, putters[k] \notin WokenBy(n) PROVE putters[k] \in Elems(b)
    BY DEF Elems
  <2>1. ~(k <= n)
    BY DEF WokenBy
  <2>2. k - n \in 1..(m - n) /\ n + (k - n) = k /\ k - n \in 1..Len(b)
    BY <1>1, <1>2, <2>1
  <2> QED BY <1>2, <2>2 DEF Elems
<1>8. b # <<>> => n < m
  BY <1>1, <1>2, EmptySeq
<1>9. b = PuttersAfter(n)
  BY DEF b
<1> QED BY <1>2, <1>4, <1>5, <1>6, <1>7, <1>8, <1>9

LEMMA WokenCount ==
  ASSUME putters \in Seq(Calls), Distinct(putters), NEW n \in Nat
  PROVE  IsFiniteSet(WokenBy(n)) /\ (n <= Len(putters) => Cardinality(WokenBy(n)) = n)
<1> DEFINE m == IF n <= Len(putters) THEN n ELSE Len(putters)
           f == [i \in 1..m |-> putters[i]]
<1>1. m \in Nat /\ m <= Len(putters) /\ Len(putters) \in Nat /\ m <= n
  BY LenProperties
<1>2. {j \in 1..Len(putters) : j <= n} = 1..m
  BY <1>1
<1> HIDE DEF m
<1>3. WokenBy(n) = {putters[i] : i \in 1..m}
  BY <1>2 DEF WokenBy
<1>4. f \in Bijection(1..m, WokenBy(n))
  <2>1. f \in [1..m -> WokenBy(n)]
    BY <1>3
  <2>2. \A i, j \in 1..m : f[i] = f[j] => i = j
    <3>1. \A i \in 1..m : i \in 1..Len(putters)
      BY <1>1
    <3> QED BY <3>1 DEF Distinct
  <2>3. \A t \in WokenBy(n) : \E i \in 1..m : f[i] = t
    BY <1>3
  <2> QED BY <2>1, <2>2, <2>3 DEF Bijection, Injection, Surjection, IsInjective
<1>5. ExistsBijection(1..m, WokenBy(n))
  BY <1>4 DEF ExistsBijection
<1>6. IsFiniteSet(WokenBy(n)) /\ Cardinality(WokenBy(n)) = m
  BY <1>1, <1>5, FS_CountingElements, FS_NatBijection
<1> QED BY <1>6 DEF m

-----------------------------------------------------------------------------
(* The inductive invariant *)

Flags ==
  /\ wait \in BOOLEAN /\ running \in BOOLEAN /\ closed \in BOOLEAN /\ channel \in BOOLEAN
  /\ wcancel \in BOOLEAN /\ teardown \in [Teardowns -> {"idle", "gather", "done"}]

Data ==
  /\ queue \in Seq(Calls) /\ putters \in Seq(Calls)
  /\ pc \in [Calls -> PCs] /\ future \in [Calls -> Futures]
  /\ wpc \in {"start", "get", "send", "close", "done"} /\ current \in Calls \cup {None}
  /\ written \subseteq Calls

Room == Len(queue) <= MaxQueue

\* The deque holds exactly the calls blocked in put(), each of them once.
Blocked ==
  /\ Distinct(putters)
  /\ \A s \in Calls : (pc[s] = "putting") <=> (s \in Elems(putters))

\* The writer has a frame in hand only between get() and the end of the write, and
\* the frame of a write that failed has been answered.
InHand ==
  /\ wpc \in {"start", "get", "done"} => current = None
  /\ wpc \in {"send", "close"} => current \in Calls
  /\ wpc = "close" => future[current] # Pending

\* What is queued or in the writer's hands belongs to a call whose put() is over.
Owned ==
  \A s \in Calls : s = current \/ s \in Elems(queue) => pc[s] \notin {"idle", "putting", "woken"}

\* An unanswered call is with the writer or queued.
Owed ==
  \A s \in Calls : pc[s] = "waiting" /\ future[s] = Pending => s = current \/ s \in Elems(queue)

\* Success, promised or reported, is real.
Real ==
  /\ \A s \in Calls : future[s] = "ok" => s \in written
  /\ \A s \in Calls : pc[s] = "returned" => s \in written

\* Slots of the queue are taken or promised while a call is blocked.
Promised == IsFiniteSet(WokenCalls) /\ NoLostWakeup

Kept == Flags /\ Data /\ Room /\ Blocked /\ InHand /\ Owned /\ Owed /\ Real /\ Promised

LEMMA TypesAgree == Flags /\ Data /\ Room <=> TypeOK
BY DEF Flags, Data, Room, TypeOK, PCs, Futures

LEMMA InitKept == Init => Kept
<1> SUFFICES ASSUME Init PROVE Kept
  OBVIOUS
<1>1. Elems(<<>>) = {} /\ Distinct(<<>>) /\ Len(<<>>) = 0 /\ <<>> \in Seq(Calls)
  BY EmptySeq DEF Elems, Distinct
<1>2. Flags /\ Data
  BY <1>1 DEF Init, Flags, Data, PCs, Futures
<1>3. Room
  BY <1>1, ConstantsAssumption DEF Init, Room
<1>4. Blocked /\ InHand /\ Owned /\ Owed /\ Real
  BY <1>1, ConstantsAssumption DEF Init, Blocked, InHand, Owned, Owed, Real
<1>5. WokenCalls = {}
  BY DEF Init, WokenCalls
<1>6. Promised
  BY <1>5, FS_EmptySet DEF Init, Promised, NoLostWakeup
<1> QED BY <1>2, <1>3, <1>4, <1>6 DEF Kept

-----------------------------------------------------------------------------
(* Waking, draining, getting *)

\* A step that wakes the first n putters, and otherwise takes pc to p.
LEMMA WakeKeeps ==
  ASSUME Kept, NEW n \in Nat, NEW p \in [Calls -> PCs],
         \A s \in Calls : (p[s] = "putting") <=> (pc[s] = "putting"),
         NEW B, B = {s \in Calls : p[s] = "woken"}, IsFiniteSet(B),
         pc' = Wake(p, WokenBy(n)), putters' = PuttersAfter(n)
  PROVE  /\ pc' \in [Calls -> PCs] /\ putters' \in Seq(Calls) /\ Blocked'
         /\ \A s \in Calls : pc'[s] = p[s] \/ (pc'[s] = "woken" /\ p[s] = "putting")
         /\ IsFiniteSet(WokenCalls')
         /\ putters' # <<>> =>
              Cardinality(WokenCalls') = Cardinality(B) + n /\ putters # <<>>
<1>1. /\ putters \in Seq(Calls) /\ Distinct(putters)
      /\ \A s \in Calls : (pc[s] = "putting") <=> (s \in Elems(putters))
  BY DEF Kept, Data, Blocked
<1>2. /\ PuttersAfter(n) \in Seq(Calls) /\ Distinct(PuttersAfter(n))
      /\ Elems(PuttersAfter(n)) = Elems(putters) \ WokenBy(n)
      /\ WokenBy(n) \subseteq Elems(putters)
      /\ PuttersAfter(n) # <<>> => n < Len(putters)
  BY <1>1, WakeSplits
<1>3. \A s \in Calls : pc'[s] = IF s \in WokenBy(n) THEN "woken" ELSE p[s]
  BY DEF Wake
<1>4. pc' \in [Calls -> PCs]
  BY DEF Wake, PCs, Inside
<1>5. Blocked'
  BY <1>1, <1>2, <1>3 DEF Blocked
<1>6. Elems(putters) \subseteq Calls /\ Len(putters) \in Nat
  BY <1>1, ElemsType
<1>7. WokenCalls' = B \cup WokenBy(n) /\ B \cap WokenBy(n) = {}
  BY <1>1, <1>2, <1>3, <1>6 DEF WokenCalls
<1>8. IsFiniteSet(WokenBy(n)) /\ (n <= Len(putters) => Cardinality(WokenBy(n)) = n)
  BY <1>1, WokenCount
<1>9. /\ IsFiniteSet(WokenCalls')
      /\ Cardinality(WokenCalls') = Cardinality(B) + Cardinality(WokenBy(n))
                                     - Cardinality(B \cap WokenBy(n))
  BY <1>7, <1>8, FS_Union
<1>10. Cardinality(B \cap WokenBy(n)) = 0 /\ Cardinality(B) \in Nat
  BY <1>7, FS_EmptySet, FS_CardinalityType
<1>11. putters' # <<>> => Cardinality(WokenCalls') = Cardinality(B) + n /\ putters # <<>>
  <2> SUFFICES ASSUME putters' # <<>>
               PROVE  Cardinality(WokenCalls') = Cardinality(B) + n /\ putters # <<>>
    OBVIOUS
  <2>1. n < Len(putters) /\ Cardinality(WokenBy(n)) = n
    BY <1>2, <1>6, <1>8
  <2>2. putters # <<>>
    BY <1>6, <2>1, EmptySeq
  <2> QED BY <1>9, <1>10, <2>1, <2>2
<1>12. \A s \in Calls : pc'[s] = p[s] \/ (pc'[s] = "woken" /\ p[s] = "putting")
  BY <1>1, <1>2, <1>3, <1>6
<1> QED BY <1>2, <1>4, <1>5, <1>9, <1>11, <1>12

\* Draining the queue answers every frame in it, and wakes as many calls as it frees slots.
LEMMA DrainKeeps ==
  ASSUME Kept, NEW f \in [Calls -> Futures], DrainQueue(f)
  PROVE  /\ queue' = <<>> /\ queue' \in Seq(Calls) /\ putters' \in Seq(Calls)
         /\ pc' \in [Calls -> PCs] /\ future' \in [Calls -> Futures]
         /\ Room' /\ Blocked' /\ Promised' /\ Elems(queue') = {}
         /\ \A s \in Calls : pc'[s] = pc[s] \/ (pc'[s] = "woken" /\ pc[s] = "putting")
         /\ \A s \in Calls : future'[s] = Pending => f[s] = Pending /\ s \notin Elems(queue)
         /\ \A s \in Calls : future'[s] = "ok" => f[s] = "ok"
<1>1. /\ queue \in Seq(Calls) /\ pc \in [Calls -> PCs] /\ Len(queue) \in Nat
      /\ IsFiniteSet(WokenCalls) /\ MaxQueue \in Nat
  BY LenProperties, ConstantsAssumption DEF Kept, Data, Promised
<1>2. /\ queue' = <<>> /\ pc' = Wake(pc, WokenBy(Len(queue)))
      /\ putters' = PuttersAfter(Len(queue)) /\ future' = SetError(f, Elems(queue))
  BY DEF DrainQueue
<1>3. /\ pc' \in [Calls -> PCs] /\ putters' \in Seq(Calls) /\ Blocked'
      /\ \A s \in Calls : pc'[s] = pc[s] \/ (pc'[s] = "woken" /\ pc[s] = "putting")
      /\ IsFiniteSet(WokenCalls')
      /\ putters' # <<>> =>
           Cardinality(WokenCalls') = Cardinality(WokenCalls) + Len(queue) /\ putters # <<>>
  <2>1. WokenCalls = {s \in Calls : pc[s] = "woken"}
    BY DEF WokenCalls
  <2> QED BY <1>1, <1>2, <2>1, WakeKeeps
<1>4. Len(queue') = 0 /\ Elems(queue') = {} /\ queue' \in Seq(Calls)
  BY <1>2, EmptySeq DEF Elems
<1>5. Room'
  BY <1>1, <1>4, ConstantsAssumption DEF Room
<1>6. Promised'
  <2>1. putters # <<>> => Len(queue) + Cardinality(WokenCalls) >= MaxQueue
    BY DEF Kept, Promised, NoLostWakeup
  <2>2. Cardinality(WokenCalls) \in Nat
    BY <1>1, FS_CardinalityType
  <2>3. putters' # <<>> => Len(queue') + Cardinality(WokenCalls') >= MaxQueue
    BY <1>1, <1>3, <1>4, <2>1, <2>2
  <2> QED BY <1>3, <2>3 DEF Promised, NoLostWakeup
<1>7. /\ future' \in [Calls -> Futures]
      /\ \A s \in Calls : future'[s] = Pending => f[s] = Pending /\ s \notin Elems(queue)
      /\ \A s \in Calls : future'[s] = "ok" => f[s] = "ok"
  BY <1>2 DEF SetError, Futures, Pending
<1> QED BY <1>2, <1>3, <1>4, <1>5, <1>6, <1>7

\* The writer takes the first frame and wakes the first putter.
LEMMA GetKeeps ==
  ASSUME Kept, queue # <<>>, current' = Head(queue), queue' = Tail(queue),
         pc' = Wake(pc, WokenBy(1)), putters' = PuttersAfter(1)
  PROVE  /\ queue' \in Seq(Calls) /\ putters' \in Seq(Calls) /\ pc' \in [Calls -> PCs]
         /\ current' \in Calls /\ Room' /\ Blocked' /\ Promised'
         /\ Elems(queue) = {current'} \cup Elems(queue')
         /\ \A s \in Calls : pc'[s] = pc[s] \/ (pc'[s] = "woken" /\ pc[s] = "putting")
<1>1. /\ queue \in Seq(Calls) /\ pc \in [Calls -> PCs] /\ Len(queue) <= MaxQueue
      /\ IsFiniteSet(WokenCalls) /\ MaxQueue \in Nat
  BY ConstantsAssumption DEF Kept, Data, Promised, Room
<1>2. /\ Head(queue) \in Calls /\ Tail(queue) \in Seq(Calls) /\ Len(Tail(queue)) = Len(queue) - 1
      /\ Elems(queue) = {Head(queue)} \cup Elems(Tail(queue)) /\ Len(queue) \in Nat \ {0}
  BY <1>1, ElemsTail
<1>3. /\ pc' \in [Calls -> PCs] /\ putters' \in Seq(Calls) /\ Blocked'
      /\ \A s \in Calls : pc'[s] = pc[s] \/ (pc'[s] = "woken" /\ pc[s] = "putting")
      /\ IsFiniteSet(WokenCalls')
      /\ putters' # <<>> =>
           Cardinality(WokenCalls') = Cardinality(WokenCalls) + 1 /\ putters # <<>>
  <2>1. WokenCalls = {s \in Calls : pc[s] = "woken"} /\ 1 \in Nat
    BY DEF WokenCalls
  <2> QED BY <1>1, <2>1, WakeKeeps
<1>4. Room'
  BY <1>1, <1>2 DEF Room
<1>5. Promised'
  <2>1. putters # <<>> => Len(queue) + Cardinality(WokenCalls) >= MaxQueue
    BY DEF Kept, Promised, NoLostWakeup
  <2>2. Cardinality(WokenCalls) \in Nat
    BY <1>1, FS_CardinalityType
  <2>3. putters' # <<>> => Len(queue') + Cardinality(WokenCalls') >= MaxQueue
    BY <1>1, <1>2, <1>3, <2>1, <2>2
  <2> QED BY <1>3, <2>3 DEF Promised, NoLostWakeup
<1> QED BY <1>2, <1>3, <1>4, <1>5

\* A resolution f of futures: none becomes pending, and "ok" means written.
Resolves(f) ==
  /\ f \in [Calls -> Futures]
  /\ \A s \in Calls : f[s] = Pending => future[s] = Pending
  /\ \A s \in Calls : f[s] = "ok" => s \in written'

\* What the writer wrote stays written.
Writes == written \subseteq written' /\ written' \subseteq Calls

\* Draining while nothing pending is in the writer's hands, or the writer keeps it.
LEMMA DrainStep ==
  ASSUME Kept, NEW f, Resolves(f), Writes, DrainQueue(f), Flags',
         wpc' \in {"start", "get", "send", "close", "done"}, current' \in {current, None},
         InHand',
         \A s \in Calls : f[s] = Pending => s # current \/ current' = current
  PROVE  Kept'
<1>1. /\ queue' = <<>> /\ queue' \in Seq(Calls) /\ putters' \in Seq(Calls)
      /\ pc' \in [Calls -> PCs] /\ future' \in [Calls -> Futures]
      /\ Room' /\ Blocked' /\ Promised' /\ Elems(queue') = {}
      /\ \A s \in Calls : pc'[s] = pc[s] \/ (pc'[s] = "woken" /\ pc[s] = "putting")
      /\ \A s \in Calls : future'[s] = Pending => f[s] = Pending /\ s \notin Elems(queue)
      /\ \A s \in Calls : future'[s] = "ok" => f[s] = "ok"
  BY DrainKeeps DEF Resolves
<1>2. Data'
  BY <1>1 DEF Kept, Data, Writes
<1>3. Owned'
  BY <1>1, ConstantsAssumption DEF Kept, Owned
<1>4. Owed'
  BY <1>1 DEF Kept, Owed, Resolves
<1>5. Real'
  BY <1>1 DEF Kept, Real, Resolves, Writes
<1> QED BY <1>1, <1>2, <1>3, <1>4, <1>5 DEF Kept

LEMMA WriterEndsStep ==
  ASSUME Kept, NEW f, Resolves(f), Writes, WriterEnds(f), Flags',
         \A s \in Calls : f[s] = Pending => s # current
  PROVE  Kept'
<1>1. InHand' /\ wpc' = "done" /\ current' = None
  BY DEF WriterEnds, InHand
<1> QED BY <1>1, DrainStep DEF WriterEnds

\* The writer goes round its loop.
LEMMA LoopTopStep ==
  ASSUME Kept, NEW f, Resolves(f), Writes, LoopTop(f), Flags',
         \A s \in Calls : f[s] = Pending => s # current
  PROVE  Kept'
<1>1. CASE ~running \/ closed
  BY <1>1, WriterEndsStep DEF LoopTop
<1>2. CASE ~(~running \/ closed) /\ queue = <<>>
  <2>1. /\ future' = f /\ wpc' = "get" /\ current' = None
        /\ queue' = queue /\ pc' = pc /\ putters' = putters
    BY <1>2 DEF LoopTop
  <2>2. Data' /\ InHand'
    BY <2>1 DEF Kept, Data, InHand, Resolves, Writes
  <2>3. Room' /\ Blocked' /\ Promised'
    BY <2>1 DEF Kept, Room, Blocked, Promised, NoLostWakeup, WokenCalls
  <2>4. Owned' /\ Owed' /\ Real'
    BY <2>1, ConstantsAssumption DEF Kept, Owned, Owed, Real, Resolves, Writes
  <2> QED BY <2>2, <2>3, <2>4 DEF Kept
<1>3. CASE ~(~running \/ closed) /\ queue # <<>>
  <2>1. /\ future' = f /\ wpc' = "send" /\ current' = Head(queue) /\ queue' = Tail(queue)
        /\ pc' = Wake(pc, WokenBy(1)) /\ putters' = PuttersAfter(1)
    BY <1>3 DEF LoopTop
  <2>2. /\ queue' \in Seq(Calls) /\ putters' \in Seq(Calls) /\ pc' \in [Calls -> PCs]
        /\ current' \in Calls /\ Room' /\ Blocked' /\ Promised'
        /\ Elems(queue) = {current'} \cup Elems(queue')
        /\ \A s \in Calls : pc'[s] = pc[s] \/ (pc'[s] = "woken" /\ pc[s] = "putting")
    BY <1>3, <2>1, GetKeeps
  <2>3. Data' /\ InHand'
    BY <2>1, <2>2 DEF Data, InHand, Resolves, Writes
  <2>4. Owned' /\ Owed' /\ Real'
    BY <2>1, <2>2 DEF Kept, Owned, Owed, Real, Resolves, Writes
  <2> QED BY <2>2, <2>3, <2>4 DEF Kept
<1> QED BY <1>1, <1>2, <1>3

-----------------------------------------------------------------------------
(* The steps of the writer *)

\* Nothing is resolved, nothing written.
LEMMA ResolvesNothing ==
  ASSUME Kept, written' = written
  PROVE  Resolves(future) /\ Writes
BY DEF Kept, Data, Real, Resolves, Writes

LEMMA ResolvesError ==
  ASSUME Kept, written' = written, NEW S
  PROVE  /\ Resolves(SetError(future, S)) /\ Writes
         /\ \A s \in Calls : SetError(future, S)[s] = Pending => s \notin S
BY DEF Kept, Data, Real, Resolves, Writes, SetError, Futures, Pending

LEMMA WriterStartsStep ==
  ASSUME Kept, WriterStarts
  PROVE  Kept'
<1>1. Flags' /\ written' = written /\ current = None
  BY DEF Kept, Flags, InHand, WriterStarts
<1>2. Resolves(future) /\ Writes
  BY <1>1, ResolvesNothing
<1> QED BY <1>1, <1>2, LoopTopStep, ConstantsAssumption DEF WriterStarts

LEMMA WriterGetsStep ==
  ASSUME Kept, WriterGets
  PROVE  Kept'
<1>1. /\ future' = future /\ written' = written /\ wpc' = "send" /\ wpc = "get"
      /\ queue # <<>> /\ current' = Head(queue) /\ queue' = Tail(queue)
      /\ pc' = Wake(pc, WokenBy(1)) /\ putters' = PuttersAfter(1)
  BY DEF WriterGets
<1>2. /\ queue' \in Seq(Calls) /\ putters' \in Seq(Calls) /\ pc' \in [Calls -> PCs]
      /\ current' \in Calls /\ Room' /\ Blocked' /\ Promised'
      /\ Elems(queue) = {current'} \cup Elems(queue')
      /\ \A s \in Calls : pc'[s] = pc[s] \/ (pc'[s] = "woken" /\ pc[s] = "putting")
  BY <1>1, GetKeeps
<1>3. Flags' /\ Data' /\ InHand'
  BY <1>1, <1>2 DEF Kept, Flags, Data, InHand, WriterGets
<1>4. current = None
  BY <1>1 DEF Kept, InHand
<1>5. Owned' /\ Owed' /\ Real'
  BY <1>1, <1>2, <1>4, ConstantsAssumption DEF Kept, Owned, Owed, Real
<1> QED BY <1>2, <1>3, <1>5 DEF Kept

LEMMA SendDoneStep ==
  ASSUME Kept, SendDone
  PROVE  Kept'
<1> DEFINE f == [future EXCEPT ![current] = IF @ = Pending THEN "ok" ELSE @]
<1>1. current \in Calls /\ written' = written \cup {current} /\ LoopTop(f)
  BY DEF Kept, InHand, SendDone
<1>2. Flags'
  BY DEF Kept, Flags, SendDone
<1>3. future \in [Calls -> Futures]
  BY DEF Kept, Data
<1>4. /\ f \in [Calls -> Futures] /\ f[current] # Pending
      /\ \A s \in Calls : s # current => f[s] = future[s]
  BY <1>1, <1>3 DEF Futures, Pending
<1> HIDE DEF f
<1>5. Resolves(f) /\ Writes
  BY <1>1, <1>4 DEF Kept, Data, Real, Resolves, Writes
<1> QED BY <1>1, <1>2, <1>4, <1>5, LoopTopStep

LEMMA SendFailsStep ==
  ASSUME Kept, SendFails
  PROVE  Kept'
<1>1. /\ UNCHANGED <<queue, putters, pc, current, written>> /\ wpc' = "close"
      /\ future' = SetError(future, {current}) /\ current \in Calls
  BY DEF Kept, InHand, SendFails
<1>2. Flags'
  BY DEF Kept, Flags, SendFails
<1>3. /\ Resolves(SetError(future, {current}))
      /\ \A s \in Calls : SetError(future, {current})[s] = Pending => s # current
  BY <1>1, ResolvesError
<1>4. Data' /\ Room' /\ Blocked' /\ InHand'
  BY <1>1, <1>3 DEF Kept, Data, Room, Blocked, InHand, Resolves
<1>5. Owned' /\ Owed' /\ Real'
  BY <1>1, <1>3 DEF Kept, Owned, Owed, Real, Resolves
<1>6. Promised'
  BY <1>1 DEF Kept, Promised, NoLostWakeup, WokenCalls
<1> QED BY <1>2, <1>4, <1>5, <1>6 DEF Kept

LEMMA WriterClosedStep ==
  ASSUME Kept, WriterClosed
  PROVE  Kept'
<1>1. Flags' /\ written' = written /\ future[current] # Pending
  BY DEF Kept, Flags, InHand, WriterClosed
<1>2. Resolves(future) /\ Writes
  BY <1>1, ResolvesNothing
<1> QED BY <1>1, <1>2, WriterEndsStep DEF WriterClosed

LEMMA WriterCancelledStep ==
  ASSUME Kept, WriterCancelled
  PROVE  Kept'
<1>1. Flags' /\ written' = written
  BY DEF Kept, Flags, WriterCancelled
<1>2. CASE wpc = "start"
  <2>1. wpc' = "done" /\ UNCHANGED <<current, future, queue, pc, putters>>
    BY <1>2 DEF WriterCancelled
  <2>2. Data' /\ Room' /\ Blocked' /\ InHand'
    BY <1>1, <1>2, <2>1 DEF Kept, Data, Room, Blocked, InHand
  <2>3. Owned' /\ Owed' /\ Real' /\ Promised'
    BY <1>1, <2>1 DEF Kept, Owned, Owed, Real, Promised, NoLostWakeup, WokenCalls
  <2> QED BY <1>1, <2>2, <2>3 DEF Kept
<1>3. CASE wpc # "start"
  <2>1. WriterEnds(SetError(future, {current}))
    BY <1>3 DEF WriterCancelled
  <2> QED BY <1>1, <2>1, ResolvesError, WriterEndsStep
<1> QED BY <1>2, <1>3

\* Steps that only end something: the data is not touched.
LEMMA FlagsStep ==
  ASSUME Kept, Flags', UNCHANGED <<queue, putters, pc, future, wpc, current, written>>
  PROVE  Kept'
<1>1. Data' /\ Room' /\ Blocked' /\ InHand'
  BY DEF Kept, Data, Room, Blocked, InHand
<1>2. Owned' /\ Owed' /\ Real' /\ Promised'
  BY DEF Kept, Owned, Owed, Real, Promised, NoLostWakeup, WokenCalls
<1> QED BY <1>1, <1>2 DEF Kept

LEMMA QuietSteps ==
  ASSUME Kept, OutboundFinished \/ ConnectionCloses \/ \E k \in Teardowns : TeardownStarts(k)
  PROVE  Kept'
<1>1. Flags
  BY DEF Kept
<1>2. CASE OutboundFinished
  BY <1>1, <1>2, FlagsStep DEF OutboundFinished, Flags
<1>3. CASE ConnectionCloses
  BY <1>1, <1>3, FlagsStep DEF ConnectionCloses, Flags
<1>4. ASSUME NEW k \in Teardowns, TeardownStarts(k) PROVE Kept'
  <2>1. Flags'
    <3>1. teardown' \in [Teardowns -> {"idle", "gather", "done"}]
      BY <1>1, <1>4 DEF TeardownStarts, Flags
    <3>2. wcancel' \in BOOLEAN /\ channel' \in BOOLEAN /\ closed' \in BOOLEAN
      BY <1>1, <1>4 DEF TeardownStarts, Flags
    <3> QED BY <1>1, <1>4, <3>1, <3>2 DEF TeardownStarts, Flags
  <2> QED BY <1>4, <2>1, FlagsStep DEF TeardownStarts
<1> QED BY <1>2, <1>3, <1>4

LEMMA TeardownEndsStep ==
  ASSUME Kept, NEW k \in Teardowns, TeardownEnds(k)
  PROVE  Kept'
<1>1. /\ UNCHANGED <<wpc, current, written>> /\ DrainQueue(future) /\ wpc = "done"
  BY DEF TeardownEnds
<1>2. Flags'
  BY DEF Kept, Flags, TeardownEnds
<1>3. Resolves(future) /\ Writes
  BY <1>1, ResolvesNothing
<1>4. InHand' /\ wpc' \in {"start", "get", "send", "close", "done"}
  BY <1>1 DEF Kept, InHand
<1> QED BY <1>1, <1>2, <1>3, <1>4, DrainStep

LEMMA StopStep ==
  ASSUME Kept, Stop
  PROVE  Kept'
<1>1. UNCHANGED <<wpc, current, written>>
  BY DEF Stop
<1>2. Flags'
  BY DEF Kept, Flags, Stop
<1>3. CASE channel
  <2> DEFINE f == SetError(future, {current})
  <2>1. DrainQueue(f)
    BY <1>3 DEF Stop
  <2>2. Resolves(f) /\ Writes
    BY <1>1, ResolvesError
  <2>3. InHand'
    <3>1. wpc = "close" => future'[current] # Pending
      BY <2>1, <2>2, DrainKeeps DEF Kept, InHand, Resolves
    <3> QED BY <1>1, <3>1 DEF Kept, InHand
  <2>4. wpc' \in {"start", "get", "send", "close", "done"}
    BY <1>1 DEF Kept, Data
  <2> HIDE DEF f
  <2> QED BY <1>1, <1>2, <2>1, <2>2, <2>3, <2>4, DrainStep
<1>4. CASE ~channel
  BY <1>1, <1>2, <1>4, FlagsStep DEF Stop
<1> QED BY <1>3, <1>4

-----------------------------------------------------------------------------
(* The steps of a call *)

\* One call moves on, to a place that is not "woken".
LEMMA WokenMoves ==
  ASSUME Kept, NEW s \in Calls, NEW v \in PCs \ {"woken"}, pc' = [pc EXCEPT ![s] = v]
  PROVE  /\ WokenCalls' = WokenCalls \ {s} /\ IsFiniteSet(WokenCalls')
         /\ Cardinality(WokenCalls') =
              IF pc[s] = "woken" THEN Cardinality(WokenCalls) - 1 ELSE Cardinality(WokenCalls)
         /\ Cardinality(WokenCalls) \in Nat /\ Cardinality(WokenCalls') \in Nat
<1>1. pc \in [Calls -> PCs] /\ IsFiniteSet(WokenCalls)
  BY DEF Kept, Data, Promised
<1>2. WokenCalls' = WokenCalls \ {s}
  BY <1>1 DEF WokenCalls
<1>3. s \in WokenCalls <=> pc[s] = "woken"
  BY DEF WokenCalls
<1> QED BY <1>1, <1>2, <1>3, FS_RemoveElement, FS_CardinalityType

\* put() succeeds.
LEMMA PutStep ==
  ASSUME Kept, Flags', NEW s \in Calls, pc[s] \in {"idle", "woken"}, ~Full, Put(s),
         UNCHANGED <<wpc, current, written>>,
         future' \in [Calls -> Futures], \A t \in Calls \ {s} : future'[t] = future[t],
         future'[s] # "ok" \/ future'[s] = future[s]
  PROVE  Kept'
<1>1. /\ queue' = Append(queue, s) /\ pc' = [pc EXCEPT ![s] = "waiting"] /\ putters' = putters
      /\ queue \in Seq(Calls) /\ pc \in [Calls -> PCs] /\ putters \in Seq(Calls)
  BY DEF Kept, Data, Put
<1>2. /\ queue' \in Seq(Calls) /\ Len(queue') = Len(queue) + 1 /\ Len(queue) \in Nat
      /\ Elems(queue') = Elems(queue) \cup {s}
  BY <1>1, ElemsAppend, ElemsType
<1>3. pc' \in [Calls -> PCs] /\ pc'[s] = "waiting" /\ \A t \in Calls \ {s} : pc'[t] = pc[t]
  BY <1>1 DEF PCs, Inside
<1>4. Data'
  BY <1>1, <1>2, <1>3 DEF Kept, Data
<1>5. Room'
  BY <1>2, ConstantsAssumption DEF Full, Room
<1>6. Blocked'
  BY <1>1, <1>3 DEF Kept, Blocked
<1>7. InHand'
  <2>1. wpc = "close" => current \in Calls /\ future[current] # Pending
    BY DEF Kept, InHand
  <2>2. current # s
    BY DEF Kept, Owned
  <2>3. wpc = "close" => future'[current] # Pending
    BY <2>1, <2>2
  <2> QED BY <2>3 DEF Kept, InHand
<1>8. Owned' /\ Owed' /\ Real'
  BY <1>2, <1>3 DEF Kept, Owned, Owed, Real
<1>9. Promised'
  <2>1. /\ IsFiniteSet(WokenCalls')
        /\ Cardinality(WokenCalls') =
             IF pc[s] = "woken" THEN Cardinality(WokenCalls) - 1 ELSE Cardinality(WokenCalls)
        /\ Cardinality(WokenCalls) \in Nat /\ Cardinality(WokenCalls') \in Nat
    BY <1>1, WokenMoves DEF PCs, Inside
  <2>2. Len(queue') + Cardinality(WokenCalls') >= Len(queue) + Cardinality(WokenCalls)
    BY <1>2, <2>1
  <2>3. putters # <<>> => Len(queue) + Cardinality(WokenCalls) >= MaxQueue
    BY DEF Kept, Promised, NoLostWakeup
  <2>4. putters' # <<>> => Len(queue') + Cardinality(WokenCalls') >= MaxQueue
    BY <1>1, <1>2, <2>1, <2>2, <2>3, ConstantsAssumption
  <2> QED BY <2>1, <2>4 DEF Promised, NoLostWakeup
<1> QED BY <1>4, <1>5, <1>6, <1>7, <1>8, <1>9 DEF Kept

\* put() blocks, for the first time or again.
LEMMA BlockStep ==
  ASSUME Kept, Flags', NEW s \in Calls, pc[s] \in {"idle", "woken"}, Full,
         putters' = Append(putters, s), pc' = [pc EXCEPT ![s] = "putting"],
         UNCHANGED <<queue, wpc, current, written>>,
         future' \in [Calls -> Futures], \A t \in Calls \ {s} : future'[t] = future[t],
         future'[s] # "ok" \/ future'[s] = future[s],
         pc[s] = "woken" => future'[s] = future[s]
  PROVE  Kept'
<1>1. queue \in Seq(Calls) /\ pc \in [Calls -> PCs] /\ putters \in Seq(Calls) /\ Len(queue) \in Nat
  BY ElemsType DEF Kept, Data
<1>2. s \notin Elems(putters) /\ Distinct(putters)
  BY DEF Kept, Blocked
<1>3. /\ putters' \in Seq(Calls) /\ Elems(putters') = Elems(putters) \cup {s}
      /\ Distinct(putters')
  BY <1>1, <1>2, ElemsAppend
<1>4. pc' \in [Calls -> PCs] /\ pc'[s] = "putting" /\ \A t \in Calls \ {s} : pc'[t] = pc[t]
  BY <1>1 DEF PCs, Inside
<1>5. Data' /\ Room'
  BY <1>1, <1>3, <1>4 DEF Kept, Data, Room
<1>6. Blocked'
  BY <1>3, <1>4 DEF Kept, Blocked
<1>7. InHand'
  BY ConstantsAssumption DEF Kept, InHand, Owned
<1>8. Owned' /\ Owed' /\ Real'
  BY <1>4 DEF Kept, Owned, Owed, Real
<1>9. Promised'
  <2>1. IsFiniteSet(WokenCalls') /\ Cardinality(WokenCalls') \in Nat
    BY WokenMoves DEF PCs, Inside
  <2>2. Len(queue') >= MaxQueue /\ Len(queue') \in Nat
    BY <1>1 DEF Full
  <2>3. Len(queue') + Cardinality(WokenCalls') >= MaxQueue
    BY <2>1, <2>2, ConstantsAssumption
  <2> QED BY <2>1, <2>3 DEF Promised, NoLostWakeup
<1> QED BY <1>5, <1>6, <1>7, <1>8, <1>9 DEF Kept

\* A call ends while it is neither blocked nor woken.
LEMMA EndStep ==
  ASSUME Kept, Flags', NEW s \in Calls, pc[s] \in {"idle", "waiting"},
         NEW v \in {"raised", "returned"}, pc' = [pc EXCEPT ![s] = v],
         v = "returned" => s \in written,
         UNCHANGED <<queue, putters, wpc, current, written>>,
         future' \in [Calls -> Futures], \A t \in Calls \ {s} : future'[t] = future[t],
         future'[s] # "ok" \/ future'[s] = future[s],
         pc[s] = "waiting" => future'[s] # Pending \/ future'[s] = future[s]
  PROVE  Kept'
<1>1. pc \in [Calls -> PCs]
  BY DEF Kept, Data
<1>2. pc' \in [Calls -> PCs] /\ pc'[s] = v /\ \A t \in Calls \ {s} : pc'[t] = pc[t]
  BY <1>1 DEF PCs, Inside
<1>3. Data' /\ Room'
  BY <1>2 DEF Kept, Data, Room
<1>4. Blocked'
  BY <1>2 DEF Kept, Blocked
<1>5. InHand'
  BY ConstantsAssumption DEF Kept, InHand, Owned
<1>6. Owned' /\ Owed' /\ Real'
  BY <1>2 DEF Kept, Owned, Owed, Real
<1>7. Promised'
  <2>1. WokenCalls' = WokenCalls
    BY <1>1, <1>2 DEF WokenCalls
  <2> QED BY <2>1 DEF Kept, Promised, NoLostWakeup
<1> QED BY <1>3, <1>4, <1>5, <1>6, <1>7 DEF Kept

LEMMA RefuseStep ==
  ASSUME Kept, NEW s \in Calls, Refuse(s)
  PROVE  Kept'
<1>1. Flags' /\ Data
  BY DEF Kept, Flags, Refuse
<1> QED BY <1>1, EndStep DEF Refuse, Data

LEMMA QueueFrameStep ==
  ASSUME Kept, NEW s \in Calls, QueueFrame(s)
  PROVE  Kept'
<1>1. /\ UNCHANGED <<wpc, current, written>> /\ pc[s] = "idle"
      /\ future' = [future EXCEPT ![s] = Pending]
  BY DEF QueueFrame
<1>2. Flags' /\ Data
  BY DEF Kept, Flags, QueueFrame
<1>3. /\ future' \in [Calls -> Futures] /\ \A t \in Calls \ {s} : future'[t] = future[t]
      /\ future'[s] # "ok"
  BY <1>1, <1>2 DEF Data, Futures, Pending
<1>4. CASE ~Full /\ Put(s)
  BY <1>1, <1>2, <1>3, <1>4, PutStep
<1>5. CASE /\ Full /\ putters' = Append(putters, s) /\ UNCHANGED queue
           /\ pc' = [pc EXCEPT ![s] = "putting"]
  BY <1>1, <1>2, <1>3, <1>5, BlockStep
<1>6. CASE Full /\ pc' = [pc EXCEPT ![s] = "raised"] /\ UNCHANGED <<queue, putters>>
  BY <1>1, <1>2, <1>3, <1>6, EndStep
<1> QED BY <1>4, <1>5, <1>6 DEF QueueFrame

LEMMA PutterRunsStep ==
  ASSUME Kept, NEW s \in Calls, PutterRuns(s)
  PROVE  Kept'
<1>1. UNCHANGED <<wpc, current, written, future>> /\ pc[s] = "woken"
  BY DEF PutterRuns
<1>2. Flags' /\ Data
  BY DEF Kept, Flags, PutterRuns
<1>3. CASE Full
  BY <1>1, <1>2, <1>3, BlockStep DEF PutterRuns, Data
<1>4. CASE ~Full
  BY <1>1, <1>2, <1>4, PutStep DEF PutterRuns, Data
<1> QED BY <1>3, <1>4

LEMMA FutureReturnsStep ==
  ASSUME Kept, NEW s \in Calls, FutureReturns(s)
  PROVE  Kept'
<1>1. /\ UNCHANGED <<queue, putters, wpc, current, written, future>> /\ pc[s] = "waiting"
      /\ pc' = [pc EXCEPT ![s] = IF future[s] = "ok" THEN "returned" ELSE "raised"]
  BY DEF FutureReturns
<1>2. Flags' /\ Data
  BY DEF Kept, Flags, FutureReturns
<1>3. CASE future[s] = "ok"
  <2>1. s \in written
    BY <1>3 DEF Kept, Real
  <2> QED BY <1>1, <1>2, <1>3, <2>1, EndStep DEF Data
<1>4. CASE future[s] # "ok"
  BY <1>1, <1>2, <1>4, EndStep DEF Data
<1> QED BY <1>3, <1>4

LEMMA CallCancelledStep ==
  ASSUME Kept, NEW s \in Calls, CallCancelled(s)
  PROVE  Kept'
<1>1. UNCHANGED <<queue, wpc, current, written>>
  BY DEF CallCancelled
<1>2. Flags' /\ Data
  BY DEF Kept, Flags, CallCancelled
<1>3. CASE /\ pc[s] = "putting" /\ putters' = Without(s) /\ UNCHANGED future
           /\ pc' = [pc EXCEPT ![s] = "raised"]
  <2>1. s \in Elems(putters) /\ Distinct(putters)
    BY <1>3 DEF Kept, Blocked
  <2>2. /\ putters' \in Seq(Calls) /\ Distinct(putters')
        /\ Elems(putters') = Elems(putters) \ {s}
    BY <1>2, <1>3, <2>1, WithoutRemoves DEF Data
  <2>3. pc' \in [Calls -> PCs] /\ pc'[s] = "raised" /\ \A t \in Calls \ {s} : pc'[t] = pc[t]
    BY <1>2, <1>3 DEF Data, PCs, Inside
  <2>4. Data' /\ Room' /\ InHand'
    BY <1>1, <1>2, <1>3, <2>2, <2>3 DEF Kept, Data, Room, InHand
  <2>5. Blocked'
    BY <2>2, <2>3 DEF Kept, Blocked
  <2>6. Owned' /\ Owed' /\ Real'
    BY <1>1, <1>3, <2>3 DEF Kept, Owned, Owed, Real
  <2>7. Promised'
    <3>1. WokenCalls' = WokenCalls
      BY <1>2, <1>3, <2>3 DEF WokenCalls
    <3>2. putters # <<>>
      BY <2>1, EmptySeq DEF Elems
    <3> QED BY <1>1, <3>1, <3>2 DEF Kept, Promised, NoLostWakeup
  <2> QED BY <1>2, <2>4, <2>5, <2>6, <2>7 DEF Kept
<1>4. CASE /\ pc[s] = "woken" /\ UNCHANGED future
           /\ \E n \in {0, 1} :
                /\ Full <=> n = 0
                /\ pc' = Wake([pc EXCEPT ![s] = "raised"], WokenBy(n))
                /\ putters' = PuttersAfter(n)
  <2> DEFINE p == [pc EXCEPT ![s] = "raised"]
             B == {t \in Calls : p[t] = "woken"}
  <2>1. PICK n \in {0, 1} : /\ Full <=> n = 0
                            /\ pc' = Wake(p, WokenBy(n)) /\ putters' = PuttersAfter(n)
    BY <1>4
  <2>2. /\ p \in [Calls -> PCs] /\ p[s] = "raised" /\ \A t \in Calls \ {s} : p[t] = pc[t]
    BY <1>2 DEF Data, PCs, Inside
  <2>3. B = WokenCalls \ {s} /\ s \in WokenCalls /\ IsFiniteSet(WokenCalls)
    BY <1>4, <2>2 DEF WokenCalls, Kept, Promised
  <2>4. /\ IsFiniteSet(B) /\ Cardinality(B) = Cardinality(WokenCalls) - 1
        /\ Cardinality(WokenCalls) \in Nat /\ Cardinality(B) \in Nat
    BY <2>3, FS_RemoveElement, FS_CardinalityType
  <2>5. \A t \in Calls : (p[t] = "putting") <=> (pc[t] = "putting")
    BY <1>4, <2>2
  <2> HIDE DEF p
  <2>6. /\ pc' \in [Calls -> PCs] /\ putters' \in Seq(Calls) /\ Blocked'
        /\ \A t \in Calls : pc'[t] = p[t] \/ (pc'[t] = "woken" /\ p[t] = "putting")
        /\ IsFiniteSet(WokenCalls')
        /\ putters' # <<>> =>
             Cardinality(WokenCalls') = Cardinality(B) + n /\ putters # <<>>
    <3>1. n \in Nat
      BY <2>1
    <3> QED BY <2>1, <2>2, <2>4, <2>5, <3>1, WakeKeeps
  <2> HIDE DEF B
  <2>7. Data' /\ Room' /\ InHand'
    BY <1>1, <1>2, <1>4, <2>6 DEF Kept, Data, Room, InHand
  <2>8. Owned' /\ Owed' /\ Real'
    BY <1>1, <1>4, <2>2, <2>6 DEF Kept, Owned, Owed, Real
  <2>9. Promised'
    <3>1. Len(queue) \in Nat /\ MaxQueue \in Nat
      BY <1>2, ElemsType, ConstantsAssumption DEF Data
    <3>2. putters # <<>> => Len(queue) + Cardinality(WokenCalls) >= MaxQueue
      BY DEF Kept, Promised, NoLostWakeup
    <3>3. CASE n = 0
      <4>1. Len(queue) >= MaxQueue
        BY <2>1, <3>3 DEF Full
      <4>2. Cardinality(WokenCalls') \in Nat
        BY <2>6, FS_CardinalityType
      <4>3. Len(queue') + Cardinality(WokenCalls') >= MaxQueue
        BY <1>1, <3>1, <4>1, <4>2
      <4> QED BY <2>6, <4>3 DEF Promised, NoLostWakeup
    <3>4. CASE n = 1
      <4>1. putters' # <<>> => Len(queue') + Cardinality(WokenCalls') >= MaxQueue
        BY <1>1, <2>4, <2>6, <3>1, <3>2, <3>4
      <4> QED BY <2>6, <4>1 DEF Promised, NoLostWakeup
    <3> QED BY <2>1, <3>3, <3>4
  <2> QED BY <1>2, <2>6, <2>7, <2>8, <2>9 DEF Kept
<1>5. CASE /\ pc[s] = "waiting" /\ UNCHANGED putters
           /\ future' = [future EXCEPT ![s] = IF @ = Pending THEN "cancelled" ELSE @]
           /\ pc' = [pc EXCEPT ![s] = "raised"]
  <2>1. /\ future' \in [Calls -> Futures] /\ \A t \in Calls \ {s} : future'[t] = future[t]
        /\ future'[s] # Pending /\ (future'[s] # "ok" \/ future'[s] = future[s])
    BY <1>2, <1>5 DEF Data, Futures, Pending
  <2> QED BY <1>1, <1>2, <1>5, <2>1, EndStep
<1> QED BY <1>3, <1>4, <1>5 DEF CallCancelled

-----------------------------------------------------------------------------
(* The theorems *)

LEMMA StepKept == Kept /\ [Next]_vars => Kept'
<1> SUFFICES ASSUME Kept, [Next]_vars PROVE Kept'
  OBVIOUS
<1>1. ASSUME NEW s \in Calls, Refuse(s) \/ QueueFrame(s) \/ CallStep(s) \/ CallCancelled(s)
      PROVE  Kept'
  BY <1>1, RefuseStep, QueueFrameStep, PutterRunsStep, FutureReturnsStep, CallCancelledStep
     DEF CallStep
<1>2. CASE WriterStep \/ SendStep
  BY <1>2, WriterStartsStep, WriterGetsStep, WriterClosedStep, WriterCancelledStep,
     SendDoneStep, SendFailsStep DEF WriterStep, SendStep
<1>3. CASE OutboundFinished \/ ConnectionCloses \/ \E k \in Teardowns : TeardownStarts(k)
  BY <1>3, QuietSteps
<1>4. CASE Stop \/ \E k \in Teardowns : TeardownEnds(k)
  BY <1>4, StopStep, TeardownEndsStep
<1>5. CASE UNCHANGED vars
  BY <1>5, FlagsStep DEF vars, Kept, Flags
<1> QED BY <1>1, <1>2, <1>3, <1>4, <1>5 DEF Next

LEMMA KeptHolds == Spec => []Kept
BY InitKept, StepKept, PTL DEF Spec

\* The channel's state keeps its type, and its queue never exceeds max_outbound_queue.
THEOREM TypeCorrect == Spec => []TypeOK
<1>1. Kept => TypeOK
  BY TypesAgree DEF Kept
<1> QED BY <1>1, KeptHolds, PTL

\* A call of _queue_frame returns normally only if its frame was written in full.
THEOREM SuccessIsReal == Spec => []ReturnedMeansWritten
<1>1. Kept => ReturnedMeansWritten
  BY DEF Kept, Real, ReturnedMeansWritten
<1> QED BY <1>1, KeptHolds, PTL

\* No call is lost between the deque of putters, the queue and the writer.
THEOREM NothingIsLost == Spec => []Accounted
<1>1. Kept => Accounted
  BY DEF Kept, Blocked, Owed, Accounted
<1> QED BY <1>1, KeptHolds, PTL

\* While a call is blocked every free slot is promised to a call that was woken,
\* however cancellations, draining and writes interleave.
THEOREM WakeupsAreNotLost == Spec => []NoLostWakeup
<1>1. Kept => NoLostWakeup
  BY DEF Kept, Promised
<1> QED BY <1>1, KeptHolds, PTL
=============================================================================
