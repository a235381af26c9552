--------------------------- MODULE DiscoveryProofs ---------------------------
(***************************************************************************)
(* What discovery caches and what the node knows of it are right for any    *)
(* finite set of peers, cache limit, TTLs and number of restarts.           *)
(***************************************************************************)
EXTENDS Discovery, FiniteSetTheorems, TLAPS

LEMMA Constants ==
  /\ MaxPeers \in Nat \ {0} /\ CacheTtl \in Nat /\ NodeTtl \in Nat /\ MaxAddr \in Nat
  /\ MaxAddr >= 1 /\ MaxGen \in Nat /\ Old \in Nat
  /\ IsFiniteSet(Peers) /\ None \notin Peers
  /\ None # Shared /\ None \notin Obs /\ Shared \notin Obs
<1>1. Obs \subseteq [addr : Nat, age : Nat, gen : Nat, given : Nat]
  BY DiscoveryAssumption DEF Obs, Addr, Old
<1> QED
  BY <1>1, DiscoveryAssumption DEF Old

\* The entries of a cache, and the limit on them.
Entries(c) == {p \in Peers : c[p] # None}

LEMMA EntriesFinite ==
  ASSUME NEW c PROVE IsFiniteSet(Entries(c)) /\ Cardinality(Entries(c)) \in Nat
BY Constants, FS_Subset, FS_CardinalityType DEF Entries

\* Dropping entries keeps the limit.
LEMMA FewerEntries ==
  ASSUME NEW c, NEW d, Entries(d) \subseteq Entries(c), Cardinality(Entries(c)) <= MaxPeers
  PROVE  Cardinality(Entries(d)) <= MaxPeers
BY Constants, EntriesFinite, FS_Subset

\* Admitting a peer where there is room keeps it too.
LEMMA OneMoreEntry ==
  ASSUME NEW c, NEW d, NEW p \in Peers, Entries(d) \subseteq Entries(c) \cup {p}, ~Full(c)
  PROVE  Cardinality(Entries(d)) <= MaxPeers
<1>1. Cardinality(Entries(c)) < MaxPeers
  BY Constants, EntriesFinite DEF Full, Entries
<1>2. /\ IsFiniteSet(Entries(c) \cup {p})
      /\ Cardinality(Entries(c) \cup {p}) <= Cardinality(Entries(c)) + 1
  BY EntriesFinite, FS_AddElement
<1>3. Cardinality(Entries(d)) <= Cardinality(Entries(c) \cup {p})
  BY <1>2, FS_Subset
<1> QED
  BY <1>1, <1>2, <1>3, EntriesFinite, Constants, FS_CardinalityType

-----------------------------------------------------------------------------
(* Type correctness *)

\* There is an observation to dial with only while a connect() call is in progress.
Dialling == dialled = None => dial = None

LEMMA ObservedType ==
  ASSUME TypeOK, NEW a \in Addr PROVE Observed(a) \in Obs /\ Observed(a) # None
BY Constants DEF TypeOK, Observed, Obs

LEMMA DerefKnown ==
  ASSUME TypeOK, NEW p \in Peers, known[p] # None
  PROVE  Deref(known[p], p) \in Obs
BY Constants DEF TypeOK, Deref

LEMMA DerefDial ==
  ASSUME TypeOK, Dialling, dial # None
  PROVE  dialled \in Peers /\ Deref(dial, dialled) \in Obs
BY Constants DEF TypeOK, Deref, Dialling

LEMMA OlderType ==
  ASSUME NEW o \in Obs \cup {None, Shared}
  PROVE  /\ Older(o) \in Obs \cup {None, Shared}
         /\ o \in Obs => Older(o) \in Obs
         /\ o \in {None, Shared} => Older(o) = o
<1>1. CASE o \in Obs
  <2>1. o \notin {None, Shared} /\ o.age \in 0..Old
    BY <1>1, Constants DEF Obs
  <2>2. (IF o.age < Old THEN o.age + 1 ELSE Old) \in 0..Old
    BY <2>1, Constants
  <2> QED BY <1>1, <2>1, <2>2, Constants DEF Obs, Older
<1>2. CASE o \in {None, Shared}
  BY <1>2, Constants DEF Older
<1> QED BY <1>1, <1>2

LEMMA HandedType ==
  ASSUME TypeOK, NEW p \in Peers, NEW x \in Handed(p)
  PROVE  (x \in Obs /\ x.given = gen) \/ (x = Shared /\ cache[p] # None)
<1>1. CASE x = Shared /\ cache[p] # None
  BY <1>1
<1>2. ASSUME NEW o \in Own, x = [addr |-> o[2], age |-> o[3], gen |-> 0, given |-> gen]
      PROVE  x \in Obs /\ x.given = gen
  <2>1. o[2] \in Addr /\ o[3] \in 0..NodeTtl
    BY DiscoveryAssumption DEF Addr
  <2>2. o[3] \in 0..Old
    BY <2>1, Constants DEF Old
  <2> QED BY <1>2, <2>1, <2>2, Constants DEF TypeOK, Obs
<1> QED BY <1>1, <1>2 DEF Handed

\* The part of TypeOK that is about the observations.
Observations ==
  /\ cache \in [Peers -> Obs \cup {None}]
  /\ known \in [Peers -> Obs \cup {None, Shared}]
  /\ \A p \in Peers : known[p] = Shared => cache[p] # None
  /\ dial \in Obs \cup {None, Shared}
  /\ dial = Shared => cache[dialled] # None

\* References to the entries that the cache drops keep the object as it was.
LEMMA DropType ==
  ASSUME TypeOK, Dialling, NEW S \in SUBSET Peers, cache' = Dropped(S), Detached(S),
         dialled' = dialled
  PROVE  Observations' /\ Dialling' /\ Entries(cache') \subseteq Entries(cache)
<1>1. cache' \in [Peers -> Obs \cup {None}]
  BY DEF TypeOK, Dropped
<1>2. \A p \in Peers : /\ known'[p] \in Obs \cup {None, Shared}
                       /\ known'[p] = Shared => p \notin S /\ known[p] = Shared
  BY Constants DEF TypeOK, Detached, Deref
<1>3. known' \in [Peers -> Obs \cup {None, Shared}]
  BY <1>2 DEF Detached
<1>4. /\ dial' \in Obs \cup {None, Shared}
      /\ dial' = Shared => dialled \in Peers \ S /\ dial = Shared
      /\ dial = None => dial' = None
  BY Constants DEF TypeOK, Detached, Deref, Dialling
<1>5. Observations'
  BY <1>1, <1>2, <1>3, <1>4 DEF Observations, TypeOK, Dropped
<1>6. Entries(cache') \subseteq Entries(cache)
  BY DEF Entries, Dropped
<1> QED
  BY <1>4, <1>5, <1>6 DEF Dialling

\* What is left of TypeOK.
Rest ==
  /\ running \in BOOLEAN /\ gen \in 0..MaxGen /\ disc \in {"stopped", "started", "stopping"}
  /\ dialled \in Peers \cup {None} /\ call \in 0..MaxGen
  /\ up \subseteq Peers /\ addr \in [Peers -> Addr] /\ late \subseteq Peers \X Addr

Limited == Cardinality(Entries(cache)) <= MaxPeers

Typed == Rest /\ Observations /\ Limited /\ Dialling

LEMMA TypeParts == Typed <=> TypeOK /\ Dialling
BY DEF TypeOK, Typed, Rest, Observations, Limited, Entries

LEMMA TypedInit == Init => Typed
<1> SUFFICES ASSUME Init PROVE Typed
  OBVIOUS
<1> USE Constants DEF Init
<1>1. Entries(cache) = {}
  BY DEF Entries, Empty
<1>2. Limited
  BY <1>1, FS_EmptySet DEF Limited
<1>3. /\ cache \in [Peers -> Obs \cup {None}] /\ known \in [Peers -> Obs \cup {None, Shared}]
      /\ \A p \in Peers : known[p] # Shared
  BY DEF Empty
<1>4. addr \in [Peers -> Addr]
  BY DEF Addr
<1>a. gen \in 0..MaxGen /\ call \in 0..MaxGen
  OBVIOUS
<1>b. late \subseteq Peers \X Addr /\ up \subseteq Peers
  OBVIOUS
<1>5. Rest
  BY <1>4, <1>a, <1>b DEF Rest
<1>6. Observations /\ Dialling
  BY <1>3 DEF Observations, Dialling
<1> QED
  BY <1>2, <1>5, <1>6 DEF Typed

LEMMA HandleAnnounceType ==
  ASSUME TypeOK, Dialling, NEW p \in Peers, NEW a \in Addr, HandleAnnounce(p, a),
         dialled' = dialled
  PROVE  Observations' /\ Dialling' /\ Cardinality(Entries(cache')) <= MaxPeers
<1>0. Rest /\ Observations /\ Limited
  BY TypeParts DEF Typed
<1> USE <1>0, Constants DEF Limited
<1>1. CASE cache[p] # None
  <2>1. cache' = [cache EXCEPT ![p] = Observed(a)] /\ known' = known /\ dial' = dial
    BY <1>1 DEF HandleAnnounce, Refreshed
  <2>2. Observations' /\ Entries(cache') \subseteq Entries(cache)
    BY <1>1, <2>1, ObservedType DEF Observations, Entries
  <2> QED BY <2>1, <2>2, FewerEntries DEF Dialling
<1>2. CASE cache[p] = None /\ Full(Dropped(Expired))
  <2>1. cache' = Dropped(Expired) /\ Detached(Expired) /\ Expired \in SUBSET Peers
    BY <1>2 DEF HandleAnnounce, Expired
  <2> QED BY <2>1, DropType, FewerEntries
<1>3. CASE cache[p] = None /\ ~Full(Dropped(Expired))
  <2> DEFINE kept == Dropped(Expired)
  <2>1. cache' = [kept EXCEPT ![p] = Observed(a)] /\ Detached(Expired)
    BY <1>3 DEF HandleAnnounce
  <2>2. kept \in [Peers -> Obs \cup {None}]
    BY DEF Dropped, Observations
  <2>3. cache' \in [Peers -> Obs \cup {None}] /\ cache'[p] # None
        /\ \A q \in Peers \ {p} : cache'[q] = kept[q]
    BY <2>1, <2>2, ObservedType
  <2>4. Cardinality(Entries(cache')) <= MaxPeers
    BY <1>3, <2>3, OneMoreEntry DEF Entries
  <2>5. \A q \in Peers : /\ known'[q] \in Obs \cup {None, Shared}
                         /\ known'[q] = Shared => q \notin Expired /\ cache[q] # None
    BY <2>1 DEF Observations, Detached, Deref
  <2>6. known' \in [Peers -> Obs \cup {None, Shared}]
    BY <2>1, <2>5 DEF Detached
  <2>7. /\ dial' \in Obs \cup {None, Shared}
        /\ dial' = Shared => dialled \in Peers \ Expired /\ cache[dialled] # None
        /\ dial = None => dial' = None
    BY <2>1 DEF Observations, Rest, Detached, Deref, Dialling
  <2>8. \A q \in Peers \ Expired : cache[q] # None => cache'[q] # None
    BY <2>3 DEF Dropped
  <2> QED BY <2>3, <2>4, <2>5, <2>6, <2>7, <2>8 DEF Observations, Dialling
<1> QED BY <1>1, <1>2, <1>3

LEMMA RememberedType ==
  ASSUME NEW p, NEW x, NEW keep PROVE Remembered(p, x, keep) \in {known[p], x}
BY DEF Remembered

\* No step leaves the types: the cache respects its limit, and nobody refers to an
\* object that the cache has dropped.
LEMMA TypedStep == Typed /\ [Next]_vars => Typed'
<1> SUFFICES ASSUME Typed, [Next]_vars PROVE Typed'
  OBVIOUS
<1>0. TypeOK
  BY TypeParts
<1> USE Constants DEF Typed, Rest, Limited, local, remote
<1>1. ASSUME NEW p \in Peers, Announced(p) PROVE Typed'
  BY <1>0, <1>1, HandleAnnounceType DEF Announced
<1>2. ASSUME NEW p \in Peers, NEW a \in Addr, AnnouncedLate(p, a) PROVE Typed'
  BY <1>0, <1>2, HandleAnnounceType DEF AnnouncedLate
<1>3. ASSUME NEW p \in Peers, Comes(p) PROVE Typed'
  BY <1>0, <1>3 DEF Comes, Observations, Dialling
<1>4. ASSUME NEW p \in Peers, Goes(p) PROVE Typed'
  <2>1. addr' \in [Peers -> Addr] /\ late' \subseteq Peers \X Addr /\ up' \subseteq Peers
    BY <1>0, <1>4 DEF Goes, Addr
  <2> QED BY <1>0, <1>4, <2>1 DEF Goes, Observations, Dialling
<1>5. ASSUME NEW p \in Peers, NEW a \in Addr, Lost(p, a) PROVE Typed'
  BY <1>0, <1>5 DEF Lost, Observations, Dialling
<1>6. CASE Tick
  <2>1. \A p \in Peers : /\ cache'[p] \in Obs \cup {None}
                         /\ cache[p] = None <=> cache'[p] = None
                         /\ known'[p] \in Obs \cup {None, Shared}
                         /\ known'[p] = Shared <=> known[p] = Shared
    BY <1>0, <1>6, OlderType DEF Tick, Observations
  <2>2. /\ dial' \in Obs \cup {None, Shared}
        /\ dial' = Shared => dial = Shared
        /\ dial = None => dial' = None
    BY <1>0, <1>6, OlderType DEF Tick, Observations
  <2>3. cache' \in [Peers -> Obs \cup {None}] /\ known' \in [Peers -> Obs \cup {None, Shared}]
    BY <1>6, <2>1 DEF Tick
  <2>4. Entries(cache') \subseteq Entries(cache)
    BY <2>1 DEF Entries
  <2>5. Cardinality(Entries(cache')) <= MaxPeers
    BY <1>0, <2>4, FewerEntries
  <2>6. dial = Shared => dialled \in Peers
    BY <1>0 DEF Dialling
  <2>7. Observations' /\ Dialling'
    BY <1>6, <2>1, <2>2, <2>3, <2>6 DEF Tick, Observations, Dialling
  <2>8. Rest'
    BY <1>6 DEF Tick
  <2> QED BY <2>5, <2>7, <2>8
<1>7. CASE Discover
  BY <1>0, <1>7 DEF Discover, Observations, Dialling
<1>8. CASE DiscoverFails
  BY <1>0, <1>8 DEF DiscoverFails, Observations, Dialling
<1>9. CASE DiscoverDone
  <2>1. cache' = Dropped(Expired) /\ Expired \in SUBSET Peers
    BY <1>9 DEF DiscoverDone, Expired
  <2>2. cache' \in [Peers -> Obs \cup {None}] /\ Entries(cache') \subseteq Entries(cache)
    BY <1>0, <2>1 DEF Dropped, Observations, Entries
  <2>3. /\ dial' \in Obs \cup {None, Shared}
        /\ dial' = Shared => dialled \in Peers \ Expired /\ cache[dialled] # None
        /\ dial = None => dial' = None
    BY <1>0, <1>9 DEF DiscoverDone, Observations, Deref, Dialling
  <2>4. PICK keep \in SUBSET Peers :
          known' = [p \in Peers |->
            IF p \in Expired THEN Deref(known[p], p)
            ELSE IF StillCurrent /\ cache[p] # None /\ IsFresh(cache[p], NodeTtl)
            THEN Remembered(p, Shared, p \in keep)
            ELSE known[p]]
    BY <1>9 DEF DiscoverDone
  <2>5. ASSUME NEW p \in Peers
        PROVE  /\ known'[p] \in Obs \cup {None, Shared}
               /\ known'[p] = Shared => p \notin Expired /\ cache[p] # None
    <3>1. CASE p \in Expired
      BY <1>0, <2>4, <3>1 DEF Observations, Deref
    <3>2. CASE p \notin Expired
      BY <1>0, <2>4, <3>2, RememberedType DEF Observations
    <3> QED BY <3>1, <3>2
  <2>6. known' \in [Peers -> Obs \cup {None, Shared}]
    BY <2>4, <2>5
  <2>7. \A q \in Peers \ Expired : cache'[q] = cache[q]
    BY <2>1 DEF Dropped
  <2>8. Cardinality(Entries(cache')) <= MaxPeers
    BY <1>0, <2>2, FewerEntries
  <2> QED BY <1>9, <2>2, <2>3, <2>5, <2>6, <2>7, <2>8
          DEF DiscoverDone, Observations, Dialling
<1>10. ASSUME NEW p \in Peers, Connect(p) PROVE Typed'
  BY <1>0, <1>10 DEF Connect, Dial, Observations, Dialling
<1>a. ASSUME NEW p \in Peers, ConnectTo(p) PROVE Typed'
  <2>1. PICK x \in Handed(p) : Dial(p, x)
    BY <1>a DEF ConnectTo
  <2> QED BY <1>0, <2>1, HandedType DEF Dial, Observations, Dialling
<1>11. CASE ConnectDone
  <2>1. CASE known' = known
    BY <1>0, <1>11, <2>1 DEF ConnectDone, Observations, Dialling
  <2>2. ASSUME NEW keep \in BOOLEAN,
               known' = [known EXCEPT ![dialled] = Remembered(dialled, dial, keep)]
        PROVE  Typed'
    <3>1. Remembered(dialled, dial, keep) \in {known[dialled], dial} /\ dialled \in Peers
      BY <1>0, <1>11, RememberedType DEF ConnectDone
    <3> QED BY <1>0, <1>11, <2>2, <3>1 DEF ConnectDone, Observations, Dialling
  <2> QED BY <1>11, <2>1, <2>2 DEF ConnectDone
<1>12. CASE Start \/ Stop
  <2>1. Rest'
    <3>1. gen' \in 0..MaxGen
      BY <1>12 DEF Start, Stop
    <3> QED BY <1>12, <3>1 DEF Start, Stop
  <2>2. Observations' /\ Limited' /\ Dialling'
    BY <1>12 DEF Start, Stop, Observations, Dialling
  <2> QED BY <2>1, <2>2
<1>13. CASE StopKnown
  BY <1>0, <1>13 DEF StopKnown, Observations, Dialling, Empty
<1>14. CASE StopDone
  <2>1. cache' = Dropped(Peers) /\ Detached(Peers) /\ dialled' = dialled
    BY <1>14 DEF StopDone, Dropped, Empty
  <2> QED BY <1>0, <1>14, <2>1, DropType, FewerEntries DEF StopDone
<1>15. CASE UNCHANGED vars
  BY <1>0, <1>15 DEF vars, Observations, Dialling
<1> QED
  BY <1>1, <1>2, <1>3, <1>4, <1>5, <1>6, <1>7, <1>8, <1>9, <1>10, <1>11, <1>12, <1>13,
     <1>14, <1>15, <1>a DEF Next

LEMMA TypedHolds == Spec => []Typed
BY TypedInit, TypedStep, PTL DEF Spec

\* The state stays well typed: the cache never exceeds max_discovered_peers, and nobody
\* refers to an object that the cache has dropped.
THEOREM TypeCorrect == Spec => []TypeOK
BY TypedHolds, TypeParts, PTL

-----------------------------------------------------------------------------
(* Nothing survives a stop *)

\* Discovery made the observation in this run, or the application handed it in.
OfThisRun(o) == gen \in {o.gen, o.given}

\* What NoGhosts rests on: an observation is of this run wherever it is kept, as the
\* last steps of stop() have emptied every place before the next start.
Current ==
  /\ running => disc = "started"
  /\ disc # "started" => dialled = None /\ \A p \in Peers : known[p] = None
  /\ disc = "stopped" => \A p \in Peers : cache[p] = None
  /\ \A p \in Peers : /\ cache[p] # None => cache[p].gen = gen
                      /\ known[p] # None => OfThisRun(Deref(known[p], p))
  /\ dial # None => OfThisRun(Deref(dial, dialled))

\* Announcements put observations of the current generation into the cache, and a
\* discover() or connect() call only passes on what is cached, known or handed in.
LEMMA CurrentStep == Typed /\ Current /\ [Next]_vars => Current'
<1> SUFFICES ASSUME Typed, Current, [Next]_vars PROVE Current'
  OBVIOUS
<1>0. TypeOK
  BY TypeParts
<1> USE Constants DEF Typed, Rest, Observations, Dialling, Current, OfThisRun, local, remote
<1>1. ASSUME NEW p \in Peers, NEW a \in Addr, HandleAnnounce(p, a), disc # "stopped",
             UNCHANGED <<local, dialled>>
      PROVE  Current'
  <2>1. CASE cache[p] # None
    BY <1>1, <2>1 DEF HandleAnnounce, Refreshed, Observed, Deref
  <2>2. CASE cache[p] = None
    <3>1. Detached(Expired) /\ Expired \subseteq Peers
      BY <1>1, <2>2 DEF HandleAnnounce, Expired
    <3>2. \A q \in Peers : cache'[q] \in {Dropped(Expired)[q], Observed(a)}
                           /\ (q # p => cache'[q] = Dropped(Expired)[q])
      BY <1>1, <2>2 DEF HandleAnnounce, Dropped
    <3>3. \A q \in Peers : cache'[q] # None => cache'[q].gen = gen
      BY <3>2 DEF Dropped, Observed
    <3>4. \A q \in Peers : known'[q] # None => known[q] # None /\ Deref(known[q], q)' = Deref(known[q], q)
      BY <2>2, <3>1, <3>2 DEF Detached, Deref, Dropped
    <3>5. dial' # None => dial # None /\ Deref(dial, dialled)' = Deref(dial, dialled)
      BY <1>1, <2>2, <3>1, <3>2 DEF Detached, Deref, Dropped
    <3> QED BY <1>1, <3>3, <3>4, <3>5
  <2> QED BY <2>1, <2>2
<1>2. ASSUME NEW p \in Peers, Announced(p) PROVE Current'
  BY <1>1, <1>2 DEF Announced, Listening
<1>3. ASSUME NEW p \in Peers, NEW a \in Addr, AnnouncedLate(p, a) PROVE Current'
  BY <1>1, <1>3 DEF AnnouncedLate, Listening
<1>4. ASSUME NEW p \in Peers, Comes(p) \/ Goes(p) \/ \E a \in Addr : Lost(p, a) PROVE Current'
  <2>1. UNCHANGED <<local, cache, known, dial, dialled>>
    BY <1>4 DEF Comes, Goes, Lost
  <2> QED BY <2>1 DEF Deref
<1>5. CASE Tick
  <2>1. \A o \in Obs : Older(o).gen = o.gen /\ Older(o).given = o.given
    BY DEF Older, Obs
  <2>2. \A o \in {None, Shared} : Older(o) = o
    BY DEF Older
  <2>3. \A o \in Obs : Older(o) \in Obs
    BY OlderType
  <2> QED BY <1>5, <2>1, <2>2, <2>3 DEF Tick, Deref
<1>6. CASE Discover \/ DiscoverFails
  BY <1>6 DEF Discover, DiscoverFails, Deref
<1>7. CASE DiscoverDone
  <2>1. \A q \in Peers : cache'[q] = IF q \in Expired THEN None ELSE cache[q]
    BY <1>7 DEF DiscoverDone, Dropped
  <2>2. dial' # None => dial # None /\ Deref(dial, dialled)' = Deref(dial, dialled)
    BY <1>7, <2>1 DEF DiscoverDone, Deref
  <2>3. ASSUME NEW p \in Peers, known'[p] # None
        PROVE  /\ gen \in {Deref(known[p], p)'.gen, Deref(known[p], p)'.given}
               /\ known[p] # None \/ StillCurrent
    <3>1. CASE p \in Expired
      BY <1>7, <2>1, <2>3, <3>1 DEF DiscoverDone, Deref
    <3>2. CASE p \notin Expired
      BY <1>7, <2>1, <2>3, <3>2, RememberedType DEF DiscoverDone, Deref
    <3> QED BY <3>1, <3>2
  <2> QED BY <1>7, <2>1, <2>2, <2>3 DEF DiscoverDone, StillCurrent
<1>8. ASSUME NEW p \in Peers, Connect(p) PROVE Current'
  BY <1>8 DEF Connect, Dial, Deref
<1>a. ASSUME NEW p \in Peers, ConnectTo(p) PROVE Current'
  <2>1. PICK x \in Handed(p) : Dial(p, x)
    BY <1>a DEF ConnectTo
  <2> QED BY <1>0, <2>1, HandedType DEF Dial, Deref
<1>9. CASE ConnectDone
  <2>1. \A q \in Peers : known'[q] = known[q] \/ (q = dialled /\ known'[q] = dial)
    BY <1>9, RememberedType DEF ConnectDone
  <2> QED BY <1>9, <2>1 DEF ConnectDone, Deref
<1>10. CASE Start
  BY <1>10 DEF Start, Deref
<1>11. CASE Stop
  BY <1>11 DEF Stop, Deref
<1>12. CASE StopKnown
  BY <1>12 DEF StopKnown, Empty, Deref
<1>13. CASE StopDone
  BY <1>13 DEF StopDone, Empty, Detached, Deref
<1>14. CASE UNCHANGED vars
  BY <1>14 DEF vars, Deref
<1> QED
  BY <1>2, <1>3, <1>4, <1>5, <1>6, <1>7, <1>8, <1>9, <1>10, <1>11, <1>12, <1>13, <1>14,
     <1>a DEF Next

LEMMA CurrentHolds == Spec => []Current
<1>1. Init => Current
  BY Constants DEF Init, Current, OfThisRun, Empty
<1> QED
  BY <1>1, TypedHolds, CurrentStep, PTL DEF Spec

\* What a running node has cached or knows has been observed in this run, or handed to
\* connect() by the application in this run, whatever discover() and connect() calls
\* and announcements were under way when it was stopped.
THEOREM StopForgets == Spec => []NoGhosts
<1>1. Current => NoGhosts
  BY DEF Current, OfThisRun, NoGhosts
<1> QED
  BY <1>1, CurrentHolds, PTL

-----------------------------------------------------------------------------
(* The newest observation wins *)

\* What _known_peers holds for p is not replaced by something older.
NotOlder(p) ==
  known[p] # None /\ known'[p] # None => Deref(known[p], p)'.age <= Deref(known[p], p).age

\* _remember() compares ages, dropped objects stay as they were, and an announcement
\* only makes an object younger.
LEMMA NewestStep == Typed /\ [Next]_vars => Tick \/ \A p \in Peers : NotOlder(p)
<1> SUFFICES ASSUME Typed, [Next]_vars, ~Tick, NEW q \in Peers, known[q] # None, known'[q] # None
             PROVE  Deref(known[q], q)'.age <= Deref(known[q], q).age
  BY DEF NotOlder
<1>0. TypeOK
  BY TypeParts
<1>a. Deref(known[q], q) \in Obs
  BY <1>0, DerefKnown
<1>b. Deref(known[q], q).age \in Nat
  BY <1>a, Constants DEF Obs
<1>c. SUFFICES Deref(known[q], q)' = Deref(known[q], q)
               \/ Deref(known[q], q)'.age <= Deref(known[q], q).age
  BY <1>b
<1> USE Constants DEF Typed, Rest, Observations, Dialling, local, remote
<1>1. ASSUME NEW p \in Peers, NEW a \in Addr, HandleAnnounce(p, a)
      PROVE  Deref(known[q], q)' = Deref(known[q], q) \/ Deref(known[q], q)'.age = 0
  <2>1. CASE cache[p] # None
    BY <1>1, <2>1 DEF HandleAnnounce, Refreshed, Observed, Deref
  <2>2. CASE cache[p] = None
    <3>1. Detached(Expired)
      BY <1>1, <2>2 DEF HandleAnnounce
    <3>2. q # p => cache'[q] = Dropped(Expired)[q]
      BY <1>1, <2>2 DEF HandleAnnounce, Dropped
    <3> QED BY <2>2, <3>1, <3>2 DEF Detached, Deref, Dropped
  <2> QED BY <2>1, <2>2
<1>2. ASSUME NEW p \in Peers, Announced(p) \/ \E a \in Addr : AnnouncedLate(p, a)
      PROVE  Deref(known[q], q)'.age <= Deref(known[q], q).age
  <2>1. \E a \in Addr : HandleAnnounce(p, a)
    BY <1>2 DEF Announced, AnnouncedLate
  <2> QED BY <1>1, <1>b, <2>1
<1>3. ASSUME NEW p \in Peers,
             Comes(p) \/ Goes(p) \/ Connect(p) \/ ConnectTo(p) \/ \E a \in Addr : Lost(p, a)
      PROVE  Deref(known[q], q)' = Deref(known[q], q)
  BY <1>3 DEF Comes, Goes, Connect, ConnectTo, Dial, Lost, Deref
<1>4. CASE Discover \/ DiscoverFails \/ Start \/ Stop
  BY <1>4 DEF Discover, DiscoverFails, Start, Stop, Deref
<1>5. CASE DiscoverDone
  <2>1. cache'[q] = IF q \in Expired THEN None ELSE cache[q]
    BY <1>5 DEF DiscoverDone, Dropped
  <2>2. CASE q \in Expired
    BY <1>5, <2>1, <2>2 DEF DiscoverDone, Deref
  <2>3. CASE q \notin Expired /\ known'[q] = known[q]
    BY <2>1, <2>3 DEF Deref
  <2>4. CASE q \notin Expired /\ known'[q] # known[q]
    <3>1. /\ known'[q] = Shared /\ cache[q] \in Obs
          /\ ~(Deref(known[q], q).age < cache[q].age)
      BY <1>5, <2>4 DEF DiscoverDone, Remembered, Deref
    <3>2. Deref(known[q], q)' = cache[q]
      BY <2>1, <2>4, <3>1 DEF Deref
    <3>3. cache[q].age \in Nat
      BY <3>1 DEF Obs
    <3> QED BY <1>b, <3>1, <3>2, <3>3
  <2> QED BY <2>2, <2>3, <2>4
<1>6. CASE ConnectDone
  <2>1. CASE known'[q] = known[q]
    BY <1>6, <2>1 DEF ConnectDone, Deref
  <2>2. CASE known'[q] # known[q]
    <3>1. /\ known'[q] = dial /\ q = dialled
          /\ ~(Deref(known[q], q).age < Deref(dial, q).age)
      BY <1>6, <2>2 DEF ConnectDone, Remembered
    <3>2. Deref(dial, q) \in Obs
      BY <1>0, <3>1, DerefDial
    <3>3. Deref(known[q], q)' = Deref(dial, q) /\ Deref(dial, q).age \in Nat
      BY <1>6, <3>1, <3>2 DEF ConnectDone, Deref, Obs
    <3> QED BY <1>b, <3>1, <3>3
  <2> QED BY <2>1, <2>2
<1>7. CASE StopKnown
  BY <1>7 DEF StopKnown, Empty
<1>8. CASE StopDone
  BY <1>8 DEF StopDone, Detached, Deref
<1>9. CASE UNCHANGED vars
  BY <1>9 DEF vars, Deref
<1> QED
  BY <1>2, <1>3, <1>4, <1>5, <1>6, <1>7, <1>8, <1>9 DEF Next

\* What a connect() or discover() call puts into _known_peers is never older than the
\* observation it replaces, however late announcements, expiry and calls interleave.
THEOREM NewestObservationWins == Spec => NewestWins
<1>1. Typed /\ [Next]_vars => [Tick \/ \A p \in Peers : NotOlder(p)]_vars
  BY NewestStep
<1>2. [Tick \/ \A p \in Peers : NotOlder(p)]_vars
        => [Tick \/ \A p \in Peers :
              known[p] # None /\ known'[p] # None =>
                Deref(known[p], p)'.age <= Deref(known[p], p).age]_vars
  BY DEF NotOlder
<1> QED
  BY <1>1, <1>2, TypedHolds, PTL DEF Spec, NewestWins
=============================================================================
