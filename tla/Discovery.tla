------------------------------ MODULE Discovery ------------------------------
(***************************************************************************)
(* LAN discovery as one node lives it (lan/discovery.py, core/discovered.py)*)
(* and what the node makes of it (core/node.py:546-690, 1309, 2056-2079).   *)
(*                                                                          *)
(* Remote peers announce their address by UDP: announcements are lost,      *)
(* repeated, reordered and delayed.  A cached observation is a MUTABLE      *)
(* object that discover() hands out: _known_peers and a connect() call in   *)
(* progress go on seeing the announcements that update it, until the cache  *)
(* drops it.  `Shared` stands for a reference to the object in the cache.   *)
(* The application may also hand connect() an observation of its own: one   *)
(* it built, or kept, even from before the node was last stopped.           *)
(*                                                                          *)
(* A tick is the unit the TTLs are counted in.  Two observations of one     *)
(* tick may be in either order; the wall clock, which _remember compares,   *)
(* does not step back.                                                      *)
(***************************************************************************)
EXTENDS Integers, FiniteSets

CONSTANTS
  Peers,      \* remote peers
  MaxPeers,   \* max_discovered_peers
  CacheTtl,   \* LanDiscovery's peer_ttl
  NodeTtl,    \* NodeConfig.peer_ttl
  Movers,     \* bound: the peers that may change their address
  MaxAddr,    \* bound: addresses such a peer has
  MaxGen,     \* bound: starts of the node; the last is not followed by a stop
  Own,        \* bound: <<peer, address, age>> of the observations the application
              \* has of its own, each of them fresh
  None, Shared

ASSUME DiscoveryAssumption ==
  /\ {MaxPeers, CacheTtl, NodeTtl, MaxAddr, MaxGen} \subseteq Nat \ {0}
  /\ IsFiniteSet(Peers) /\ Movers \subseteq Peers
  /\ Own \subseteq Peers \X (1..MaxAddr) \X (0..NodeTtl)
  /\ None # Shared /\ None \notin Peers
  /\ {None, Shared} \cap [addr : Nat, age : Nat, gen : Nat, given : Nat] = {}

VARIABLES
  running,  \* PaqtoNode._running
  gen,      \* _lifecycle_generation
  disc,     \* LanDiscovery: stopped, started, or in _stop() awaiting the announcer
  cache,    \* _discovered
  known,    \* _known_peers
  dial,     \* the observation of the connect() call in progress
  dialled,  \* its peer
  call,     \* the discover() call in progress: none, or the generation it began in
  up,       \* the peers that are up and announce
  addr,     \* the address each peer has, or had last
  late      \* announcements of earlier addresses still in the network

vars == <<running, gen, disc, cache, known, dial, dialled, call, up, addr, late>>
local  == <<running, gen, disc>>
remote == <<up, addr, late>>

\* An age past both TTLs is not told from a greater one.
Old  == (IF CacheTtl > NodeTtl THEN CacheTtl ELSE NodeTtl) + 1
Addr == 1..MaxAddr

\* gen is the run of the node in which discovery made the observation, and given
\* the one in which the application handed it to connect(); 0 is none of them.
Obs == [addr : Addr, age : 0..Old, gen : 0..MaxGen, given : 0..MaxGen]

TypeOK ==
  /\ running \in BOOLEAN /\ gen \in 0..MaxGen /\ disc \in {"stopped", "started", "stopping"}
  /\ cache \in [Peers -> Obs \cup {None}]
  /\ Cardinality({p \in Peers : cache[p] # None}) <= MaxPeers
  /\ known \in [Peers -> Obs \cup {None, Shared}]
  /\ \A p \in Peers : known[p] = Shared => cache[p] # None
  /\ dialled \in Peers \cup {None} /\ dial \in Obs \cup {None, Shared}
  /\ dial = Shared => cache[dialled] # None
  /\ call \in 0..MaxGen
  /\ up \subseteq Peers /\ addr \in [Peers -> Addr] /\ late \subseteq Peers \X Addr

Empty == [p \in Peers |-> None]

Init ==
  /\ running = FALSE /\ gen = 0 /\ disc = "stopped"
  /\ cache = Empty /\ known = Empty /\ dial = None /\ dialled = None /\ call = 0
  /\ up = {} /\ addr = [p \in Peers |-> 1] /\ late = {}

\* What a reference to an observation of p stands for.
Deref(x, p) == IF x = Shared THEN cache[p] ELSE x

\* DiscoveredPeer.is_fresh
IsFresh(o, ttl) == o.age <= ttl

-----------------------------------------------------------------------------
(* The cache of LanDiscovery *)

\* The entries _prune_expired() removes.
Expired == {p \in Peers : cache[p] # None /\ ~IsFresh(cache[p], CacheTtl)}

\* The cache without the entries of S; references to them keep the object as it was.
Dropped(S) == [p \in Peers |-> IF p \in S THEN None ELSE cache[p]]
Detached(S) ==
  /\ known' = [p \in Peers |-> IF p \in S THEN Deref(known[p], p) ELSE known[p]]
  /\ dial' = IF dialled \in S THEN Deref(dial, dialled) ELSE dial

Observed(a) == [addr |-> a, age |-> 0, gen |-> gen, given |-> 0]

\* Mutant: an announcement refreshes a cached peer without its endpoints.
Refreshed_OnlyTouch(o, a) == Observed(o.addr)

\* A cached observation once another announcement has updated and touched it.
Refreshed(o, a) == Observed(a)

\* Mutant: one entry more than the limit.
Full_OffByOne(c) == Cardinality({q \in Peers : c[q] # None}) > MaxPeers

Full(c) == Cardinality({q \in Peers : c[q] # None}) >= MaxPeers

\* _handle_announce of a well-formed packet: refresh the object of a cached peer in
\* place, else prune and admit the peer if there is room.  A packet that is too
\* long, undecodable, of another version, or whose peer, endpoints or metadata are
\* malformed changes nothing, and neither does an announcement of the node itself.
HandleAnnounce(p, a) ==
  IF cache[p] # None
  THEN cache' = [cache EXCEPT ![p] = Refreshed(@, a)] /\ UNCHANGED <<known, dial>>
  ELSE /\ Detached(Expired)
       /\ LET kept == Dropped(Expired)
          IN cache' = IF Full(kept) THEN kept ELSE [kept EXCEPT ![p] = Observed(a)]

\* The socket is open and _local_peer set: while started, and until _stop() is done.
Listening == disc # "stopped"

\* A peer's announcement arrives: it is sent every announce_interval, and by
\* _handle_discover in answer to every request.
Announced(p) ==
  /\ Listening /\ p \in up
  /\ HandleAnnounce(p, addr[p])
  /\ UNCHANGED <<local, dialled, call, remote>>

\* One that was sent from an earlier address, or before the peer went down.
AnnouncedLate(p, a) ==
  /\ Listening /\ <<p, a>> \in late
  /\ HandleAnnounce(p, a)
  /\ UNCHANGED <<local, dialled, call, remote>>

Lost(p, a) ==
  /\ <<p, a>> \in late
  /\ late' = late \ {<<p, a>>}
  /\ UNCHANGED <<local, cache, known, dial, dialled, call, up, addr>>

-----------------------------------------------------------------------------
(* Remote peers and time *)

Comes(p) ==
  /\ p \notin up
  /\ up' = up \cup {p}
  /\ UNCHANGED <<local, cache, known, dial, dialled, call, addr, late>>

\* The peer goes down, or changes its address.
Goes(p) ==
  /\ p \in up
  /\ late' = late \cup {<<p, addr[p]>>}
  /\ \/ up' = up \ {p} /\ UNCHANGED addr
     \/ p \in Movers /\ addr[p] < MaxAddr /\ addr' = [addr EXCEPT ![p] = @ + 1] /\ UNCHANGED up
  /\ UNCHANGED <<local, cache, known, dial, dialled, call>>

Older(o) == IF o \in {None, Shared} THEN o
            ELSE [o EXCEPT !.age = IF @ < Old THEN @ + 1 ELSE Old]

Tick ==
  /\ cache' = [p \in Peers |-> Older(cache[p])]
  /\ known' = [p \in Peers |-> Older(known[p])]
  /\ dial' = Older(dial)
  /\ UNCHANGED <<local, dialled, call, remote>>

-----------------------------------------------------------------------------
(* The node's view *)

\* Mutant: the last observation to be handed in wins.
Remembered_Always(p, x, keep) == x

\* _known_peers[p] after _remember(x): the newer of the two observations, and
\* either one (as `keep` says) where the tick does not tell which is newer.
Remembered(p, x, keep) ==
  LET existing == Deref(known[p], p)
      new      == Deref(x, p)
  IN IF known[p] # None /\ (existing.age < new.age \/ (existing.age = new.age /\ keep))
     THEN known[p] ELSE x

\* The peers discover() drops from _known_peers.
KnownExpired == {p \in Peers : known[p] # None /\ ~IsFresh(Deref(known[p], p), NodeTtl)}

\* discover() up to the collection window: expired peers leave _known_peers, then
\* the request is broadcast.
Discover ==
  /\ running /\ call = 0
  /\ known' = [p \in Peers |-> IF p \in KnownExpired THEN None ELSE known[p]]
  /\ call' = gen
  /\ UNCHANGED <<local, cache, dial, dialled, remote>>

\* The request cannot be sent, or the deadline of the call fires first.
DiscoverFails ==
  /\ call # 0 /\ call' = 0
  /\ UNCHANGED <<local, cache, known, dial, dialled, remote>>

\* Mutant: the node does not look whether it was stopped meanwhile.
StillCurrent_Always == TRUE

\* The node still runs, in the generation the call began in.
StillCurrent == running /\ call = gen

\* The window is over: prune, and remember what is fresh if the call is current.
DiscoverDone ==
  /\ call # 0 /\ call' = 0
  /\ cache' = Dropped(Expired)
  /\ dial' = IF dialled \in Expired THEN Deref(dial, dialled) ELSE dial
  /\ \E keep \in SUBSET Peers :
       known' = [p \in Peers |->
         IF p \in Expired THEN Deref(known[p], p)
         ELSE IF StillCurrent /\ cache[p] # None /\ IsFresh(cache[p], NodeTtl)
         THEN Remembered(p, Shared, p \in keep)
         ELSE known[p]]
  /\ UNCHANGED <<local, dialled, remote>>

\* An attempt with the observation x, which must be fresh.
Dial(p, x) ==
  /\ running /\ dialled = None
  /\ IsFresh(Deref(x, p), NodeTtl)
  /\ dialled' = p /\ dial' = x
  /\ UNCHANGED <<local, cache, known, call, remote>>

\* connect(peer) looks its target up in _known_peers.
Connect(p) == known[p] # None /\ Dial(p, known[p])

\* The observations of p the application can hand to connect(): what discover() has
\* returned, or one that this run of the node has not made.
Handed(p) ==
  {[addr |-> o[2], age |-> o[3], gen |-> 0, given |-> gen] : o \in {o \in Own : o[1] = p}}
    \cup (IF cache[p] # None THEN {Shared} ELSE {})

\* connect(discovered) uses its target as it is.
ConnectTo(p) == \E x \in Handed(p) : Dial(p, x)

\* The attempt fails, or reaches the peer where the observation says and the
\* observation is remembered.
ConnectDone ==
  /\ dialled # None
  /\ dialled' = None /\ dial' = None
  /\ \/ UNCHANGED known
     \/ /\ dialled \in up /\ Deref(dial, dialled).addr = addr[dialled]
        /\ \E keep \in BOOLEAN :
             known' = [known EXCEPT ![dialled] = Remembered(dialled, dial, keep)]
  /\ UNCHANGED <<local, cache, call, remote>>

-----------------------------------------------------------------------------
(* Lifecycle: the steps of start() and stop() that discovery sees *)

\* start(): LanDiscovery._start() creates its socket and its announcer.
Start ==
  /\ ~running /\ disc = "stopped" /\ gen < MaxGen
  /\ running' = TRUE /\ gen' = gen + 1 /\ disc' = "started"
  /\ UNCHANGED <<cache, known, dial, dialled, call, remote>>

\* stop() is running: calls are refused from now on.
Stop ==
  /\ running /\ gen < MaxGen
  /\ running' = FALSE
  /\ UNCHANGED <<gen, disc, cache, known, dial, dialled, call, remote>>

\* The attempts have been cancelled and awaited; _known_peers.clear(), and
\* LanDiscovery._stop() cancels its announcer.
StopKnown ==
  /\ ~running /\ disc = "started"
  /\ disc' = "stopping"
  /\ known' = Empty /\ dial' = None /\ dialled' = None
  /\ UNCHANGED <<running, gen, cache, call, remote>>

\* The announcer has ended: the socket is closed and the cache cleared.
StopDone ==
  /\ disc = "stopping"
  /\ disc' = "stopped"
  /\ cache' = Empty /\ Detached(Peers)
  /\ UNCHANGED <<running, gen, dialled, call, remote>>

-----------------------------------------------------------------------------
Next ==
  \/ \E p \in Peers : Announced(p) \/ Comes(p) \/ Goes(p) \/ Connect(p) \/ ConnectTo(p)
  \/ \E p \in Peers, a \in Addr : AnnouncedLate(p, a) \/ Lost(p, a)
  \/ Tick \/ Discover \/ DiscoverFails \/ DiscoverDone \/ ConnectDone
  \/ Start \/ Stop \/ StopKnown \/ StopDone

\* A call of discover() ends while the answer of a peer that is up is still fresh.
Answered == \E p \in up : cache[p] # None /\ IsFresh(cache[p], CacheTtl)

\* Time passes and late datagrams leave the network.  The application calls
\* discover() again and again; not every request stays without an answer in its
\* window, and the window is shorter than the TTL.
Fairness ==
  /\ WF_vars(Tick) /\ WF_vars(ConnectDone)
  /\ WF_vars(Discover) /\ WF_vars(DiscoverDone \/ DiscoverFails)
  /\ SF_vars(call # 0 /\ \E p \in Peers : Announced(p))
  /\ SF_vars(Answered /\ DiscoverDone)
  /\ \A p \in Peers : WF_vars(\E a \in Addr : Lost(p, a))

Spec == Init /\ [][Next]_vars /\ Fairness

-----------------------------------------------------------------------------
(* Properties *)

\* stop() forgets: what is cached in a node that runs again has been observed in
\* this run, and what is known too, unless the application itself has handed it to
\* connect() in this run, whatever discover() and connect() calls and announcements
\* were under way (docs: network_changed() invalidates cached remote endpoints).
NoGhosts ==
  running => \A p \in Peers :
               /\ cache[p] # None => cache[p].gen = gen
               /\ known[p] # None => gen \in {Deref(known[p], p).gen, Deref(known[p], p).given}

\* The newest observation wins: what a connect() call or a discover() call puts into
\* _known_peers is never older than the observation it replaces.
NewestWins ==
  [][Tick \/ \A p \in Peers :
               known[p] # None /\ known'[p] # None =>
                 Deref(known[p], p)'.age <= Deref(known[p], p).age]_vars

\* Peers are tracked: one that stays up at its address, the others being down, is
\* again and again known under that address, and one that stays down is forgotten,
\* in spite of lost and late announcements, a full cache and references held by calls.
Tracked ==
  \A p \in Peers :
    /\ <>[](running /\ up = {p}) => []<>(known[p] # None /\ Deref(known[p], p).addr = addr[p])
    /\ <>[](running /\ p \notin up) => <>[](known[p] = None)
=============================================================================
