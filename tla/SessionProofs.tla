---------------------------- MODULE SessionProofs ----------------------------
(***************************************************************************)
(* Two honest ends never refuse each other and agree on their session, for   *)
(* any set of configurations, any messages, any queue and buffer sizes and   *)
(* any number of handler workers.                                            *)
(***************************************************************************)
EXTENDS Session, SequenceTheorems, TLAPS

-----------------------------------------------------------------------------
(* The frames a READY end may write *)

\* A frame is sound when both ends must accept it: not a hello, an application message
\* of the negotiated size, and an ACK only if both offered acknowledgements.
SoundFrames ==
  {f \in Frames :
     /\ f.kind # "hello"
     /\ f.kind \in App => f.id \in Msgs /\ f.size = Size[f.id] /\ f.size <= Limit("dialler")
     /\ f.kind \notin App => f.size = 0
     /\ f.kind = "ack" => "ack" \in Common("dialler")}

\* The session Negotiate(n) makes of the two configurations.
Agreed(n) ==
  [peer |-> Other(n), version |-> config[Other(n)].version,
   serializer |-> config[Other(n)].serializer, capabilities |-> Common(n),
   max |-> Limit(n), authenticated |-> ProvenId(n) # None]

\* The two ends compute the same limit and the same capabilities.
LEMMA Symmetric ==
  ASSUME config \in [Nodes -> Configs], NEW n \in Nodes
  PROVE  /\ Limit(n) = Limit("dialler") /\ Common(n) = Common("dialler")
         /\ Limit(n) \in Nat /\ Limit(n) <= config[n].max
         /\ "heartbeat" \in Common(n) /\ Other(n) \in Nodes /\ Other(n) # n
         /\ Other(Other(n)) = n
<1>1. /\ config["dialler"] \in Configs /\ config["listener"] \in Configs
      /\ n = "dialler" \/ n = "listener"
  BY DEF Nodes
<1>2. config["dialler"].max \in Nat /\ config["listener"].max \in Nat
  BY <1>1, SessionAssumption
<1>3. Other(n) \in Nodes /\ Other(n) # n /\ Other(Other(n)) = n
  BY <1>1 DEF Other, Nodes
<1>4. /\ Limit(n) = Limit("dialler")
      /\ Limit(n) \in Nat /\ Limit(n) <= config[n].max
  BY <1>1, <1>2 DEF Limit, Other
<1>5. Common(n) = Common("dialler") /\ "heartbeat" \in Common(n)
  BY <1>1 DEF Common, Offer, Offered, Other
<1> QED BY <1>3, <1>4, <1>5

\* The configurations never change, so neither do the frames that are sound.
LEMMA Stable ==
  ASSUME UNCHANGED setup
  PROVE  /\ SoundFrames' = SoundFrames
         /\ \A n \in Nodes : Agreed(n)' = Agreed(n) /\ Acceptable(n)' = Acceptable(n)
         /\ config' = config /\ tls' = tls /\ expected' = expected
<1> USE DEF setup
<1>1. config' = config /\ tls' = tls /\ expected' = expected
  OBVIOUS
<1>2. \A n : Limit(n)' = Limit(n) /\ Common(n)' = Common(n)
  BY <1>1 DEF Limit, Common, Offer
<1>3. SoundFrames' = SoundFrames
  BY <1>2 DEF SoundFrames
<1>4. \A n \in Nodes : Agreed(n)' = Agreed(n) /\ Acceptable(n)' = Acceptable(n)
  BY <1>1, <1>2 DEF Agreed, Acceptable, ProvenId, Authenticated
<1> QED BY <1>1, <1>3, <1>4

\* What is sound passes every check of the reader of a READY end.
LEMMA SoundIsValid ==
  ASSUME config \in [Nodes -> Configs], NEW n \in Nodes, NEW f \in SoundFrames,
         session[n] = Agreed(n)
  PROVE  Valid(n, f)
<1>1. /\ Limit(n) = Limit("dialler") /\ Common(n) = Common("dialler")
      /\ Limit(n) \in Nat /\ Limit(n) <= config[n].max
      /\ "heartbeat" \in Common(n)
  BY Symmetric
<1>2. /\ config[n].max \in Nat \ {0} /\ config[n].frame \in Nat
      /\ config[n].frame >= config[n].max + 1
  BY SessionAssumption
<1>3. session[n].max = Limit(n) /\ session[n].capabilities = Common(n)
  BY DEF Agreed
<1>4. f.size \in Nat /\ f.kind # "hello"
  BY DEF SoundFrames, Frames
<1>5. f.kind \in App => f.size <= Limit(n)
  BY <1>1 DEF SoundFrames
<1>6. f.kind \notin App => f.size = 0
  BY DEF SoundFrames
<1>7. FrameFits(n, f)
  BY <1>1, <1>2, <1>4, <1>5, <1>6 DEF FrameFits
<1>8. Negotiated(n, f)
  BY <1>1, <1>3 DEF Negotiated, SoundFrames
<1> QED BY <1>3, <1>4, <1>5, <1>7, <1>8 DEF Valid, IsHello

\* A message within the limit, and every control frame an end queues, is sound.
LEMMA MessageIsSound ==
  ASSUME config \in [Nodes -> Configs], NEW m \in Msgs, NEW kind \in App, Size[m] <= Limit("dialler")
  PROVE  Message(kind, m) \in SoundFrames
<1>1. Size[m] \in Nat
  BY SessionAssumption
<1>2. Message(kind, m) \in Frames
  BY <1>1 DEF Message, Frames, App, Kinds
<1> QED BY <1>2 DEF Message, SoundFrames, App

LEMMA ControlIsSound ==
  ASSUME NEW kind \in {"ping", "pong"}
  PROVE  Control(kind, None) \in SoundFrames
<1>1. Control(kind, None) \in Frames
  BY DEF Control, Frames, Kinds
<1> QED BY <1>1 DEF Control, SoundFrames, App

LEMMA AnswerIsSound ==
  ASSUME config \in [Nodes -> Configs], NEW n \in Nodes, NEW f \in SoundFrames,
         session[n] = Agreed(n), Answer(n, f) # None
  PROVE  Answer(n, f) \in SoundFrames
<1>1. CASE f.kind = "ping"
  BY <1>1, ControlIsSound DEF Answer
<1>2. CASE f.kind # "ping"
  <2>1. /\ Answer(n, f) = [kind |-> "ack", id |-> f.id, size |-> 0]
        /\ "ack" \in session[n].capabilities
    BY <1>2 DEF Answer
  <2>2. "ack" \in Common("dialler")
    BY <2>1, Symmetric DEF Agreed
  <2>3. Answer(n, f) \in Frames
    BY <2>1 DEF SoundFrames, Frames, Kinds
  <2> QED BY <2>1, <2>2, <2>3 DEF SoundFrames, App
<1> QED BY <1>1, <1>2

-----------------------------------------------------------------------------
(* The inductive invariant *)

ReaderStates ==
  [pc : {"recv", "ended"}, frame : {None}] \cup [pc : {"ack", "put"}, frame : SoundFrames]
WorkerStates ==
  [pc : {"idle"}, frame : {None}] \cup [pc : {"busy", "wait", "reply", "close"}, frame : SoundFrames]

\* What each end holds; only sound frames move, hellos apart.
Typed ==
  /\ config \in [Nodes -> Configs]
  /\ phase \in [Nodes -> {"new", "hello", "ready", "closed"}]
  /\ sent \subseteq Msgs
  /\ beat \in [Nodes -> {"idle", "pinging", "done"}]
  /\ out \in [Nodes -> Seq(SoundFrames)]
  /\ wire \in [Nodes -> Seq(Frames)]
  /\ inq \in [Nodes -> Seq(SoundFrames)]
  /\ reader \in [Nodes -> ReaderStates]
  /\ worker \in [Nodes -> [Workers -> WorkerStates]]

Bounded == \A n \in Nodes : Len(wire[n]) <= Buffer + 1 /\ Len(inq[n]) <= MaxIn

\* A session is the one the two configurations determine, and passed every check.
SessionsSound ==
  /\ session \in [Nodes -> ProtocolSessions \cup {None}]
  /\ \A n \in Nodes :
       /\ session[n] # None => session[n] = Agreed(n) /\ Acceptable(n)
       /\ phase[n] = "ready" => session[n] # None

\* Before READY an end reads, queues and handles nothing.
Untouched(n) ==
  /\ reader[n].pc = "recv" /\ inq[n] = <<>>
  /\ \A w \in Workers : worker[n][w].pc = "idle"

QuietBeforeReady == \A n \in Nodes : phase[n] \in {"new", "hello"} => Untouched(n)

\* What is on its way from m: its hello first, then nothing but sound frames.
Channel(m) ==
  /\ phase[m] = "new" => wire[m] = <<>>
  /\ phase[Other(m)] = "ready" => phase[m] # "new" /\ wire[m] \in Seq(SoundFrames)
  /\ phase[Other(m)] \in {"new", "hello"} /\ phase[m] # "new" =>
       /\ wire[m] # <<>> /\ IsHello(Head(wire[m]))
       /\ Tail(wire[m]) \in Seq(SoundFrames)

HelloFirst == \A m \in Nodes : Channel(m)

Sound == Typed /\ Bounded /\ SessionsSound /\ QuietBeforeReady /\ HelloFirst

-----------------------------------------------------------------------------
(* What steps have in common *)

LEMMA StatesKept ==
  ASSUME UNCHANGED setup
  PROVE  /\ SoundFrames' = SoundFrames
         /\ ReaderStates' = ReaderStates /\ WorkerStates' = WorkerStates
         /\ config' = config
BY Stable DEF ReaderStates, WorkerStates

LEMMA SoundIsFrame == SoundFrames \subseteq Frames
BY DEF SoundFrames

LEMMA AppendToHello ==
  ASSUME NEW s \in Seq(Frames), s # <<>>, Tail(s) \in Seq(SoundFrames), NEW f \in SoundFrames
  PROVE  /\ Append(s, f) # <<>> /\ Head(Append(s, f)) = Head(s)
         /\ Tail(Append(s, f)) \in Seq(SoundFrames)
<1>1. f \in Frames
  BY SoundIsFrame
<1>2. Tail(Append(s, f)) = Append(Tail(s), f)
  <2>1. Len(s) \in Nat \ {0} /\ Append(s, f) \in Seq(Frames) /\ Append(s, f) # <<>>
    BY <1>1, EmptySeq
  <2>2. /\ Tail(Append(s, f)) \in Seq(Frames) /\ Tail(s) \in Seq(Frames)
        /\ Append(Tail(s), f) \in Seq(Frames)
    BY <1>1, <2>1
  <2>3. /\ Len(Tail(Append(s, f))) = Len(s) /\ Len(Append(Tail(s), f)) = Len(s)
    BY <1>1, <2>1
  <2>4. \A i \in 1..Len(s) : Tail(Append(s, f))[i] = Append(Tail(s), f)[i]
    BY <1>1, <2>1
  <2> QED BY <2>2, <2>3, <2>4, SeqEqual
<1> QED BY <1>1, <1>2

\* A session stays what it is, and no end becomes READY without one.
LEMMA SessionsKept ==
  ASSUME Sound, UNCHANGED setup, session' = session,
         \A n \in Nodes : phase'[n] = "ready" => phase[n] = "ready"
  PROVE  SessionsSound'
<1>1. /\ \A n \in Nodes : Agreed(n)' = Agreed(n) /\ Acceptable(n)' = Acceptable(n)
  BY Stable
<1> QED BY <1>1 DEF Sound, SessionsSound

\* Only an end that has reached READY is touched.
LEMMA QuietKept ==
  ASSUME Sound, NEW n \in Nodes, phase'[n] \notin {"new", "hello"},
         \A k \in Nodes \ {n} :
           /\ phase'[k] = phase[k] /\ reader'[k] = reader[k] /\ inq'[k] = inq[k]
           /\ worker'[k] = worker[k]
  PROVE  QuietBeforeReady'
BY DEF Sound, QuietBeforeReady, Untouched

LEMMA ChannelsKept ==
  ASSUME Sound, UNCHANGED setup, UNCHANGED phase, UNCHANGED wire
  PROVE  HelloFirst'
BY StatesKept DEF Sound, HelloFirst, Channel

\* An end that closes, with or without taking one frame, leaves what it has sent.
LEMMA CloseKeeps ==
  ASSUME Sound, UNCHANGED setup, NEW n \in Nodes, phase[n] # "new",
         phase' = [phase EXCEPT ![n] = "closed"],
         \/ UNCHANGED wire
         \/ wire[Other(n)] # <<>> /\ wire' = [wire EXCEPT ![Other(n)] = Tail(@)]
  PROVE  HelloFirst'
<1>1. SoundFrames' = SoundFrames
  BY StatesKept
<1>2. /\ phase \in [Nodes -> {"new", "hello", "ready", "closed"}]
      /\ wire \in [Nodes -> Seq(Frames)] /\ config \in [Nodes -> Configs]
  BY DEF Sound, Typed
<1>3. Other(n) \in Nodes /\ Other(n) # n /\ Other(Other(n)) = n /\ Nodes = {n, Other(n)}
  BY DEF Other, Nodes
<1>4. Channel(n) /\ Channel(Other(n))
  BY <1>3 DEF Sound, HelloFirst
<1>5. Channel(n)'
  <2>1. wire'[n] = wire[n] /\ phase'[n] = "closed" /\ phase'[Other(n)] = phase[Other(n)]
    BY <1>2, <1>3
  <2> QED BY <1>1, <1>4, <2>1 DEF Channel, IsHello
<1>6. Channel(Other(n))'
  <2>1. phase'[n] = "closed" /\ phase'[Other(n)] = phase[Other(n)]
    BY <1>2, <1>3
  <2>2. phase'[Other(n)] = "new" => wire'[Other(n)] = <<>>
    BY <1>2, <1>3, <1>4, <2>1 DEF Channel
  <2> QED BY <1>3, <2>1, <2>2 DEF Channel
<1> QED BY <1>3, <1>5, <1>6 DEF HelloFirst

\* A READY end reads sound frames.
LEMMA ReadsSound ==
  ASSUME Sound, NEW n \in Nodes, phase[n] = "ready", wire[Other(n)] # <<>>
  PROVE  Head(wire[Other(n)]) \in SoundFrames
<1>1. Other(n) \in Nodes /\ Other(Other(n)) = n
  BY DEF Other, Nodes
<1>2. wire[Other(n)] \in Seq(SoundFrames)
  BY <1>1 DEF Sound, HelloFirst, Channel
<1> QED BY <1>2

\* It takes one: what is left on the wire is sound.
LEMMA TakeFrame ==
  ASSUME Sound, UNCHANGED setup, NEW n \in Nodes, phase[n] = "ready", UNCHANGED phase,
         wire[Other(n)] # <<>>, wire' = [wire EXCEPT ![Other(n)] = Tail(@)]
  PROVE  HelloFirst'
<1>1. SoundFrames' = SoundFrames
  BY StatesKept
<1>2. /\ phase \in [Nodes -> {"new", "hello", "ready", "closed"}]
      /\ wire \in [Nodes -> Seq(Frames)]
  BY DEF Sound, Typed
<1>3. Other(n) \in Nodes /\ Other(n) # n /\ Other(Other(n)) = n /\ Nodes = {n, Other(n)}
  BY DEF Other, Nodes
<1>4. Channel(n) /\ Channel(Other(n))
  BY <1>3 DEF Sound, HelloFirst
<1>5. wire[Other(n)] \in Seq(SoundFrames) /\ wire'[Other(n)] \in Seq(SoundFrames)
  BY <1>2, <1>3, <1>4 DEF Channel
<1>6. Channel(n)'
  BY <1>1, <1>2, <1>3, <1>4 DEF Channel, IsHello
<1>7. Channel(Other(n))'
  BY <1>1, <1>2, <1>3, <1>4, <1>5 DEF Channel
<1> QED BY <1>3, <1>5, <1>6, <1>7 DEF HelloFirst

-----------------------------------------------------------------------------
(* The hello exchange *)

LEMMA InitSound == Init => Sound
<1> SUFFICES ASSUME Init PROVE Sound
  OBVIOUS
<1> USE DEF Init
<1>1. Typed
  BY EmptySeq DEF Typed, ReaderStates, WorkerStates, Recv, Idle
<1>2. Bounded
  BY SessionAssumption DEF Bounded
<1>3. SessionsSound
  BY DEF SessionsSound
<1>4. QuietBeforeReady
  BY DEF QuietBeforeReady, Untouched, Recv, Idle
<1>5. HelloFirst
  BY DEF HelloFirst, Channel, Other, Nodes
<1> QED BY <1>1, <1>2, <1>3, <1>4, <1>5 DEF Sound

LEMMA HelloStep ==
  ASSUME Sound, NEW n \in Nodes, Hello(n)
  PROVE  Sound'
<1> USE DEF Hello
<1>1. UNCHANGED setup /\ UNCHANGED <<session, sent, out, reader, inq, worker, beat>>
  OBVIOUS
<1>2. /\ SoundFrames' = SoundFrames /\ config' = config
      /\ ReaderStates' = ReaderStates /\ WorkerStates' = WorkerStates
  BY <1>1, StatesKept
<1>3. HelloFrame \in Frames /\ IsHello(HelloFrame)
  BY DEF HelloFrame, Control, Frames, Kinds, IsHello
<1>4. Other(n) \in Nodes /\ Other(n) # n /\ Other(Other(n)) = n /\ Nodes = {n, Other(n)}
  BY DEF Other, Nodes
<1>5. wire[n] = <<>> /\ phase[n] = "new"
  BY DEF Sound, HelloFirst, Channel
<1>6. Typed'
  BY <1>1, <1>2, <1>3 DEF Sound, Typed
<1>7. wire'[n] = <<HelloFrame>>
  BY <1>5 DEF Sound, Typed
<1>8. Bounded'
  <2>1. Len(wire'[n]) = 1 /\ Buffer \in Nat
    BY <1>7, SessionAssumption
  <2>2. /\ wire'[Other(n)] = wire[Other(n)] /\ inq' = inq
        /\ \A k \in Nodes : Len(wire[k]) <= Buffer + 1 /\ Len(inq[k]) <= MaxIn
    BY <1>1, <1>4 DEF Sound, Typed, Bounded
  <2> QED BY <1>4, <2>1, <2>2 DEF Bounded
<1>9. SessionsSound'
  BY <1>1, SessionsKept DEF Sound, Typed
<1>10. QuietBeforeReady'
  BY <1>1, <1>5 DEF Sound, Typed, QuietBeforeReady, Untouched
<1>11. Channel(n)'
  <2>1. Head(<<HelloFrame>>) = HelloFrame /\ Tail(<<HelloFrame>>) = <<>>
    OBVIOUS
  <2>2. phase[Other(n)] # "ready"
    BY <1>5 DEF Sound, HelloFirst, Channel
  <2> QED BY <1>2, <1>3, <1>4, <1>7, <2>1, <2>2, EmptySeq DEF Sound, Typed, Channel
<1>12. Channel(Other(n))'
  BY <1>2, <1>4, <1>5 DEF Sound, Typed, HelloFirst, Channel, IsHello
<1> QED BY <1>4, <1>6, <1>8, <1>9, <1>10, <1>11, <1>12 DEF Sound, HelloFirst

\* The session an end makes is a ProtocolSession.
LEMMA AgreedType ==
  ASSUME config \in [Nodes -> Configs], NEW n \in Nodes
  PROVE  Agreed(n) \in ProtocolSessions /\ Agreed(n) # None
<1>1. Other(n) \in Nodes /\ Limit(n) \in Nat /\ Common(n) \subseteq Offered
  BY Symmetric DEF Common, Offer
<1>2. config[Other(n)] \in Configs
  BY <1>1
<1>3. (ProvenId(n) # None) \in BOOLEAN
  OBVIOUS
<1>4. Agreed(n) \in ProtocolSessions
  BY <1>1, <1>2, <1>3 DEF Agreed, ProtocolSessions
<1> QED BY <1>4, SessionAssumption

LEMMA NegotiateStep ==
  ASSUME Sound, NEW n \in Nodes, Negotiate(n)
  PROVE  Sound'
<1>1. /\ UNCHANGED setup /\ UNCHANGED <<sent, reader, inq, worker, beat>>
      /\ phase[n] = "hello" /\ wire[Other(n)] # <<>>
      /\ wire' = [wire EXCEPT ![Other(n)] = Tail(@)]
  BY DEF Negotiate
<1>2. /\ SoundFrames' = SoundFrames /\ config' = config
      /\ ReaderStates' = ReaderStates /\ WorkerStates' = WorkerStates
      /\ \A k \in Nodes : Agreed(k)' = Agreed(k) /\ Acceptable(k)' = Acceptable(k)
  BY <1>1, StatesKept, Stable
<1>3. Other(n) \in Nodes /\ Other(n) # n /\ Other(Other(n)) = n /\ Nodes = {n, Other(n)}
  BY DEF Other, Nodes
<1>4. Typed /\ Bounded /\ SessionsSound /\ QuietBeforeReady /\ HelloFirst
  BY DEF Sound
<1>5. wire[Other(n)] \in Seq(Frames) /\ phase[Other(n)] # "new"
  BY <1>1, <1>3, <1>4 DEF Typed, HelloFirst, Channel
<1>6. wire' \in [Nodes -> Seq(Frames)]
  <2>1. Tail(wire[Other(n)]) \in Seq(Frames)
    BY <1>1, <1>5, HeadTailProperties
  <2> QED BY <1>1, <1>4, <2>1 DEF Typed
<1>7. Bounded'
  <2>1. Len(Tail(wire[Other(n)])) <= Len(wire[Other(n)]) /\ Len(wire[Other(n)]) \in Nat
        /\ Len(Tail(wire[Other(n)])) \in Nat
    BY <1>1, <1>5, HeadTailProperties, LenProperties
  <2>2. Buffer \in Nat
    BY SessionAssumption
  <2>3. Len(wire'[Other(n)]) <= Buffer + 1
    BY <1>1, <1>3, <1>4, <2>1, <2>2 DEF Bounded, Typed
  <2>4. wire'[n] = wire[n] /\ inq' = inq
    BY <1>1, <1>3, <1>4 DEF Typed
  <2> QED BY <1>3, <1>4, <2>3, <2>4 DEF Bounded
<1>8. CASE IsHello(Head(wire[Other(n)])) /\ Acceptable(n)
  <2>1. /\ phase' = [phase EXCEPT ![n] = "ready"] /\ UNCHANGED out
        /\ session' = [session EXCEPT ![n] = Agreed(n)]
    BY <1>8 DEF Negotiate, Agreed
  <2>2. Typed'
    BY <1>1, <1>2, <1>4, <1>6, <2>1 DEF Typed
  <2>3. SessionsSound'
    <3>1. Agreed(n) \in ProtocolSessions /\ Agreed(n) # None
      BY <1>4, AgreedType DEF Typed
    <3>2. session' \in [Nodes -> ProtocolSessions \cup {None}]
      BY <1>4, <2>1, <3>1 DEF SessionsSound
    <3>3. \A k \in Nodes : session'[k] # None => session'[k] = Agreed(k) /\ Acceptable(k)
      BY <1>4, <1>8, <2>1 DEF SessionsSound
    <3>4. \A k \in Nodes : phase'[k] = "ready" => session'[k] # None
      BY <1>4, <2>1, <3>1 DEF SessionsSound, Typed
    <3> QED BY <1>2, <3>2, <3>3, <3>4 DEF SessionsSound
  <2>4. QuietBeforeReady'
    BY <1>1, <1>4, <2>1, QuietKept DEF Typed
  <2>5. Channel(n)'
    BY <1>1, <1>2, <1>3, <1>4, <2>1 DEF Typed, HelloFirst, Channel, IsHello
  <2>6. Channel(Other(n))'
    <3>1. Tail(wire[Other(n)]) \in Seq(SoundFrames)
      BY <1>1, <1>3, <1>4, <1>5 DEF HelloFirst, Channel
    <3>2. wire'[Other(n)] = Tail(wire[Other(n)]) /\ phase'[Other(n)] = phase[Other(n)]
          /\ phase'[n] = "ready"
      BY <1>1, <1>3, <1>4, <2>1 DEF Typed
    <3> QED BY <1>2, <1>3, <1>5, <3>1, <3>2 DEF Channel
  <2> QED BY <1>3, <1>7, <2>2, <2>3, <2>4, <2>5, <2>6 DEF Sound, HelloFirst
<1>9. CASE ~(IsHello(Head(wire[Other(n)])) /\ Acceptable(n))
  <2>1. Close(n) /\ UNCHANGED session
    BY <1>9 DEF Negotiate
  <2>2. Typed'
    BY <1>1, <1>2, <1>4, <1>6, <2>1, EmptySeq DEF Typed, Close
  <2>3. SessionsSound'
    BY <1>1, <1>4, <2>1, SessionsKept DEF Typed, Close
  <2>4. QuietBeforeReady'
    BY <1>1, <1>4, <2>1, QuietKept DEF Typed, Close
  <2>5. HelloFirst'
    BY <1>1, <2>1, CloseKeeps DEF Close
  <2> QED BY <1>7, <2>2, <2>3, <2>4, <2>5 DEF Sound
<1> QED BY <1>8, <1>9

\* Every step that closes an end, takes nothing from the wire and leaves the inbound
\* queue alone.
LEMMA CloseStep ==
  ASSUME Sound, UNCHANGED setup, NEW n \in Nodes, phase[n] # "new", Close(n),
         UNCHANGED <<session, sent, wire, inq>>,
         beat' \in [Nodes -> {"idle", "pinging", "done"}],
         reader' \in [Nodes -> ReaderStates], worker' \in [Nodes -> [Workers -> WorkerStates]],
         \A k \in Nodes \ {n} : reader'[k] = reader[k] /\ worker'[k] = worker[k]
  PROVE  Sound'
<1>1. /\ SoundFrames' = SoundFrames /\ config' = config
      /\ ReaderStates' = ReaderStates /\ WorkerStates' = WorkerStates
  BY StatesKept
<1>2. Typed /\ Bounded
  BY DEF Sound
<1>3. Typed'
  BY <1>1, <1>2, EmptySeq DEF Typed, Close
<1>4. Bounded'
  BY <1>2 DEF Bounded
<1>5. SessionsSound'
  BY <1>2, SessionsKept DEF Typed, Close
<1>6. QuietBeforeReady'
  BY <1>2, QuietKept DEF Typed, Close
<1>7. HelloFirst'
  BY CloseKeeps DEF Close
<1> QED BY <1>3, <1>4, <1>5, <1>6, <1>7 DEF Sound

LEMMA HandshakeFailsStep ==
  ASSUME Sound, NEW n \in Nodes, HandshakeFails(n)
  PROVE  Sound'
<1>1. Typed /\ UNCHANGED <<reader, worker, beat>>
  BY DEF Sound, HandshakeFails
<1> QED BY <1>1, CloseStep DEF HandshakeFails, Typed

-----------------------------------------------------------------------------
(* Steps of a READY end that neither close it nor touch the wire *)

LEMMA LocalStep ==
  ASSUME Sound, UNCHANGED setup, NEW n \in Nodes, phase[n] \notin {"new", "hello"},
         UNCHANGED <<phase, session, wire>>, sent' \subseteq Msgs,
         beat' \in [Nodes -> {"idle", "pinging", "done"}],
         out' \in [Nodes -> Seq(SoundFrames)],
         inq' \in [Nodes -> Seq(SoundFrames)], \A k \in Nodes : Len(inq'[k]) <= MaxIn,
         reader' \in [Nodes -> ReaderStates], worker' \in [Nodes -> [Workers -> WorkerStates]],
         \A k \in Nodes \ {n} :
           reader'[k] = reader[k] /\ inq'[k] = inq[k] /\ worker'[k] = worker[k]
  PROVE  Sound'
<1>1. /\ SoundFrames' = SoundFrames /\ config' = config
      /\ ReaderStates' = ReaderStates /\ WorkerStates' = WorkerStates
  BY StatesKept
<1>2. Typed /\ Bounded
  BY DEF Sound
<1>3. Typed'
  BY <1>1, <1>2 DEF Typed
<1>4. Bounded'
  BY <1>2 DEF Bounded
<1>5. SessionsSound'
  BY SessionsKept
<1>6. QuietBeforeReady'
  BY QuietKept
<1>7. HelloFirst'
  BY ChannelsKept
<1> QED BY <1>3, <1>4, <1>5, <1>6, <1>7 DEF Sound

LEMMA QueuedType ==
  ASSUME Sound, NEW n \in Nodes, NEW f \in SoundFrames, Queued(n, f)
  PROVE  out' \in [Nodes -> Seq(SoundFrames)]
BY DEF Sound, Typed, Queued

LEMMA SendStep ==
  ASSUME Sound, NEW m \in Msgs, Send(m)
  PROVE  Sound'
<1>1. /\ UNCHANGED setup /\ UNCHANGED <<phase, session, wire, reader, inq, worker, beat>>
      /\ phase[From[m]] = "ready" /\ sent' = sent \cup {m}
  BY DEF Send, ends
<1>2. Typed /\ Bounded /\ SessionsSound
  BY DEF Sound
<1>3. From[m] \in Nodes /\ Size[m] \in Nat
  BY SessionAssumption
<1>4. session[From[m]].max = Limit("dialler") /\ Limit("dialler") \in Nat
  BY <1>1, <1>2, <1>3, Symmetric DEF SessionsSound, Agreed, Typed
<1>5. out' \in [Nodes -> Seq(SoundFrames)]
  <2>1. CASE Size[m] > session[From[m]].max
    BY <1>2, <2>1 DEF Send, Typed
  <2>2. CASE ~(Size[m] > session[From[m]].max)
    <3>1. Size[m] <= Limit("dialler")
      BY <1>3, <1>4, <2>2
    <3>2. Message("msg", m) \in SoundFrames
      BY <1>2, <3>1, MessageIsSound DEF App, Typed
    <3> QED BY <1>3, <2>2, <3>2, QueuedType DEF Send
  <2> QED BY <2>1, <2>2
<1>6. sent' \subseteq Msgs
  BY <1>1, <1>2 DEF Typed
<1> QED BY <1>1, <1>2, <1>3, <1>5, <1>6, LocalStep DEF Typed, Bounded

LEMMA PingStep ==
  ASSUME Sound, NEW n \in Nodes, Ping(n)
  PROVE  Sound'
<1>1. /\ UNCHANGED setup /\ UNCHANGED <<phase, session, sent, wire, reader, inq, worker>>
      /\ phase[n] = "ready" /\ beat' = [beat EXCEPT ![n] = "pinging"]
  BY DEF Ping, ends
<1>2. Typed /\ Bounded
  BY DEF Sound
<1>3. out' \in [Nodes -> Seq(SoundFrames)]
  BY ControlIsSound, QueuedType DEF Ping
<1>4. beat' \in [Nodes -> {"idle", "pinging", "done"}]
  BY <1>1, <1>2 DEF Typed
<1> QED BY <1>1, <1>2, <1>3, <1>4, LocalStep DEF Typed, Bounded

LEMMA PongTimesOutStep ==
  ASSUME Sound, NEW n \in Nodes, PongTimesOut(n)
  PROVE  Sound'
<1>1. Typed /\ UNCHANGED <<reader, worker>> /\ beat' = [beat EXCEPT ![n] = "done"]
  BY DEF Sound, PongTimesOut
<1>2. beat' \in [Nodes -> {"idle", "pinging", "done"}]
  BY <1>1 DEF Typed
<1> QED BY <1>1, <1>2, CloseStep DEF PongTimesOut, Typed

LEMMA WriteStep ==
  ASSUME Sound, NEW n \in Nodes, Write(n)
  PROVE  Sound'
<1>1. /\ UNCHANGED setup /\ UNCHANGED <<session, sent, reader, inq, worker, beat>>
      /\ phase[n] = "ready" /\ out[n] # <<>>
  BY DEF Write
<1>2. Typed /\ Bounded /\ HelloFirst
  BY DEF Sound
<1>3. CASE Close(n) /\ UNCHANGED wire
  BY <1>1, <1>2, <1>3, CloseStep DEF Typed
<1>4. CASE /\ ~Full(n) /\ UNCHANGED phase
           /\ wire' = [wire EXCEPT ![n] = Append(@, Head(out[n]))]
           /\ out' = [out EXCEPT ![n] = Tail(@)]
  <2>1. /\ ~(Len(wire[n]) > Buffer) /\ phase' = phase
        /\ wire' = [wire EXCEPT ![n] = Append(@, Head(out[n]))]
        /\ out' = [out EXCEPT ![n] = Tail(@)]
    BY <1>4 DEF Full
  <2>2. /\ SoundFrames' = SoundFrames /\ config' = config
        /\ ReaderStates' = ReaderStates /\ WorkerStates' = WorkerStates
    BY <1>1, StatesKept
  <2>3. out[n] \in Seq(SoundFrames) /\ wire[n] \in Seq(Frames)
    BY <1>2 DEF Typed
  <2>4. /\ Head(out[n]) \in SoundFrames /\ Head(out[n]) \in Frames
        /\ Tail(out[n]) \in Seq(SoundFrames)
    BY <1>1, <2>3, HeadTailProperties, SoundIsFrame
  <2>5. Append(wire[n], Head(out[n])) \in Seq(Frames)
        /\ Len(Append(wire[n], Head(out[n]))) = Len(wire[n]) + 1
    BY <2>3, <2>4
  <2>6. Typed'
    BY <1>1, <1>2, <2>1, <2>2, <2>4, <2>5 DEF Typed
  <2>7. Bounded'
    <3>1. Len(wire'[n]) <= Buffer + 1
      BY <1>2, <2>1, <2>3, <2>5, SessionAssumption, LenProperties DEF Typed
    <3> QED BY <1>1, <1>2, <2>1, <3>1 DEF Bounded, Typed
  <2>8. SessionsSound'
    BY <1>1, <2>1, SessionsKept
  <2>9. QuietBeforeReady'
    BY <1>1, <2>1, QuietKept
  <2>10. Other(n) \in Nodes /\ Other(n) # n /\ Other(Other(n)) = n /\ Nodes = {n, Other(n)}
    BY DEF Other, Nodes
  <2>11. Channel(Other(n))'
    BY <1>2, <2>1, <2>2, <2>10 DEF Typed, HelloFirst, Channel, IsHello
  <2>12. Channel(n)'
    <3>1. Channel(n) /\ wire'[n] = Append(wire[n], Head(out[n]))
      BY <1>2, <2>1 DEF HelloFirst, Typed
    <3>2. CASE phase[Other(n)] = "ready"
      BY <1>1, <2>1, <2>2, <2>4, <3>1, <3>2 DEF Channel
    <3>3. CASE phase[Other(n)] \in {"new", "hello"}
      BY <1>1, <2>1, <2>2, <2>3, <2>4, <3>1, <3>3, AppendToHello DEF Channel, IsHello
    <3>4. CASE phase[Other(n)] = "closed"
      BY <1>1, <2>1, <3>4 DEF Channel
    <3> QED BY <1>2, <2>10, <3>2, <3>3, <3>4 DEF Typed
  <2> QED BY <2>6, <2>7, <2>8, <2>9, <2>10, <2>11, <2>12 DEF Sound, HelloFirst
<1> QED BY <1>3, <1>4 DEF Write

\* Both ends are closed: what was on its way from n is not read any more.
LEMMA ResetStep ==
  ASSUME Sound, NEW n \in Nodes, Reset(n)
  PROVE  Sound'
<1>1. /\ UNCHANGED setup /\ UNCHANGED <<session, sent, reader, inq, worker, beat>>
      /\ phase' = [phase EXCEPT ![n] = "closed"] /\ out' = [out EXCEPT ![n] = <<>>]
      /\ wire' = [wire EXCEPT ![n] = <<>>] /\ phase[Other(n)] = "closed"
  BY DEF Reset, Close, SocketClosed
<1>2. Typed /\ Bounded
  BY DEF Sound
<1>3. /\ SoundFrames' = SoundFrames /\ config' = config
      /\ ReaderStates' = ReaderStates /\ WorkerStates' = WorkerStates
  BY <1>1, StatesKept
<1>4. Typed'
  BY <1>1, <1>2, <1>3, EmptySeq DEF Typed
<1>5. Bounded'
  <2>1. wire'[n] = <<>> /\ Len(wire'[n]) = 0
    BY <1>1, <1>2 DEF Typed
  <2> QED BY <1>1, <1>2, <2>1, SessionAssumption DEF Typed, Bounded
<1>6. SessionsSound'
  BY <1>1, <1>2, SessionsKept DEF Typed
<1>7. QuietBeforeReady'
  BY <1>1, <1>2, QuietKept DEF Typed
<1>8. HelloFirst'
  <2>1. Other(n) \in Nodes /\ Other(n) # n /\ Other(Other(n)) = n /\ Nodes = {n, Other(n)}
    BY DEF Other, Nodes
  <2>2. phase'[n] = "closed" /\ phase'[Other(n)] = "closed"
    BY <1>1, <1>2, <2>1 DEF Typed
  <2> QED BY <2>1, <2>2 DEF HelloFirst, Channel
<1> QED BY <1>4, <1>5, <1>6, <1>7, <1>8 DEF Sound

-----------------------------------------------------------------------------
(* The reader *)

LEMMA AcceptType ==
  ASSUME Sound, NEW n \in Nodes, NEW f \in SoundFrames, Accept(n, f)
  PROVE  /\ reader' \in [Nodes -> ReaderStates] /\ worker' \in [Nodes -> [Workers -> WorkerStates]]
         /\ \A k \in Nodes \ {n} : reader'[k] = reader[k] /\ worker'[k] = worker[k]
<1>1. Recv \in ReaderStates /\ [pc |-> "put", frame |-> f] \in ReaderStates /\ Idle \in WorkerStates
  BY DEF Recv, Idle, ReaderStates, WorkerStates
<1>2. reader \in [Nodes -> ReaderStates] /\ worker \in [Nodes -> [Workers -> WorkerStates]]
  BY DEF Sound, Typed
<1>3. CASE f.kind = "rep"
  BY <1>1, <1>2, <1>3 DEF Accept, Resolve
<1>4. CASE f.kind # "rep"
  BY <1>1, <1>2, <1>4 DEF Accept
<1> QED BY <1>3, <1>4

LEMMA ReceiveStep ==
  ASSUME Sound, NEW n \in Nodes, Receive(n)
  PROVE  Sound'
<1> DEFINE f == Head(wire[Other(n)])
<1>1. /\ UNCHANGED setup /\ UNCHANGED <<session, sent, inq>>
      /\ phase[n] = "ready" /\ wire[Other(n)] # <<>>
      /\ wire' = [wire EXCEPT ![Other(n)] = Tail(@)]
  BY DEF Receive
<1>2. Typed /\ Bounded /\ SessionsSound
  BY DEF Sound
<1>3. f \in SoundFrames
  BY <1>1, ReadsSound
<1>4. session[n] = Agreed(n)
  BY <1>1, <1>2 DEF SessionsSound
<1>5. Valid(n, f)
  BY <1>2, <1>3, <1>4, SoundIsValid DEF Typed
<1>6. /\ SoundFrames' = SoundFrames /\ config' = config
      /\ ReaderStates' = ReaderStates /\ WorkerStates' = WorkerStates
  BY <1>1, StatesKept
<1>7. /\ phase' = phase /\ beat' \in [Nodes -> {"idle", "pinging", "done"}]
      /\ out' \in [Nodes -> Seq(SoundFrames)]
      /\ reader' \in [Nodes -> ReaderStates] /\ worker' \in [Nodes -> [Workers -> WorkerStates]]
      /\ \A k \in Nodes \ {n} : reader'[k] = reader[k] /\ worker'[k] = worker[k]
  <2>1. CASE Answer(n, f) # None
    <3>1. /\ Queued(n, Answer(n, f)) /\ UNCHANGED <<phase, worker, beat>>
          /\ reader' = [reader EXCEPT ![n] = [pc |-> "ack", frame |-> f]]
      BY <1>5, <2>1 DEF Receive
    <3>2. out' \in [Nodes -> Seq(SoundFrames)]
      BY <1>2, <1>3, <1>4, <2>1, <3>1, AnswerIsSound, QueuedType DEF Typed
    <3>3. [pc |-> "ack", frame |-> f] \in ReaderStates
      BY <1>3 DEF ReaderStates
    <3> QED BY <1>2, <3>1, <3>2, <3>3 DEF Typed
  <2>2. CASE Answer(n, f) = None /\ f.kind \in App
    <3>1. Accept(n, f) /\ UNCHANGED <<phase, out, beat>>
      BY <1>5, <2>2 DEF Receive
    <3> QED BY <1>2, <1>3, <3>1, AcceptType DEF Typed
  <2>3. CASE Answer(n, f) = None /\ f.kind \notin App
    <3>1. /\ UNCHANGED <<phase, out, reader, worker>>
          /\ beat' = [beat EXCEPT ![n] = IF f.kind = "pong" THEN "done" ELSE @]
      BY <1>5, <2>3 DEF Receive
    <3> QED BY <1>2, <3>1 DEF Typed
  <2> QED BY <2>1, <2>2, <2>3
<1>8. Other(n) \in Nodes /\ Other(n) # n /\ Nodes = {n, Other(n)}
  BY DEF Other, Nodes
<1>9. wire[Other(n)] \in Seq(Frames) /\ Tail(wire[Other(n)]) \in Seq(Frames)
      /\ Len(Tail(wire[Other(n)])) = Len(wire[Other(n)]) - 1 /\ Len(wire[Other(n)]) \in Nat
  BY <1>1, <1>2, <1>8, HeadTailProperties, LenProperties DEF Typed
<1>10. Typed'
  <2>1. wire' \in [Nodes -> Seq(Frames)]
    BY <1>1, <1>2, <1>9 DEF Typed
  <2> QED BY <1>1, <1>2, <1>6, <1>7, <2>1 DEF Typed
<1>11. Bounded'
  <2>1. Len(wire'[Other(n)]) <= Buffer + 1
    BY <1>1, <1>2, <1>8, <1>9, SessionAssumption DEF Typed, Bounded
  <2> QED BY <1>1, <1>2, <1>8, <2>1 DEF Typed, Bounded
<1>12. SessionsSound'
  BY <1>1, <1>7, SessionsKept
<1>13. QuietBeforeReady'
  BY <1>1, <1>7, QuietKept
<1>14. HelloFirst'
  BY <1>1, <1>7, TakeFrame
<1> QED BY <1>10, <1>11, <1>12, <1>13, <1>14 DEF Sound

LEMMA AnsweredStep ==
  ASSUME Sound, NEW n \in Nodes, Answered(n)
  PROVE  Sound'
<1>1. /\ UNCHANGED setup /\ UNCHANGED <<phase, session, sent, out, wire, inq, beat>>
      /\ phase[n] = "ready" /\ reader[n].pc = "ack"
  BY DEF Answered, ends, queues
<1>2. Typed /\ Bounded
  BY DEF Sound
<1>3. reader[n].frame \in SoundFrames
  BY <1>1, <1>2 DEF Typed, ReaderStates
<1>4. /\ reader' \in [Nodes -> ReaderStates] /\ worker' \in [Nodes -> [Workers -> WorkerStates]]
      /\ \A k \in Nodes \ {n} : reader'[k] = reader[k] /\ worker'[k] = worker[k]
  <2>1. CASE reader[n].frame.kind = "ping"
    <3>1. Recv \in ReaderStates
      BY DEF Recv, ReaderStates
    <3> QED BY <1>2, <2>1, <3>1 DEF Answered, Typed
  <2>2. CASE reader[n].frame.kind # "ping"
    BY <1>3, <2>2, AcceptType DEF Answered
  <2> QED BY <2>1, <2>2
<1> QED BY <1>1, <1>2, <1>4, LocalStep DEF Typed, Bounded

\* An end whose reader or handler is at work has reached READY.
LEMMA AtWork ==
  ASSUME Sound, NEW n \in Nodes, phase[n] \in {"new", "hello"}
  PROVE  /\ reader[n].pc = "recv" /\ inq[n] = <<>>
         /\ \A w \in Workers : worker[n][w].pc = "idle"
BY DEF Sound, QuietBeforeReady, Untouched

LEMMA EnqueueStep ==
  ASSUME Sound, NEW n \in Nodes, Enqueue(n)
  PROVE  Sound'
<1>1. /\ UNCHANGED setup /\ UNCHANGED <<session, sent, wire, worker, beat>>
      /\ reader[n].pc = "put"
  BY DEF Enqueue
<1>2. Typed /\ Bounded
  BY DEF Sound
<1>3. reader[n].frame \in SoundFrames /\ phase[n] \notin {"new", "hello"}
  <2>1. reader[n].frame \in SoundFrames
    BY <1>1, <1>2 DEF Typed, ReaderStates
  <2> QED BY <1>1, <2>1, AtWork
<1>4. Recv \in ReaderStates /\ Ended \in ReaderStates
  BY DEF Recv, Ended, ReaderStates
<1>5. CASE ~NoRoom(n)
  <2>1. /\ inq' = [inq EXCEPT ![n] = Append(@, reader[n].frame)] /\ UNCHANGED <<phase, out>>
        /\ reader' = [reader EXCEPT ![n] = Recv]
    BY <1>5 DEF Enqueue
  <2>2. inq[n] \in Seq(SoundFrames) /\ Len(inq[n]) \in Nat
    BY <1>2, LenProperties DEF Typed
  <2>3. /\ Append(inq[n], reader[n].frame) \in Seq(SoundFrames)
        /\ Len(Append(inq[n], reader[n].frame)) = Len(inq[n]) + 1
    BY <1>3, <2>2
  <2>4. Len(inq[n]) + 1 <= MaxIn
    BY <1>5, <2>2, SessionAssumption DEF NoRoom
  <2>5. \A k \in Nodes : Len(inq'[k]) <= MaxIn
    BY <1>2, <2>1, <2>3, <2>4 DEF Bounded, Typed
  <2>6. /\ inq' \in [Nodes -> Seq(SoundFrames)] /\ reader' \in [Nodes -> ReaderStates]
        /\ \A k \in Nodes \ {n} : reader'[k] = reader[k] /\ inq'[k] = inq[k]
    BY <1>2, <1>4, <2>1, <2>3 DEF Typed
  <2> QED BY <1>1, <1>2, <1>3, <2>1, <2>5, <2>6, LocalStep DEF Typed
<1>6. CASE NoRoom(n)
  <2>1. reader' = [reader EXCEPT ![n] = Ended] /\ Close(n) /\ UNCHANGED inq
    BY <1>6 DEF Enqueue
  <2>2. /\ reader' \in [Nodes -> ReaderStates]
        /\ \A k \in Nodes \ {n} : reader'[k] = reader[k]
    BY <1>2, <1>4, <2>1 DEF Typed
  <2> QED BY <1>1, <1>2, <1>3, <2>1, <2>2, CloseStep DEF Typed
<1> QED BY <1>5, <1>6

LEMMA ReaderEndsStep ==
  ASSUME Sound, NEW n \in Nodes, ReaderEnds(n)
  PROVE  Sound'
<1>1. /\ UNCHANGED setup /\ UNCHANGED <<session, sent, wire, inq>> /\ Close(n)
      /\ phase[n] # "new"
  BY DEF ReaderEnds, SocketClosed
<1>2. Typed
  BY DEF Sound
<1>3. Ended \in ReaderStates /\ Idle \in WorkerStates
  BY DEF Ended, Idle, ReaderStates, WorkerStates
<1>4. /\ reader' \in [Nodes -> ReaderStates]
      /\ \A k \in Nodes \ {n} : reader'[k] = reader[k]
  BY <1>2, <1>3 DEF ReaderEnds, Typed
<1>5. /\ worker' \in [Nodes -> [Workers -> WorkerStates]]
      /\ \A k \in Nodes \ {n} : worker'[k] = worker[k]
  BY <1>2, <1>3 DEF ReaderEnds, Typed
<1>6. beat' \in [Nodes -> {"idle", "pinging", "done"}]
  BY <1>2 DEF ReaderEnds, Typed
<1> QED BY <1>1, <1>4, <1>5, <1>6, CloseStep

-----------------------------------------------------------------------------
(* The handlers *)

LEMMA SetWorkerType ==
  ASSUME Sound, NEW n \in Nodes, NEW w \in Workers, NEW s \in WorkerStates, SetWorker(n, w, s)
  PROVE  /\ worker' \in [Nodes -> [Workers -> WorkerStates]]
         /\ \A k \in Nodes \ {n} : worker'[k] = worker[k]
BY DEF Sound, Typed, SetWorker

LEMMA TakeStep ==
  ASSUME Sound, NEW n \in Nodes, NEW w \in Workers, Take(n, w)
  PROVE  Sound'
<1>1. /\ UNCHANGED setup /\ UNCHANGED <<phase, session, sent, out, wire, reader, beat>>
      /\ inq[n] # <<>> /\ inq' = [inq EXCEPT ![n] = Tail(@)]
  BY DEF Take, ends, queues
<1>2. Typed /\ Bounded
  BY DEF Sound
<1>3. inq[n] \in Seq(SoundFrames)
  BY <1>2 DEF Typed
<1>4. /\ Head(inq[n]) \in SoundFrames /\ Tail(inq[n]) \in Seq(SoundFrames)
      /\ Len(Tail(inq[n])) = Len(inq[n]) - 1 /\ Len(inq[n]) \in Nat
  BY <1>1, <1>3, HeadTailProperties, LenProperties
<1>5. [pc |-> "busy", frame |-> Head(inq[n])] \in WorkerStates
  BY <1>4 DEF WorkerStates
<1>6. \A k \in Nodes : Len(inq'[k]) <= MaxIn
  BY <1>1, <1>2, <1>4, SessionAssumption DEF Typed, Bounded
<1>7. /\ inq' \in [Nodes -> Seq(SoundFrames)]
      /\ \A k \in Nodes \ {n} : inq'[k] = inq[k]
  BY <1>1, <1>2, <1>4 DEF Typed
<1>8. /\ worker' \in [Nodes -> [Workers -> WorkerStates]]
      /\ \A k \in Nodes \ {n} : worker'[k] = worker[k]
  BY <1>5, SetWorkerType DEF Take
<1>9. phase[n] \notin {"new", "hello"}
  BY <1>1, AtWork
<1> QED BY <1>1, <1>2, <1>6, <1>7, <1>8, <1>9, LocalStep DEF Typed

\* A worker goes on: it queues at most one sound frame.
LEMMA WorkerStepKeeps ==
  ASSUME Sound, UNCHANGED setup, NEW n \in Nodes, NEW w \in Workers, worker[n][w].pc # "idle",
         UNCHANGED <<phase, session, sent, wire, reader, inq, beat>>,
         out' \in [Nodes -> Seq(SoundFrames)],
         NEW s \in WorkerStates, SetWorker(n, w, s)
  PROVE  Sound'
<1>1. Typed /\ Bounded
  BY DEF Sound
<1>2. phase[n] \notin {"new", "hello"}
  BY AtWork
<1>3. /\ worker' \in [Nodes -> [Workers -> WorkerStates]]
      /\ \A k \in Nodes \ {n} : worker'[k] = worker[k]
  BY SetWorkerType
<1> QED BY <1>1, <1>2, <1>3, LocalStep DEF Typed, Bounded

LEMMA HandleStep ==
  ASSUME Sound, NEW n \in Nodes, NEW w \in Workers, Handle(n, w)
  PROVE  Sound'
<1> DEFINE f == worker[n][w].frame
<1>1. /\ UNCHANGED setup /\ UNCHANGED <<phase, session, sent, wire, reader, inq, beat>>
      /\ worker[n][w].pc = "busy"
  BY DEF Handle
<1>2. Typed
  BY DEF Sound
<1>3. f \in SoundFrames
  BY <1>1, <1>2 DEF Typed, WorkerStates
<1>4. f.kind \in App => f.id \in Msgs /\ Size[f.id] <= Limit("dialler")
  BY <1>3 DEF SoundFrames
<1>5. /\ Idle \in WorkerStates
      /\ [pc |-> "wait", frame |-> f] \in WorkerStates
      /\ [pc |-> "reply", frame |-> f] \in WorkerStates
  BY <1>3 DEF Idle, WorkerStates
<1>6. CASE SetWorker(n, w, Idle) /\ UNCHANGED out
  BY <1>1, <1>2, <1>5, <1>6, WorkerStepKeeps DEF Typed
<1>7. CASE /\ f.kind = "msg" /\ Queued(n, Message("req", f.id))
           /\ SetWorker(n, w, [pc |-> "wait", frame |-> f])
  <2>1. Message("req", f.id) \in SoundFrames
    BY <1>2, <1>4, <1>7, MessageIsSound DEF App, Typed
  <2> QED BY <1>1, <1>5, <1>7, <2>1, QueuedType, WorkerStepKeeps
<1>8. CASE /\ f.kind = "req" /\ Queued(n, Message("rep", f.id))
           /\ SetWorker(n, w, [pc |-> "reply", frame |-> f])
  <2>1. Message("rep", f.id) \in SoundFrames
    BY <1>2, <1>4, <1>8, MessageIsSound DEF App, Typed
  <2> QED BY <1>1, <1>5, <1>8, <2>1, QueuedType, WorkerStepKeeps
<1> QED BY <1>6, <1>7, <1>8 DEF Handle

\* A handler's exception ends the handler, and closes the connection if so configured.
LEMMA RaisesStep ==
  ASSUME Sound, UNCHANGED setup, NEW n \in Nodes, NEW w \in Workers, worker[n][w].pc # "idle",
         UNCHANGED <<session, sent, wire, reader, inq, beat>>, Raises(n, w)
  PROVE  Sound'
<1>1. Typed /\ Idle \in WorkerStates
  BY DEF Sound, Idle, WorkerStates
<1>2. [worker[n][w] EXCEPT !.pc = "close"] \in WorkerStates
  <2>1. worker[n][w] \in [pc : {"busy", "wait", "reply", "close"}, frame : SoundFrames]
    BY <1>1 DEF Typed, WorkerStates
  <2> QED BY <2>1 DEF WorkerStates
<1>3. phase[n] \notin {"new", "hello"}
  BY AtWork
<1>4. CASE SetWorker(n, w, [worker[n][w] EXCEPT !.pc = "close"]) /\ Close(n)
  BY <1>1, <1>2, <1>3, <1>4, SetWorkerType, CloseStep DEF Typed
<1>5. CASE SetWorker(n, w, Idle) /\ UNCHANGED <<phase, out>>
  BY <1>1, <1>5, WorkerStepKeeps DEF Typed
<1> QED BY <1>4, <1>5 DEF Raises

LEMMA HandlerFailsStep ==
  ASSUME Sound, NEW n \in Nodes, NEW w \in Workers, HandlerFails(n, w)
  PROVE  Sound'
BY RaisesStep DEF HandlerFails

LEMMA CallEndsStep ==
  ASSUME Sound, NEW n \in Nodes, NEW w \in Workers,
         Replied(n, w) \/ HandlerTimesOut(n, w) \/ CloseReturns(n, w)
  PROVE  Sound'
<1>1. /\ UNCHANGED setup /\ UNCHANGED <<session, sent, wire, reader, inq, beat>>
      /\ worker[n][w].pc # "idle"
      /\ Raises(n, w) \/ (SetWorker(n, w, Idle) /\ UNCHANGED <<phase, out>>)
  BY DEF Replied, HandlerTimesOut, CloseReturns, ends, queues
<1>2. CASE Raises(n, w)
  BY <1>1, <1>2, RaisesStep
<1>3. CASE SetWorker(n, w, Idle) /\ UNCHANGED <<phase, out>>
  <2>1. Typed /\ Idle \in WorkerStates
    BY DEF Sound, Idle, WorkerStates
  <2> QED BY <1>1, <1>3, <2>1, WorkerStepKeeps DEF Typed
<1> QED BY <1>1, <1>2, <1>3

-----------------------------------------------------------------------------
(* The theorems *)

LEMMA StutterSound ==
  ASSUME Sound, UNCHANGED vars
  PROVE  Sound'
<1>1. /\ UNCHANGED setup
      /\ UNCHANGED <<phase, session, sent, out, wire, reader, inq, worker, beat>>
  BY DEF vars, setup
<1>2. /\ SoundFrames' = SoundFrames /\ config' = config
      /\ ReaderStates' = ReaderStates /\ WorkerStates' = WorkerStates
  BY <1>1, StatesKept
<1>3. Typed' /\ Bounded' /\ QuietBeforeReady'
  BY <1>1, <1>2 DEF Sound, Typed, Bounded, QuietBeforeReady, Untouched
<1> QED BY <1>1, <1>3, SessionsKept, ChannelsKept DEF Sound

LEMMA StepSound == Sound /\ [Next]_vars => Sound'
<1> SUFFICES ASSUME Sound, [Next]_vars PROVE Sound'
  OBVIOUS
<1>1. ASSUME NEW n \in Nodes, NodeStep(n) PROVE Sound'
  <2>1. ASSUME NEW w \in Workers, WorkerStep(n, w) PROVE Sound'
    BY <2>1, TakeStep, HandleStep, HandlerFailsStep, CallEndsStep DEF WorkerStep
  <2>2. CASE ReaderStep(n)
    BY <2>2, ReceiveStep, AnsweredStep, EnqueueStep, ReaderEndsStep DEF ReaderStep
  <2> QED
    BY <1>1, <2>1, <2>2, HelloStep, NegotiateStep, HandshakeFailsStep, WriteStep, PingStep,
       PongTimesOutStep, ResetStep DEF NodeStep
<1>2. ASSUME NEW m \in Msgs, Send(m) PROVE Sound'
  BY <1>2, SendStep
<1>3. CASE UNCHANGED vars
  BY <1>3, StutterSound
<1> QED BY <1>1, <1>2, <1>3 DEF Next

LEMMA SoundHolds == Spec => []Sound
BY InitSound, StepSound, PTL DEF Spec

\* The state of each end keeps its type, the inbound queue stays within
\* max_inbound_queue, and an end is READY only with a negotiated session.
THEOREM TypeCorrect == Spec => []TypeOK
<1>1. Sound => TypeOK
  <2> SUFFICES ASSUME Sound PROVE TypeOK
    OBVIOUS
  <2>1. Typed /\ Bounded /\ SessionsSound
    BY DEF Sound
  <2>2. ASSUME NEW n \in Nodes
        PROVE  /\ \A i \in DOMAIN out[n] : out[n][i] \in Frames
               /\ \A i \in DOMAIN wire[n] : wire[n][i] \in Frames
    <3>1. out[n] \in Seq(SoundFrames) /\ wire[n] \in Seq(Frames)
      BY <2>1 DEF Typed
    <3> QED BY <3>1, SoundIsFrame, ElementOfSeq, LenProperties
  <2>3. ASSUME NEW n \in Nodes
        PROVE  /\ reader[n].pc \in {"recv", "ack", "put", "ended", "refused"}
               /\ \A w \in Workers : worker[n][w].pc \in {"idle", "busy", "wait", "reply", "close"}
    BY <2>1 DEF Typed, ReaderStates, WorkerStates
  <2> QED BY <2>1, <2>2, <2>3 DEF TypeOK, Typed, Bounded, SessionsSound
<1> QED BY <1>1, SoundHolds, PTL

\* Whatever the two configurations, the reader of an end never refuses a frame that
\* the other end wrote.
THEOREM HonestPeerNotRefused == Spec => []NoRefusal
<1>1. Sound => NoRefusal
  BY DEF Sound, Typed, ReaderStates, NoRefusal
<1> QED BY <1>1, SoundHolds, PTL

\* Two sessions of one connection have the same version, serializer, capabilities and
\* limit, and no end has a session with somebody it did not expect or has not a proof of.
THEOREM EndsAgree == Spec => []SessionsAgree
<1>1. Sound => SessionsAgree
  <2> SUFFICES ASSUME Sound, \A n \in Nodes : session[n] # None
               PROVE  /\ session["dialler"].version = session["listener"].version
                      /\ session["dialler"].serializer = session["listener"].serializer
                      /\ session["dialler"].capabilities = session["listener"].capabilities
                      /\ session["dialler"].max = session["listener"].max
                      /\ \A n \in Nodes : {expected[n], ProvenId(n)} \subseteq {None, Other(n)}
    BY DEF SessionsAgree
  <2>1. \A n \in Nodes : session[n] = Agreed(n) /\ Acceptable(n)
    BY DEF Sound, SessionsSound
  <2>2. "dialler" \in Nodes /\ "listener" \in Nodes
    BY DEF Nodes
  <2>a. ASSUME NEW n \in Nodes
        PROVE  /\ session[n].capabilities = Common(n) /\ session[n].max = Limit(n)
               /\ session[n].version = config[Other(n)].version
               /\ session[n].serializer = config[Other(n)].serializer
    <3>1. session[n] = Agreed(n)
      BY <2>1
    <3> QED BY <3>1 DEF Agreed
  <2>3. /\ Limit("listener") = Limit("dialler") /\ Common("listener") = Common("dialler")
    BY <2>2, Symmetric DEF Sound, Typed
  <2>4. /\ session["dialler"].capabilities = session["listener"].capabilities
        /\ session["dialler"].max = session["listener"].max
    <3>1. /\ session["dialler"].capabilities = Common("dialler")
          /\ session["dialler"].max = Limit("dialler")
      BY <2>2, <2>a
    <3>2. /\ session["listener"].capabilities = Common("listener")
          /\ session["listener"].max = Limit("listener")
      BY <2>2, <2>a
    <3> QED BY <2>3, <3>1, <3>2
  <2>5. /\ session["dialler"].version = session["listener"].version
        /\ session["dialler"].serializer = session["listener"].serializer
    <3>1. Other("dialler") = "listener" /\ Other("listener") = "dialler"
      BY DEF Other
    <3>2. /\ session["dialler"].version = config["listener"].version
          /\ session["dialler"].serializer = config["listener"].serializer
      BY <2>2, <2>a, <3>1
    <3>3. /\ session["listener"].version = config["dialler"].version
          /\ session["listener"].serializer = config["dialler"].serializer
      BY <2>2, <2>a, <3>1
    <3>4. /\ config["listener"].version = config["dialler"].version
          /\ config["listener"].serializer = config["dialler"].serializer
      BY <2>1, <2>2, <3>1 DEF Acceptable
    <3> QED BY <3>2, <3>3, <3>4
  <2>6. \A n \in Nodes : {expected[n], ProvenId(n)} \subseteq {None, Other(n)}
    BY <2>1 DEF Acceptable
  <2> QED BY <2>4, <2>5, <2>6
<1> QED BY <1>1, SoundHolds, PTL
=============================================================================
