------------------------------- MODULE Session -------------------------------
(***************************************************************************)
(* One connection between two nodes, from the hello exchange to its end:    *)
(* negotiate_protocol (core/protocol.py), the reader and the writer of each *)
(* end, the inbound queue with its handler workers, and the heartbeat       *)
(* (core/node.py), over a TcpConnection whose buffers hold a bounded number *)
(* of frames (lan/connection.py).                                           *)
(*                                                                          *)
(* A handler may make a request of its own to the sender and wait for the   *)
(* reply.  The callers of _queue_frame do not outnumber max_outbound_queue  *)
(* (OutboundChannel is about that limit), correlation ids are those of      *)
(* Correlations, and control frames fit the transport's frame limit.        *)
(***************************************************************************)
EXTENDS Naturals, Sequences

CONSTANTS
  Configs,    \* configurations a node may have
  Tls,        \* pairs: how the dialler and the listener use TLS, and what they are shown
  Expected,   \* the peer ids the dialler may have been led to expect
  Msgs,       \* application messages, numbered in the order a node sends them
  From,       \* the node that sends each message
  Size,       \* its serialized size
  Nested,     \* the messages whose handler makes a request before it ends
  Beating,    \* nodes with a heartbeat_interval
  Workers,    \* handler workers of a node
  MaxIn,      \* max_inbound_queue
  Buffer,     \* frames the two sockets hold, each way: one more waits in the writer's transport
  None

Nodes    == {"dialler", "listener"}   \* also their peer ids
Other(n) == IF n = "dialler" THEN "listener" ELSE "dialler"
Offered  == {"ack", "heartbeat"}

Kinds  == {"hello", "msg", "req", "rep", "ack", "ping", "pong"}
Frames == [kind : Kinds, id : Msgs \cup {None}, size : Nat]
App    == {"msg", "req", "rep"}

ProtocolSessions ==
  [peer : Nodes, version : {c.version : c \in Configs}, serializer : {c.serializer : c \in Configs},
   capabilities : SUBSET Offered, max : Nat, authenticated : BOOLEAN]

\* max_frame_size has room for the kind byte and the greatest message: docs/transports.md
\* asks it of the user, and nothing in the code checks it.
ASSUME SessionAssumption ==
  /\ \A c \in Configs :
       /\ c.version \in Nat /\ c.max \in Nat \ {0} /\ c.frame \in Nat /\ c.frame >= c.max + 1
       /\ {c.acks, c.strict, c.reject, c.closeOnError} \subseteq BOOLEAN
  /\ Msgs \subseteq Nat /\ From \in [Msgs -> Nodes] /\ Size \in [Msgs -> Nat] /\ Nested \subseteq Msgs
  /\ {MaxIn, Buffer} \subseteq Nat \ {0} /\ Beating \subseteq Nodes
  /\ None \notin Nodes /\ None \notin Frames /\ None \notin ProtocolSessions

VARIABLES
  config,    \* of each node
  tls,       \* each end: does it verify, has it a resolver, whose certificate it is shown
  expected,  \* expected_peer_id: the dialler's intended peer, None at the listener
  phase,     \* each end: new, hello, ready, closed
  session,   \* its ProtocolSession
  sent,      \* messages whose send() has been called
  out,       \* frames given to _queue_frame and not yet written
  wire,      \* frames in the transport and the sockets, by sender
  reader,    \* what each reader does, and with which frame
  inq,       \* _inbound_queue
  worker,    \* what each handler worker does, and with which frame
  beat       \* the heartbeat, one PING of it: idle, pinging, or done

vars == <<config, tls, expected, phase, session, sent, out, wire, reader, inq, worker, beat>>
setup  == <<config, tls, expected>>
ends   == <<phase, session>>
queues == <<out, wire>>

Idle == [pc |-> "idle", frame |-> None]
Recv == [pc |-> "recv", frame |-> None]
Ended == [pc |-> "ended", frame |-> None]
Refused == [pc |-> "refused", frame |-> None]

TypeOK ==
  /\ phase \in [Nodes -> {"new", "hello", "ready", "closed"}]
  /\ \A n \in Nodes : phase[n] = "ready" => session[n] # None
  /\ sent \subseteq Msgs
  /\ \A n \in Nodes : /\ \A i \in DOMAIN out[n] : out[n][i] \in Frames
                      /\ \A i \in DOMAIN wire[n] : wire[n][i] \in Frames
                      /\ Len(wire[n]) <= Buffer + 1 /\ Len(inq[n]) <= MaxIn
                      /\ reader[n].pc \in {"recv", "ack", "put", "ended", "refused"}
                      /\ \A w \in Workers : worker[n][w].pc \in {"idle", "busy", "wait", "reply", "close"}
  /\ beat \in [Nodes -> {"idle", "pinging", "done"}]

Init ==
  /\ config \in [Nodes -> Configs]
  /\ \E p \in Tls : tls = [n \in Nodes |-> IF n = "dialler" THEN p[1] ELSE p[2]]
  /\ \E e \in Expected : expected = [n \in Nodes |-> IF n = "dialler" THEN e ELSE None]
  /\ phase = [n \in Nodes |-> "new"] /\ session = [n \in Nodes |-> None]
  /\ sent = {}
  /\ out = [n \in Nodes |-> <<>>] /\ wire = [n \in Nodes |-> <<>>]
  /\ reader = [n \in Nodes |-> Recv]
  /\ inq = [n \in Nodes |-> <<>>] /\ worker = [n \in Nodes |-> [w \in Workers |-> Idle]]
  /\ beat = [n \in Nodes |-> "idle"]

-----------------------------------------------------------------------------
(* The hello exchange: negotiate_protocol *)

Control(kind, id) == [kind |-> kind, id |-> id, size |-> 0]

HelloFrame == Control("hello", None)

\* _decode_hello: every other frame, and a malformed hello, is refused.
IsHello(f) == f.kind = "hello"

\* send_frame and receive_frame refuse a frame, kind byte included, over max_frame_size.
FrameFits(n, f) == f.size + 1 <= config[n].frame

Hello(n) ==
  /\ phase[n] = "new"
  /\ phase' = [phase EXCEPT ![n] = "hello"]
  /\ wire' = [wire EXCEPT ![n] = Append(@, HelloFrame)]
  /\ UNCHANGED <<setup, session, sent, out, reader, inq, worker, beat>>

\* _offered_capabilities: acknowledgements if enabled, heartbeats always.
Offer(n) == IF config[n].acks THEN Offered ELSE Offered \ {"ack"}

\* Mutant: the capabilities of the session are the local ones.
Common_Local(n) == Offer(n)

Common(n) == Offer(n) \cap Offer(Other(n))

\* The lower of the two offers.
Limit(n) == IF config[n].max <= config[Other(n)].max THEN config[n].max ELSE config[Other(n)].max

\* security_info_from_writer: only a verified certificate authenticates, and only a
\* resolver makes a peer id of it.  Where a certificate is required there is one.
Authenticated(n) == tls[n].verify /\ tls[n].certificate # None
ProvenId(n) == IF Authenticated(n) /\ tls[n].resolver THEN tls[n].certificate ELSE None

\* The checks, in the order they are made, none of which may fail.
Acceptable(n) ==
  /\ config[Other(n)].version = config[n].version
  /\ config[Other(n)].serializer = config[n].serializer
  /\ expected[n] \in {None, Other(n)}
  /\ ProvenId(n) \in {None, Other(n)}
  /\ config[n].strict => Authenticated(n) /\ ProvenId(n) # None

\* An end closes its connection: it reads no more, the frames still queued fail, and
\* what its transport holds is flushed before the socket is closed.
Close(n) ==
  /\ phase' = [phase EXCEPT ![n] = "closed"]
  /\ out' = [out EXCEPT ![n] = <<>>]

\* More is written than the sockets hold: the writer waits in drain().
Full(n) == Len(wire[n]) > Buffer

\* connection_lost: the flush is done.  wait_closed() waits for it without a deadline.
SocketClosed(n) == phase[n] = "closed" /\ ~Full(n)

\* The other socket is closed and does not take what this end has sent.
Reset(n) ==
  /\ SocketClosed(Other(n)) /\ wire[n] # <<>>
  /\ Close(n)
  /\ wire' = [wire EXCEPT ![n] = <<>>]
  /\ UNCHANGED <<setup, session, sent, reader, inq, worker, beat>>

\* The hello has arrived.  On READY the session is registered and its writer starts.
Negotiate(n) ==
  /\ phase[n] = "hello" /\ wire[Other(n)] # <<>>
  /\ wire' = [wire EXCEPT ![Other(n)] = Tail(@)]
  /\ IF IsHello(Head(wire[Other(n)])) /\ Acceptable(n)
     THEN /\ phase' = [phase EXCEPT ![n] = "ready"]
          /\ session' = [session EXCEPT ![n] =
               [peer |-> Other(n), version |-> config[Other(n)].version,
                serializer |-> config[Other(n)].serializer, capabilities |-> Common(n),
                max |-> Limit(n), authenticated |-> ProvenId(n) # None]]
          /\ UNCHANGED out
     ELSE Close(n) /\ UNCHANGED session
  /\ UNCHANGED <<setup, sent, reader, inq, worker, beat>>

\* The deadline passes, or the other end has closed without a hello.
HandshakeFails(n) ==
  /\ phase[n] = "hello" /\ wire[Other(n)] = <<>>
  /\ Close(n)
  /\ UNCHANGED <<setup, session, sent, wire, reader, inq, worker, beat>>

-----------------------------------------------------------------------------
(* Writing *)

Queued(n, f) == out' = [out EXCEPT ![n] = Append(@, f)]

\* _queue_frame has not returned: f is queued, or its writer waits in drain().
Unwritten(n, f) ==
  \/ \E i \in DOMAIN out[n] : out[n][i] = f
  \/ Full(n) /\ wire[n][Len(wire[n])] = f

Message(kind, m) == [kind |-> kind, id |-> m, size |-> Size[m]]

\* send(): a message over the negotiated limit is refused to the caller.  The caller's
\* deadline does not take a queued frame back.
Send(m) ==
  /\ m \notin sent /\ phase[From[m]] = "ready"
  /\ \A k \in Msgs : From[k] = From[m] /\ k < m => k \in sent
  /\ sent' = sent \cup {m}
  /\ IF Size[m] > session[From[m]].max THEN UNCHANGED out ELSE Queued(From[m], Message("msg", m))
  /\ UNCHANGED <<setup, ends, wire, reader, inq, worker, beat>>

\* is_closed of an open end: it has read all that the other, now closed, has sent.
AtEof(n) == SocketClosed(Other(n)) /\ wire[Other(n)] = <<>>

\* _outbound_worker: send_frame() gives the frame to the transport and waits for room;
\* if it fails the writer closes this end.
Write(n) ==
  /\ phase[n] = "ready" /\ out[n] # <<>>
  /\ \/ /\ ~FrameFits(n, Head(out[n])) \/ AtEof(n)
        /\ Close(n) /\ UNCHANGED wire
     \/ /\ FrameFits(n, Head(out[n])) /\ ~Full(n)
        /\ wire' = [wire EXCEPT ![n] = Append(@, Head(out[n]))]
        /\ out' = [out EXCEPT ![n] = Tail(@)]
        /\ UNCHANGED phase
  /\ UNCHANGED <<setup, session, sent, reader, inq, worker, beat>>

\* _heartbeat_loop: the PONG is awaited with a deadline once the PING is written.
Ping(n) ==
  /\ n \in Beating /\ beat[n] = "idle"
  /\ phase[n] = "ready" /\ "heartbeat" \in session[n].capabilities
  /\ beat' = [beat EXCEPT ![n] = "pinging"]
  /\ Queued(n, Control("ping", None))
  /\ UNCHANGED <<setup, ends, sent, wire, reader, inq, worker>>

PongTimesOut(n) ==
  /\ beat[n] = "pinging" /\ phase[n] = "ready" /\ ~Unwritten(n, Control("ping", None))
  /\ beat' = [beat EXCEPT ![n] = "done"]
  /\ Close(n)
  /\ UNCHANGED <<setup, session, sent, wire, reader, inq, worker>>

-----------------------------------------------------------------------------
(* Reading: _read_connection *)

Negotiated(n, f) ==
  /\ f.kind = "ack" => "ack" \in session[n].capabilities
  /\ f.kind \in {"ping", "pong"} => "heartbeat" \in session[n].capabilities

\* receive_frame, decode_session_frame and the checks of the reader accept the frame.
Valid(n, f) ==
  /\ FrameFits(n, f)
  /\ f.kind \in App => f.size <= session[n].max
  /\ ~IsHello(f) /\ Negotiated(n, f)

\* The reply a handler waits for has come.
Resolve(n, f) ==
  worker' = [worker EXCEPT ![n] = [w \in Workers |->
    IF @[w].pc = "wait" /\ @[w].frame.id = f.id THEN Idle ELSE @[w]]]

\* The message is acknowledged: a reply resolves its request, the rest is dispatched.
Accept(n, f) ==
  IF f.kind = "rep" THEN Resolve(n, f) /\ reader' = [reader EXCEPT ![n] = Recv]
  ELSE reader' = [reader EXCEPT ![n] = [pc |-> "put", frame |-> f]] /\ UNCHANGED worker

\* Mutant: a node that offered acknowledgements sends them, negotiated or not.
Answer_AsOffered(n, f) ==
  IF f.kind = "ping" THEN Control("pong", None)
  ELSE IF f.kind \in App /\ config[n].acks THEN [kind |-> "ack", id |-> f.id, size |-> 0]
  ELSE None

\* What the reader answers before it goes on: an ACK to a message, a PONG to a PING.
Answer(n, f) ==
  IF f.kind = "ping" THEN Control("pong", None)
  ELSE IF f.kind \in App /\ "ack" \in session[n].capabilities
  THEN [kind |-> "ack", id |-> f.id, size |-> 0]
  ELSE None

Receive(n) ==
  LET f == Head(wire[Other(n)])
  IN /\ phase[n] = "ready" /\ reader[n].pc = "recv" /\ wire[Other(n)] # <<>>
     /\ wire' = [wire EXCEPT ![Other(n)] = Tail(@)]
     /\ IF ~Valid(n, f)
        THEN reader' = [reader EXCEPT ![n] = Refused] /\ Close(n) /\ UNCHANGED <<worker, beat>>
        ELSE IF Answer(n, f) # None
        THEN /\ Queued(n, Answer(n, f))
             /\ reader' = [reader EXCEPT ![n] = [pc |-> "ack", frame |-> f]]
             /\ UNCHANGED <<phase, worker, beat>>
        ELSE IF f.kind \in App
        THEN Accept(n, f) /\ UNCHANGED <<phase, out, beat>>
        ELSE /\ beat' = [beat EXCEPT ![n] = IF f.kind = "pong" THEN "done" ELSE @]
             /\ UNCHANGED <<phase, out, reader, worker>>
     /\ UNCHANGED <<setup, session, sent, inq>>

\* The ACK or the PONG is written; the reader had no deadline for it.
Answered(n) ==
  /\ phase[n] = "ready" /\ reader[n].pc = "ack"
  /\ ~Unwritten(n, Answer(n, reader[n].frame))
  /\ IF reader[n].frame.kind = "ping"
     THEN reader' = [reader EXCEPT ![n] = Recv] /\ UNCHANGED worker
     ELSE Accept(n, reader[n].frame)
  /\ UNCHANGED <<setup, ends, sent, queues, inq, beat>>

\* Mutant: one message more than the limit.
NoRoom_OffByOne(n) == Len(inq[n]) > MaxIn

NoRoom(n) == Len(inq[n]) >= MaxIn

\* _enqueue_dispatch: wait for room, or end the session.
Enqueue(n) ==
  /\ reader[n].pc = "put"
  /\ IF ~NoRoom(n)
     THEN /\ inq' = [inq EXCEPT ![n] = Append(@, reader[n].frame)]
          /\ reader' = [reader EXCEPT ![n] = Recv]
          /\ UNCHANGED <<phase, out>>
     ELSE /\ config[n].reject
          /\ reader' = [reader EXCEPT ![n] = Ended]
          /\ Close(n) /\ UNCHANGED inq
  /\ UNCHANGED <<setup, session, sent, wire, worker, beat>>

\* The reader finds its connection closed, once this end is flushed or, at the end of
\* what it reads, by the other: _connection_ended fails the requests and the heartbeat.
ReaderEnds(n) ==
  /\ reader[n].pc \in {"recv", "ack"}
  /\ \/ SocketClosed(n) /\ session[n] # None
     \/ phase[n] = "ready" /\ AtEof(n) /\ reader[n].pc = "recv"
  /\ reader' = [reader EXCEPT ![n] = Ended]
  /\ worker' = [worker EXCEPT ![n] = [w \in Workers |-> IF @[w].pc = "wait" THEN Idle ELSE @[w]]]
  /\ beat' = [beat EXCEPT ![n] = "done"]
  /\ Close(n)
  /\ UNCHANGED <<setup, session, sent, wire, inq>>

-----------------------------------------------------------------------------
(* Handlers: _dispatch_worker *)

SetWorker(n, w, s) == worker' = [worker EXCEPT ![n][w] = s]

Take(n, w) ==
  /\ worker[n][w] = Idle /\ inq[n] # <<>>
  /\ SetWorker(n, w, [pc |-> "busy", frame |-> Head(inq[n])])
  /\ inq' = [inq EXCEPT ![n] = Tail(@)]
  /\ UNCHANGED <<setup, ends, sent, queues, reader, beat>>

\* The handler ends, or, over a READY session, makes its request or sends its reply.
Handle(n, w) ==
  LET f == worker[n][w].frame
  IN /\ worker[n][w].pc = "busy"
     /\ \/ /\ phase[n] # "ready" \/ (f.kind = "msg" /\ f.id \notin Nested)
           /\ SetWorker(n, w, Idle) /\ UNCHANGED <<phase, out>>
        \/ /\ phase[n] = "ready" /\ f.kind = "msg" /\ f.id \in Nested
           /\ Queued(n, Message("req", f.id))
           /\ SetWorker(n, w, [pc |-> "wait", frame |-> f]) /\ UNCHANGED phase
        \/ /\ phase[n] = "ready" /\ f.kind = "req"
           /\ Queued(n, Message("rep", f.id))
           /\ SetWorker(n, w, [pc |-> "reply", frame |-> f]) /\ UNCHANGED phase
     /\ UNCHANGED <<setup, session, sent, wire, reader, inq, beat>>

\* The router reports the handler's exception, and policy CLOSE_CONNECTION acts on it:
\* the worker closes the connection and waits until it is closed.
Raises(n, w) ==
  IF config[n].closeOnError /\ phase[n] # "closed"
  THEN SetWorker(n, w, [worker[n][w] EXCEPT !.pc = "close"]) /\ Close(n)
  ELSE SetWorker(n, w, Idle) /\ UNCHANGED <<phase, out>>

HandlerFails(n, w) ==
  /\ worker[n][w].pc = "busy"
  /\ Raises(n, w)
  /\ UNCHANGED <<setup, session, sent, wire, reader, inq, beat>>

CloseReturns(n, w) ==
  /\ worker[n][w].pc = "close" /\ SocketClosed(n)
  /\ SetWorker(n, w, Idle)
  /\ UNCHANGED <<setup, ends, sent, queues, reader, inq, beat>>

\* reply() returns: its frame is written or the connection is closed.
Replied(n, w) ==
  /\ worker[n][w].pc = "reply" /\ ~Unwritten(n, Message("rep", worker[n][w].frame.id))
  /\ SetWorker(n, w, Idle)
  /\ UNCHANGED <<setup, ends, sent, queues, reader, inq, beat>>

\* Mutant: request() has no deadline for the reply.
HandlerTimesOut_OnlyReply(n, w) ==
  /\ worker[n][w].pc = "reply"
  /\ Raises(n, w) \/ (SetWorker(n, w, Idle) /\ UNCHANGED <<phase, out>>)
  /\ UNCHANGED <<setup, session, sent, wire, reader, inq, beat>>

\* request_timeout or send_timeout fires in the handler's call, and the handler lets
\* the exception out or catches it.
HandlerTimesOut(n, w) ==
  /\ worker[n][w].pc \in {"wait", "reply"}
  /\ Raises(n, w) \/ (SetWorker(n, w, Idle) /\ UNCHANGED <<phase, out>>)
  /\ UNCHANGED <<setup, session, sent, wire, reader, inq, beat>>

-----------------------------------------------------------------------------
WorkerStep(n, w) ==
  \/ Take(n, w) \/ Handle(n, w) \/ HandlerFails(n, w) \/ Replied(n, w)
  \/ HandlerTimesOut(n, w) \/ CloseReturns(n, w)

ReaderStep(n) == Receive(n) \/ Answered(n) \/ Enqueue(n) \/ ReaderEnds(n)

NodeStep(n) ==
  \/ Hello(n) \/ Negotiate(n) \/ HandshakeFails(n) \/ Write(n) \/ Ping(n) \/ PongTimesOut(n)
  \/ ReaderStep(n) \/ Reset(n)
  \/ \E w \in Workers : WorkerStep(n, w)

Next == (\E n \in Nodes : NodeStep(n)) \/ (\E m \in Msgs : Send(m))

\* Ready tasks run, handlers end, deadlines fire, and a closed socket with unread data
\* in it resets the connection.
Fairness ==
  \A n \in Nodes :
    /\ WF_vars(Full(n) /\ Reset(n))
    /\ WF_vars(Hello(n) \/ Negotiate(n) \/ HandshakeFails(n))
    /\ WF_vars(Write(n)) /\ WF_vars(PongTimesOut(n)) /\ WF_vars(ReaderStep(n))
    /\ \A w \in Workers : WF_vars(WorkerStep(n, w))

Spec == Init /\ [][Next]_vars /\ Fairness

-----------------------------------------------------------------------------
(* Properties *)

\* Two ends that reached READY agree on the session, though each computed it from its
\* own configuration and the other's hello: version, serializer, capabilities and
\* limit; and neither was led to, or has a proof of, somebody else.
SessionsAgree ==
  (\A n \in Nodes : session[n] # None) =>
    LET d == session["dialler"]
        l == session["listener"]
    IN /\ d.version = l.version /\ d.serializer = l.serializer
       /\ d.capabilities = l.capabilities /\ d.max = l.max
       /\ \A n \in Nodes : {expected[n], ProvenId(n)} \subseteq {None, Other(n)}

\* No reader refuses what an honest peer sends: whatever the two configurations, every
\* frame a READY end writes is within the limits and capabilities the other applies.
NoRefusal == \A n \in Nodes : reader[n].pc # "refused"

\* Both transports are full and neither end reads: each is closed and flushing, or its
\* reader waits for its own ACK or PONG behind the full transport.
Jammed ==
  \A n \in Nodes :
    /\ Full(n)
    /\ phase[n] = "closed" \/ (reader[n].pc = "ack" /\ Unwritten(n, Answer(n, reader[n].frame)))

\* No one waits for ever on the other, even if the handlers wait for a reply that is
\* behind the reader in the connection: a reader that waits for its ACK to be written
\* or for room in the inbound queue goes on, and when one end is closed so is the other
\* and the close() of a handler worker returns.  The one exception is a connection that
\* is Jammed, for ever: both ends sent at once into buffers that could not hold it.
NotStuck ==
  \A n \in Nodes :
    /\ reader[n].pc \in {"ack", "put"} ~> reader[n].pc \notin {"ack", "put"} \/ []Jammed
    /\ phase[n] = "closed" ~>
         \/ phase[Other(n)] = "closed" /\ \A w \in Workers : worker[n][w].pc # "close"
         \/ []Jammed

\* docs/reliability.md: "A matching PONG must arrive on the exact connection within
\* heartbeat_timeout; otherwise the connection closes".
HeartbeatEnds == \A n \in Nodes : beat[n] = "pinging" ~> beat[n] = "done" \/ phase[n] = "closed"
=============================================================================
