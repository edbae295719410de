---------------------------- MODULE TunnelUpgrade ----------------------------
(***************************************************************************)
(* One websocket conversation through the tunnel: the stub's hijacked      *)
(* handler and its relay (stub/server.go handleUpgrade, relayUpgrade), the *)
(* worker's (worker/proxy.go handleWebSocketTunnel, relayTunnelAndConn),   *)
(* and the three TCP connections they hold: to the client, between each    *)
(* other and to the container.                                             *)
(*                                                                         *)
(* A chunk is what one Read of a relay returns.  A relay is two goroutines *)
(* and ends with the first of them, which closes both its connections.     *)
(* The client takes any 101 for the upgrade; see UpgradeConfirmed.         *)
(***************************************************************************)
EXTENDS Frame, FiniteSets

CONSTANTS
  Sizes,      \* the bytes a chunk may have
  RequestHead, ResponseHead,  \* the bytes of the start messages
  MaxSaid,    \* bound on the chunks in each direction
  Capacity,   \* chunks or frames a connection holds before a write blocks
  Faults      \* what may happen, see AllFaults

AllFaults == {"refuse",   \* the stub cannot reach the worker proxy
              "missing",  \* the agent's snapshot lacks the service
              "backend",  \* the container does not accept the connection
              "cut"}      \* the tunnel's connection breaks

ReadBuffer == 32768   \* of each relay, in each direction
ASSUME SizesAssumption ==
  Sizes \subseteq 1..ReadBuffer /\ {RequestHead, ResponseHead} \subseteq 0..MaxLength
ASSUME UpgradeBounds == MaxSaid \in Nat \ {0} /\ Capacity \in Nat /\ Capacity >= 3
ASSUME UpgradeFaults == Faults \subseteq AllFaults

VARIABLES
  client,     \* waiting, open, refused, left (it closed) or dropped (it was closed)
  cin, cout,  \* the client's connection, to the stub and from it
  stub,       \* handleUpgrade: dial, await, relay, copy, done
  up, down,   \* the tunnel's connection, to the worker and from it
  worker,     \* handleTunnel: idle, start, dial, await, relay, copy, done
  br,         \* what ReadResponse read past the container's head
  conn, answer, \* the container's connection, to it and from it
  backend,    \* idle, asked, open, refusing, closed (by itself) or dropped
  headers,    \* the headers of the response head, as last written
  broken,     \* the connections that were reset; "cut" when by the fault
  upSaid, upHeard,     \* the chunks the client wrote, the container read
  downSaid, downHeard  \* the chunks the container wrote, the client read

ends  == <<client, stub, worker, backend>>
words == <<upSaid, upHeard, downSaid, downHeard>>
wire  == <<cin, cout, up, down, br, conn, answer>>
vars  == <<ends, words, wire, headers, broken>>

Up   == INSTANCE Pipe WITH Messages <- [op : {"data"}, n : 1..MaxSaid, size : Sizes, plain : {TRUE}],
                           said <- upSaid, heard <- upHeard
Down == INSTANCE Pipe WITH Messages <- [op : {"data"}, n : 1..MaxSaid, size : Sizes, plain : {TRUE}],
                           said <- downSaid, heard <- downHeard

HopByHop == {"Connection", "Upgrade"}  \* of the headers a 101 carries
TypeOK ==
  /\ client \in {"waiting", "open", "refused", "left", "dropped"}
  /\ stub \in {"dial", "await", "relay", "copy", "done"}
  /\ worker \in {"idle", "start", "dial", "await", "relay", "copy", "done"}
  /\ backend \in {"idle", "asked", "open", "refusing", "closed", "dropped"}
  /\ \A q \in {cin, cout, conn, answer} : Len(q) <= Capacity /\ \A i \in DOMAIN q : q[i].plain
  /\ \A q \in {cin, conn} : \A i \in DOMAIN q : q[i].op = "data"
  /\ \A i \in DOMAIN up : up[i].op \in {"start", "end", "data"} /\ ~up[i].plain
  /\ \A i \in DOMAIN down :
       down[i].op \in {"switch", "refusal", "data", "close"} /\ down[i].plain
  /\ Len(up) <= Capacity /\ Len(down) <= Capacity
  /\ headers \subseteq HopByHop \cup {"Sec-WebSocket-Accept"}
  /\ broken \subseteq {"client", "tunnel", "backend", "cut"}
  /\ \A s \in {upSaid, upHeard, downSaid, downHeard} : Len(s) <= MaxSaid

Init ==
  /\ client = "waiting" /\ stub = "dial" /\ worker = "idle" /\ backend = "idle"
  /\ cin = <<>> /\ cout = <<>> /\ up = <<>> /\ down = <<>>
  /\ br = <<>> /\ conn = <<>> /\ answer = <<>>
  /\ headers = {} /\ broken = {}
  /\ upSaid = <<>> /\ upHeard = <<>> /\ downSaid = <<>> /\ downHeard = <<>>

Piece(op, n, size) == [op |-> op, n |-> n, size |-> size, plain |-> TRUE]
Ok(c, q) == c \notin broken /\ Len(q) < Capacity
ClientGone  == client \in {"left", "dropped"}
BackendGone == backend \in {"closed", "dropped"}

-----------------------------------------------------------------------------
(* The stub.  handleUpgrade's return closes the client and the tunnel.      *)

\* Dial, WriteRequestStart, WriteRequestEnd.  The request is hijacked by now:
\* when the dial fails the client is closed without a response.
StubOpens ==
  /\ stub = "dial"
  /\ \/ /\ stub' = "await" /\ worker' = "start"
        /\ up' = <<Written("start", 0, RequestHead, TRUE), Written("end", 0, 22, TRUE)>>
     \/ "refuse" \in Faults /\ stub' = "done" /\ UNCHANGED <<worker, up>>
  /\ UNCHANGED <<client, backend, words, cin, cout, down, br, conn, answer, headers, broken>>

DownEnds == down = <<>> /\ (worker = "done" \/ "tunnel" \in broken)

\* ReadResponseStart, and the response's head for the client.
StubAwaits ==
  /\ stub = "await"
  /\ \/ /\ down # <<>> /\ down' = Tail(down)
        /\ LET m == Message(Head(down))
           IN  \/ /\ m.size = ResponseHead /\ Ok("client", cout)
                  /\ cout' = Append(cout, Piece(m.op, 0, m.size))
                  /\ stub' = IF m.op = "switch" THEN "relay" ELSE "copy"
               \/ /\ m.size # ResponseHead \/ "client" \in broken
                  /\ stub' = "done" /\ UNCHANGED cout
     \/ DownEnds /\ stub' = "done" /\ UNCHANGED <<down, cout>>
  /\ UNCHANGED <<client, worker, backend, words, cin, up, br, conn, answer, headers, broken>>

\* Slip: the client's EOF ends the goroutine but not the relay (Released).
SlipStubUpEOF ==
  /\ stub = "relay" /\ cin # <<>> /\ cin' = Tail(cin)
  /\ \/ /\ Ok("tunnel", up) /\ UNCHANGED stub
        /\ up' = Append(up, Written("data", Head(cin).n, Head(cin).size, TRUE))
     \/ "tunnel" \in broken /\ stub' = "done" /\ UNCHANGED up
  /\ UNCHANGED <<client, worker, backend, words, cout, down, br, conn, answer, headers, broken>>

\* Slip: a Read that returns its last bytes with the error drops them (LastWords).
SlipStubUpLast ==
  /\ stub = "relay"
  /\ \/ /\ cin # <<>> /\ (Len(cin) = 1 => ~ClientGone) /\ cin' = Tail(cin)
        /\ Ok("tunnel", up) /\ UNCHANGED stub
        /\ up' = Append(up, Written("data", Head(cin).n, Head(cin).size, TRUE))
     \/ /\ Len(cin) <= 1 /\ ClientGone
        /\ stub' = "done" /\ cin' = <<>> /\ UNCHANGED up
  /\ UNCHANGED <<client, worker, backend, words, cout, down, br, conn, answer, headers, broken>>

\* relayUpgrade, the goroutine that reads the client.
StubUp ==
  /\ stub = "relay"
  /\ \/ /\ cin # <<>> /\ cin' = Tail(cin)
        /\ \/ /\ Ok("tunnel", up) /\ UNCHANGED stub
              /\ up' = Append(up, Written("data", Head(cin).n, Head(cin).size, TRUE))
           \/ "tunnel" \in broken /\ stub' = "done" /\ UNCHANGED up
     \/ /\ cin = <<>>
        /\ ClientGone \/ "client" \in broken
        /\ stub' = "done" /\ UNCHANGED <<cin, up>>
  /\ UNCHANGED <<client, worker, backend, words, cout, down, br, conn, answer, headers, broken>>

\* relayUpgrade, the goroutine that reads the tunnel; copyTunnelBodyToConn
\* after a refusal is the same loop.
StubDown ==
  /\ stub \in {"relay", "copy"}
  /\ \/ /\ down # <<>> /\ down' = Tail(down)
        /\ LET m == Message(Head(down))
           IN  \/ /\ m.op = "data" /\ Ok("client", cout)
                  /\ cout' = Append(cout, m) /\ UNCHANGED stub
               \/ /\ m.op = "close" \/ "client" \in broken
                  /\ stub' = "done" /\ UNCHANGED cout
     \/ DownEnds /\ stub' = "done" /\ UNCHANGED <<down, cout>>
  /\ UNCHANGED <<client, worker, backend, words, cin, up, br, conn, answer, headers, broken>>

-----------------------------------------------------------------------------
(* The worker.  handleTunnel's return closes the tunnel and the container.  *)

UpEnds == up = <<>> /\ (stub = "done" \/ "tunnel" \in broken)
\* A write to the stub, then on to `next'; a failed write ends the handler.
Write(frames, next) ==
  \/ /\ "tunnel" \notin broken /\ Len(down) + Len(frames) <= Capacity
     /\ down' = down \o frames /\ worker' = next
  \/ "tunnel" \in broken /\ worker' = "done" /\ UNCHANGED down

\* ReadRequestStart and lookupService; the 404's text is said by the worker.
WorkerStarts ==
  /\ worker = "start"
  /\ \/ /\ up # <<>> /\ up' = Tail(up)
        /\ LET m == Message(Head(up)) IN
             \/ /\ m.op = "start" /\ m.size = RequestHead
                /\ worker' = "dial" /\ UNCHANGED <<down, downSaid>>
             \/ /\ m.op = "start" /\ m.size = RequestHead /\ "missing" \in Faults
                /\ \E s \in Sizes :
                     /\ Write(<<Written("refusal", 0, ResponseHead, FALSE), Written("data", 1, s, FALSE),
                                Written("close", 0, 0, FALSE)>>, "done")
                     /\ downSaid' = <<Piece("data", 1, s)>>
             \/ m.size # RequestHead /\ worker' = "done" /\ UNCHANGED <<down, downSaid>>
     \/ UpEnds /\ worker' = "done" /\ UNCHANGED <<up, down, downSaid>>
  /\ UNCHANGED <<client, stub, backend, upSaid, upHeard, downHeard, cin, cout, br, conn, answer,
                 headers, broken>>

WorkerDials ==
  /\ worker = "dial"
  /\ \/ worker' = "await" /\ backend' = "asked"
     \/ "backend" \in Faults /\ worker' = "done" /\ UNCHANGED backend
  /\ UNCHANGED <<client, stub, words, wire, headers, broken>>

AnswerEnds == br = <<>> /\ answer = <<>> /\ (BackendGone \/ "backend" \in broken)

\* ReadResponse, which may read past the head, and WriteResponseStart with
\* the hop-by-hop headers taken out.
WorkerAwaits ==
  /\ worker = "await"
  /\ \/ /\ answer # <<>>
        /\ \E n \in 0..Len(Tail(answer)) :
             /\ br' = SubSeq(answer, 2, n + 1)
             /\ answer' = SubSeq(answer, n + 2, Len(answer))
        /\ LET op == Head(answer).op
           IN  Write(<<Written(op, 0, ResponseHead, FALSE)>>, IF op = "switch" THEN "relay" ELSE "copy")
        /\ headers' = headers \ HopByHop
     \/ AnswerEnds /\ worker' = "done" /\ UNCHANGED <<br, answer, down, headers>>
  /\ UNCHANGED <<client, stub, backend, words, cin, cout, up, conn, broken>>

\* Slip: every message is relayed, also request_end (TypeOK).
SlipWorkerUp ==
  /\ worker = "relay"
  /\ \/ /\ up # <<>> /\ Ok("backend", conn)
        /\ up' = Tail(up) /\ conn' = Append(conn, Message(Head(up))) /\ UNCHANGED worker
     \/ UpEnds /\ worker' = "done" /\ UNCHANGED <<up, conn>>
  /\ UNCHANGED <<client, stub, backend, words, cin, cout, down, br, answer, headers, broken>>

\* relayTunnelAndConn, the goroutine that reads the tunnel.  request_end is a
\* text message and passed over.
WorkerUp ==
  /\ worker = "relay"
  /\ \/ /\ up # <<>> /\ up' = Tail(up)
        /\ LET m == Message(Head(up))
           IN  \/ m.op = "end" /\ UNCHANGED <<conn, worker>>
               \/ /\ m.op = "data" /\ Ok("backend", conn)
                  /\ conn' = Append(conn, m) /\ UNCHANGED worker
               \/ /\ m.op = "data" /\ "backend" \in broken
                  /\ worker' = "done" /\ UNCHANGED conn
     \/ UpEnds /\ worker' = "done" /\ UNCHANGED <<up, conn>>
  /\ UNCHANGED <<client, stub, backend, words, cin, cout, down, br, answer, headers, broken>>

\* Slip: the relay reads the connection, not what ReadResponse left (CarriesDown).
SlipRest == answer
Rest == IF br # <<>> THEN br ELSE answer
\* relayTunnelAndConn, the goroutine that reads the container; after a refusal
\* copyResponseToTunnel and WriteClose.
WorkerDown ==
  /\ worker \in {"relay", "copy"}
  /\ \/ /\ Rest # <<>>
        /\ LET m == Head(Rest)
           IN  IF m.op = "last" THEN Write(<<Written("close", 0, 0, FALSE)>>, "done")
               ELSE Write(<<Written("data", m.n, m.size, FALSE)>>, worker)
        /\ IF Rest = br THEN br' = Tail(br) /\ UNCHANGED answer
           ELSE answer' = Tail(answer) /\ UNCHANGED br
     \/ AnswerEnds /\ worker' = "done" /\ UNCHANGED <<br, answer, down>>
  /\ UNCHANGED <<client, stub, backend, words, cin, cout, up, conn, headers, broken>>

-----------------------------------------------------------------------------
(* TCP.  What reaches a closed end resets the connection, and what was on   *)
(* its way to the other end may be lost.  Bytes the closed end had already  *)
(* buffered reset nothing.                                                  *)
Prefixes(q) == {SubSeq(q, 1, n) : n \in 0..Len(q)}
ResetOf(c, fault) == c \notin broken /\ broken' = broken \cup {c} \cup fault
Reset ==
  /\ \/ /\ (ClientGone /\ cout # <<>>) \/ (stub = "done" /\ cin # <<>>)
        /\ ResetOf("client", {})
        /\ cin' \in Prefixes(cin) /\ cout' \in Prefixes(cout)
        /\ UNCHANGED <<up, down, conn, answer>>
     \/ /\ stub # "dial" /\ worker # "idle"
        /\ \/ stub = "done" /\ down # <<>> /\ ResetOf("tunnel", {})
           \/ worker = "done" /\ up # <<>> /\ ResetOf("tunnel", {})
           \/ "cut" \in Faults /\ ResetOf("tunnel", {"cut"})
        /\ up' \in Prefixes(up) /\ down' \in Prefixes(down)
        /\ UNCHANGED <<cin, cout, conn, answer>>
     \/ /\ (worker = "done" /\ answer # <<>>) \/ (BackendGone /\ conn # <<>>)
        /\ ResetOf("backend", {})
        /\ conn' \in Prefixes(conn) /\ answer' \in Prefixes(answer)
        /\ UNCHANGED <<cin, cout, up, down>>
  /\ UNCHANGED <<ends, words, br, headers>>

-----------------------------------------------------------------------------
(* The client and the container.                                            *)

ClientSays ==
  /\ client = "open" /\ Len(upSaid) < MaxSaid /\ Ok("client", cin)
  /\ \E s \in Sizes : LET m == Piece("data", Len(upSaid) + 1, s)
                      IN  cin' = Append(cin, m) /\ upSaid' = Append(upSaid, m)
  /\ UNCHANGED <<ends, upHeard, downSaid, downHeard, cout, up, down, br, conn, answer,
                 headers, broken>>

ClientHears ==
  /\ ~ClientGone
  /\ \/ /\ cout # <<>> /\ cout' = Tail(cout)
        /\ CASE Head(cout).op = "switch" -> client' = "open" /\ UNCHANGED downHeard
             [] Head(cout).op = "refusal" -> client' = "refused" /\ UNCHANGED downHeard
             [] OTHER -> downHeard' = Append(downHeard, Head(cout)) /\ UNCHANGED client
     \/ /\ cout = <<>> /\ (stub = "done" \/ "client" \in broken)
        /\ client' = "dropped" /\ UNCHANGED <<cout, downHeard>>
  /\ UNCHANGED <<stub, worker, backend, upSaid, upHeard, downSaid, cin, up, down, br, conn,
                 answer, headers, broken>>

ClientLeaves ==
  /\ ~ClientGone /\ client' = "left"
  /\ UNCHANGED <<stub, worker, backend, words, wire, headers, broken>>

BackendSwitches ==
  /\ backend = "asked" /\ backend' = "open"
  /\ answer' = <<Piece("switch", 0, ResponseHead)>>
  /\ headers' = {"Connection", "Upgrade", "Sec-WebSocket-Accept"}
  /\ UNCHANGED <<client, stub, worker, words, cin, cout, up, down, br, conn, broken>>

BackendRefuses ==
  /\ \/ /\ backend = "asked" /\ backend' = "refusing"
        /\ answer' = <<Piece("refusal", 0, ResponseHead)>>
     \/ /\ backend = "refusing" /\ Ok("backend", answer)
        /\ backend' = "closed" /\ answer' = Append(answer, Piece("last", 0, 0))
  /\ UNCHANGED <<client, stub, worker, words, cin, cout, up, down, br, conn, headers, broken>>

BackendSays ==
  /\ backend \in {"open", "refusing"} /\ Len(downSaid) < MaxSaid /\ Ok("backend", answer)
  /\ \E s \in Sizes : LET m == Piece("data", Len(downSaid) + 1, s)
                      IN  answer' = Append(answer, m) /\ downSaid' = Append(downSaid, m)
  /\ UNCHANGED <<ends, upSaid, upHeard, downHeard, cin, cout, up, down, br, conn, headers,
                 broken>>

BackendHears ==
  /\ backend \in {"asked", "open", "refusing"}
  /\ \/ /\ conn # <<>> /\ conn' = Tail(conn)
        /\ upHeard' = Append(upHeard, Head(conn)) /\ UNCHANGED backend
     \/ /\ conn = <<>> /\ (worker = "done" \/ "backend" \in broken)
        /\ backend' = "dropped" /\ UNCHANGED <<conn, upHeard>>
  /\ UNCHANGED <<client, stub, worker, upSaid, downSaid, downHeard, cin, cout, up, down, br,
                 answer, headers, broken>>

BackendCloses ==
  /\ backend \in {"asked", "open", "refusing"} /\ backend' = "closed"
  /\ UNCHANGED <<client, stub, worker, words, wire, headers, broken>>

Stub   == StubOpens \/ StubAwaits
Worker == WorkerStarts \/ WorkerDials \/ WorkerAwaits
Client == ClientSays \/ ClientHears \/ ClientLeaves
Container == BackendSwitches \/ BackendRefuses \/ BackendSays \/ BackendHears \/ BackendCloses
Next == Stub \/ StubUp \/ StubDown \/ Worker \/ WorkerUp \/ WorkerDown
        \/ Reset \/ Client \/ Container
Spec == Init /\ [][Next]_vars

\* Goroutines that can run do; a client and a container that stay read what
\* they are sent.  Neither has to speak, answer or leave.
FairSpec ==
  /\ Spec
  /\ WF_vars(Stub) /\ WF_vars(StubUp) /\ WF_vars(StubDown)
  /\ WF_vars(Worker) /\ WF_vars(WorkerUp) /\ WF_vars(WorkerDown)
  /\ WF_vars(ClientHears) /\ WF_vars(BackendHears)

-----------------------------------------------------------------------------
(* Properties.                                                              *)

\* README.md:9, the proxies stream bodies "directly", here in each direction of
\* a websocket: through two relays, a read-ahead buffer and the frame codec with
\* its three length forms, the container reads what the client wrote, in order
\* and once, and the other way round.
CarriesUp   == Up!Spec
CarriesDown == Down!Spec

\* Each relay closes both its connections with whichever side ends first
\* (server.go:281, proxy.go:301): what that side said before must still arrive,
\* once the other side is at the end of its own.
LastWords ==
  "cut" \notin broken =>
    /\ (client = "dropped" /\ backend = "closed" /\ upSaid # <<>> /\ upHeard = upSaid) =>
         downHeard = downSaid
    /\ (client = "left" /\ backend = "dropped" /\ downHeard = downSaid) =>
         upHeard = upSaid

\* Nothing but the other end's closing ends a relay, and no deadline is set:
\* once the client or the container is gone, or the tunnel is broken, both
\* handlers return and all three connections are closed.
Released ==
  \/ stub = "relay" /\ client = "left"
  \/ worker = "relay" /\ "tunnel" \in broken
  \/ backend = "closed"
  ~> (stub = "done" /\ worker = "done")

\* TESTING.md:117, "the connection upgrades successfully": the 101 a client is
\* given confirms the upgrade, with the headers every websocket client requires.
UpgradeConfirmed == client = "open" => HopByHop \subseteq headers
=============================================================================
