------------------------------- MODULE Tunnel -------------------------------
(***************************************************************************)
(* One HTTP request through the tunnel: the stub's handler and its body    *)
(* pump (stub/server.go handleHTTP, pumpBody), the websocket between them  *)
(* (tunnel.go), the worker's handler and its body pump (worker/proxy.go    *)
(* handleTunnel, handleHTTPTunnel, pumpTunnelRequestBodyToConn), and the   *)
(* TCP connection to the application container.  Requests share nothing    *)
(* but the agent's snapshot, so one is enough.                             *)
(*                                                                         *)
(* A body is its number of chunks: every channel is in order, so what can  *)
(* go wrong is that a chunk, or the mark that ends a body, never arrives.  *)
(***************************************************************************)
EXTENDS Naturals, Sequences

CONSTANTS
  Framings,     \* "none", "known" or "chunked": ContentLength 0, > 0 or -1
  MaxBody,      \* bound on the chunks of a request
  MaxResponse,  \* bound on the chunks of a response
  Capacity,     \* frames a connection holds before a write blocks
  Faults        \* what may happen, see AllFaults

AllFaults == {"refuse",   \* the stub cannot reach the worker proxy
              "missing",  \* the agent's snapshot lacks the service
              "backend",  \* the container does not accept the connection
              "die",      \* it closes the connection before its answer's end
              "early",    \* it answers before it has the whole body
              "abort",    \* the client disconnects
              "cut",      \* the tunnel's connection breaks
              "kill"}     \* the agent's process ends

ASSUME FramingsAssumption == Framings \subseteq {"none", "known", "chunked"}
ASSUME TunnelBounds == /\ MaxBody \in Nat \ {0} /\ MaxResponse \in Nat
                       /\ Capacity \in Nat /\ Capacity >= 3
ASSUME FaultsAssumption == Faults \subseteq AllFaults

VARIABLES
  framing, size,  \* the request's ContentLength and its number of chunks
  gone,      \* the client has disconnected
  stub,      \* handleHTTP: dial, await (ReadResponseStart), flush, copy, done
  pump,      \* pumpBody's goroutine
  sent,      \* the chunks read from the client's body
  status,    \* what the client was answered
  got,       \* the response chunks written to the client
  junk,      \* an error text was written after them
  upward,    \* frames from the stub to the worker
  downward,  \* frames from the worker to the stub
  reset,     \* the tunnel's connection was reset
  worker,    \* handleTunnel: idle, start, dial, await, copy, join, done
  wpump,     \* pumpTunnelRequestBodyToConn's goroutine
  conn,      \* what the worker wrote to the container, not yet read
  answer,    \* what the container wrote, not yet read
  backend,   \* the container
  taken,     \* the request chunks it has read
  ended,     \* it has read the chunk that ends a chunked body
  resp,      \* the response chunks it has written
  lost       \* history: the worker's dial failed, the agent's process died,
             \* its connection to the container was reset
client    == <<framing, size, gone, status, got, junk>>
stubSide  == <<stub, pump, sent>>
tcp       == <<upward, downward, reset>>
container == <<conn, answer, backend, taken, ended, resp, lost>>
workerSide == <<worker, wpump>>
vars == <<client, stubSide, tcp, workerSide, container>>

Up   == {"start", "data", "end"}
Down == {"info", "head", "missing", "data", "close"}

StatesOK ==
  /\ framing \in Framings
  /\ stub \in {"dial", "await", "flush", "copy", "done"}
  /\ pump \in {"off", "on", "ended"}
  /\ status \in {"none", "ok", "empty", "missing", "bad_gateway"}
  /\ worker \in {"idle", "start", "dial", "await", "copy", "join", "done"}
  /\ wpump \in {"off", "on", "ended"}
  /\ backend \in {"idle", "reading", "continued", "answering", "answered",
                  "closed", "died"}   \* after its answer's end, or before
FlagsOK == {gone, junk, reset, ended} \subseteq BOOLEAN /\ lost \subseteq {"dial", "agent", "backend"}
CountsOK ==
  /\ size \in 0..MaxBody /\ sent \in 0..size /\ taken \in 0..size
  /\ got \in 0..(MaxResponse + 1) /\ resp \in 0..MaxResponse
QueuesOK ==
  /\ upward \in Seq(Up) /\ Len(upward) <= Capacity
  /\ downward \in Seq(Down) /\ Len(downward) <= Capacity
  /\ conn \in Seq({"chunk", "last"}) /\ Len(conn) <= Capacity
  /\ answer \in Seq({"info", "head", "data", "end"}) /\ Len(answer) <= Capacity
TypeOK == StatesOK /\ FlagsOK /\ CountsOK /\ QueuesOK

Fault(f) == f \in Faults

Init ==
  /\ framing \in Framings
  /\ size \in IF framing = "none" THEN {0}
              ELSE IF framing = "known" THEN 1..MaxBody ELSE 0..MaxBody
  /\ gone = FALSE
  /\ stub = "dial" /\ pump = "off" /\ sent = 0
  /\ status = "none" /\ got = 0 /\ junk = FALSE
  /\ upward = <<>> /\ downward = <<>> /\ reset = FALSE
  /\ worker = "idle" /\ wpump = "off"
  /\ conn = <<>> /\ answer = <<>> /\ backend = "idle"
  /\ taken = 0 /\ ended = FALSE /\ resp = 0 /\ lost = {}

-----------------------------------------------------------------------------
(* The stub.  Its stream is closed when handleHTTP returns, and only then.  *)

\* Dial, WriteRequestStart, and the pump's goroutine.
OpenTunnel ==
  /\ stub = "dial"
  /\ \/ /\ stub' = "await" /\ pump' = "on"
        /\ upward' = <<"start">> /\ worker' = "start"
        /\ UNCHANGED status
     \/ /\ Fault("refuse")
        /\ stub' = "done" /\ status' = "bad_gateway"
        /\ UNCHANGED <<pump, upward, worker>>
  /\ UNCHANGED <<framing, size, gone, sent, got, junk, downward, reset, wpump, container>>

Broken   == reset \/ worker = "done" \/ stub = "done"
Writable == ~Broken /\ Len(upward) < Capacity

\* Slip: the pump reads on after the body's end (TypeOK).
SlipPumpChunk ==
  /\ pump = "on" /\ ~gone
  /\ sent' = sent + 1
  /\ \/ Writable /\ upward' = Append(upward, "data") /\ UNCHANGED pump
     \/ Broken /\ pump' = "ended" /\ UNCHANGED upward
  /\ UNCHANGED <<client, stub, downward, reset, workerSide, container>>

\* A failed write ends the pump, and nobody is told.
PumpChunk ==
  /\ pump = "on" /\ ~gone /\ sent < size
  /\ sent' = sent + 1
  /\ \/ Writable /\ upward' = Append(upward, "data") /\ UNCHANGED pump
     \/ Broken /\ pump' = "ended" /\ UNCHANGED upward
  /\ UNCHANGED <<client, stub, downward, reset, workerSide, container>>

\* The body's EOF: a request_end message, not a close frame.
PumpEnd ==
  /\ pump = "on" /\ sent = size
  /\ \/ Writable /\ upward' = Append(upward, "end")
     \/ Broken /\ UNCHANGED upward
  /\ pump' = "ended"
  /\ UNCHANGED <<client, stub, sent, downward, reset, workerSide, container>>

\* A failed read: the client is gone, or net/http has closed the body.
PumpFails ==
  /\ pump = "on"
  /\ (gone /\ sent < size) \/ (sent = size /\ stub \in {"copy", "done"})
  /\ pump' = "ended"
  /\ UNCHANGED <<client, stub, sent, tcp, workerSide, container>>

\* The stream's reading end: a frame, the peer's close, or a reset.
NextDown(frame) == downward # <<>> /\ Head(downward) = frame /\ downward' = Tail(downward)
DownEOF   == downward = <<>> /\ worker = "done" /\ ~reset /\ UNCHANGED downward
DownReset == downward = <<>> /\ reset /\ UNCHANGED downward

AwaitInfo == NextDown("info") /\ UNCHANGED <<stub, status>>
AwaitHead == NextDown("head") /\ stub' = "flush" /\ status' = "ok"
AwaitMissing == NextDown("missing") /\ stub' = "flush" /\ status' = "missing"
\* handle ignores io.EOF (server.go:81): net/http answers 200, with no body.
AwaitEOF == DownEOF /\ stub' = "done" /\ status' = "empty"
AwaitReset == DownReset /\ stub' = "done" /\ status' = "bad_gateway"

Await ==
  /\ stub = "await"
  /\ AwaitInfo \/ AwaitHead \/ AwaitMissing \/ AwaitEOF \/ AwaitReset
  /\ UNCHANGED <<framing, size, gone, got, junk, pump, sent, upward, reset, workerSide,
                 container>>

\* Before it sends a final head, net/http reads what is left of the request's
\* body, taking turns with the pump, and gives up on a long one.
Discard ==
  /\ stub = "flush" /\ pump = "on" /\ ~gone /\ sent < size
  /\ sent' = sent + 1
  /\ UNCHANGED <<client, stub, pump, tcp, workerSide, container>>

Flush ==
  /\ stub = "flush" /\ stub' = "copy"
  /\ UNCHANGED <<client, pump, sent, tcp, workerSide, container>>

\* Slip: the close frame is skipped, only an EOF ends the response (Released).
SlipCopyEnds ==
  /\ \/ NextDown("close") /\ UNCHANGED stub
     \/ DownEOF /\ stub' = "done"
  /\ UNCHANGED <<got, junk>>

\* copyTunnelBodyToWriter.  After a close frame or an EOF handleHTTP returns
\* io.EOF, so it never waits for the pump (server.go:143-147).
CopyData ==
  /\ NextDown("data")
  /\ IF gone THEN stub' = "done" /\ UNCHANGED got
     ELSE got' = got + 1 /\ UNCHANGED stub
  /\ UNCHANGED junk
CopyEnds == (NextDown("close") \/ DownEOF) /\ stub' = "done" /\ UNCHANGED <<got, junk>>
CopyReset == DownReset /\ stub' = "done" /\ junk' = TRUE /\ UNCHANGED got

Copy ==
  /\ stub = "copy"
  /\ CopyData \/ CopyEnds \/ CopyReset
  /\ UNCHANGED <<framing, size, gone, status, pump, sent, upward, reset, workerSide, container>>

-----------------------------------------------------------------------------
(* The worker.  Its stream and its connection are closed when it returns.   *)

Lost == reset \/ stub = "done"         \* a write to the stub fails
Room(n) == Len(downward) + n <= Capacity
\* One step of the handler, to `next', after writing frames to the stub.
Write(frames, next) ==
  IF Lost THEN worker' = "done" /\ UNCHANGED downward
  ELSE Room(Len(frames)) /\ downward' = downward \o frames /\ worker' = next

\* Slip: an unknown service is not answered (EmptyOnlyWhenLost).
SlipReadStart ==
  /\ worker = "start" /\ upward # <<>> /\ upward' = Tail(upward)
  /\ worker' = "dial" \/ (Fault("missing") /\ worker' = "done")
  /\ UNCHANGED <<client, stubSide, downward, reset, wpump, container>>

ReadStart ==
  /\ worker = "start"
  /\ \/ /\ upward # <<>> /\ upward' = Tail(upward)
        /\ \/ worker' = "dial" /\ UNCHANGED downward
           \/ Fault("missing") /\ Write(<<"missing", "data", "close">>, "done")
     \/ /\ upward = <<>> /\ reset
        /\ worker' = "done" /\ UNCHANGED <<upward, downward>>
  /\ UNCHANGED <<client, stubSide, reset, wpump, container>>

\* Slip: only a chunked body is pumped (UploadArrives).
SlipDialBackend ==
  /\ worker = "dial"
  /\ worker' = "await" /\ backend' = "reading"
  /\ wpump' = IF framing = "chunked" THEN "on" ELSE "off"
  /\ UNCHANGED <<client, stubSide, tcp, conn, answer, taken, ended, resp, lost>>

\* The request's head is written and, but for ContentLength 0, the pump is
\* started.  A failed dial closes the stream without a word.
DialBackend ==
  /\ worker = "dial"
  /\ \/ /\ worker' = "await" /\ backend' = "reading"
        /\ wpump' = IF framing = "none" THEN "off" ELSE "on"
        /\ UNCHANGED lost
     \/ /\ Fault("backend")
        /\ worker' = "done" /\ lost' = lost \cup {"dial"}
        /\ UNCHANGED <<backend, wpump>>
  /\ UNCHANGED <<client, stubSide, tcp, conn, answer, taken, ended, resp>>

NextAnswer(part) == answer # <<>> /\ Head(answer) = part /\ answer' = Tail(answer)
Hung == backend \in {"closed", "died"}   \* the container has hung up
AnswerCut == answer = <<>> /\ Hung
\* Slip: the handler returns as soon as the response is written (WholeResponse).
SlipWaits == framing = "other"
Waits == framing # "none"              \* <-bodyDone before it returns

\* http.ReadResponse until the final head, copyResponseToTunnel, WriteClose.
Relay ==
  /\ \/ worker = "await" /\ NextAnswer("info") /\ Write(<<"info">>, "await")
     \/ worker = "await" /\ NextAnswer("head") /\ Write(<<"head">>, "copy")
     \/ worker = "copy" /\ NextAnswer("data") /\ Write(<<"data">>, "copy")
     \/ /\ worker = "copy" /\ NextAnswer("end")
        /\ Write(<<"close">>, IF Waits THEN "join" ELSE "done")
     \/ /\ worker \in {"await", "copy"} /\ AnswerCut
        /\ worker' = "done" /\ UNCHANGED <<answer, downward>>
  /\ UNCHANGED <<client, stubSide, upward, reset, wpump, conn, backend, taken, ended, resp, lost>>

Join ==
  /\ worker = "join" /\ wpump = "ended"
  /\ worker' = "done"
  /\ UNCHANGED <<client, stubSide, tcp, wpump, container>>

\* The agent's process ends, by a signal or after the 5 s that Listen's Shutdown
\* takes, which knows nothing of hijacked connections.  The kernel closes them.
AgentDies ==
  /\ Fault("kill") /\ worker \notin {"idle", "done"}
  /\ worker' = "done" /\ lost' = lost \cup {"agent"}
  /\ UNCHANGED <<client, stubSide, tcp, wpump, conn, answer, backend, taken, ended, resp>>

\* pumpTunnelRequestBodyToConn: it knows data and close frames only, and the
\* stub sends no close frame.  What it writes to a container that has hung up
\* is never read; writes fail once the connection is reset.
WorkerPump ==
  /\ wpump = "on"
  /\ \/ /\ upward # <<>> /\ worker # "done"
        /\ LET frame == Head(upward)
           IN  /\ frame = "data" => Len(conn) < Capacity \/ Hung
               /\ upward' = Tail(upward)
               /\ conn' = IF "backend" \in lost THEN conn
                          ELSE IF Hung THEN IF frame = "data" THEN <<"chunk">> ELSE conn
                          ELSE IF frame = "data" THEN Append(conn, "chunk")
                          ELSE IF frame = "close" /\ framing = "chunked"
                          THEN Append(conn, "last") ELSE conn
               /\ wpump' = IF frame = "close" \/ (frame = "data" /\ "backend" \in lost)
                           THEN "ended" ELSE "on"
     \/ /\ worker = "done" \/ (upward = <<>> /\ Lost)
        /\ wpump' = "ended" /\ UNCHANGED <<upward, conn>>
  /\ UNCHANGED <<client, stubSide, downward, reset, worker, answer, backend, taken, ended, resp, lost>>

-----------------------------------------------------------------------------
(* TCP.  Closing a connection with frames unread, or writing to one the     *)
(* peer has closed, resets it: what is still on its way is lost.  A frame   *)
(* may instead have been in the reader's buffer, and nothing is reset.  A   *)
(* frame that a dying agent has half written reads like a reset: an error,  *)
(* where the end of the stream between two frames is io.EOF.                *)
Reset ==
  /\ ~reset /\ stub # "dial"
  /\ \/ worker = "done" /\ (upward # <<>> \/ pump = "on")
     \/ stub = "done" /\ downward # <<>>
     \/ "agent" \in lost
     \/ Fault("cut")
  /\ reset' = TRUE
  /\ \E n \in 0..Len(downward) : downward' = SubSeq(downward, 1, n)
  /\ \E n \in 0..Len(upward) : upward' = SubSeq(upward, 1, n)
  /\ UNCHANGED <<client, stubSide, workerSide, container>>

\* The same of the worker's connection to the container: the answer may be cut.
ContainerReset ==
  /\ "backend" \notin lost /\ Hung /\ conn # <<>>
  /\ lost' = lost \cup {"backend"}
  /\ \E n \in 0..Len(answer) : answer' = SubSeq(answer, 1, n)
  /\ conn' = <<>>
  /\ UNCHANGED <<client, stubSide, tcp, workerSide, backend, taken, ended, resp>>

ClientAborts ==
  /\ Fault("abort") /\ ~gone /\ stub # "done"
  /\ gone' = TRUE
  /\ UNCHANGED <<framing, size, status, got, junk, stubSide, tcp, workerSide, container>>

-----------------------------------------------------------------------------
(* The application container, an HTTP server.                               *)

BodyWhole == CASE framing = "none" -> TRUE
               [] framing = "known" -> taken = size
               [] framing = "chunked" -> ended

BackendReads ==
  /\ backend # "idle" /\ ~Hung /\ conn # <<>>
  /\ conn' = Tail(conn)
  /\ IF Head(conn) = "chunk" THEN taken' = taken + 1 /\ UNCHANGED ended
     ELSE ended' = TRUE /\ UNCHANGED taken
  /\ UNCHANGED <<client, stubSide, tcp, workerSide, answer, backend, resp, lost>>

\* 100 Continue, at most once.
BackendContinues ==
  /\ backend = "reading"
  /\ backend' = "continued" /\ answer' = Append(answer, "info")
  /\ UNCHANGED <<client, stubSide, tcp, workerSide, conn, taken, ended, resp, lost>>

BackendAnswers ==
  /\ Len(answer) < Capacity
  /\ \/ /\ backend \in {"reading", "continued"} /\ (BodyWhole \/ Fault("early"))
        /\ backend' = "answering" /\ answer' = Append(answer, "head")
        /\ UNCHANGED resp
     \/ /\ backend = "answering" /\ resp < MaxResponse
        /\ resp' = resp + 1 /\ answer' = Append(answer, "data")
        /\ UNCHANGED backend
     \/ /\ backend = "answering"
        /\ backend' = "answered" /\ answer' = Append(answer, "end")
        /\ UNCHANGED resp
  /\ UNCHANGED <<client, stubSide, tcp, workerSide, conn, taken, ended, lost>>

\* After its answer it may close the connection, whether it has read what it was
\* sent or not; before, only if it dies.
BackendCloses ==
  /\ \/ backend = "answered" /\ backend' = "closed"
     \/ /\ Fault("die") /\ backend \in {"reading", "continued", "answering"}
        /\ backend' = "died"
  /\ UNCHANGED <<client, stubSide, tcp, workerSide, conn, answer, taken, ended, resp, lost>>

Stub == OpenTunnel \/ Await \/ Flush \/ Copy
Client == PumpChunk \/ Discard
StubPump == PumpEnd \/ PumpFails
Worker == ReadStart \/ DialBackend \/ Relay \/ Join
Container == BackendReads \/ BackendContinues \/ BackendAnswers \/ BackendCloses
Next == Stub \/ Client \/ StubPump \/ Worker \/ AgentDies \/ WorkerPump \/ Reset
        \/ ContainerReset \/ ClientAborts \/ Container
Spec == Init /\ [][Next]_vars

\* Goroutines that can run do.  A client sends the body it announced and reads
\* its response, or leaves; a container reads what it is sent, also after it has
\* answered, or closes.  Nothing makes a container answer: neither side of the
\* tunnel has a deadline once it is open.
FairSpec ==
  /\ Spec
  /\ WF_vars(Stub) /\ WF_vars(Client) /\ WF_vars(StubPump)
  /\ WF_vars(Worker) /\ WF_vars(WorkerPump)
  /\ WF_vars(BackendReads)

-----------------------------------------------------------------------------
(* Properties.                                                              *)

\* README.md:9, both proxies stream "request and response bodies directly": a
\* client that stays and is answered 200 gets every chunk the container wrote,
\* unless the container itself dies in the middle of its answer, or it is cut
\* off on the way: the agent's process dies, the container's connection is reset.
WholeResponse ==
  (stub = "done" /\ status = "ok" /\ ~gone /\ backend # "died" /\ lost = {}) =>
    backend \in {"answered", "closed"} /\ got = resp /\ ~junk

\* README.md:144, "the response streams back through the same path": a 200 is
\* never made up on the way, whatever fails (server.go:81-83).
AnsweredByBackend == status # "empty"

\* What holds of it: only a container that was not reached, died or lost its
\* connection, or an agent that died, is answered for with an empty 200; never a
\* client that leaves, a broken tunnel, an unknown service or the order in which
\* the handlers and their pumps end.
EmptyOnlyWhenLost == status = "empty" => lost # {} \/ backend = "died"

\* README.md:9 for the request: a body sent to its end reaches the container to
\* its end, unless a final answer comes first.
Unanswered == backend \in {"reading", "continued"}
UploadArrives ==
  (stub = "await" /\ pump = "ended" /\ sent = size /\ Unanswered)
    ~> (BodyWhole \/ ~Unanswered \/ stub # "await")

\* No goroutine and no connection of either handler outlives the container's
\* answer or the worker's handler for ever, though the worker waits for its pump,
\* the pump for the stub to close and the stub for the client
\* (stub/server.go:147, proxy.go:199-201).
Released ==
  (backend \in {"answered", "closed", "died"} \/ worker = "done")
    ~> (stub = "done" /\ worker = "done" /\ pump = "ended" /\ wpump # "on")
=============================================================================
