# Traefik Connect, specified in TLA+

Traefik Connect publishes the Docker containers of private *workers* through
the Traefik of one public *master*.  This directory holds TLA+ modules
translated from its Go code, TLC configurations that check them on small
instances, and TLAPS proofs.  `PROJECT.json` lists components, runs, mutants,
the source lines behind every definition, hazards, findings and theorems.

    tlc -config StoreReplay.cfg MCReceiverStore.tla    # a run
    tlapm ReceiverStoreProofs.tla                      # proofs, as in every *Proofs.tla

## The system

| Part | Code | State | Operations |
|---|---|---|---|
| receiver store | `receiver/store.go` | `workers` map under a mutex, one state file per worker, the master's stub containers | `Load`, `Upsert`, `RemoveExpired`, `Statuses` (reads) |
| receiver app, HTTP server | `receiver/app.go`, `server.go` | - | snapshot handler, one-minute prune loop |
| request validation | `api/api.go` | - | token, timestamp window, signature |
| worker agent | `worker/agent.go` | trigger channel, last accepted snapshot, status | event watcher, resync ticker, sync with retry, `lookupService` |
| stub | `stub/server.go` | per request: tunnel, body pump | HTTP and upgrade handlers |
| worker proxy | `worker/proxy.go` | per request: tunnel, connection to the container, body pump | HTTP and upgrade tunnels |
| tunnel, codec | `tunnel/tunnel.go`, `websocketx` | per connection: buffers | JSON messages, frames |
| Docker client | `dockerx/client.go` | - | list, inspect, create, connect, start, remove, events |
| label parser, helpers | `parse`, `util`, `model`, `config` | - | pure functions; `AtomicWriteFile` |
| renderer | `render` | - | called by no binary of the repository |

How they interact.  The agent lists its containers and posts a signed snapshot
with the time of its capture.  The receiver checks the timestamp, and the
store, under its mutex, compares the capture with the worker's record, writes
the record ahead, reconciles the worker's stubs through Docker, writes the
record again and answers.  Traefik sends a request to a stub; the stub opens a
websocket to the worker proxy, which looks the service up in the agent's
snapshot and talks HTTP/1.1 to the container.

What is hard:

- *Order.*  An agent gives up after 10 s while `Upsert` may take 45 s, so
  requests queue for the mutex, are late, repeated and overtaken.
- *Crashes.*  The state is spread over memory, files and containers, and a
  crash may fall between any two calls; expiry deletes the record that a
  replay would be compared with.
- *Partial failure.*  A reconciliation is a dozen Docker calls; some errors
  are dropped, some end it, some hide a container.
- *Ends.*  A tunnelled request has six halves (client, stub and pump, worker
  and pump, container); each learns of the others' end only by frames, EOFs
  and resets, and there are no deadlines once it is open.

What makes each part correct: the store admits only newer snapshots and never
forgets an answered one, its stubs are exactly what the newest record wants,
and a silent worker's stubs go; the tunnel delivers both bodies to their end,
answers only what the container answered, and ends; an upgraded connection is a
pipe in each direction; the agent lists again after every event it hears of, and
receiver and proxy follow the containers; a stub's labels ask what the
container's labels asked; the codec's frames come out as they went in.

## Modules

### ReceiverStore

`store.go` with the part of `app.go` that drives it.  `mem`, `disk`, `docker`
and `image` are the map, the state directory, the master's containers and what
the stub image's tag points to.  The mutex makes operations exclusive, so `op`
is the operation that holds it and `phase` the call it is at: every Docker or
file operation is a step, and a crash, an exiting stub or an image pull may
come between any two.

| Code | Actions |
|---|---|
| `Upsert` 97-124, 125-137 | `Upsert(w, cap, c)`, `FinishUpsert` |
| `Load`, `reconcileAll` | `Restart`, `NextRecord`, `FinishLoad`, `LastRecord` |
| `RemoveExpired`, `removeManagedContainers` | `Prune`, `NextRecord`, `ListManaged`, `DropStub`, `FinishPrune` |
| `reconcileWorker`, `listManagedContainers` | `InspectImage`, `ListManaged` (`PlanFor`, `Healthy`), `RemoveStale`, `DropStub` |
| `createStubContainer` | `CreateStub`, `ConnectStub`, `StartStub`, `UndoStub` |
| the world | `Expire`, `StubExits`, `PullImage`, `Crash` |

A snapshot is its capture number and, for each stub name, the content it asks
for (`buildDesiredStubs` as a function of the snapshot).  The hash of a stub
covers its content and the image id, so it is that pair.  `Faults` chooses
which calls may fail; `"late"` is a call that takes effect and still returns
an error, the client's 15 s timeout.  A refused request changes nothing and is
no step.  `floor` stands for the request window: a request that reaches the
store after a record's expiry was captured after that record.  That this holds
is what SnapshotAdmission shows.

### SnapshotAdmission

The same admission in time, for one worker: the timestamp check on arrival
(`Arrive`), the store's check up to `MaxWait` later (`Admit`), the answer, the
expiry by `UpdatedAt`, crash and restart (which refreshes `UpdatedAt`).  The
assumption is `TTL >= 2 * Window + MaxWait`.  The defaults, a TTL of 15 and a
window of 5 minutes, leave 5 minutes of waiting; `config.go` lets an operator
break the assumption without a word, and then an expired snapshot can be
replayed.

### Ledger

The abstract specification of the receiver's admission: for each worker the
capture that memory holds, the one a restart would find, the floor below which the
window refuses, the capture written ahead and not answered yet, the last one
answered.  A capture is admitted only if it is newer than the first three, and
only what lies at or below the floor may be forgotten (`Forget`); the floor only
rises.  `ReceiverStore` and `SnapshotAdmission` both implement it (`KeepsLedger`):
the first maps every record to its capture and keeps its own `floor`, the second
computes the floor from the clock (`Floor`, what the window refuses of a request
that has waited as long as it may).

### Tunnel

One HTTP request: `handleHTTP` and `pumpBody` in the stub, `handleTunnel`,
`handleHTTPTunnel` and `pumpTunnelRequestBodyToConn` in the worker, the two
directions of the websocket (`upward`, `downward`), the connection to the
container (`conn`, `answer`), and the container.  Bodies are numbers of chunks.
TCP is modelled where the code depends on it: a write blocks on a full
connection, closing with unread data or writing to a closed peer resets the
connection and loses a suffix of what is on its way (`Reset` for the tunnel,
`ContainerReset` for the connection to the container).  A process that ends has
its connections closed by the kernel: after `AgentDies` the stub reads what is
left and then an EOF, or a reset if frames to the worker were unread or one to
the stub was half written.  `lost` remembers which of a failed dial, the agent's
death and a reset of the container's connection has happened.  `net/http`
appears twice: an error `handle` ignores becomes an empty 200 (`AwaitEOF`), and
sending the final head reads away the rest of the request (`Discard`).

Tunnel's frames never include a close from the stub, as in the code; the
worker's pump is translated with its branch for it, which shows what is missing.
A container that hangs up is `closed` after its answer's end, whether or not it
has read the body, and `died` before; what the worker's pump writes after that,
or what was unread, resets the connection, and then its writes fail.

### TunnelUpgrade, Frame, Pipe

An upgraded request: `handleUpgrade` and `relayUpgrade` in the stub,
`handleWebSocketTunnel` and `relayTunnelAndConn` in the worker, and the three TCP
connections they hold (`cin`/`cout`, `up`/`down`, `conn`/`answer`).

| Code | Actions |
|---|---|
| `handleUpgrade` to the response's head | `StubOpens`, `StubAwaits` |
| the two goroutines of `relayUpgrade`, `copyTunnelBodyToConn` | `StubUp`, `StubDown` |
| `handleTunnel`, `handleWebSocketTunnel` | `WorkerStarts`, `WorkerDials`, `WorkerAwaits` |
| the two goroutines of `relayTunnelAndConn`, `copyResponseToTunnel` | `WorkerUp`, `WorkerDown` |
| TCP, client, container | `Reset`, `Client...`, `Backend...` |

A chunk is what one `Read` of a relay returns.  A relay ends with the first of
its goroutines and closes both its connections, so whether the last words arrive
depends on which of them that is.  `br` is what `ReadResponse` read past the
container's head.  Every frame goes through `Frame`, which writes and reads the
header's bytes and the mask; the chunks and start messages have sizes on both
sides of 125 and of 65535, where the header's form changes.

`Pipe` says what a direction promises, and it is used twice:
`CarriesUp == Up!Spec` and `CarriesDown == Down!Spec` are refinements, with what
each side has written and read as `said` and `heard`.  Headers appear only where
the 101 loses them (`UpgradeConfirmed`); the model's client goes on all the same.

### Agent, Mirror

`agent.go` with Docker on one side and the receiver on the other.

| Code | Actions |
|---|---|
| `watchEvents`, `trigger` | `Connect`, `DeliverEvent`, `ConnectFails`, `StreamBreaks`, `StreamEnds` |
| the loop of `Run` | `Tick`, `TakeTrigger` |
| `syncOnce`: list, inspect each, post, answer | `List`, `Inspect(i)`, `Post`, `Accepted`, `Refused`, `TimesOut` |
| `syncWithRetry` | `SyncFails` (in each of the above), `Backoff` |
| `lookupService` | `Lookup` |
| the world | `Change(i)`, `Restart`, `Admit(k)`, `Lose(k)`, `Expire` |

A container has versions, the odd ones exportable, so a container that stops and
returns is not the one that was listed.  The listing and each inspection are
steps of their own: a snapshot is not a picture of one instant.  Requests lie
in `net` in the order of their captures and may be lost, late, overtaken, or
answered with an error after they took effect.  The receiver is what the other
modules show of it: `Admit` takes a request and with it refuses all captured
earlier (`NoReplay`).  All containers export a service of the same name, since
only then can `lookupService`'s fallback find the wrong one.

`Mirror` is the abstract specification of agent and receiver together: each copy
of a container only moves forward, is never ahead of it and shows it only in a
version it had; the agent's table is only ever set to the receiver's copy.
`Mirrors == M!Spec` is the refinement, with `copy <- record`.

### Labels, MCLabels

The pure code at both ends of a snapshot: `BuildContainer` on the worker
(`parse/labels.go`), which turns a container's labels, ports and networks into
routers, services, middlewares and an address to dial, and `buildDesiredStubs`
on the receiver (`store.go`), which writes them as labels of stubs again.  The
state machine is only `Export`, then `Desire`; what counts is the set of
initial states.  A label's key is a tuple such as `<<"routers", "r1", "rule">>`,
its value a word or a list of words (`csv`), a Go pointer a set of at most one.
Of the middlewares' options there is one of each kind (text, flag, list, number);
which of them the receiver writes is a list of its own (`Written`).
The properties compose the two ends: what the receiver wrote is read by the
worker's own parser.

### How the modules compose

`ReceiverStore` has no clock: that an expired record's captures are refused from
then on is its `floor`.  `SnapshotAdmission` has the clock, and no calls.  Both
implement `Ledger`, which is where they meet: what `ReceiverStore` is given as
`floor`, the window and the TTL provide.  `Agent` assumes of its receiver what
`ReceiverStore` shows (`TakenAdvance`: a snapshot is taken only if it is newer than
all that were taken before, even those answered with an error; `AckDurable`: an
answered one is not forgotten).  `Labels` is `buildDesiredStubs`, which `ReceiverStore` takes as a
function of the snapshot.  `Agent`'s `table` is what `Tunnel` and `TunnelUpgrade`
look a service up in; there an unknown service is the fault `"missing"`.

## Runs

All are exhaustive within their bounds.  The store's runs of invariants and
action properties go through `MCReceiverStore`, which permutes workers and stub
names; the liveness runs do without symmetry.

| Run | Checks | Bounds and why |
|---|---|---|
| StoreReplay | `TypeOK`, `IInv`, `WriteAhead`, `AckDurable`, `NoReplay`, `StubsAdvance`, `ReportedStubsServe`, `HealthyUntouched`, `TakenAdvance` | two workers and two captures: one request overtakes another, one worker's prune or load meets the other's; crashes and every failure but `"read"`; `OneSendsMore`: a second capture from one of the workers, either of them, at a time the other has sent none or its first (two that overtake at once share nothing but the mutex) |
| StoreReconcile | `ReconcileExact`, `ReportedStubsServe`, `TrackedStubs`, `HealthyUntouched`, `KeepsLedger`, `StaleWorkersPruned` | crashes; one worker with two names, so that one create fails and the other works; two images (a pull in the middle); `FairSpec`; failures after which the code cleans up: with `"list"`, `"inspect"`, `"image"` and `"remove"` it does not (StoreLeak), so they are left to StoreReplay |
| Admission | `AdmissionInv`, `AnswersCovered`, `LockoutBounded`, `AnswersAdvance`, `KeepsLedger` | the tight TTL for a window and a wait of 1; `Horizon` 11 leaves room for an expiry, a restart and a second one; two requests under way |
| Agent | `TypeOK`, `HeardIsListed`, `StubsRouted`, `Mirrors`, `Converges` | two containers, one that comes and goes while the other comes; two failures of any kind, two requests under way: a late request meets its successor, a container changes between its listing and its inspection, a watcher ends and an event is lost; `FairSpec` |
| TunnelRelay | `TypeOK`, `WholeResponse`, `UploadArrives`, `Released` | bodies of known length; a request's start, two chunks and end meet a connection of 3 frames, as a response's head, two chunks and close do, so writes block; clients that leave, containers that refuse, answer early, die or reset, an agent that is killed; `FairSpec` |
| TunnelAnswers | `EmptyOnlyWhenLost`, `Released` | every framing; early answers and with them resets of the container's connection, clients that leave, an agent that is killed, a tunnel that breaks; `FairSpec` |
| TunnelUpgrade | `TypeOK`, `LastWords`, `CarriesUp`, `CarriesDown`, `Released` | two chunks in each direction, so that one can be read ahead or lost behind another; every fault; `FairSpec` |
| Labels | `TypeOK`, `RoutesKept`, `NeverReexported`, `Dialable` | three sets of containers: two routers, services and middlewares with and without each option; every combination of the opt-in labels; every combination of ports, modes, networks and overrides, a URL that does not parse among them |

`TunnelRelay` leaves out requests without a body: there the worker closes with
`request_end` unread, and the reset of the connection can cut the response off.
It also leaves out the tunnel's own breaking (`"cut"`), after which nobody is owed
anything but `Released`, as `TunnelAnswers` checks.  Nobody is owed a whole
response either when the agent is killed or the container's connection is reset:
`WholeResponse` is about `lost = {}`, and `EmptyOnlyWhenLost` says what can become
of the others.  The fault `"read"`, a state file that `Load` skips,
is in no run: its worker's last capture is forgotten, which is what the theorems
exclude by name.

StoreLeak has two captures, one stub name, a failing image inspection and no crash.

Deadlock is checked for the store, for admission and for the agent.  A tunnelled
request ends, and so does `Labels`; their runs switch the check off.
`Released` says instead that both handlers of a tunnel do end.

What the properties say is written above each in the modules.  The mutants in
`PROJECT.json` (`Slip...` operators, which no specification uses) show that each
can fail: a dropped comparison, a swapped order, a forgotten clean-up.

### Findings

Four runs check what the documentation says and fail:

- **StoreLeak.**  A first snapshot makes a stub; in the `Upsert` of a second the
  inspection of the stub image fails, and the empty result replaces the record's
  list (`store.go:127`).  When the worker expires nothing knows of its stub.
  (`reconcileAll` keeps the list in the same situation, but a crash between a
  worker's first create and the end of its `Upsert`, and then a failed inspection
  at the restart, leaks in the same way: there the list that is kept is empty.)
- **TunnelChunked.**  The stub ends a body with `request_end`; the worker waits
  for a close frame, so a chunked upload never ends (`proxy.go:346`).
- **TunnelBackendDown.**  A failed dial to the container is an empty 200 for the
  client (`stub/server.go:81`).  The run has this one way; an agent that is killed
  and a container that answers early and closes with body unread
  (`proxy.go:167-169`) are others, and `EmptyOnlyWhenLost` says that the model has
  no more but a container that dies before its answer.
- **UpgradeHeaders.**  The worker takes `Connection` and `Upgrade` out of the
  container's 101 as hop-by-hop headers, and the stub hands the client a 101
  without them, which a websocket client must refuse (`proxy.go:236`).

### Fairness

- `ReceiverStore!FairSpec`: weak fairness of the mutex holder's next step (every
  Docker call returns within the client's 15 s), strong fairness of `Prune`
  (the ticker's goroutine waits on a mutex that others take and release; Go's
  mutex hands over to a waiter that has starved for a millisecond).  Nothing is
  assumed of requests, crashes, pulls or exits.
- `Tunnel!FairSpec`: weak fairness of each goroutine, of the container's reading
  of what it was sent, and of the client, who sends the body it announced or
  leaves, and reads its response.  A container need never answer.  Without the client's fairness a
  stalled upload blocks the stub in `net/http` (`server.go:137`), and with it
  the worker: no deadline in the code ends that.
- `TunnelUpgrade!FairSpec`: weak fairness of each goroutine and of the reading of a
  client and a container that stay.  Neither has to speak, answer or leave.
- `Agent!FairSpec`: weak fairness of the goroutine of `Run`, of its ticker, and of
  the receiver, which answers a request or loses it.  Failures are finitely
  many (`MaxFaults`).  Nothing is assumed of the watcher or of Docker's events:
  `Converges` rests on the ticker alone, because the watcher may have ended.

## Proofs

All theorems hold for every value of the constants that the modules' named
assumptions admit.  Most properties are not inductive; each section says what
had to be added.

### ReceiverStoreProofs

For any workers, names, contents, captures, images and faults:

- `TypeCorrect`: `TypeOK`, by `TypeInv`, which adds what each phase knows of the
  job (the stub being created exists, the inspected image is set, every record
  in hand is there);
- `IInvAlways` and from it `AckDurableAlways`, `WriteAheadAlways`,
  `NoReplayAlways`, `StubsAdvanceAlways`, under `~Fault("read")`.

Whether an answered capture survives depends on memory and disk agreeing while an
operation runs and on the order of everything that is left of an expired worker.
`CapturesOK` states that order: disk is never ahead of memory, an expired record
lies below the request window's `floor`, a file without a record in memory does
too, and the running operation's record is already on disk.  `IInv` is `TypeInv /\
CapturesOK` with the properties; one lemma per action shows that `TypeInv` and then
the rest are preserved.  The hypothesis on `"read"` is what the code needs: a
file that `Load` skips is a capture forgotten.

- `StoreKeepsLedger`, the refinement of `Ledger`, under the same hypothesis: one
  lemma per operation shows it to be a step of `Ledger` (`UpsertAdmits`,
  `FinishUpsertAnswers`, `NextRecordForgets`, `FinishPruneForgets`,
  `RestartLoads`, `ExpireRaises`, `CrashCrashes`) or to leave alone what `Ledger`
  shows.  `CapturesOK` is what makes a prune a `Forget`.
- `TakenAlwaysAdvance`, from that refinement: in `Ledger` what is on disk or below
  the floor never gets less (`LedgerAdvances`).

### ReconcileProofs

The same store, what its reconciliation leaves behind.

- `ReportedStubsAlwaysServe` and `HealthyNeverTakenDown`, with no hypothesis on
  the faults, by `ReportInv`: what the plan says of each name (`PlanOK`) is true
  of its stub as long as the turn lasts, and a stub runs only once attached.
- `ReconcileAlwaysExact`, by `CleanInv`, the stronger reading of the plan that
  holds while no call failed and nothing moved (`clean`).
- `StubsAlwaysTracked`, and with it `ForgottenLeaveNothing` (the property that
  StoreLeak refutes), if none of the faults `Losing` happens.  A worker's record
  lists its stubs, except for the worker in hand and, at start-up, those that
  `Load` has yet to reconcile (`Busy`); for these the plan covers every stub
  that exists (`TurnOK`, `PruneOK`), and the file of a worker with a stub is
  there and readable (`FiledOK`).  The proof needs the order of captures
  (`Ordered`) for the records a prune takes away.

`Losing` is `"read"`, `"image"`, `"list"`, `"inspect"`, `"remove"` and `"late"`.
TLC refutes `TrackedStubs` with each of them alone, so none can be dropped.
Failed writes, creates, attachments, starts and crashes are all admitted.

### SnapshotAdmissionProofs

`AdmissionInvariant`, `AnswersAlwaysCovered`, `AnswersInOrder` and
`LockoutAlwaysBounded` for every window, TTL and waiting time with `TTL >= 2 *
Window + MaxWait`.  The invariant `AdmissionInv` bounds what waits (`WaitingOK`)
and how far a record's capture may be ahead of its `UpdatedAt` (`RecordOK`).

`AdmissionKeepsLedger` is the refinement of `Ledger` over the clock.  It needs more
of the invariant: the file is never ahead of the running store, one left behind by
a failed removal lies below the window (`CopiesOK`), and a record being answered
is on disk as it is in memory (`BusyOK`).  A prune is a `Forget` because the TTL
covers the window twice and the wait once (`PrunedIsBelow`).

### AgentProofs

For any number of containers, changes, failures and requests under way:
`TypeCorrect`, `HeardIsAlwaysListed`, `StubsAlwaysRouted`, and `AgentMirrors`, the
refinement of `Mirror`.  That the table is the receiver's copy whenever a sync
stands (`TableOK`) rests on everything in between: the requests under way are
captures in the order they were made, none older than the record and none
newer than the snapshot in the making (`NetOK`, `RecordOK`), and the one the agent
waits for is the last of them, so that once it is answered with success no
other is left to overtake it (`AwaitedOK`).  A step of Agent then is a step of
Mirror or leaves `record` and `table` alone.

### TunnelProofs

For any bodies, answers, connections of at least three frames, framings and
faults: `TypeCorrect`, which includes that no write overfills a connection, and

- `AnsweredByContainer`: `EmptyOnlyWhenLost`, with no hypothesis on the faults: an
  empty 200 that no container sent means that the container was not reached, died
  or had its connection reset, or that the agent's process ended;
- `ResponseArrivesWhole`: `WholeResponse`, for requests with a body and without
  `"cut"`; early answers are included.

TLC refutes the second with a request without a body and with `"cut"`.
`TunnelInv` counts: a queue is split into its heads,
chunks and ends, the invariant bounds what each process may still add to it
(`UpOK`, `AnswerOK`, `DownOK`), says that a tunnel that was not reset still holds
the answer's head or its reader has it, unless something was `lost` (`AnsweredOK`), and that while the stub
listens what it got, what is in the tunnel and what is in the container's
connection add up to what the container wrote (`WholeOK`).

### TunnelUpgradeProofs, LastWordsProofs

- `FrameRoundTrip`: `Frame` reads back every length up to 2^31 - 1, with and
  without a mask, in each of its three forms of header.
- `UploadIsPipe` and `DownloadIsPipe`: both directions implement `Pipe`, for any
  chunk sizes that a read can return, any capacity and any faults.  In
  `CarryInv`, `Flow` says of a direction that every chunk on its three queues is
  in its place among what was said (`At`), up to the first link that a reset has
  cut; `ControlOK` says that the messages that open the tunnel are on the wire,
  and first on it, when a process waits for them.
- `TypeCorrect`: `CarryInv` gives `TypeOK` too, with the mask and the messages
  of each side of the wire.
- `LastWordsArrive`: `LastWords`.  It speaks of the end of a conversation, and
  its invariant has to describe the way there.  `Calm` is that at most one side has
  left, having read everything, and once false it stays so; `Opened` that the client
  has the 101 or it is on its way.  As long as both hold, `Chain` does: the ends
  follow one another from the side that left to the other, each process ending only
  when its queue is read out, no connection is ever reset, and so neither `Flow`
  has a cut link.  `EarlyOK` says what is true before the 101, where nothing
  ends but by a failure, and starts the chain.

What is assumed: `MaxSaid >= 1`, a capacity of at least three frames, chunks of
one byte up to the relay's buffer, heads that a frame can carry.

### LabelsProofs

For any labels, ports, networks and modes, as long as an input is shaped as
Docker returns it (`Shape`): `TypeCorrect` (an exported specification is closed:
its routers name services and middlewares it has), `StubsNeverReexported`,
`AlwaysDialable` and `RoutesAlwaysKept`.  `Dialable`'s port is above 0, as the
code has no upper check; an override URL is one that parses.

`RoutesAlwaysKept` says what of a container's routing is on its stubs, and what is
not.  Every router is on exactly one stub, that of its service.  The worker's
parser reads from the stub's labels the service and, of a plain router, all of it
and every option of its middlewares that it read from the container's.  Two things
are lost: a TLS router becomes a TCP router, whose rule has `HostSNI` for `Host`
and whose middlewares are dropped (`AsTcp`, `store.go:432-445`), and a
middleware of which the parser knows no option is named on the stub and not
defined there.  The writer's list of options (`Written`) and the parser's
(`parseOption`) are kept by hand in two files; `OptionWritten` is the lemma that
the first covers the second.  The argument has three parts.

- *A word read once is read the same again* (`Trim`, `CsvOnce`, `NumberOnce`,
  `FlagOnce`, `OptionOnce`).  That `csv` keeps what it has kept needs no induction:
  the rank of an item among those kept is an injection onto `1..n` (`RankIs`),
  and a list without blank items is its own image.
- *A stub's labels say one thing for each key* (`LabelSays`, `MergeSays`, then
  `RouterSays`, `ServiceSays`, `MiddlewareSays`, `ServiceOnly`): many sets of
  labels are merged, and no two disagree on a key.
- *Reading gives back what was written* (`RouterReads`, `ServiceReads`,
  `MiddlewareReads`), up to the default service that `BuildContainer` fills in
  (`ContainerIs`), for every stub that a container asks for (`StubReads`).

`Inv` carries from `Export` to `Desire` that the stubs are exactly those of the
exported containers.

### Only model-checked

- The liveness properties `StaleWorkersPruned`, `UploadArrives`, `Released` and
  `Converges`, and with them all use of fairness and `ENABLED`, which are beyond
  the prover.  `Pipe`, `Mirror` and `Ledger` claim safety only, so their refinement is
  proved whole.
- What `Agent` takes of the receiver is stated and proved of `ReceiverStore`
  (`TakenAlwaysAdvance`, `AckDurableAlways`), but that these two are all it takes is
  an argument, not a refinement: `Agent` has no crash of the receiver and counts
  captures by a request's place.

## Not modelled

- Tokens, signatures and the websocket handshake's keys: they refuse a request
  before any state changes.  Headers, but for the 101's.
- `AtomicWriteFile`: a temporary file, a sync and a rename.  What it
  promises is the file system's doing, and a model of it would be one of the
  file system; ReceiverStore takes a write as atomic.
- `handleUpgradedResponse` (`stub/server.go`): a container that answers 101 to a
  request that did not ask for it.  `pumpTunnelRequestBody` is called by nobody.
- An interim response before the 101, which the worker takes for the answer
  (`proxy.go:230`); what a client sends before it has the 101, which may stay in
  the hijacked reader (`stub/server.go:155`).
- The parts of an override URL: one without a host or a port cannot be dialled
  (`labels.go:361-364`, `proxy.go:142-144`), and the worker then closes the tunnel as
  after a failed dial.  `Dialable` asks only that it parses.  A blank service name, and labels outside `Keys`, which the code does not read.
- `Statuses`, the status server, logging: they only read.
- The renderer (called by nobody), the test application, the parsing of
  arguments and environment, the runtime marker.
- The stub's own death, which takes the client's connection with it; the agent's
  death in the middle of an upgraded conversation, where `TunnelUpgrade` has the
  reset of each connection.
- Docker networks other than the stub's attachment, and two receivers on one
  Docker daemon.
- The middleware options beyond one of each kind; a rule is a word.

## Plan

1. `ReceiverStore`, `SnapshotAdmission` and their proofs, `Tunnel`: done.
2. `Agent` implementing `Mirror`, `TunnelUpgrade` implementing two `Pipe`s,
   `Frame`, `Labels`: done.
3. Proofs of every safety property the passing runs check: done.
4. `Ledger`, which joins the store with its clock: done.
5. Open: `Agent`'s receiver as a second implementation of an abstract receiver, and
   liveness beyond what TLC reaches.
