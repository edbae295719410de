--------------------------- MODULE ReceiverStore ---------------------------
(***************************************************************************)
(* The receiver's worker store, internal/receiver/store.go: the admission  *)
(* of a worker's snapshots, the record kept in memory and on disk, and the *)
(* reconciliation of the master's Docker stubs with it.  One mutex         *)
(* serialises Upsert, RemoveExpired and the start-up Load, so one operation*)
(* runs at a time (`job'), call by call: between two of its calls the      *)
(* process may crash, a stub may exit and the stub image may be pulled.    *)
(*                                                                         *)
(* A snapshot is its capture number (the order of captured_at) and what it *)
(* wants: for each stub name the routing content, or None.  A worker's stub*)
(* names hash its id (store.go:397), so two workers never share a name.    *)
(***************************************************************************)
EXTENDS Naturals

CONSTANTS
  Workers,      \* worker ids
  Names,        \* stub names a worker's snapshot can ask for
  Specs,        \* routing contents of a stub
  MaxCaptures,  \* bound on the capture numbers of a worker
  MaxImages,    \* bound on the versions of the stub image
  Faults,       \* what may go wrong, see AllFaults
  None,         \* no record, no stub, no content
  Bad           \* a state file without advertise_addr or proxy_port

AllFaults == {"image", "list", "inspect", "remove", "create", "connect",
              "start",     \* the Docker call of that name returns an error
              "late",      \* it takes effect, yet returns an error (15 s timeout)
              "persist",   \* the state file is not written
              "unlink",    \* os.Remove fails, its error is dropped
              "crash",     \* the process is killed, between any two calls
              "read"}      \* Load cannot read or decode a state file

ASSUME FaultsAssumption == Faults \subseteq AllFaults
ASSUME BoundsAssumption == MaxCaptures \in Nat /\ MaxImages \in Nat \ {0}

VARIABLES
  up,      \* the process runs
  mem,     \* Store.workers
  disk,    \* the state directory
  docker,  \* the master's stub containers
  image,   \* the version the stub image's tag points to
  floor,   \* captures up to here fail the request window (SnapshotAdmission)
  acked,   \* history: the last capture the receiver answered 200 to
  op,      \* the operation holding the mutex
  worker,  \* the worker it works on
  queue,   \* load, prune: the workers it has yet to work on
  phase,   \* where it is
  img,     \* the image version it inspected
  plan,    \* what is to be done to each stub
  cur,     \* the stub being created
  managed, \* upsert, load: the list being built; prune: the record's list
  clean    \* history: no call failed and nothing moved since it began
job  == <<op, worker, queue, phase, img, plan, cur, managed, clean>>
vars == <<up, mem, disk, docker, image, floor, acked, job>>

Contents == [Names -> Specs \cup {None}]
Record   == [cap: 0..MaxCaptures, want: Contents \cup {Bad},
             managed: SUBSET Names, expired: BOOLEAN]
\* spec and forImage are the stub's desired-hash label, cap the snapshot it
\* was built from.
Stub     == [spec: Specs, forImage: 1..MaxImages, image: 1..MaxImages,
             attached: BOOLEAN, running: BOOLEAN, cap: 1..MaxCaptures]
Plans    == {"none", "keep", "replace", "create", "drop", "done", "failed"}
Phases   == {"next", "image", "list", "apply", "connect", "start", "undo",
             "abort"}

ASSUME FreshAssumption ==
  /\ None \notin Specs \cup Names \cup Workers \cup Record \cup Stub
  /\ Bad \notin Contents

StoreTypeOK ==
  /\ up \in BOOLEAN
  /\ mem \in [Workers -> Record \cup {None}]
  /\ disk \in [Workers -> Record \cup {None}]
  /\ docker \in [Workers -> [Names -> Stub \cup {None}]]
  /\ image \in 1..MaxImages
  /\ floor \in [Workers -> 0..MaxCaptures]
  /\ acked \in [Workers -> 0..MaxCaptures]
JobTypeOK ==
  /\ op \in {"idle", "upsert", "load", "prune"}
  /\ worker \in Workers \cup {None}
  /\ queue \in SUBSET Workers
  /\ phase \in Phases
  /\ img \in 0..MaxImages
  /\ plan \in [Names -> Plans]
  /\ cur \in Names \cup {None}
  /\ managed \in SUBSET Names
  /\ clean \in BOOLEAN
TypeOK == StoreTypeOK /\ JobTypeOK

NoPlan == [n \in Names |-> "none"]
Idle == /\ op = "idle" /\ worker = None /\ queue = {} /\ phase = "next"
        /\ img = 0 /\ plan = NoPlan /\ cur = None /\ managed = {}
        /\ clean = TRUE
\* A file an older release wrote: no proxy metadata, no stubs.
Legacy == [cap |-> 0, want |-> Bad, managed |-> {}, expired |-> FALSE]
Fault(f) == f \in Faults

Init ==
  /\ up = FALSE
  /\ mem = [w \in Workers |-> None]
  /\ disk \in [Workers -> {None, Legacy}]
  /\ docker = [w \in Workers |-> [n \in Names |-> None]]
  /\ image = 1
  /\ floor = [w \in Workers |-> 0]
  /\ acked = [w \in Workers |-> 0]
  /\ Idle

-----------------------------------------------------------------------------
(* Upsert: admission and the write-ahead (store.go:97-124).  A request that *)
(* waited for the mutex may be a duplicate, an old one or out of order; a   *)
(* rejected one changes nothing.                                            *)

Begin(o, w, ws, where, names) ==
  /\ op' = o /\ worker' = w /\ queue' = ws /\ phase' = where
  /\ img' = 0 /\ plan' = NoPlan /\ cur' = None /\ managed' = names
  /\ clean' = TRUE
Release == Begin("idle", None, {}, "next", {})

\* Slips: the same operator as a plausible mistake would have it.  No
\* specification uses one; each breaks the property it is named for.
SlipNewerOrEqual(w, cap) == mem[w] # None => cap >= mem[w].cap     \* NoReplay
SlipAnyOrder(w, cap) == cap > 0                                \* StubsAdvance

\* !CapturedAt.After(prev.CapturedAt) is refused.
Newer(w, cap) == mem[w] # None => cap > mem[w].cap

\* Reconcile first, write the record after it (WriteAhead, IInv).
SlipReconcileFirst(w, cap, c) ==
  /\ up /\ op = "idle" /\ cap > floor[w] /\ Newer(w, cap)
  /\ mem' = [mem EXCEPT ![w] = [cap |-> cap, want |-> c, managed |-> {},
                                expired |-> FALSE]]
  /\ Begin("upsert", w, {}, "image", {})
  /\ UNCHANGED <<up, disk, docker, image, floor, acked>>

Upsert(w, cap, c) ==
  /\ up /\ op = "idle"
  /\ cap > floor[w]
  /\ Newer(w, cap)
  /\ LET prev   == IF mem[w] = None THEN {} ELSE mem[w].managed
         record == [cap |-> cap, want |-> c, managed |-> prev,
                    expired |-> FALSE]
     IN  /\ mem' = [mem EXCEPT ![w] = record]
         /\ \/ /\ disk' = [disk EXCEPT ![w] = record]
               /\ Begin("upsert", w, {}, "image", {})
            \/ /\ Fault("persist")             \* the error is the answer
               /\ UNCHANGED <<disk, job>>
  /\ UNCHANGED <<up, docker, image, floor, acked>>

-----------------------------------------------------------------------------
(* Load and RemoveExpired: one record after the other (store.go:58-95,      *)
(* 139-154, 174-196).  Both range over a map, so in any order.              *)

Compatible(w) == disk[w] # None /\ disk[w].want # Bad

Restart ==
  /\ ~up
  /\ up' = TRUE
  /\ \E unread \in SUBSET {w \in Workers : disk[w] # None},
        left \in SUBSET {w \in Workers : disk[w] # None /\ disk[w].want = Bad} :
       /\ unread # {} => Fault("read")
       /\ left # {} => Fault("unlink")
       /\ LET loaded == {w \in Workers : Compatible(w)} \ unread
              keep   == {w \in Workers : Compatible(w)} \cup unread \cup left
          IN  /\ mem' = [w \in Workers |-> IF w \in loaded THEN disk[w] ELSE None]
              /\ disk' = [w \in Workers |-> IF w \in keep THEN disk[w] ELSE None]
              /\ Begin("load", None, loaded, "next", {})
  /\ UNCHANGED <<docker, image, floor, acked>>

\* Slips: the age is not looked at (AckDurable); a record that lists stubs is
\* kept (StaleWorkersPruned).
SlipPruneAll ==
  /\ up /\ op = "idle"
  /\ Begin("prune", None, {w \in Workers : mem[w] # None}, "next", {})
  /\ UNCHANGED <<up, mem, disk, docker, image, floor, acked>>
SlipPruneEmpty ==
  /\ up /\ op = "idle"
  /\ LET old == {w \in Workers : /\ mem[w] # None /\ mem[w].expired
                                 /\ mem[w].managed = {}}
     IN  old # {} /\ Begin("prune", None, old, "next", {})
  /\ UNCHANGED <<up, mem, disk, docker, image, floor, acked>>

\* The minute ticker's RemoveExpired.
Prune ==
  /\ up /\ op = "idle"
  /\ LET old == {w \in Workers : mem[w] # None /\ mem[w].expired}
     IN  /\ old # {}
         /\ Begin("prune", None, old, "next", {})
  /\ UNCHANGED <<up, mem, disk, docker, image, floor, acked>>

NextRecord(w) ==
  /\ phase = "next" /\ w \in queue
  /\ \/ /\ op = "load"
        /\ Begin("load", w, queue \ {w}, "image", {})
        /\ UNCHANGED mem
     \/ /\ op = "prune"
        /\ Begin("prune", w, queue \ {w}, "list", mem[w].managed)
        /\ mem' = [mem EXCEPT ![w] = None]
  /\ UNCHANGED <<up, disk, docker, image, floor, acked>>

LastRecord ==
  /\ op \in {"load", "prune"} /\ phase = "next" /\ queue = {}
  /\ Release
  /\ UNCHANGED <<up, mem, disk, docker, image, floor, acked>>

-----------------------------------------------------------------------------
(* reconcileWorker and removeManagedContainers (store.go:198-325).          *)

held == <<op, worker, queue>>
Goto(where) == phase' = where /\ UNCHANGED <<held, img, plan, cur, managed, clean>>
Trouble(where) ==
  phase' = where /\ clean' = FALSE /\ UNCHANGED <<held, img, plan, cur, managed>>
Abort(f) == Fault(f) /\ Trouble("abort")
Reconciling == op \in {"upsert", "load"}
want == mem[worker].want                   \* reconcileWorker's argument
Desired == {n \in Names : want[n] # None}

\* The image's id is not kept (TypeOK).
SlipInspectImage ==
  /\ Reconciling /\ phase = "image" /\ Goto("list")
  /\ UNCHANGED <<up, mem, disk, docker, image, floor, acked>>

InspectImage ==
  /\ Reconciling /\ phase = "image"
  /\ \/ /\ phase' = "list" /\ img' = image
        /\ UNCHANGED <<held, plan, cur, managed, clean>>
     \/ Abort("image")
  /\ UNCHANGED <<up, mem, disk, docker, image, floor, acked>>

\* A stopped stub is taken for a good one (ReconcileExact).
SlipHealthy(stub, spec, id) ==
  stub.spec = spec /\ stub.forImage = id /\ stub.image = id

\* The test that lets a stub stay: hash label, image id and running state.
Healthy(stub, spec, id) ==
  stub.spec = spec /\ stub.forImage = id /\ stub.image = id /\ stub.running

\* Every stub that is there is replaced (HealthyUntouched).
SlipPlanFor(n, listed) ==
  CASE op = "prune" -> IF n \in managed \cap listed THEN "drop" ELSE "none"
    [] Reconciling /\ n \in Desired -> IF n \in listed THEN "replace" ELSE "create"
    [] OTHER -> IF n \in listed THEN "drop" ELSE "none"

PlanFor(n, listed) ==
  IF op = "prune"
    THEN IF n \in managed \cap listed THEN "drop" ELSE "none"
  ELSE IF n \in Desired
    THEN IF n \notin listed THEN "create"
         ELSE IF Healthy(docker[worker][n], want[n], img)
           THEN "keep" ELSE "replace"
  ELSE IF n \in listed THEN "drop" ELSE "none"

\* A container whose inspect fails is left out of the listing.
ListManaged ==
  /\ phase = "list"
  /\ \/ LET present == {n \in Names : docker[worker][n] # None}
        IN \E hidden \in SUBSET present :
             /\ hidden # {} => Fault("inspect")
             /\ phase' = "apply"
             /\ plan' = [n \in Names |-> PlanFor(n, present \ hidden)]
             /\ managed' = IF Reconciling
                           THEN {n \in Names : plan'[n] = "keep"} ELSE managed
             /\ clean' = (clean /\ hidden = {})
             /\ UNCHANGED <<held, img, cur>>
     \/ Abort("list")
  /\ UNCHANGED <<up, mem, disk, docker, image, floor, acked>>

SetStub(n, stub) == docker' = [docker EXCEPT ![worker][n] = stub]
\* The create of name n ends; b: without an error on the way.
Give(n, how, b) ==
  /\ phase' = "apply" /\ cur' = None /\ plan' = [plan EXCEPT ![n] = how]
  /\ clean' = (clean /\ b)
  /\ UNCHANGED <<held, img, managed>>

RemoveStale(n) ==
  /\ phase = "apply" /\ cur = None /\ plan[n] = "replace"
  /\ plan' = [plan EXCEPT ![n] = "create"] /\ cur' = n
  /\ \/ SetStub(n, None) /\ UNCHANGED clean
     \/ Fault("remove") /\ clean' = FALSE /\ UNCHANGED docker   \* error dropped
  /\ UNCHANGED <<up, mem, disk, image, floor, acked, held, phase, img, managed>>

\* The create names the image by its tag: it gets what the tag is then.
NewStub(n) == [spec |-> want[n], forImage |-> img, image |-> image,
               attached |-> FALSE, running |-> FALSE,
               cap |-> mem[worker].cap]

CreateStub(n) ==
  /\ phase = "apply" /\ plan[n] = "create" /\ cur \in {None, n}
  /\ \/ /\ docker[worker][n] # None        \* 409: the name is taken
        /\ Give(n, "failed", TRUE)
        /\ UNCHANGED docker
     \/ /\ docker[worker][n] = None
        /\ SetStub(n, NewStub(n))
        /\ \/ /\ phase' = "connect" /\ cur' = n
              /\ UNCHANGED <<held, img, plan, managed, clean>>
           \/ Fault("late") /\ Give(n, "failed", FALSE)
     \/ /\ Fault("create")
        /\ Give(n, "failed", FALSE)
        /\ UNCHANGED docker
  /\ UNCHANGED <<up, mem, disk, image, floor, acked>>

Flagged(stub, attached, running) ==
  [spec |-> stub.spec, forImage |-> stub.forImage, image |-> stub.image,
   attached |-> attached, running |-> running, cap |-> stub.cap]
Current == docker[worker][cur]
Attach == SetStub(cur, Flagged(Current, TRUE, Current.running))
Fail == Trouble("undo")

\* The error of ConnectNetwork is dropped (ReportedStubsServe).
SlipConnectStub ==
  /\ phase = "connect" /\ Goto("start")
  /\ Attach \/ (Fault("connect") /\ UNCHANGED docker)
  /\ UNCHANGED <<up, mem, disk, image, floor, acked>>

ConnectStub ==
  /\ phase = "connect"
  /\ \/ Attach /\ Goto("start")
     \/ Fault("late") /\ Attach /\ Fail
     \/ Fault("connect") /\ Fail /\ UNCHANGED docker
  /\ UNCHANGED <<up, mem, disk, image, floor, acked>>

Run == SetStub(cur, Flagged(Current, Current.attached, TRUE))

StartStub ==
  /\ phase = "start"
  /\ \/ /\ Run
        /\ phase' = "apply" /\ cur' = None /\ plan' = [plan EXCEPT ![cur] = "done"]
        /\ managed' = managed \cup {cur}
        /\ UNCHANGED <<held, img, clean>>
     \/ Fault("late") /\ Run /\ Fail
     \/ Fault("start") /\ Fail /\ UNCHANGED docker
  /\ UNCHANGED <<up, mem, disk, image, floor, acked>>

\* The stub that could not be connected or started stays (TrackedStubs).
SlipUndoStub ==
  /\ phase = "undo" /\ Give(cur, "failed", FALSE)
  /\ UNCHANGED <<up, mem, disk, docker, image, floor, acked>>

\* createStubContainer removes what it could not connect or start.
UndoStub ==
  /\ phase = "undo"
  /\ Give(cur, "failed", FALSE)
  /\ SetStub(cur, None) \/ (Fault("remove") /\ UNCHANGED docker)
  /\ UNCHANGED <<up, mem, disk, image, floor, acked>>

CreatesLeft == \E n \in Names : plan[n] \in {"replace", "create"}

\* Containers nobody wants any more, after the desired ones; or a prune's.
DropStub(n) ==
  /\ phase = "apply" /\ cur = None /\ plan[n] = "drop"
  /\ ~CreatesLeft
  /\ \/ SetStub(n, None) /\ Give(n, "done", TRUE)
     \/ Fault("remove") /\ Give(n, "done", FALSE) /\ UNCHANGED docker
  /\ UNCHANGED <<up, mem, disk, image, floor, acked>>

Applied ==
  /\ phase = "apply" /\ ~CreatesLeft
  /\ \A n \in Names : plan[n] # "drop"
Finished == Applied \/ phase = "abort"
\* An error with nothing managed (reconcileWorker's own error has no list).
Failed == phase = "abort" \/ (managed = {} /\ Desired # {})

-----------------------------------------------------------------------------
(* The end of each operation.                                               *)

Reconciled(w) == [cap |-> mem[w].cap, want |-> mem[w].want, expired |-> FALSE,
                  managed |-> IF phase = "abort" THEN {} ELSE managed]

\* store.go:125-136: stored whether or not the reconciliation failed.
FinishUpsert ==
  /\ op = "upsert" /\ Finished
  /\ LET w == worker
     IN  /\ mem' = [mem EXCEPT ![w] = Reconciled(w)]
         /\ \/ /\ disk' = [disk EXCEPT ![w] = Reconciled(w)]
               /\ acked' = IF Failed THEN acked
                           ELSE [acked EXCEPT ![w] = mem[w].cap]
            \/ Fault("persist") /\ UNCHANGED <<disk, acked>>
  /\ Release
  /\ UNCHANGED <<up, docker, image, floor>>

\* store.go:184-193: a failed record is left as it was loaded.
FinishLoad ==
  /\ op = "load" /\ Finished
  /\ LET w == worker
     IN  IF Failed THEN UNCHANGED <<mem, disk>>
         ELSE /\ mem' = [mem EXCEPT ![w] = Reconciled(w)]
              /\ \/ disk' = [disk EXCEPT ![w] = Reconciled(w)]
                 \/ Fault("persist") /\ UNCHANGED disk
  /\ Begin("load", None, queue, "next", {})
  /\ UNCHANGED <<up, docker, image, floor, acked>>

\* store.go:150-151: the file goes even when the listing failed.
FinishPrune ==
  /\ op = "prune" /\ Finished
  /\ \/ disk' = [disk EXCEPT ![worker] = None]
     \/ Fault("unlink") /\ UNCHANGED disk
  /\ Begin("prune", None, queue, "next", {})
  /\ UNCHANGED <<up, mem, docker, image, floor, acked>>

-----------------------------------------------------------------------------
(* The environment.                                                         *)

\* A record's UpdatedAt becomes older than the TTL.  By then every request
\* the window still admits was captured after it (SnapshotAdmission).
Aged(record) == [cap |-> record.cap, want |-> record.want,
                 managed |-> record.managed, expired |-> TRUE]
Expire(w) ==
  LET record == IF up THEN mem[w] ELSE disk[w]
  IN  /\ record # None /\ record.want # Bad /\ ~record.expired
      /\ ~(op = "upsert" /\ worker = w)
      /\ mem' = IF up THEN [mem EXCEPT ![w] = Aged(@)] ELSE mem
      /\ disk' = IF disk[w] = None THEN disk
                 ELSE [disk EXCEPT ![w] = Aged(@)]
      /\ floor' = [floor EXCEPT ![w] = IF record.cap > @ THEN record.cap ELSE @]
  /\ UNCHANGED <<up, docker, image, acked, job>>

Moved(w) ==
  /\ clean' = (clean /\ ~(phase # "next" /\ worker = w))
  /\ UNCHANGED <<held, phase, img, plan, cur, managed>>

StubExits(w, n) ==
  /\ docker[w][n] # None /\ docker[w][n].running
  /\ docker' = [docker EXCEPT ![w][n] = Flagged(@, @.attached, FALSE)]
  /\ Moved(w)
  /\ UNCHANGED <<up, mem, disk, image, floor, acked>>

PullImage ==
  /\ image < MaxImages
  /\ image' = image + 1
  /\ Moved(worker)
  /\ UNCHANGED <<up, mem, disk, docker, floor, acked>>

Crash ==
  /\ Fault("crash")
  /\ up
  /\ up' = FALSE
  /\ mem' = [w \in Workers |-> None]
  /\ Release
  /\ UNCHANGED <<disk, docker, image, floor, acked>>

Requests == \E w \in Workers, cap \in 1..MaxCaptures, c \in Contents : Upsert(w, cap, c)

Step ==
  \/ \E w \in Workers : NextRecord(w)
  \/ LastRecord
  \/ InspectImage \/ ListManaged
  \/ \E n \in Names : RemoveStale(n) \/ CreateStub(n) \/ DropStub(n)
  \/ ConnectStub \/ StartStub \/ UndoStub
  \/ FinishUpsert \/ FinishLoad \/ FinishPrune

Environment ==
  \/ \E w \in Workers : Expire(w)
  \/ \E w \in Workers, n \in Names : StubExits(w, n)
  \/ PullImage

Next == Requests \/ Restart \/ Prune \/ Step \/ Environment \/ Crash
Spec == Init /\ [][Next]_vars

-----------------------------------------------------------------------------
(* Fairness: a Docker call returns within the client's 15 s timeout, so the *)
(* mutex holder moves on; the ticker's goroutine is not starved of a mutex  *)
(* that is released over and over (Go's mutex hands over to a waiter).      *)
FairSpec == Spec /\ WF_vars(Step) /\ SF_vars(Prune)

-----------------------------------------------------------------------------
(* Properties.                                                              *)

\* What a restart can rely on to refuse an old request: the state file's
\* capture, or the request window once the record has expired.
Durable(w) == IF disk[w] # None /\ disk[w].cap > floor[w]
              THEN disk[w].cap ELSE floor[w]

\* Every snapshot answered 200 is still covered after a crash at any point:
\* the record is on disk before the answer, and it is deleted only once the
\* window refuses what it covered (Upsert, RemoveExpired, Load).
AckDurable == \A w \in Workers : acked[w] <= Durable(w)

\* The record is written before the first stub is touched (store.go:122, 125):
\* no stub is built from a snapshot newer than the worker's state file, nor,
\* once the file is gone, from one the request window would still admit.
WriteAhead == \A w \in Workers, n \in Names :
  docker[w][n] # None =>
    docker[w][n].cap <= IF disk[w] # None THEN disk[w].cap ELSE floor[w]

\* A snapshot that reaches the reconciliation is newer than every snapshot
\* answered 200 before, whatever is replayed, duplicated or delayed, and over
\* crashes, failed writes and expiries (store.go:107-110).
NoReplay ==
  op = "upsert" => mem[worker].cap > acked[worker]

\* What a restart can rely on never gets less, and a snapshot is only taken, to be
\* reconciled, if it is newer than that: than every snapshot taken before it, the
\* ones answered with an error included (store.go:107, 122, 151; the agent's
\* table relies on it, agent.go:188).
TakenAdvance == [][\A w \in Workers :
  /\ Durable(w)' >= Durable(w)
  /\ op = "idle" /\ op' = "upsert" /\ worker' = w
       => mem'[w].cap > Durable(w) /\ Durable(w)' = mem'[w].cap]_vars

\* A stub is only ever rebuilt from a snapshot at least as new as the one it
\* was built from, after a late request or by a restart's reconciliation.
StubsAdvance ==
  (Reconciling /\ phase # "next") => \A n \in Names :
    docker[worker][n] # None =>
      docker[worker][n].cap <= mem[worker].cap

\* A reconciliation during which no call failed and nothing moved leaves the
\* worker exactly the stubs its snapshot wants, up, attached, current, and
\* reports exactly those (reconcileWorker, createStubContainer).
ReconcileExact ==
  (Reconciling /\ Applied /\ clean) =>
    /\ managed = Desired
    /\ \A n \in Names :
         LET stub == docker[worker][n]
         IN  IF n \notin Desired THEN stub = None
             ELSE stub # None /\ Healthy(stub, want[n], img) /\ stub.attached

\* Whatever failed, a name reported as managed is a stub that exists, routes
\* as the snapshot asks and is on Traefik's network (store.go:217-241).
ReportedStubsServe ==
  (Reconciling /\ phase # "next") => \A n \in managed :
    LET stub == docker[worker][n]
    IN  stub # None /\ stub.spec = want[n] /\ stub.attached

\* A reconciliation takes down no stub that already is what it is to be: the
\* routes of an unchanged service see no gap (store.go:220-223).
HealthyUntouched ==
  [][(Reconciling /\ phase = "apply") =>
       \A n \in Desired :
         LET stub == docker[worker][n]
         IN  (stub # None /\ Healthy(stub, want[n], img))
               => docker'[worker][n] # None]_vars

\* Between operations every stub on the master is in its worker's record, so
\* that the worker's expiry will remove it (store.go:139-154).
TrackedStubs ==
  (up /\ op = "idle") => \A w \in Workers, n \in Names :
    docker[w][n] # None => mem[w] # None /\ n \in mem[w].managed

\* README.md:171, "prunes stale workers after the configured TTL": a worker
\* of which no record is left has no stub left either.
ForgottenWorkersLeaveNoStubs ==
  (up /\ op = "idle") => \A w \in Workers :
    (mem[w] = None /\ disk[w] = None) => \A n \in Names : docker[w][n] = None

\* Whatever fails, the captures in memory and on disk, the one in hand and the
\* last one answered follow Ledger: only what the window refuses is forgotten,
\* over expiries, crashes and restarts in the middle of an operation.
Cap(record) == IF record = None THEN 0 ELSE record.cap
HeldCaps  == [w \in Workers |-> Cap(mem[w])]
FiledCaps == [w \in Workers |-> Cap(disk[w])]
TakenCaps == [w \in Workers |->
                IF op = "upsert" /\ worker = w THEN Cap(mem[w]) ELSE 0]
L == INSTANCE Ledger WITH Captures <- 1..MaxCaptures, mem <- HeldCaps,
                          disk <- FiledCaps, taken <- TakenCaps
KeepsLedger == L!Spec

\* A worker that stays silent past the TTL loses its stubs, unless it comes
\* back or the receiver stops first (pruneLoop, RemoveExpired).
StaleWorkersPruned == \A w \in Workers :
  (up /\ mem[w] # None /\ mem[w].expired) ~>
    \/ \A n \in Names : docker[w][n] = None
    \/ mem[w] # None /\ ~mem[w].expired
    \/ ~up

-----------------------------------------------------------------------------
(* The inductive invariant.  TypeInv is inductive whatever fails; the rest, *)
(* which gives NoReplay, AckDurable, WriteAhead and StubsAdvance, when Load  *)
(* can read every file it finds ("read" \notin Faults).                     *)

StoppedOK == ~up => Idle /\ \A w \in Workers : mem[w] = None

Creating == phase \in {"connect", "start", "undo"}
Working == phase # "next"
\* The workers whose record the running operation works from.
InHand == queue \cup (IF Working THEN {worker} ELSE {})

JobOK ==
  /\ Working => worker \in Workers /\ op # "idle"
  /\ op = "upsert" => Working
  /\ phase = "image" \/ Creating => Reconciling
  /\ Creating => cur \in Names /\ docker[worker][cur] # None
  /\ Reconciling /\ phase \notin {"next", "image", "abort"} => img # 0
  /\ \A n \in Names : plan[n] \in {"replace", "create"} =>
       Working /\ Reconciling /\ n \in Desired

RecordsOK ==
  /\ \A w \in Workers : /\ mem[w] # None => mem[w].want # Bad /\ mem[w].cap > 0
                        /\ disk[w] # None /\ disk[w].want # Bad => disk[w].cap > 0
  /\ Reconciling => \A w \in InHand : mem[w] # None
  /\ op = "prune" => \A w \in queue : mem[w] # None

TypeInv == TypeOK /\ StoppedOK /\ JobOK /\ RecordsOK

\* How the captures of memory, disk and request window are ordered.
CapturesOK == \A w \in Workers :
  /\ disk[w] # None /\ disk[w].want = Bad => disk[w].cap = 0
  /\ mem[w] # None /\ disk[w] # None => disk[w].cap <= mem[w].cap
  /\ mem[w] # None /\ mem[w].expired => mem[w].cap <= floor[w]
  /\ disk[w] # None /\ disk[w].expired => disk[w].cap <= floor[w]
  /\ up /\ mem[w] = None /\ disk[w] # None => disk[w].cap <= floor[w]
  /\ Reconciling /\ w \in InHand => disk[w] # None /\ disk[w].cap = mem[w].cap
  /\ op = "prune" /\ w \in queue => mem[w].expired
  /\ op = "prune" /\ Working /\ w = worker => mem[w] = None

IInv == TypeInv /\ CapturesOK /\ AckDurable /\ WriteAhead /\ NoReplay
=============================================================================
