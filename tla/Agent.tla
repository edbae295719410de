-------------------------------- MODULE Agent --------------------------------
(***************************************************************************)
(* The worker agent, internal/worker/agent.go: the event watcher, the      *)
(* ticker and the trigger channel of one; the sync that lists and inspects *)
(* the containers one by one and posts a snapshot; its retries; the table  *)
(* by which the worker's proxy finds a container.  The receiver is what    *)
(* ReceiverStore shows of it: it takes a snapshot captured after all those *)
(* it took before, and no other (TakenAdvance, AckDurable).                *)
(*                                                                         *)
(* Captures are ordered as they are posted, so a snapshot's place in `net' *)
(* stands for its captured_at.  Every container exports a service of the   *)
(* same name, the case in which lookupService's fallback matters.          *)
(***************************************************************************)
EXTENDS Naturals, Sequences

CONSTANTS
  Ids,         \* container ids
  MaxVersion,  \* bound on the versions of a container; only one gets to the last
  MaxFaults,   \* bound on the failures
  MaxNet       \* bound on the requests under way

ASSUME AgentBounds == MaxVersion \in Nat /\ MaxFaults \in Nat /\ MaxNet \in Nat \ {0}

VARIABLES
  ver,      \* Docker: the version of each container, see Mirror
  events,   \* Docker: containers with an event not yet delivered
  watcher,  \* watchEvents: on, retry (first attempt to come), late, ended
  told,     \* the version of each container the watcher has heard of
  trigger,  \* Agent.trigger holds a signal
  phase,    \* syncWithRetry: idle, list, inspect, wait, backoff
  todo,     \* the listed containers it has yet to inspect
  snap,     \* the snapshot it builds, or the last one it built
  success,  \* status.LastSuccess
  table,    \* Agent.snapshot
  net,      \* the requests under way, in the order of their capture
  reply,    \* the answer to the request the agent waits for
  record,   \* the receiver's: the last snapshot it took
  live,     \* it has not been removed by the TTL
  faults    \* failures so far
docker   == <<ver, events>>
watching == <<watcher, told>>
syncing  == <<phase, todo, snap, success, table>>
receiver == <<record, live>>
network  == <<net, reply, receiver>>
vars == <<docker, watching, trigger, syncing, network, faults>>

M == INSTANCE Mirror WITH ver <- ver, copy <- record, table <- table
Snapshots == [Ids -> [at: 0..MaxVersion, shown: BOOLEAN]]

TypeOK ==
  /\ ver \in [Ids -> 0..MaxVersion] /\ events \subseteq Ids
  /\ watcher \in {"on", "retry", "late", "ended"}
  /\ told \in [Ids -> 0..MaxVersion] /\ trigger \in BOOLEAN
  /\ phase \in {"idle", "list", "inspect", "wait", "backoff"}
  /\ todo \subseteq Ids /\ snap \in Snapshots /\ table \in Snapshots
  /\ success \in BOOLEAN
  /\ net \in Seq([snap: Snapshots, awaited: BOOLEAN]) /\ Len(net) <= MaxNet
  /\ reply \in {"none", "ok", "error"}
  /\ record \in Snapshots /\ live \in BOOLEAN
  /\ faults \in 0..MaxFaults

\* Run: one signal at the start.
Init ==
  /\ M!Init /\ live = FALSE
  /\ events = {} /\ watcher = "retry" /\ told = [i \in Ids |-> 0]
  /\ trigger = TRUE /\ phase = "idle" /\ todo = {} /\ snap = M!Nothing
  /\ success = FALSE /\ net = <<>> /\ reply = "none" /\ faults = 0

Fault == faults < MaxFaults /\ faults' = faults + 1

-----------------------------------------------------------------------------
(* The containers, and Docker's event stream.                               *)

\* start, die, destroy, ...; a container that restarts dies first.
Change(i) ==
  /\ ver[i] < MaxVersion
  /\ ver[i] + 1 = MaxVersion => \A j \in Ids : ver[j] < MaxVersion  \* bound
  /\ ver' = [ver EXCEPT ![i] = @ + 1] /\ events' = events \cup {i}
  /\ UNCHANGED <<watching, trigger, syncing, network, faults>>

\* Slip: the channel has no place for a signal (HeardIsListed).
SlipSignal == trigger' = (trigger \/ phase = "idle")
\* Every event signals; a full channel drops the signal.
Signal == trigger' = TRUE
DeliverEvent(i) ==
  /\ watcher = "on" /\ i \in events
  /\ events' = events \ {i} /\ told' = [told EXCEPT ![i] = ver[i]] /\ Signal
  /\ UNCHANGED <<ver, watcher, syncing, network, faults>>

\* A stream asks for the last minute again, so it repeats old events and misses
\* none that fell into a first backoff (32 s at most).  After a failed attempt
\* the gap may be longer than the minute.
Connect ==
  /\ watcher \in {"retry", "late"} /\ watcher' = "on"
  /\ events' \in IF watcher = "late" THEN SUBSET events ELSE {events}
  /\ trigger' \in {trigger, TRUE}
  /\ UNCHANGED <<ver, told, syncing, network, faults>>
ConnectFails ==
  /\ watcher \in {"retry", "late"} /\ watcher' = "late" /\ Fault
  /\ UNCHANGED <<docker, told, trigger, syncing, network>>
\* An error, at the latest the client's timeout after 15 s.
StreamBreaks ==
  /\ watcher = "on" /\ watcher' = "retry"
  /\ UNCHANGED <<docker, told, trigger, syncing, network, faults>>
\* Docker ends the stream in order: WatchEvents returns nil, watchEvents too.
StreamEnds ==
  /\ watcher = "on" /\ watcher' = "ended" /\ Fault
  /\ UNCHANGED <<docker, told, trigger, syncing, network>>

-----------------------------------------------------------------------------
(* Run, syncWithRetry and syncOnce.                                         *)

\* Slip: the ticker only retries what failed (Converges).
SlipTick ==
  /\ phase = "idle" /\ ~success /\ Signal
  /\ UNCHANGED <<docker, watching, syncing, network, faults>>

\* The ticker's channel keeps one tick too, read when no sync runs.
Tick ==
  /\ phase = "idle" /\ Signal
  /\ UNCHANGED <<docker, watching, syncing, network, faults>>

TakeTrigger ==
  /\ phase = "idle" /\ trigger
  /\ trigger' = FALSE /\ phase' = "list"
  /\ UNCHANGED <<docker, watching, todo, snap, success, table, network, faults>>

\* setError, then the backoff.
SyncFails == phase' = "backoff" /\ success' = FALSE

\* ListContainers, stopped containers among them.
List ==
  /\ phase = "list"
  /\ \/ /\ todo' \in {ids \in SUBSET Ids : \A i \in Ids : M!Exported(ver[i]) => i \in ids}
        /\ snap' = [i \in Ids |-> [at |-> ver[i], shown |-> FALSE]]
        /\ phase' = "inspect" /\ UNCHANGED <<success, faults>>
     \/ Fault /\ SyncFails /\ UNCHANGED <<todo, snap>>
  /\ UNCHANGED <<docker, watching, trigger, table, network>>

\* InspectContainer and BuildContainer.  A container that cannot be inspected
\* is left out, as if it were gone.
Inspect(i) ==
  /\ phase = "inspect" /\ i \in todo
  /\ todo' = todo \ {i}
  /\ \E fails \in BOOLEAN :
       /\ snap' = [snap EXCEPT ![i] = [at |-> ver[i], shown |-> M!Exported(ver[i]) /\ ~fails]]
       /\ IF fails THEN Fault ELSE UNCHANGED faults
  /\ UNCHANGED <<docker, watching, trigger, phase, success, table, network>>

\* Slip: the table is stored before the receiver has it (Mirrors).
SlipPost ==
  /\ phase = "inspect" /\ todo = {} /\ Len(net) < MaxNet
  /\ net' = Append(net, [snap |-> snap, awaited |-> TRUE])
  /\ reply' = "none" /\ phase' = "wait" /\ table' = snap
  /\ UNCHANGED <<docker, watching, trigger, todo, snap, success, receiver, faults>>

Post ==
  /\ phase = "inspect" /\ todo = {} /\ Len(net) < MaxNet
  /\ net' = Append(net, [snap |-> snap, awaited |-> TRUE])
  /\ reply' = "none" /\ phase' = "wait"
  /\ UNCHANGED <<docker, watching, trigger, todo, snap, success, table, receiver, faults>>

\* Slip: only the containers with a service are stored (TypeOK).
SlipAccepted ==
  /\ phase = "wait" /\ reply = "ok"
  /\ table' = [i \in {j \in Ids : snap[j].shown} |-> snap[i]]
  /\ success' = TRUE /\ phase' = "idle" /\ reply' = "none"
  /\ UNCHANGED <<docker, watching, trigger, todo, snap, net, receiver, faults>>
\* storeSnapshot and setSuccess.
Accepted ==
  /\ phase = "wait" /\ reply = "ok"
  /\ table' = snap /\ success' = TRUE /\ phase' = "idle" /\ reply' = "none"
  /\ UNCHANGED <<docker, watching, trigger, todo, snap, net, receiver, faults>>
Refused ==
  /\ phase = "wait" /\ reply = "error"
  /\ SyncFails /\ reply' = "none"
  /\ UNCHANGED <<docker, watching, trigger, todo, snap, table, net, receiver, faults>>

Abandoned == [k \in DOMAIN net |-> [net[k] EXCEPT !.awaited = FALSE]]
\* The 10 s timeout, or a connection that fails with the answer still to come:
\* the receiver may go on with the request.
TimesOut ==
  /\ phase = "wait" /\ Fault
  /\ SyncFails /\ net' = Abandoned /\ reply' = "none"
  /\ UNCHANGED <<docker, watching, trigger, todo, snap, table, receiver>>

Backoff ==
  /\ phase = "backoff" /\ phase' = "list"
  /\ UNCHANGED <<docker, watching, trigger, todo, snap, success, table, network, faults>>

Restart ==
  /\ Fault
  /\ watcher' = "retry" /\ Signal /\ phase' = "idle" /\ todo' = {}
  /\ snap' = M!Nothing /\ table' = M!Nothing /\ success' = FALSE
  /\ net' = Abandoned /\ reply' = "none"
  /\ UNCHANGED <<docker, told, receiver>>

-----------------------------------------------------------------------------
(* The receiver and the network.                                            *)

\* Slip: a request that was overtaken is still taken (StubsRouted).
SlipAdmit(k) ==
  /\ record' = net[k].snap /\ live' = TRUE
  /\ net' = SubSeq(net, 1, k - 1) \o SubSeq(net, k + 1, Len(net))
  /\ reply' = IF net[k].awaited THEN "ok" ELSE reply
  /\ UNCHANGED <<docker, watching, trigger, syncing, faults>>

\* Upsert takes the request and, with it, refuses all captured before it: they
\* leave without a trace.  An error may follow the write of the record.
Admit(k) ==
  /\ record' = net[k].snap /\ live' = TRUE
  /\ net' = SubSeq(net, k + 1, Len(net))
  /\ \/ /\ reply' = IF net[k].awaited THEN "ok" ELSE reply
        /\ UNCHANGED faults
     \/ net[k].awaited /\ reply' = "error" /\ Fault
  /\ UNCHANGED <<docker, watching, trigger, syncing>>

\* Lost, or refused without effect (a bad clock, a failed write).
Lose(k) ==
  /\ net' = SubSeq(net, 1, k - 1) \o SubSeq(net, k + 1, Len(net))
  /\ IF net[k].awaited THEN reply' = "error" /\ Fault ELSE UNCHANGED <<reply, faults>>
  /\ UNCHANGED <<docker, watching, trigger, syncing, receiver>>

\* RemoveExpired: no snapshot for StateTTL.
Expire ==
  /\ live /\ Fault
  /\ live' = FALSE
  /\ UNCHANGED <<docker, watching, trigger, syncing, net, reply, record>>

Watch == (\E i \in Ids : DeliverEvent(i)) \/ Connect
Sync == TakeTrigger \/ List \/ (\E i \in Ids : Inspect(i)) \/ Post \/ Accepted
        \/ Refused \/ Backoff
Serve == \E k \in DOMAIN net : Admit(k) \/ Lose(k)
Trouble == ConnectFails \/ StreamBreaks \/ StreamEnds \/ TimesOut \/ Restart \/ Expire
Next == (\E i \in Ids : Change(i)) \/ Watch \/ Tick \/ Sync \/ Serve \/ Trouble
Spec == Init /\ [][Next]_vars

\* The goroutine of Run keeps going and its ticker keeps ticking; Docker and the
\* receiver answer, or fail (finitely often).  Nothing is assumed of the watcher.
FairSpec == Spec /\ WF_vars(Sync) /\ WF_vars(Tick) /\ WF_vars(Serve)

-----------------------------------------------------------------------------
(* Properties.                                                              *)

\* README.md:170, "watches Docker events": an event the watcher heard of is
\* never forgotten, although the channel drops signals while a sync runs
\* (agent.go:86, 223): a signal waits, a listing is to come, or the last
\* snapshot was taken after the change.
HeardIsListed ==
  \/ trigger \/ phase \in {"list", "backoff"}
  \/ \A i \in Ids \ todo : told[i] <= snap[i].at

\* lookupService(i, name): the container itself, or any of the service's name.
Lookup(i) ==
  IF table[i].shown THEN {i} ELSE {j \in Ids : table[j].shown}

\* While the last sync stands, a stub of the receiver finds its own container as
\* the receiver knows it: the table is replaced after the receiver's record
\* (agent.go:188), and no late request changes that record behind it.
StubsRouted ==
  (phase = "idle" /\ success /\ live) =>
    \A i \in Ids : record[i].shown => Lookup(i) = {i} /\ table[i] = record[i]

\* Both copies follow the containers as Mirror says: never back, never ahead,
\* and the table only ever takes what the receiver has.
Mirrors == M!Spec

\* Once the containers stay as they are, the receiver has exactly the exported
\* ones and every stub is routed to its own, whatever failed on the way: events
\* lost, a watcher that ended (agent.go:208), an inspection skipped (:153), a
\* record expired.
Settled ==
  /\ live
  /\ \A i \in Ids : /\ record[i] = [at |-> ver[i], shown |-> M!Exported(ver[i])]
                    /\ table[i] = record[i]
                    /\ record[i].shown => Lookup(i) = {i}
Converges == <>[]Settled
=============================================================================
