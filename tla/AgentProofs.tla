----------------------------- MODULE AgentProofs -----------------------------
(***************************************************************************)
(* Proofs about the worker agent for any containers and any bounds: what   *)
(* its watcher heard of is listed again, the receiver's stubs are routed   *)
(* to their own containers, and agent and receiver implement Mirror.       *)
(***************************************************************************)
EXTENDS Agent, SequenceTheorems, TLAPS

USE AgentBounds

Requests == [snap : Snapshots, awaited : BOOLEAN]

\* Nobody is ahead of the containers.
KnownOK ==
  /\ \A i \in Ids : told[i] <= ver[i]
  /\ \A i \in Ids : snap[i].at <= ver[i] /\ (snap[i].shown => M!Exported(snap[i].at))

\* The requests under way are captures in the order they were made, all of them
\* no older than the receiver's record and no newer than the snapshot in making.
NetOK ==
  \A k \in DOMAIN net : \A i \in Ids :
    /\ record[i].at <= net[k].snap[i].at /\ net[k].snap[i].at <= ver[i]
    /\ net[k].snap[i].shown => M!Exported(net[k].snap[i].at)
    /\ \A j \in 1..k : net[j].snap[i].at <= net[k].snap[i].at
    /\ phase = "inspect" => net[k].snap[i].at <= snap[i].at
RecordOK ==
  \A i \in Ids : /\ record[i].at <= ver[i]
                 /\ phase = "inspect" => record[i].at <= snap[i].at

\* The request the agent waits for is the last one made, and it is the only one;
\* once it is answered with success none is left.
AwaitedOK ==
  /\ \A k \in DOMAIN net : net[k].awaited =>
       /\ k = Len(net) /\ phase = "wait" /\ reply = "none"
       /\ net[k].snap = snap
  /\ reply = "ok" => phase = "wait" /\ net = <<>> /\ record = snap
TableOK == (phase = "idle" /\ success) => net = <<>> /\ table = record

Inv == TypeOK /\ KnownOK /\ NetOK /\ RecordOK /\ AwaitedOK /\ TableOK

-----------------------------------------------------------------------------
(* Snapshots and the requests that carry them.                              *)

LEMMA SnapshotFacts ==
  /\ M!Nothing \in Snapshots
  /\ \A i \in Ids : M!Nothing[i].at = 0 /\ ~M!Nothing[i].shown
  /\ \A s \in Snapshots : \A i \in Ids :
       s[i].at \in 0..MaxVersion /\ s[i].at \in Nat /\ s[i].shown \in BOOLEAN
BY DEF M!Nothing, Snapshots

LEMMA NetFacts ==
  ASSUME TypeOK
  PROVE  /\ net \in Seq(Requests) /\ Len(net) \in Nat /\ DOMAIN net = 1..Len(net)
         /\ \A k \in DOMAIN net : /\ net[k] \in Requests /\ net[k].snap \in Snapshots
                                  /\ net[k].awaited \in BOOLEAN
<1>1. net \in Seq(Requests)
  BY DEF TypeOK, Requests
<1>2. Len(net) \in Nat /\ DOMAIN net = 1..Len(net)
  BY <1>1, LenProperties
<1>3. \A k \in DOMAIN net : net[k] \in Requests
  BY <1>1, <1>2, ElementOfSeq
<1> QED BY <1>1, <1>2, <1>3 DEF Requests

LEMMA FaultCounted ==
  ASSUME TypeOK, Fault \/ UNCHANGED faults PROVE faults' \in 0..MaxFaults
<1>1. faults \in 0..MaxFaults
  BY DEF TypeOK
<1> QED BY <1>1 DEF Fault

\* A queue without its k-th element, and what of it comes after the k-th.
LEMMA WithoutOne ==
  ASSUME NEW S, NEW q \in Seq(S), NEW k \in 1..Len(q)
  PROVE  LET r == SubSeq(q, 1, k - 1) \o SubSeq(q, k + 1, Len(q))
         IN  /\ r \in Seq(S) /\ Len(r) = Len(q) - 1
             /\ \A j \in 1..Len(r) : r[j] = IF j < k THEN q[j] ELSE q[j + 1]
<1> DEFINE a == SubSeq(q, 1, k - 1)
           b == SubSeq(q, k + 1, Len(q))
<1>1. Len(q) \in Nat /\ \A j \in 1..Len(q) : q[j] \in S
  BY LenProperties, ElementOfSeq
<1>2. a \in Seq(S) /\ Len(a) = k - 1 /\ \A j \in 1..k-1 : a[j] = q[j]
  BY <1>1, SubSeqProperties
<1>3. b \in Seq(S) /\ Len(b) = Len(q) - k /\ \A j \in 1..Len(q)-k : b[j] = q[k + j]
  BY <1>1, SubSeqProperties
<1> HIDE DEF a, b
<1>4. a \o b \in Seq(S) /\ Len(a \o b) = Len(q) - 1
      /\ \A j \in 1..Len(q)-1 : (a \o b)[j] = IF j <= k - 1 THEN a[j] ELSE b[j - (k - 1)]
  BY <1>1, <1>2, <1>3, ConcatProperties
<1>5. ASSUME NEW j \in 1..Len(q)-1 PROVE (a \o b)[j] = IF j < k THEN q[j] ELSE q[j + 1]
  <2>1. CASE j < k
    BY <1>1, <1>2, <1>4, <2>1
  <2>2. CASE ~(j < k)
    <3>1. j - (k - 1) \in 1..Len(q)-k /\ k + (j - (k - 1)) = j + 1
      BY <1>1, <2>2
    <3>2. b[j - (k - 1)] = q[j + 1]
      BY <1>3, <3>1
    <3>3. ~(j <= k - 1) /\ ~(j < k)
      BY <1>1, <2>2
    <3>4. (a \o b)[j] = b[j - (k - 1)]
      BY <1>4, <3>3
    <3> QED BY <3>2, <3>3, <3>4
  <2> QED BY <2>1, <2>2
<1> QED BY <1>4, <1>5 DEF a, b

LEMMA AfterOne ==
  ASSUME NEW S, NEW q \in Seq(S), NEW k \in 1..Len(q)
  PROVE  LET r == SubSeq(q, k + 1, Len(q))
         IN  /\ r \in Seq(S) /\ Len(r) = Len(q) - k
             /\ \A j \in 1..Len(r) : r[j] = q[k + j]
<1>1. Len(q) \in Nat /\ \A j \in 1..Len(q) : q[j] \in S
  BY LenProperties, ElementOfSeq
<1> QED BY <1>1, SubSeqProperties

-----------------------------------------------------------------------------
(* The invariant holds.  The watcher and the world first.                   *)

LEMMA InitInv == Init => Inv
<1> SUFFICES ASSUME Init PROVE Inv
  OBVIOUS
<1>1. TypeOK
  <2>1. ver \in [Ids -> 0..MaxVersion] /\ record = M!Nothing /\ table = M!Nothing
    BY DEF Init, M!Init
  <2>2. net \in Seq(Requests) /\ Len(net) <= MaxNet
    BY EmptySeq DEF Init
  <2>3. told \in [Ids -> 0..MaxVersion] /\ faults \in 0..MaxFaults
    BY DEF Init
  <2> QED BY <2>1, <2>2, <2>3, SnapshotFacts DEF Init, TypeOK, Requests
<1>2. KnownOK /\ RecordOK
  BY SnapshotFacts DEF Init, M!Init, KnownOK, RecordOK
<1>3. NetOK /\ AwaitedOK /\ TableOK
  BY DEF Init, NetOK, AwaitedOK, TableOK
<1> QED BY <1>1, <1>2, <1>3 DEF Inv

LEMMA ChangeInv ==
  ASSUME Inv, NEW i \in Ids, Change(i) PROVE Inv'
<1>1. /\ ver' \in [Ids -> 0..MaxVersion] /\ \A j \in Ids : ver[j] <= ver'[j]
      /\ \A j \in Ids : ver[j] \in Nat /\ ver'[j] \in Nat
  BY DEF Inv, TypeOK, Change
<1>2. TypeOK'
  BY <1>1 DEF Inv, TypeOK, Change, watching, syncing, network, receiver
<1>3. KnownOK' /\ RecordOK'
  BY <1>1, SnapshotFacts DEF Inv, TypeOK, KnownOK, RecordOK, Change, watching, syncing, network, receiver
<1>4. NetOK'
  BY <1>1, NetFacts, SnapshotFacts DEF Inv, NetOK, Change, watching, syncing, network, receiver
<1>5. AwaitedOK' /\ TableOK'
  BY DEF Inv, AwaitedOK, TableOK, Change, watching, syncing, network, receiver
<1> QED BY <1>2, <1>3, <1>4, <1>5 DEF Inv

LEMMA DeliverEventInv ==
  ASSUME Inv, NEW i \in Ids, DeliverEvent(i) PROVE Inv'
<1>1. TypeOK'
  BY DEF Inv, TypeOK, DeliverEvent, Signal, syncing, network, receiver
<1>2. KnownOK' /\ RecordOK'
  BY DEF Inv, TypeOK, KnownOK, RecordOK, DeliverEvent, syncing, network, receiver
<1>3. NetOK' /\ AwaitedOK' /\ TableOK'
  BY DEF Inv, NetOK, AwaitedOK, TableOK, DeliverEvent, syncing, network, receiver
<1> QED BY <1>1, <1>2, <1>3 DEF Inv

\* The watcher's other steps leave the containers, the sync and the receiver.
LEMMA WatcherInv ==
  ASSUME Inv, Connect \/ ConnectFails \/ StreamBreaks \/ StreamEnds PROVE Inv'
<1>1. UNCHANGED <<ver, told, phase, todo, snap, success, table, net, reply, record, live>>
  BY DEF Connect, ConnectFails, StreamBreaks, StreamEnds, docker, watching, syncing, network, receiver
<1>2. events' \subseteq Ids /\ watcher' \in {"on", "retry", "late", "ended"} /\ trigger' \in BOOLEAN
  BY DEF Inv, TypeOK, Connect, ConnectFails, StreamBreaks, StreamEnds, docker
<1>3. faults' \in 0..MaxFaults
  BY FaultCounted DEF Inv, Connect, ConnectFails, StreamBreaks, StreamEnds
<1>4. TypeOK'
  BY <1>1, <1>2, <1>3 DEF Inv, TypeOK
<1>5. KnownOK' /\ RecordOK' /\ NetOK' /\ AwaitedOK' /\ TableOK'
  BY <1>1 DEF Inv, KnownOK, RecordOK, NetOK, AwaitedOK, TableOK
<1> QED BY <1>4, <1>5 DEF Inv

LEMMA TickInv ==
  ASSUME Inv, Tick PROVE Inv'
<1>1. TypeOK'
  BY DEF Inv, TypeOK, Tick, Signal, docker, watching, syncing, network, receiver
<1>2. KnownOK' /\ RecordOK' /\ NetOK' /\ AwaitedOK' /\ TableOK'
  BY DEF Inv, KnownOK, RecordOK, NetOK, AwaitedOK, TableOK, Tick, docker, watching, syncing,
         network, receiver
<1> QED BY <1>1, <1>2 DEF Inv

-----------------------------------------------------------------------------
(* The sync.                                                                *)

LEMMA TakeTriggerInv ==
  ASSUME Inv, TakeTrigger PROVE Inv'
<1>1. TypeOK'
  BY DEF Inv, TypeOK, TakeTrigger, docker, watching, network, receiver
<1>2. KnownOK' /\ RecordOK' /\ NetOK' /\ AwaitedOK' /\ TableOK'
  BY DEF Inv, KnownOK, RecordOK, NetOK, AwaitedOK, TableOK, TakeTrigger, docker, watching,
         network, receiver
<1> QED BY <1>1, <1>2 DEF Inv

LEMMA ListInv ==
  ASSUME Inv, List PROVE Inv'
<1>1. UNCHANGED <<ver, events, watcher, told, trigger, table, net, reply, record, live>>
  BY DEF List, docker, watching, network, receiver
<1>2. CASE Fault /\ SyncFails /\ UNCHANGED <<todo, snap>>
  <2>1. TypeOK'
    BY <1>1, <1>2, FaultCounted DEF Inv, TypeOK, SyncFails
  <2>2. KnownOK' /\ RecordOK' /\ NetOK' /\ AwaitedOK' /\ TableOK'
    BY <1>1, <1>2 DEF Inv, KnownOK, RecordOK, NetOK, AwaitedOK, TableOK, List, SyncFails
  <2> QED BY <2>1, <2>2 DEF Inv
<1>3. CASE /\ todo' \subseteq Ids
           /\ snap' = [i \in Ids |-> [at |-> ver[i], shown |-> FALSE]]
           /\ phase' = "inspect" /\ UNCHANGED <<success, faults>>
  <2>1. snap' \in Snapshots /\ \A i \in Ids : snap'[i].at = ver[i] /\ snap'[i].shown = FALSE
    BY <1>3 DEF Inv, TypeOK, Snapshots
  <2>2. TypeOK'
    BY <1>1, <1>3, <2>1 DEF Inv, TypeOK
  <2>3. KnownOK' /\ RecordOK'
    BY <1>1, <1>3, <2>1 DEF Inv, TypeOK, KnownOK, RecordOK
  <2>4. NetOK'
    BY <1>1, <2>1 DEF Inv, NetOK
  <2>5. AwaitedOK' /\ TableOK'
    BY <1>1, <1>3 DEF Inv, AwaitedOK, TableOK, List
  <2> QED BY <2>2, <2>3, <2>4, <2>5 DEF Inv
<1> QED BY <1>2, <1>3 DEF List

LEMMA InspectInv ==
  ASSUME Inv, NEW i \in Ids, Inspect(i) PROVE Inv'
<1>1. UNCHANGED <<ver, events, watcher, told, trigger, phase, success, table, net, reply, record, live>>
      /\ phase = "inspect"
  BY DEF Inspect, docker, watching, network, receiver
<1>2. PICK fails \in BOOLEAN :
        /\ snap' = [snap EXCEPT ![i] = [at |-> ver[i], shown |-> M!Exported(ver[i]) /\ ~fails]]
        /\ IF fails THEN Fault ELSE UNCHANGED faults
  BY DEF Inspect
<1>3. M!Exported(ver[i]) \in BOOLEAN
  BY DEF M!Exported
<1>4. snap' \in Snapshots
  BY <1>2, <1>3 DEF Inv, TypeOK, Snapshots
<1>5. \A j \in Ids : /\ snap[j].at <= snap'[j].at /\ snap'[j].at <= ver[j]
                     /\ snap'[j].shown => M!Exported(snap'[j].at)
                     /\ snap'[j].at \in Nat
  BY <1>2, <1>4, SnapshotFacts DEF Inv, TypeOK, KnownOK, Snapshots
<1>6. TypeOK'
  <2>1. faults' \in 0..MaxFaults
    BY <1>2, FaultCounted DEF Inv
  <2> QED BY <1>1, <1>4, <2>1 DEF Inv, TypeOK, Inspect
<1>7. KnownOK' /\ RecordOK'
  <2>1. KnownOK'
    BY <1>1, <1>5 DEF Inv, KnownOK
  <2>2. \A j \in Ids : record[j].at <= snap[j].at /\ record[j].at <= ver[j]
    BY <1>1 DEF Inv, RecordOK
  <2>3. \A j \in Ids : record[j].at \in Nat /\ snap[j].at \in Nat
    BY SnapshotFacts DEF Inv, TypeOK
  <2>4. \A j \in Ids : record[j].at <= snap'[j].at
    BY <1>5, <2>2, <2>3
  <2> QED BY <1>1, <2>1, <2>2, <2>4 DEF RecordOK
<1>8. NetOK'
  <2>1. ASSUME NEW k \in DOMAIN net, NEW j \in Ids PROVE net[k].snap[j].at <= snap'[j].at
    <3>1. net[k].snap[j].at <= snap[j].at
      BY <1>1 DEF Inv, NetOK
    <3>2. net[k].snap[j].at \in Nat /\ snap[j].at \in Nat
      BY NetFacts, SnapshotFacts DEF Inv, TypeOK
    <3> QED BY <1>5, <3>1, <3>2
  <2> QED BY <1>1, <2>1 DEF Inv, NetOK
<1>9. AwaitedOK' /\ TableOK'
  BY <1>1 DEF Inv, AwaitedOK, TableOK
<1> QED BY <1>6, <1>7, <1>8, <1>9 DEF Inv

LEMMA PostInv ==
  ASSUME Inv, Post PROVE Inv'
<1> DEFINE r == [snap |-> snap, awaited |-> TRUE]
<1>1. /\ UNCHANGED <<ver, events, watcher, told, trigger, todo, snap, success, table, record, live, faults>>
      /\ phase = "inspect" /\ phase' = "wait" /\ reply' = "none" /\ Len(net) < MaxNet
      /\ net' = Append(net, r)
  BY DEF Post, docker, watching, receiver
<1>2. r \in Requests /\ r.snap = snap /\ r.awaited
  BY DEF Inv, TypeOK, Requests
<1>3. net \in Seq(Requests) /\ Len(net) \in Nat /\ DOMAIN net = 1..Len(net)
  BY NetFacts DEF Inv
<1> HIDE DEF r
<1>4. /\ net' \in Seq(Requests) /\ Len(net') = Len(net) + 1 /\ DOMAIN net' = 1..(Len(net) + 1)
      /\ \A k \in 1..Len(net) : net'[k] = net[k]
      /\ net'[Len(net) + 1] = r
  BY <1>1, <1>2, <1>3, AppendProperties, LenProperties
<1>5. TypeOK'
  <2>1. Len(net') <= MaxNet
    BY <1>1, <1>3, <1>4
  <2> QED BY <1>1, <1>4, <2>1 DEF Inv, TypeOK, Requests
<1>6. KnownOK' /\ RecordOK'
  BY <1>1 DEF Inv, KnownOK, RecordOK
<1>7. NetOK'
  <2> SUFFICES ASSUME NEW k \in 1..(Len(net) + 1), NEW i \in Ids
               PROVE  /\ record[i].at <= net'[k].snap[i].at /\ net'[k].snap[i].at <= ver[i]
                      /\ net'[k].snap[i].shown => M!Exported(net'[k].snap[i].at)
                      /\ \A j \in 1..k : net'[j].snap[i].at <= net'[k].snap[i].at
    BY <1>1, <1>4 DEF NetOK
  <2>1. CASE k \in 1..Len(net)
    <3>1. \A j \in 1..k : net'[j] = net[j]
      BY <1>3, <1>4, <2>1
    <3>2. net'[k] = net[k]
      BY <1>4, <2>1
    <3> QED BY <1>3, <2>1, <3>1, <3>2 DEF Inv, NetOK
  <2>2. CASE k = Len(net) + 1
    <3>1. net'[k].snap = snap
      BY <1>2, <1>4, <2>2
    <3>2. ASSUME NEW j \in 1..k PROVE net'[j].snap[i].at <= snap[i].at
      <4>1. CASE j \in 1..Len(net)
        BY <1>1, <1>3, <1>4, <4>1 DEF Inv, NetOK
      <4>2. CASE j = k
        BY <3>1, <4>2, SnapshotFacts DEF Inv, TypeOK
      <4> QED BY <1>3, <2>2, <4>1, <4>2
    <3> QED BY <1>1, <3>1, <3>2 DEF Inv, KnownOK, RecordOK
  <2> QED BY <1>3, <2>1, <2>2
<1>8. AwaitedOK'
  <2>1. ASSUME NEW k \in 1..(Len(net) + 1), net'[k].awaited PROVE k = Len(net) + 1
    <3>1. ~(k \in 1..Len(net))
      BY <1>1, <1>3, <1>4, <2>1 DEF Inv, AwaitedOK
    <3> QED BY <1>3, <3>1
  <2> QED BY <1>1, <1>2, <1>4, <2>1 DEF AwaitedOK
<1>9. TableOK'
  BY <1>1 DEF TableOK
<1> QED BY <1>5, <1>6, <1>7, <1>8, <1>9 DEF Inv

LEMMA AcceptedInv ==
  ASSUME Inv, Accepted PROVE Inv'
<1>1. UNCHANGED <<ver, events, watcher, told, trigger, todo, snap, net, record, live, faults>>
  BY DEF Accepted, docker, watching, receiver
<1>2. TypeOK'
  BY <1>1 DEF Inv, TypeOK, Accepted
<1>3. KnownOK' /\ RecordOK' /\ NetOK'
  BY <1>1 DEF Inv, KnownOK, RecordOK, NetOK, Accepted
<1>4. AwaitedOK' /\ TableOK'
  BY <1>1 DEF Inv, AwaitedOK, TableOK, Accepted
<1> QED BY <1>2, <1>3, <1>4 DEF Inv

LEMMA RefusedInv ==
  ASSUME Inv, Refused \/ Backoff PROVE Inv'
<1>1. /\ UNCHANGED <<ver, events, watcher, told, trigger, todo, snap, table, net, record, live, faults>>
      /\ phase' \in {"backoff", "list"} /\ success' \in {FALSE, success}
      /\ phase \in {"wait", "backoff"} /\ reply' \in {"none", reply}
      /\ phase = "wait" => reply = "error"
  BY DEF Refused, Backoff, SyncFails, docker, watching, network, receiver
<1>2. TypeOK'
  BY <1>1 DEF Inv, TypeOK
<1>3. KnownOK' /\ RecordOK' /\ NetOK'
  BY <1>1 DEF Inv, KnownOK, RecordOK, NetOK
<1>4. AwaitedOK' /\ TableOK'
  BY <1>1 DEF Inv, AwaitedOK, TableOK
<1> QED BY <1>2, <1>3, <1>4 DEF Inv

\* The request goes on, but nobody waits for it any more.
LEMMA AbandonedFacts ==
  ASSUME Inv
  PROVE  /\ Abandoned \in Seq(Requests) /\ Len(Abandoned) = Len(net) /\ DOMAIN Abandoned = DOMAIN net
         /\ \A k \in DOMAIN net : Abandoned[k].snap = net[k].snap /\ ~Abandoned[k].awaited
<1>1. /\ Len(net) \in Nat /\ DOMAIN net = 1..Len(net)
      /\ \A k \in DOMAIN net : net[k] \in Requests
  BY NetFacts DEF Inv
<1>2. \A k \in DOMAIN net : /\ [net[k] EXCEPT !.awaited = FALSE] \in Requests
                            /\ [net[k] EXCEPT !.awaited = FALSE].snap = net[k].snap
                            /\ [net[k] EXCEPT !.awaited = FALSE].awaited = FALSE
  BY <1>1 DEF Requests
<1>3. Abandoned \in [1..Len(net) -> Requests]
  BY <1>1, <1>2 DEF Abandoned
<1>4. Abandoned \in Seq(Requests)
  BY <1>1, <1>3, SeqDef
<1>5. DOMAIN Abandoned = 1..Len(net)
  BY <1>1 DEF Abandoned
<1>6. Len(Abandoned) = Len(net)
  BY <1>1, <1>4, <1>5, LenProperties
<1>7. \A k \in DOMAIN net : Abandoned[k].snap = net[k].snap /\ ~Abandoned[k].awaited
  BY <1>2 DEF Abandoned
<1> QED BY <1>1, <1>4, <1>5, <1>6, <1>7

LEMMA GivesUpInv ==
  ASSUME Inv, TimesOut \/ Restart PROVE Inv'
<1>1. /\ UNCHANGED <<ver, events, told, record, live>>
      /\ Fault /\ net' = Abandoned /\ reply' = "none" /\ success' = FALSE
      /\ phase' \in {"backoff", "idle"}
      /\ watcher' \in {watcher, "retry"} /\ trigger' \in BOOLEAN
      /\ todo' \in {todo, {}} /\ snap' \in {snap, M!Nothing} /\ table' \in {table, M!Nothing}
  BY DEF TimesOut, Restart, SyncFails, Signal, docker, watching, receiver, Inv, TypeOK
<1>2. TypeOK'
  <2>1. net' \in Seq(Requests) /\ Len(net') <= MaxNet
    BY <1>1, AbandonedFacts DEF Inv, TypeOK
  <2>2. faults' \in 0..MaxFaults
    BY <1>1, FaultCounted DEF Inv
  <2> QED BY <1>1, <2>1, <2>2, SnapshotFacts DEF Inv, TypeOK, Requests
<1>3. KnownOK'
  <2>1. \A i \in Ids : ver[i] \in Nat
    BY DEF Inv, TypeOK
  <2> QED BY <1>1, <2>1, SnapshotFacts DEF Inv, KnownOK
<1>4. RecordOK'
  BY <1>1 DEF Inv, RecordOK
<1>5. NetOK'
  <2>1. \A k \in DOMAIN net : \A j \in 1..k : j \in DOMAIN net
    BY NetFacts DEF Inv
  <2>2. DOMAIN net' = DOMAIN net /\ \A k \in DOMAIN net : net'[k].snap = net[k].snap
    BY <1>1, AbandonedFacts
  <2>3. phase' # "inspect"
    BY <1>1
  <2> HIDE DEF Abandoned
  <2> SUFFICES ASSUME NEW k \in DOMAIN net, NEW i \in Ids
               PROVE  /\ record[i].at <= net[k].snap[i].at /\ net[k].snap[i].at <= ver[i]
                      /\ net[k].snap[i].shown => M!Exported(net[k].snap[i].at)
                      /\ \A j \in 1..k : net[j].snap[i].at <= net[k].snap[i].at
    BY <1>1, <2>1, <2>2, <2>3 DEF NetOK
  <2> QED BY DEF Inv, NetOK
<1>6. AwaitedOK' /\ TableOK'
  BY <1>1, AbandonedFacts DEF AwaitedOK, TableOK
<1> QED BY <1>2, <1>3, <1>4, <1>5, <1>6 DEF Inv

-----------------------------------------------------------------------------
(* The network and the receiver.                                            *)

\* A request that is taken takes with it those captured before it.
LEMMA AdmitInv ==
  ASSUME Inv, NEW k \in DOMAIN net, Admit(k) PROVE Inv'
<1>1. /\ UNCHANGED <<ver, events, watcher, told, trigger, phase, todo, snap, success, table>>
      /\ record' = net[k].snap /\ live' = TRUE
      /\ net' = SubSeq(net, k + 1, Len(net))
      /\ Fault \/ UNCHANGED faults
  BY DEF Admit, docker, watching, syncing
<1>2. \/ reply' = IF net[k].awaited THEN "ok" ELSE reply
      \/ net[k].awaited /\ reply' = "error"
  BY DEF Admit
<1>3. /\ net \in Seq(Requests) /\ Len(net) \in Nat /\ k \in 1..Len(net) /\ DOMAIN net = 1..Len(net)
      /\ net[k].snap \in Snapshots
  BY NetFacts DEF Inv
<1>4. /\ net' \in Seq(Requests) /\ Len(net') = Len(net) - k
      /\ \A j \in 1..(Len(net) - k) : net'[j] = net[k + j]
  BY <1>1, <1>3, AfterOne
<1>5. DOMAIN net' = 1..(Len(net) - k)
  BY <1>4, LenProperties
<1>6. \A j \in 1..(Len(net) - k) : k + j \in 1..Len(net) /\ k \in 1..(k + j)
  BY <1>3
<1>7. TypeOK'
  <2>1. Len(net') <= MaxNet
    BY <1>3, <1>4 DEF Inv, TypeOK
  <2>2. faults' \in 0..MaxFaults
    BY <1>1, FaultCounted DEF Inv
  <2>3. reply' \in {"none", "ok", "error"}
    BY <1>2 DEF Inv, TypeOK
  <2> QED BY <1>1, <1>3, <1>4, <2>1, <2>2, <2>3 DEF Inv, TypeOK, Requests
<1>8. KnownOK' /\ RecordOK'
  BY <1>1, <1>3 DEF Inv, KnownOK, RecordOK, NetOK
<1>9. NetOK'
  <2> SUFFICES ASSUME NEW m \in 1..(Len(net) - k), NEW i \in Ids
               PROVE  /\ record'[i].at <= net'[m].snap[i].at /\ net'[m].snap[i].at <= ver[i]
                      /\ net'[m].snap[i].shown => M!Exported(net'[m].snap[i].at)
                      /\ \A j \in 1..m : net'[j].snap[i].at <= net'[m].snap[i].at
                      /\ phase = "inspect" => net'[m].snap[i].at <= snap[i].at
    BY <1>1, <1>5 DEF NetOK
  <2>1. net'[m] = net[k + m] /\ k + m \in 1..Len(net) /\ k \in 1..(k + m)
    BY <1>4, <1>6
  <2>2. \A j \in 1..m : net'[j] = net[k + j] /\ k + j \in 1..(k + m)
    BY <1>3, <1>4
  <2> QED BY <1>1, <1>3, <2>1, <2>2 DEF Inv, NetOK
<1>10. AwaitedOK' /\ TableOK'
  <2>1. CASE net[k].awaited
    <3>1. k = Len(net) /\ phase = "wait" /\ net[k].snap = snap
      BY <2>1 DEF Inv, AwaitedOK
    <3>2. net' = <<>>
      BY <1>3, <1>4, <3>1, EmptySeq
    <3> QED BY <1>1, <1>3, <1>5, <3>1, <3>2 DEF AwaitedOK, TableOK
  <2>2. CASE ~net[k].awaited
    <3>1. reply' = reply /\ net # <<>>
      BY <1>2, <1>3, <2>2
    <3>2. reply # "ok" /\ ~(phase = "idle" /\ success)
      BY <3>1 DEF Inv, AwaitedOK, TableOK
    <3>3. ASSUME NEW j \in DOMAIN net', net'[j].awaited
          PROVE  j = Len(net') /\ phase = "wait" /\ reply = "none" /\ net'[j].snap = snap
      <4>1. net'[j] = net[k + j] /\ k + j \in DOMAIN net
        BY <1>3, <1>4, <1>5, <1>6, <3>3
      <4>2. k + j = Len(net) /\ phase = "wait" /\ reply = "none" /\ net[k + j].snap = snap
        BY <3>3, <4>1 DEF Inv, AwaitedOK
      <4> QED BY <1>3, <1>4, <1>5, <4>1, <4>2
    <3> QED BY <1>1, <3>1, <3>2, <3>3 DEF AwaitedOK, TableOK
  <2> QED BY <2>1, <2>2
<1> QED BY <1>7, <1>8, <1>9, <1>10 DEF Inv

LEMMA LoseInv ==
  ASSUME Inv, NEW k \in DOMAIN net, Lose(k) PROVE Inv'
<1> DEFINE from(m) == IF m < k THEN m ELSE m + 1
<1>1. /\ UNCHANGED <<ver, events, watcher, told, trigger, phase, todo, snap, success, table, record, live>>
      /\ net' = SubSeq(net, 1, k - 1) \o SubSeq(net, k + 1, Len(net))
      /\ Fault \/ UNCHANGED faults
      /\ reply' = IF net[k].awaited THEN "error" ELSE reply
  BY DEF Lose, docker, watching, syncing, receiver
<1>2. net \in Seq(Requests) /\ Len(net) \in Nat /\ k \in 1..Len(net) /\ DOMAIN net = 1..Len(net)
  BY NetFacts DEF Inv
<1>3. /\ net' \in Seq(Requests) /\ Len(net') = Len(net) - 1
      /\ \A m \in 1..(Len(net) - 1) : net'[m] = IF m < k THEN net[m] ELSE net[m + 1]
  BY <1>1, <1>2, WithoutOne
<1>4. DOMAIN net' = 1..(Len(net) - 1)
  BY <1>3, LenProperties
<1>5. \A m \in DOMAIN net' : net'[m] = net[from(m)] /\ from(m) \in DOMAIN net
  BY <1>2, <1>3, <1>4
<1>6. \A m \in DOMAIN net' : \A j \in 1..m : j \in DOMAIN net' /\ from(j) \in 1..from(m)
  BY <1>2, <1>4
<1>7. \A m \in DOMAIN net' : from(m) = Len(net) => m = Len(net')
  BY <1>2, <1>3, <1>4
<1> HIDE DEF from
<1>8. TypeOK'
  <2>1. Len(net') <= MaxNet
    BY <1>2, <1>3 DEF Inv, TypeOK
  <2>2. faults' \in 0..MaxFaults
    BY <1>1, FaultCounted DEF Inv
  <2>3. reply' \in {"none", "ok", "error"}
    BY <1>1 DEF Inv, TypeOK
  <2> QED BY <1>1, <1>3, <2>1, <2>2, <2>3 DEF Inv, TypeOK, Requests
<1>9. KnownOK' /\ RecordOK'
  BY <1>1 DEF Inv, KnownOK, RecordOK
<1>10. NetOK'
  <2> SUFFICES ASSUME NEW m \in DOMAIN net', NEW i \in Ids
               PROVE  /\ record[i].at <= net'[m].snap[i].at /\ net'[m].snap[i].at <= ver[i]
                      /\ net'[m].snap[i].shown => M!Exported(net'[m].snap[i].at)
                      /\ \A j \in 1..m : net'[j].snap[i].at <= net'[m].snap[i].at
                      /\ phase = "inspect" => net'[m].snap[i].at <= snap[i].at
    BY <1>1 DEF NetOK
  <2>1. net'[m] = net[from(m)] /\ from(m) \in DOMAIN net
    BY <1>5
  <2>2. \A j \in 1..m : net'[j] = net[from(j)] /\ from(j) \in 1..from(m)
    BY <1>5, <1>6
  <2>3. NetOK
    BY DEF Inv
  <2>4. /\ record[i].at <= net[from(m)].snap[i].at /\ net[from(m)].snap[i].at <= ver[i]
        /\ net[from(m)].snap[i].shown => M!Exported(net[from(m)].snap[i].at)
        /\ phase = "inspect" => net[from(m)].snap[i].at <= snap[i].at
    BY <2>1, <2>3 DEF NetOK
  <2>5. \A j \in 1..m : net'[j].snap[i].at <= net'[m].snap[i].at
    BY <2>1, <2>2, <2>3 DEF NetOK
  <2> QED BY <2>1, <2>4, <2>5
<1>11. AwaitedOK' /\ TableOK'
  <2>1. net # <<>>
    BY <1>2
  <2>2. reply # "ok" /\ ~(phase = "idle" /\ success)
    BY <2>1 DEF Inv, AwaitedOK, TableOK
  <2>3. CASE net[k].awaited
    <3>1. k = Len(net)
      BY <2>3 DEF Inv, AwaitedOK
    <3>2. \A m \in DOMAIN net' : from(m) # Len(net)
      BY <1>2, <1>4, <3>1 DEF from
    <3>3. \A m \in DOMAIN net' : ~net'[m].awaited
      BY <1>5, <3>2 DEF Inv, AwaitedOK
    <3> QED BY <1>1, <2>2, <2>3, <3>3 DEF AwaitedOK, TableOK
  <2>4. CASE ~net[k].awaited
    <3>1. reply' = reply
      BY <1>1, <2>4
    <3>2. ASSUME NEW m \in DOMAIN net', net'[m].awaited
          PROVE  m = Len(net') /\ phase = "wait" /\ reply = "none" /\ net'[m].snap = snap
      <4>1. from(m) = Len(net) /\ phase = "wait" /\ reply = "none" /\ net[from(m)].snap = snap
        BY <1>5, <3>2 DEF Inv, AwaitedOK
      <4> QED BY <1>5, <1>7, <4>1
    <3> QED BY <1>1, <2>2, <3>1, <3>2 DEF AwaitedOK, TableOK
  <2> QED BY <2>3, <2>4
<1> QED BY <1>8, <1>9, <1>10, <1>11 DEF Inv

LEMMA ExpireInv ==
  ASSUME Inv, Expire PROVE Inv'
<1>1. /\ UNCHANGED <<ver, events, watcher, told, trigger, phase, todo, snap, success, table,
                     net, reply, record>>
      /\ live' = FALSE /\ Fault
  BY DEF Expire, docker, watching, syncing
<1>2. faults' \in 0..MaxFaults
  BY <1>1, FaultCounted DEF Inv
<1>3. TypeOK'
  BY <1>1, <1>2 DEF Inv, TypeOK
<1>4. KnownOK' /\ RecordOK' /\ NetOK' /\ AwaitedOK' /\ TableOK'
  BY <1>1 DEF Inv, KnownOK, RecordOK, NetOK, AwaitedOK, TableOK
<1> QED BY <1>3, <1>4 DEF Inv

LEMMA StutterInv ==
  ASSUME Inv, UNCHANGED vars PROVE Inv'
<1>1. UNCHANGED <<ver, events, watcher, told, trigger, phase, todo, snap, success, table,
                  net, reply, record, live, faults>>
  BY DEF vars, docker, watching, syncing, network, receiver
<1> QED BY <1>1 DEF Inv, TypeOK, KnownOK, RecordOK, NetOK, AwaitedOK, TableOK

LEMMA NextInv ==
  ASSUME Inv, [Next]_vars PROVE Inv'
<1>1. ASSUME NEW i \in Ids, Change(i) \/ DeliverEvent(i) \/ Inspect(i) PROVE Inv'
  BY <1>1, ChangeInv, DeliverEventInv, InspectInv
<1>2. ASSUME NEW k \in DOMAIN net, Admit(k) \/ Lose(k) PROVE Inv'
  BY <1>2, AdmitInv, LoseInv
<1>3. CASE Connect \/ ConnectFails \/ StreamBreaks \/ StreamEnds \/ Tick
  BY <1>3, WatcherInv, TickInv
<1>4. CASE TakeTrigger \/ List \/ Post \/ Accepted \/ Refused \/ Backoff
  BY <1>4, TakeTriggerInv, ListInv, PostInv, AcceptedInv, RefusedInv
<1>5. CASE TimesOut \/ Restart \/ Expire \/ UNCHANGED vars
  BY <1>5, GivesUpInv, ExpireInv, StutterInv
<1> QED BY <1>1, <1>2, <1>3, <1>4, <1>5 DEF Next, Watch, Sync, Serve, Trouble

LEMMA AlwaysInv == Spec => []Inv
<1>1. Init => Inv
  BY InitInv
<1>2. Inv /\ [Next]_vars => Inv'
  BY NextInv
<1> QED BY <1>1, <1>2, PTL DEF Spec

-----------------------------------------------------------------------------
(* The theorems.                                                            *)

\* The variables keep their types, whatever fails.
THEOREM TypeCorrect == Spec => []TypeOK
<1>1. Inv => TypeOK
  BY DEF Inv
<1> QED BY <1>1, AlwaysInv, PTL

\* An event the watcher heard of leads to a listing after it, although the trigger
\* channel drops signals (agent.go:86, 223).
THEOREM HeardIsAlwaysListed == Spec => []HeardIsListed
<1>1. Init => HeardIsListed
  BY DEF Init, HeardIsListed
<1>2. Inv /\ HeardIsListed /\ [Next]_vars => HeardIsListed'
  <2> SUFFICES ASSUME Inv, HeardIsListed, [Next]_vars PROVE HeardIsListed'
    OBVIOUS
  <2>1. CASE \E i \in Ids : DeliverEvent(i)
    BY <2>1 DEF DeliverEvent, Signal, HeardIsListed
  <2>2. CASE TakeTrigger \/ Tick \/ Backoff \/ Restart
    BY <2>2 DEF TakeTrigger, Tick, Backoff, Restart, Signal, HeardIsListed
  <2>3. CASE Refused \/ TimesOut
    BY <2>3 DEF Refused, TimesOut, SyncFails, HeardIsListed
  <2>4. CASE List
    <3>1. CASE SyncFails
      BY <3>1 DEF SyncFails, HeardIsListed
    <3>2. CASE snap' = [i \in Ids |-> [at |-> ver[i], shown |-> FALSE]]
      <4>1. UNCHANGED told
        BY <2>4 DEF List, watching
      <4> QED BY <3>2, <4>1 DEF Inv, KnownOK, HeardIsListed
    <3> QED BY <2>4, <3>1, <3>2 DEF List
  <2>5. ASSUME NEW i \in Ids, Inspect(i) PROVE HeardIsListed'
    <3>1. UNCHANGED <<ver, told, trigger, phase>> /\ todo' = todo \ {i}
      BY <2>5 DEF Inspect, docker, watching
    <3>2. PICK fails \in BOOLEAN :
            snap' = [snap EXCEPT ![i] = [at |-> ver[i], shown |-> M!Exported(ver[i]) /\ ~fails]]
      BY <2>5 DEF Inspect
    <3>3. \A j \in Ids : snap'[j].at = IF j = i THEN ver[j] ELSE snap[j].at
      BY <3>2 DEF Inv, TypeOK, Snapshots
    <3>4. told[i] <= ver[i]
      BY DEF Inv, KnownOK
    <3> QED BY <3>1, <3>3, <3>4 DEF HeardIsListed
  <2>6. CASE \/ (\E i \in Ids : Change(i)) \/ Connect \/ ConnectFails \/ StreamBreaks \/ StreamEnds
             \/ Post \/ Accepted \/ Expire \/ (\E k \in DOMAIN net : Admit(k) \/ Lose(k))
             \/ UNCHANGED vars
    <3>1. UNCHANGED <<told, todo, snap>>
      BY <2>6 DEF Change, Connect, ConnectFails, StreamBreaks, StreamEnds, Post, Accepted, Expire,
                  Admit, Lose, vars, docker, watching, syncing
    <3>2. trigger => trigger'
      BY <2>6 DEF Change, Connect, ConnectFails, StreamBreaks, StreamEnds, Post, Accepted, Expire,
                  Admit, Lose, vars
    <3>3. phase' = phase \/ phase \notin {"list", "backoff"}
      BY <2>6 DEF Change, Connect, ConnectFails, StreamBreaks, StreamEnds, Post, Accepted, Expire,
                  Admit, Lose, vars, syncing
    <3> QED BY <3>1, <3>2, <3>3 DEF HeardIsListed
  <2> QED BY <2>1, <2>2, <2>3, <2>4, <2>5, <2>6 DEF Next, Watch, Sync, Serve, Trouble
<1> QED BY <1>1, <1>2, AlwaysInv, PTL DEF Spec

\* While the last sync stands, each of the receiver's stubs finds its own
\* container in the agent's table (agent.go:188, 278).
THEOREM StubsAlwaysRouted == Spec => []StubsRouted
<1>1. Inv => StubsRouted
  BY DEF Inv, TableOK, StubsRouted, Lookup
<1> QED BY <1>1, AlwaysInv, PTL

-----------------------------------------------------------------------------
(* Agent and receiver implement Mirror, step by step.                       *)

LEMMA InitMirrors == Init => M!Init
  BY DEF Init

\* A request that is taken publishes its snapshot: none of its entries is older
\* than the receiver's, or newer than the container.
LEMMA AdmitPublishes ==
  ASSUME Inv, NEW k \in DOMAIN net, Admit(k) PROVE M!Publish
<1>1. record' = net[k].snap /\ UNCHANGED <<ver, table>>
  BY DEF Admit, docker, syncing
<1>2. net[k].snap \in Snapshots
  BY NetFacts DEF Inv
<1>3. record' \in [Ids -> M!Entry]
  BY <1>1, <1>2 DEF Snapshots, M!Entry
<1>4. \A i \in Ids : /\ record[i].at <= record'[i].at /\ record'[i].at <= ver[i]
                     /\ record'[i].shown => M!Exported(record'[i].at)
  BY <1>1 DEF Inv, NetOK
<1> QED BY <1>1, <1>3, <1>4 DEF M!Publish

LEMMA StepMirrors ==
  ASSUME Inv, [Next]_vars PROVE [M!Next]_(M!vars)
<1>1. ASSUME NEW i \in Ids, Change(i) PROVE M!Change
  BY <1>1 DEF Change, syncing, network, receiver, M!Change
<1>2. ASSUME NEW k \in DOMAIN net, Admit(k) PROVE M!Publish
  BY <1>2, AdmitPublishes
<1>3. CASE Accepted
  <2>1. table' = record /\ UNCHANGED <<ver, record>>
    BY <1>3 DEF Accepted, Inv, AwaitedOK, docker, receiver
  <2> QED BY <2>1 DEF M!Next, M!Confirm
<1>4. CASE Restart
  BY <1>4 DEF Restart, docker, receiver, M!Next, M!Forget
<1>5. CASE \/ (\E i \in Ids : DeliverEvent(i) \/ Inspect(i)) \/ Connect \/ Tick
           \/ TakeTrigger \/ List \/ Post \/ Refused \/ Backoff
           \/ (\E k \in DOMAIN net : Lose(k))
           \/ ConnectFails \/ StreamBreaks \/ StreamEnds \/ TimesOut \/ Expire \/ UNCHANGED vars
  BY <1>5 DEF DeliverEvent, Inspect, Connect, Tick, TakeTrigger, List, Post, Refused, Backoff,
              Lose, ConnectFails, StreamBreaks, StreamEnds, TimesOut, Expire, vars, docker,
              syncing, network, receiver, M!vars
<1> QED BY <1>1, <1>2, <1>3, <1>4, <1>5 DEF Next, Watch, Sync, Serve, Trouble, M!Next

\* The receiver's record and the agent's table follow the containers as Mirror
\* says: never back, never ahead, and the table takes only what the receiver has.
THEOREM AgentMirrors == Spec => Mirrors
<1>1. Init => M!Init
  BY InitMirrors
<1>2. Inv /\ [Next]_vars => [M!Next]_(M!vars)
  BY StepMirrors
<1> QED BY <1>1, <1>2, AlwaysInv, PTL DEF Spec, Mirrors, M!Spec
=============================================================================
