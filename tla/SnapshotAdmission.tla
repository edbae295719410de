------------------------- MODULE SnapshotAdmission -------------------------
(***************************************************************************)
(* Why an old snapshot cannot be replayed once its record has expired: the *)
(* clock side of the receiver, for one worker.  A request's timestamp is   *)
(* checked against the receiver's clock when it arrives (api.go:46-51); it *)
(* reaches the store later, once its body is read and the mutex is free,   *)
(* and by then the record it is compared with (store.go:108) may have been *)
(* pruned (store.go:146).  The worker's clock may be off by the window.    *)
(*                                                                         *)
(* ReceiverStore models what the store does between these steps and takes  *)
(* from here that its `floor' exists: a request admitted after a record    *)
(* has expired was captured after that record.  Both implement Ledger.     *)
(***************************************************************************)
EXTENDS Integers, FiniteSets

CONSTANTS
  Window,      \* RequestWindow
  TTL,         \* StateTTL
  MaxWait,     \* longest time from the timestamp check to Upsert's own check
  MaxWaiting,  \* bound on the requests under way
  Horizon,     \* bound on the clock
  None         \* no record

ASSUME TimesAssumption ==
  /\ Window \in Nat \ {0} /\ MaxWait \in Nat
  /\ TTL \in Nat /\ TTL >= 2 * Window + MaxWait
ASSUME BoundsAssumption == MaxWaiting \in Nat /\ Horizon \in Nat

Time     == Nat
Requests == [cap: Time, at: Time]    \* captured_at; when its window was checked
Records  == [cap: Time, upd: Time]   \* captured_at and UpdatedAt
ASSUME FreshAssumption == None \notin Records

VARIABLES
  now,      \* the receiver's clock
  up,       \* it runs
  waiting,  \* the requests that passed ValidateRequest
  mem,      \* the worker's record in Store.workers
  disk,     \* the one in its state file
  busy,     \* an Upsert holds the mutex, its record written but not answered
  acked     \* history: the last capture answered 200, Never before the first
vars == <<now, up, waiting, mem, disk, busy, acked>>

Never == -1

TypeOK ==
  /\ now \in Time
  /\ up \in BOOLEAN
  /\ waiting \subseteq Requests
  /\ mem \in Records \cup {None}
  /\ disk \in Records \cup {None}
  /\ busy \in BOOLEAN
  /\ acked \in Time \cup {Never}

Init ==
  /\ now = Window
  /\ up = TRUE
  /\ waiting = {}
  /\ mem = None /\ disk = None
  /\ busy = FALSE
  /\ acked = Never

\* MaxWait: the body is read within HTTPReadTimeout and the holders of the
\* mutex before it are done by then.
Tick ==
  /\ now < Horizon
  /\ \A r \in waiting : now < r.at + MaxWait
  /\ now' = now + 1
  /\ UNCHANGED <<up, waiting, mem, disk, busy, acked>>

\* Slip: only requests that are too old are refused (LockoutBounded).
SlipArrive(cap) ==
  /\ up /\ Cardinality(waiting) < MaxWaiting
  /\ cap >= now - Window
  /\ waiting' = waiting \cup {[cap |-> cap, at |-> now]}
  /\ UNCHANGED <<now, up, mem, disk, busy, acked>>

\* ts.Before(now - window) or ts.After(now + window) is refused.
Arrive(cap) ==
  /\ up /\ Cardinality(waiting) < MaxWaiting
  /\ cap >= now - Window /\ cap <= now + Window
  /\ waiting' = waiting \cup {[cap |-> cap, at |-> now]}
  /\ UNCHANGED <<now, up, mem, disk, busy, acked>>

\* Slip: the record's own capture is not compared (AnswersAdvance).
SlipAdmit(r) ==
  /\ up /\ ~busy
  /\ waiting' = waiting \ {r}
  /\ mem' = [cap |-> r.cap, upd |-> now] /\ disk' = mem' /\ busy' = TRUE
  /\ UNCHANGED <<now, up, acked>>

\* Upsert up to its reconciliation: refuse what is not newer, else write the
\* record ahead; if that write fails its error is the answer (store.go:107-124).
Admit(r) ==
  /\ up /\ ~busy
  /\ waiting' = waiting \ {r}
  /\ IF mem # None /\ r.cap <= mem.cap
       THEN UNCHANGED <<mem, disk, busy>>
       ELSE /\ mem' = [cap |-> r.cap, upd |-> now]
            /\ \/ disk' = mem' /\ busy' = TRUE
               \/ UNCHANGED <<disk, busy>>
  /\ UNCHANGED <<now, up, acked>>

\* Its end: UpdatedAt is read again, and the answer is 200 unless the
\* reconciliation or the second write failed (store.go:125-136).
Answer ==
  /\ busy
  /\ busy' = FALSE
  /\ mem' = [cap |-> mem.cap, upd |-> now]
  /\ \/ disk' = mem' /\ acked' \in {acked, mem.cap}
     \/ UNCHANGED <<disk, acked>>
  /\ UNCHANGED <<now, up, waiting>>

\* Slip: a record exactly TTL old goes too (AnswersCovered).
SlipPrune ==
  /\ up /\ ~busy /\ mem # None
  /\ now - mem.upd >= TTL
  /\ mem' = None
  /\ disk' \in {None, disk}
  /\ UNCHANGED <<now, up, waiting, busy, acked>>

\* RemoveExpired; os.Remove's error is dropped (store.go:145-151).
Prune ==
  /\ up /\ ~busy /\ mem # None
  /\ now - mem.upd > TTL
  /\ mem' = None
  /\ disk' \in {None, disk}
  /\ UNCHANGED <<now, up, waiting, busy, acked>>

Crash ==
  /\ up
  /\ up' = FALSE /\ waiting' = {} /\ mem' = None /\ busy' = FALSE
  /\ UNCHANGED <<now, disk, acked>>

\* Load, before the server listens: the record as it was written, or, when its
\* reconciliation succeeds, with a new UpdatedAt (store.go:178-193).
Restart ==
  /\ ~up
  /\ up' = TRUE
  /\ \/ mem' = disk /\ UNCHANGED disk
     \/ /\ disk # None
        /\ mem' = [cap |-> disk.cap, upd |-> now]
        /\ disk' \in {mem', disk}
  /\ UNCHANGED <<now, waiting, busy, acked>>

Next ==
  \/ Tick
  \/ \E cap \in 0..(Horizon + Window) : Arrive(cap)
  \/ \E r \in waiting : Admit(r)
  \/ Answer \/ Prune \/ Crash \/ Restart
Spec == Init /\ [][Next]_vars

-----------------------------------------------------------------------------
(* Properties.                                                              *)

\* No request under way or still to come was captured at or before acked.
Outdated == acked = Never \/ acked < now - Window - MaxWait
Covers(record) == record # None /\ acked <= record.cap

\* What was answered 200 stays out of reach of a replay: the state file covers
\* it, and so does the running store's record, until the window refuses it
\* (store.go:108, 146, 151 with api.go:48).
AnswersCovered == Outdated \/ (Covers(disk) /\ (up => Covers(mem)))

\* Two snapshots of a worker are never answered 200 out of the order in which
\* they were captured, over expiries, crashes and requests that waited.
AnswersAdvance == [][acked' # acked => acked' > acked]_vars

\* A worker whose clock ran ahead and was set right is locked out for no
\* longer than the window after its record was written (api.go:48).
LockoutBounded == mem # None /\ now > mem.upd + Window => mem.cap < now

\* Over the clock, the store follows Ledger, its floor being what the window
\* refuses after the longest wait: so a record is forgotten only below it, and
\* what is admitted lies above it (store.go:107-124, 146 with api.go:48).  Here
\* captures are counted from 0, in Ledger from 1.
Worker == "worker"
For(c) == [w \in {Worker} |-> c]
Cap(record) == IF record = None THEN 0 ELSE record.cap + 1
Floor == IF now > Window + MaxWait THEN now - Window - MaxWait ELSE 0
L == INSTANCE Ledger WITH
       Workers <- {Worker}, Captures <- 1..(Horizon + Window + 1),
       mem <- For(Cap(mem)), disk <- For(Cap(disk)), floor <- For(Floor),
       taken <- For(IF busy THEN Cap(mem) ELSE 0), acked <- For(acked + 1)
KeepsLedger == L!Spec

-----------------------------------------------------------------------------
(* The inductive invariant.                                                 *)

WaitingOK == \A r \in waiting :
  /\ r.at <= now /\ now <= r.at + MaxWait
  /\ r.cap >= r.at - Window /\ r.cap <= r.at + Window
  /\ r.cap <= Horizon + Window
RecordOK(record) ==
  record # None => record.cap <= record.upd + Window /\ record.upd <= now
BusyOK == busy =>
  up /\ mem # None /\ disk # None /\ disk.cap = mem.cap /\ acked < mem.cap
\* The file is never ahead of the running store, and one whose record was
\* pruned is out of date.
CopiesOK ==
  /\ mem # None /\ disk # None => disk.cap <= mem.cap
  /\ up /\ mem = None /\ disk # None => disk.cap < now - Window - MaxWait

AdmissionInv ==
  /\ TypeOK /\ WaitingOK /\ RecordOK(mem) /\ RecordOK(disk) /\ BusyOK
  /\ CopiesOK /\ AnswersCovered
=============================================================================
