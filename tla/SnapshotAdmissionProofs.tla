---------------------- MODULE SnapshotAdmissionProofs ----------------------
(***************************************************************************)
(* Proofs about the admission of snapshots for any window, any waiting     *)
(* time and any TTL of at least twice the window plus that time.           *)
(***************************************************************************)
EXTENDS SnapshotAdmission, TLAPS

USE TimesAssumption, BoundsAssumption, FreshAssumption

LEMMA RecordType ==
  /\ \A c \in Time, t \in Time : /\ [cap |-> c, upd |-> t] \in Records
                                 /\ [cap |-> c, upd |-> t] # None
  /\ \A r \in Records : r # None /\ r.cap \in Nat /\ r.upd \in Nat
  /\ \A c \in Time, t \in Time : [cap |-> c, at |-> t] \in Requests
  /\ \A r \in Requests : r.cap \in Nat /\ r.at \in Nat
<1>1. \A c \in Time, t \in Time : [cap |-> c, upd |-> t] \in Records
  BY DEF Records
<1>2. \A r \in Records : r # None /\ r.cap \in Nat /\ r.upd \in Nat
  BY DEF Records, Time
<1>3. \A c \in Time, t \in Time : [cap |-> c, at |-> t] \in Requests
  BY DEF Requests
<1>4. \A r \in Requests : r.cap \in Nat /\ r.at \in Nat
  BY DEF Requests, Time
<1> QED BY <1>1, <1>2, <1>3, <1>4

LEMMA InitAdmission == Init => AdmissionInv
  BY DEF Init, AdmissionInv, TypeOK, WaitingOK, RecordOK, BusyOK, CopiesOK, AnswersCovered,
         Outdated, Never, Time

LEMMA TickInv ==
  ASSUME AdmissionInv, Tick PROVE AdmissionInv'
<1>1. TypeOK' /\ now' = now + 1 /\ now \in Nat
  BY DEF Tick, AdmissionInv, TypeOK, Time
<1>2. WaitingOK'
  BY <1>1, RecordType DEF Tick, AdmissionInv, TypeOK, WaitingOK
<1>3. RecordOK(mem)' /\ RecordOK(disk)' /\ BusyOK'
  BY <1>1, RecordType DEF Tick, AdmissionInv, TypeOK, RecordOK, BusyOK
<1>4. AnswersCovered'
  BY <1>1, RecordType DEF Tick, AdmissionInv, TypeOK, AnswersCovered, Outdated, Covers, Never, Time
<1>5. CopiesOK'
  BY <1>1, RecordType DEF Tick, AdmissionInv, TypeOK, CopiesOK
<1> QED BY <1>1, <1>2, <1>3, <1>4, <1>5 DEF AdmissionInv

LEMMA ArriveInv ==
  ASSUME AdmissionInv, NEW cap \in 0..(Horizon + Window), Arrive(cap) PROVE AdmissionInv'
<1> DEFINE r == [cap |-> cap, at |-> now]
<1>1. r \in Requests /\ r.cap = cap /\ r.at = now /\ now \in Nat /\ cap \in Nat
  BY RecordType DEF AdmissionInv, TypeOK, Time
<1>2. waiting' = waiting \cup {r} /\ cap >= now - Window /\ cap <= now + Window
  BY DEF Arrive
<1>3. UNCHANGED <<now, up, mem, disk, busy, acked>>
  BY DEF Arrive
<1> HIDE DEF r
<1>4. TypeOK'
  BY <1>1, <1>2, <1>3 DEF AdmissionInv, TypeOK
<1>5. WaitingOK'
  BY <1>1, <1>2, <1>3 DEF AdmissionInv, WaitingOK
<1>6. RecordOK(mem)' /\ RecordOK(disk)' /\ BusyOK' /\ CopiesOK' /\ AnswersCovered'
  BY <1>3 DEF AdmissionInv, RecordOK, BusyOK, CopiesOK, AnswersCovered, Outdated, Covers
<1> QED BY <1>4, <1>5, <1>6 DEF AdmissionInv

\* What Admit lets through was captured after everything answered.
LEMMA AdmittedIsNewer ==
  ASSUME AdmissionInv, NEW r \in waiting, up, mem = None \/ r.cap > mem.cap
  PROVE  acked < r.cap
<1>1. /\ r \in Requests /\ r.cap \in Nat /\ r.at \in Nat /\ now \in Nat
      /\ r.at <= now /\ now <= r.at + MaxWait /\ r.cap >= r.at - Window
  BY RecordType DEF AdmissionInv, TypeOK, WaitingOK, Time
<1>2. acked = -1 \/ acked \in Nat
  BY DEF AdmissionInv, TypeOK, Never, Time
<1>3. CASE Outdated
  BY <1>1, <1>2, <1>3 DEF Outdated, Never
<1>4. CASE Covers(mem)
  BY <1>1, <1>2, <1>4, RecordType DEF Covers, AdmissionInv, TypeOK
<1> QED BY <1>3, <1>4 DEF AdmissionInv, AnswersCovered

LEMMA AdmitInv ==
  ASSUME AdmissionInv, NEW r \in waiting, Admit(r) PROVE AdmissionInv'
<1>1. /\ waiting' = waiting \ {r} /\ up /\ UNCHANGED <<now, up, acked>> /\ now \in Nat
      /\ r \in Requests /\ r.cap \in Nat /\ r.cap <= now + Window
      /\ r.cap >= now - Window - MaxWait
  BY RecordType DEF Admit, AdmissionInv, TypeOK, WaitingOK, Time
<1>2. WaitingOK' /\ waiting' \subseteq Requests
  BY <1>1 DEF AdmissionInv, TypeOK, WaitingOK
<1>3. CASE UNCHANGED <<mem, disk, busy>>
  <2>1. TypeOK' /\ RecordOK(mem)' /\ RecordOK(disk)' /\ BusyOK' /\ CopiesOK' /\ AnswersCovered'
    BY <1>1, <1>2, <1>3 DEF AdmissionInv, TypeOK, RecordOK, BusyOK, CopiesOK, AnswersCovered,
       Outdated, Covers
  <2> QED BY <1>2, <2>1 DEF AdmissionInv
<1>4. CASE ~(mem # None /\ r.cap <= mem.cap)
  <2> DEFINE record == [cap |-> r.cap, upd |-> now]
  <2>1. record \in Records /\ record # None /\ record.cap = r.cap /\ record.upd = now
    BY <1>1, RecordType DEF Time
  <2>2. /\ mem' = record
        /\ (disk' = record /\ busy' = TRUE) \/ UNCHANGED <<disk, busy>>
    BY <1>4 DEF Admit
  <2> HIDE DEF record
  <2>3. acked < r.cap
    <3>1. mem = None \/ r.cap > mem.cap
      BY <1>1, <1>4, RecordType DEF AdmissionInv, TypeOK
    <3> QED BY <1>1, <3>1, AdmittedIsNewer
  <2>4. TypeOK'
    BY <1>1, <1>2, <2>1, <2>2 DEF AdmissionInv, TypeOK
  <2>5. RecordOK(mem)' /\ RecordOK(disk)'
    BY <1>1, <2>1, <2>2 DEF AdmissionInv, RecordOK
  <2>6. BusyOK'
    <3>1. CASE disk' = record /\ busy' = TRUE
      BY <1>1, <2>1, <2>2, <2>3, <3>1 DEF BusyOK
    <3>2. CASE UNCHANGED <<disk, busy>>
      BY <3>2 DEF Admit, BusyOK
    <3> QED BY <2>2, <3>1, <3>2
  <2>7. AnswersCovered'
    <3>1. acked \in Nat \cup {-1}
      BY DEF AdmissionInv, TypeOK, Never, Time
    <3> QED BY <1>1, <2>1, <2>2, <2>3, <3>1 DEF AdmissionInv, AnswersCovered, Outdated, Covers
  <2>8. CopiesOK'
    <3>1. CASE disk' = record
      BY <1>1, <2>1, <2>2, <3>1 DEF CopiesOK
    <3>2. CASE disk' = disk
      <4>1. mem' # None /\ mem'.cap = r.cap
        BY <2>1, <2>2
      <4>2. disk # None => disk.cap \in Nat /\ disk.cap <= r.cap
        BY <1>1, <1>4, RecordType DEF AdmissionInv, TypeOK, CopiesOK
      <4> QED BY <3>2, <4>1, <4>2 DEF CopiesOK
    <3> QED BY <2>2, <3>1, <3>2
  <2> QED BY <1>2, <2>4, <2>5, <2>6, <2>7, <2>8 DEF AdmissionInv
<1> QED BY <1>3, <1>4 DEF Admit

LEMMA AnswerInv ==
  ASSUME AdmissionInv, Answer PROVE AdmissionInv'
<1> DEFINE record == [cap |-> mem.cap, upd |-> now]
<1>1. /\ mem \in Records /\ mem.cap \in Nat /\ mem.upd \in Nat /\ now \in Nat /\ up
      /\ acked < mem.cap /\ mem.cap <= mem.upd + Window /\ mem.upd <= now
  BY RecordType DEF Answer, AdmissionInv, TypeOK, BusyOK, RecordOK, Time
<1>2. record \in Records /\ record # None /\ record.cap = mem.cap /\ record.upd = now
  BY <1>1, RecordType DEF Time
<1>3. /\ mem' = record /\ busy' = FALSE /\ UNCHANGED <<now, up, waiting>>
      /\ \/ disk' = record /\ acked' \in {acked, mem.cap}
         \/ UNCHANGED <<disk, acked>>
  BY DEF Answer
<1> HIDE DEF record
<1>4. acked' \in Nat \cup {-1} /\ acked' <= mem.cap
  BY <1>1, <1>3 DEF AdmissionInv, TypeOK, Never, Time
<1>5. TypeOK'
  BY <1>2, <1>3, <1>4 DEF AdmissionInv, TypeOK, Never, Time
<1>6. WaitingOK' /\ RecordOK(mem)' /\ RecordOK(disk)' /\ BusyOK'
  BY <1>1, <1>2, <1>3 DEF AdmissionInv, WaitingOK, RecordOK, BusyOK
<1>7. AnswersCovered'
  BY <1>1, <1>2, <1>3, <1>4 DEF AdmissionInv, AnswersCovered, Outdated, Covers
<1>8. CopiesOK'
  BY <1>1, <1>2, <1>3 DEF AdmissionInv, CopiesOK
<1> QED BY <1>5, <1>6, <1>7, <1>8 DEF AdmissionInv

\* A record is pruned only when the window refuses its capture and its file's,
\* even from a request that has waited.
LEMMA PrunedIsBelow ==
  ASSUME AdmissionInv, Prune
  PROVE  /\ mem.cap < now - Window - MaxWait
         /\ disk # None => disk.cap < now - Window - MaxWait
<1>1. /\ mem \in Records /\ mem.cap \in Nat /\ mem.upd \in Nat /\ now \in Nat
      /\ mem.cap <= mem.upd + Window /\ now - mem.upd > TTL /\ mem # None
  BY RecordType DEF Prune, AdmissionInv, TypeOK, RecordOK, Time
<1>2. disk # None => disk.cap \in Nat /\ disk.cap <= mem.cap
  BY <1>1, RecordType DEF AdmissionInv, TypeOK, CopiesOK
<1> QED BY <1>1, <1>2

\* When a record has expired, the window refuses all that it covered.
LEMMA PruneInv ==
  ASSUME AdmissionInv, Prune PROVE AdmissionInv'
<1>1. /\ mem \in Records /\ mem.cap \in Nat /\ mem.upd \in Nat /\ now \in Nat
      /\ mem.cap <= mem.upd + Window /\ now - mem.upd > TTL /\ up
  BY RecordType DEF Prune, AdmissionInv, TypeOK, RecordOK, Time
<1>2. acked \in Nat \cup {-1}
  BY DEF AdmissionInv, TypeOK, Never, Time
<1>3. Outdated
  <2>1. CASE Covers(mem)
    BY <1>1, <1>2, <2>1 DEF Covers, Outdated
  <2> QED BY <1>1, <2>1 DEF AdmissionInv, AnswersCovered
<1>4. TypeOK' /\ WaitingOK' /\ RecordOK(mem)' /\ RecordOK(disk)' /\ BusyOK'
  BY DEF Prune, AdmissionInv, TypeOK, WaitingOK, RecordOK, BusyOK
<1>5. AnswersCovered'
  BY <1>3 DEF Prune, AnswersCovered, Outdated
<1>6. CopiesOK'
  BY PrunedIsBelow DEF Prune, CopiesOK
<1> QED BY <1>4, <1>5, <1>6 DEF AdmissionInv

LEMMA CrashInv ==
  ASSUME AdmissionInv, Crash PROVE AdmissionInv'
<1>1. TypeOK' /\ WaitingOK' /\ RecordOK(mem)' /\ RecordOK(disk)' /\ BusyOK'
  BY DEF Crash, AdmissionInv, TypeOK, WaitingOK, RecordOK, BusyOK
<1>2. CopiesOK' /\ AnswersCovered'
  BY DEF Crash, AdmissionInv, CopiesOK, AnswersCovered, Outdated, Covers
<1> QED BY <1>1, <1>2 DEF AdmissionInv

LEMMA RestartInv ==
  ASSUME AdmissionInv, Restart PROVE AdmissionInv'
<1>1. ~up /\ up' = TRUE /\ ~busy /\ UNCHANGED <<now, waiting, busy, acked>> /\ now \in Nat
  BY DEF Restart, AdmissionInv, BusyOK, TypeOK, Time
<1>2. CASE mem' = disk /\ disk' = disk
  <2>1. TypeOK' /\ WaitingOK' /\ RecordOK(mem)' /\ RecordOK(disk)' /\ BusyOK'
    BY <1>1, <1>2 DEF AdmissionInv, TypeOK, WaitingOK, RecordOK, BusyOK
  <2>2. AnswersCovered'
    BY <1>1, <1>2 DEF AdmissionInv, AnswersCovered, Outdated, Covers
  <2>3. CopiesOK'
    BY <1>1, <1>2, RecordType DEF AdmissionInv, TypeOK, CopiesOK
  <2> QED BY <2>1, <2>2, <2>3 DEF AdmissionInv
<1>3. CASE /\ disk # None /\ mem' = [cap |-> disk.cap, upd |-> now]
           /\ disk' \in {mem', disk}
  <2> DEFINE record == [cap |-> disk.cap, upd |-> now]
  <2>1. disk \in Records /\ disk.cap \in Nat /\ disk.upd \in Nat
    BY <1>3, RecordType DEF AdmissionInv, TypeOK
  <2>2. record \in Records /\ record # None /\ record.cap = disk.cap /\ record.upd = now
    BY <1>1, <2>1, RecordType DEF Time
  <2>3. mem' = record /\ (disk' = record \/ disk' = disk)
    BY <1>3
  <2> HIDE DEF record
  <2>4. TypeOK' /\ WaitingOK' /\ BusyOK'
    BY <1>1, <2>2, <2>3 DEF AdmissionInv, TypeOK, WaitingOK, BusyOK
  <2>5. RecordOK(mem)' /\ RecordOK(disk)'
    BY <1>1, <1>3, <2>1, <2>2, <2>3 DEF AdmissionInv, RecordOK
  <2>6. AnswersCovered'
    BY <1>1, <1>3, <2>2, <2>3 DEF AdmissionInv, AnswersCovered, Outdated, Covers
  <2>7. CopiesOK'
    BY <1>1, <1>3, <2>1, <2>2, <2>3 DEF CopiesOK
  <2> QED BY <2>4, <2>5, <2>6, <2>7 DEF AdmissionInv
<1> QED BY <1>2, <1>3 DEF Restart

LEMMA AdmissionNext == AdmissionInv /\ [Next]_vars => AdmissionInv'
<1> SUFFICES ASSUME AdmissionInv, [Next]_vars PROVE AdmissionInv'
  OBVIOUS
<1>1. CASE Next
  BY <1>1, TickInv, ArriveInv, AdmitInv, AnswerInv, PruneInv, CrashInv, RestartInv DEF Next
<1>2. CASE UNCHANGED vars
  BY <1>2 DEF vars, AdmissionInv, TypeOK, WaitingOK, RecordOK, BusyOK, CopiesOK,
     AnswersCovered, Outdated, Covers
<1> QED BY <1>1, <1>2

\* The clock, the requests under way and both copies of the record stay in the
\* relation the window and the TTL put them in (api.go:46-51, store.go:146).
THEOREM AdmissionInvariant == Spec => []AdmissionInv
  BY InitAdmission, AdmissionNext, PTL DEF Spec

\* What was answered 200 is covered by the state file, and by the running
\* store, until the window refuses it, whatever crashes or is pruned.
THEOREM AnswersAlwaysCovered == Spec => []AnswersCovered
<1>1. AdmissionInv => AnswersCovered
  BY DEF AdmissionInv
<1> QED BY <1>1, AdmissionInvariant, PTL

\* No snapshot is answered 200 after one that was captured later: replays stay
\* refused across a record's expiry, for every TTL >= 2 * Window + MaxWait.
THEOREM AnswersInOrder == Spec => AnswersAdvance
<1>1. AdmissionInv /\ [Next]_vars => (acked' # acked => acked' > acked)
  <2> SUFFICES ASSUME AdmissionInv, [Next]_vars, acked' # acked PROVE acked' > acked
    OBVIOUS
  <2>1. Answer /\ acked' = mem.cap
    BY DEF Next, vars, Tick, Arrive, Admit, Answer, Prune, Crash, Restart
  <2>2. acked < mem.cap /\ mem.cap \in Nat /\ acked \in Nat \cup {-1}
    BY <2>1, RecordType DEF Answer, AdmissionInv, BusyOK, TypeOK, Never, Time
  <2> QED BY <2>1, <2>2
<1>2. AdmissionInv /\ [Next]_vars => [acked' # acked => acked' > acked]_vars
  BY <1>1
<1> QED BY <1>2, AdmissionInvariant, PTL DEF Spec, AnswersAdvance

\* A clock that ran ahead locks its worker out for no longer than the window.
THEOREM LockoutAlwaysBounded == Spec => []LockoutBounded
<1>1. AdmissionInv => LockoutBounded
  BY RecordType DEF AdmissionInv, TypeOK, RecordOK, LockoutBounded, Time
<1> QED BY <1>1, AdmissionInvariant, PTL

-----------------------------------------------------------------------------
(* The store follows Ledger over the clock, step by step.                   *)

LEMMA ForFacts ==
  ASSUME NEW a, NEW b
  PROVE  /\ For(a)[Worker] = a /\ [For(a) EXCEPT ![Worker] = b] = For(b)
         /\ \A w \in {Worker} : For(a)[w] = a
         /\ a \in Nat => For(a) \in [{Worker} -> Nat]
  BY DEF For

LEMMA InitLedger == Init => L!Init
<1> SUFFICES ASSUME Init PROVE L!Init
  OBVIOUS
<1>1. Cap(mem) = 0 /\ Cap(disk) = 0 /\ Floor = 0 /\ acked + 1 = 0 /\ busy = FALSE /\ up = TRUE
  BY DEF Init, Cap, Floor, Never
<1>2. L!Nothing = For(0)
  BY DEF L!Nothing, For
<1> QED BY <1>1, <1>2 DEF L!Init

\* The numbers Ledger is shown.
LEMMA Shown ==
  ASSUME AdmissionInv
  PROVE  /\ Cap(mem) \in Nat /\ Cap(disk) \in Nat /\ Floor \in Nat /\ acked + 1 \in Nat
         /\ mem # None => Cap(mem) = mem.cap + 1 /\ mem.cap \in Nat
         /\ disk # None => Cap(disk) = disk.cap + 1 /\ disk.cap \in Nat
         /\ now \in Nat /\ acked \in Nat \cup {-1}
<1>1. now \in Nat /\ acked \in Nat \cup {-1}
  BY DEF AdmissionInv, TypeOK, Time, Never
<1>2. /\ mem # None => mem.cap \in Nat
      /\ disk # None => disk.cap \in Nat
  BY RecordType DEF AdmissionInv, TypeOK
<1> QED BY <1>1, <1>2 DEF Cap, Floor

LEMMA TickRaises ==
  ASSUME AdmissionInv, Tick PROVE L!Raise
<1>1. now' = now + 1 /\ now \in Nat /\ UNCHANGED <<up, waiting, mem, disk, busy, acked>>
  BY Shown DEF Tick
<1>2. Floor' \in Nat /\ Floor' >= Floor
  BY <1>1 DEF Floor
<1>3. For(Floor)' \in [{Worker} -> Nat] /\ \A w \in {Worker} : For(Floor)'[w] >= For(Floor)[w]
  BY <1>2 DEF For
<1>4. UNCHANGED <<up, For(Cap(mem)), For(Cap(disk)), For(IF busy THEN Cap(mem) ELSE 0), For(acked + 1)>>
  BY <1>1 DEF For, Cap
<1> QED BY <1>3, <1>4 DEF L!Raise

\* What passes the window on arrival and Upsert's check is above the floor,
\* however long it waited.
LEMMA AdmitEnters ==
  ASSUME AdmissionInv, NEW r \in waiting, Admit(r) PROVE [L!Next]_(L!vars)
<1>1. /\ up /\ ~busy /\ UNCHANGED <<now, up, acked>>
      /\ r.cap \in Nat /\ r.cap >= now - Window - MaxWait /\ r.cap <= Horizon + Window
  BY Shown, RecordType DEF Admit, AdmissionInv, TypeOK, WaitingOK
<1>2. CASE UNCHANGED <<mem, disk, busy>>
  BY <1>1, <1>2 DEF L!vars, For, Cap, Floor
<1>3. CASE ~(mem # None /\ r.cap <= mem.cap)
  <2> DEFINE c == r.cap + 1
             record == [cap |-> r.cap, upd |-> now]
  <2>1. c \in 1..(Horizon + Window + 1)
    BY <1>1
  <2>2. c > Cap(mem) /\ c > Cap(disk)
    <3>1. c > Cap(mem)
      BY <1>1, <1>3, Shown DEF Cap
    <3>2. disk # None => disk.cap < r.cap
      BY <1>1, <1>3, Shown DEF AdmissionInv, CopiesOK
    <3> QED BY <1>1, <3>1, <3>2, Shown DEF Cap
  <2>3. c > Floor
    BY <1>1, Shown DEF Floor
  <2>4. record # None /\ record.cap = r.cap
    BY <1>1, Shown, RecordType DEF Time
  <2>5. mem' = record /\ ((disk' = record /\ busy' = TRUE) \/ UNCHANGED <<disk, busy>>)
    BY <1>3 DEF Admit
  <2> HIDE DEF record
  <2>6. Cap(mem)' = c
    BY <2>4, <2>5 DEF Cap
  <2> HIDE DEF c
  <2>7. For(Cap(mem))' = [For(Cap(mem)) EXCEPT ![Worker] = c]
    BY <2>6 DEF For
  <2>8. \/ /\ For(Cap(disk))' = [For(Cap(disk)) EXCEPT ![Worker] = c]
           /\ For(IF busy THEN Cap(mem) ELSE 0)'
                = [For(IF busy THEN Cap(mem) ELSE 0) EXCEPT ![Worker] = c]
        \/ UNCHANGED <<For(Cap(disk)), For(IF busy THEN Cap(mem) ELSE 0)>>
    <3>1. CASE disk' = record /\ busy' = TRUE
      <4>1. Cap(disk)' = c
        BY <2>4, <2>5, <2>6, <3>1 DEF Cap
      <4> QED BY <2>6, <3>1, <4>1 DEF For
    <3>2. CASE UNCHANGED <<disk, busy>>
      BY <1>1, <3>2 DEF For, Cap
    <3> QED BY <2>5, <3>1, <3>2
  <2>9. UNCHANGED <<up, For(Floor), For(acked + 1)>>
    BY <1>1 DEF For, Floor
  <2>10. /\ For(IF busy THEN Cap(mem) ELSE 0)[Worker] = 0
         /\ c > For(Cap(mem))[Worker] /\ c > For(Cap(disk))[Worker] /\ c > For(Floor)[Worker]
    BY <1>1, <2>2, <2>3 DEF For
  <2>11. L!Admit(Worker, c)
    BY <1>1, <2>7, <2>8, <2>9, <2>10 DEF L!Admit
  <2> QED BY <2>1, <2>11 DEF L!Next
<1> QED BY <1>2, <1>3 DEF Admit

LEMMA AnswerAnswers ==
  ASSUME AdmissionInv, Answer PROVE L!Answer(Worker)
<1> DEFINE record == [cap |-> mem.cap, upd |-> now]
<1>1. busy /\ mem # None /\ disk # None /\ busy' = FALSE /\ UNCHANGED <<now, up, waiting>>
  BY DEF Answer, AdmissionInv, BusyOK
<1>2. record # None /\ record.cap = mem.cap
  BY <1>1, Shown, RecordType DEF Time
<1>3. mem' = record /\ ((disk' = record /\ acked' \in {acked, mem.cap}) \/ UNCHANGED <<disk, acked>>)
  BY DEF Answer
<1> HIDE DEF record
<1>4. UNCHANGED Cap(mem) /\ Cap(mem) # 0 /\ Cap(mem) = mem.cap + 1
  BY <1>1, <1>2, <1>3, Shown DEF Cap
<1>5. UNCHANGED Cap(disk)
  <2>1. CASE disk' = record
    BY <1>1, <1>2, <2>1 DEF Cap, AdmissionInv, BusyOK
  <2>2. CASE disk' = disk
    BY <2>2 DEF Cap
  <2> QED BY <1>3, <2>1, <2>2
<1>6. For(IF busy THEN Cap(mem) ELSE 0)[Worker] = Cap(mem)
  BY <1>1 DEF For
<1>7. For(IF busy THEN Cap(mem) ELSE 0)' = [For(IF busy THEN Cap(mem) ELSE 0) EXCEPT ![Worker] = 0]
  BY <1>1 DEF For
<1>8. For(acked + 1)' \in {For(acked + 1), [For(acked + 1) EXCEPT ![Worker] = Cap(mem)]}
  BY <1>3, <1>4 DEF For
<1>9. UNCHANGED <<up, For(Cap(mem)), For(Cap(disk)), For(Floor)>>
  BY <1>1, <1>4, <1>5 DEF For, Floor
<1> QED BY <1>4, <1>6, <1>7, <1>8, <1>9 DEF L!Answer

LEMMA PruneForgets ==
  ASSUME AdmissionInv, Prune PROVE L!Forget(Worker)
<1>1. /\ up /\ ~busy /\ mem # None /\ mem' = None /\ disk' \in {None, disk}
      /\ UNCHANGED <<now, up, busy, acked>>
  BY DEF Prune
<1>2. Cap(mem) <= Floor /\ Cap(disk) <= Floor
  BY <1>1, PrunedIsBelow, Shown DEF Cap, Floor
<1>3. Cap(mem)' = 0 /\ (Cap(disk)' = 0 \/ UNCHANGED Cap(disk))
  BY <1>1 DEF Cap
<1>4. /\ For(Cap(mem))' = [For(Cap(mem)) EXCEPT ![Worker] = 0]
      /\ \/ For(Cap(disk))' = [For(Cap(disk)) EXCEPT ![Worker] = 0]
         \/ UNCHANGED For(Cap(disk))
  BY <1>3 DEF For
<1>5. /\ For(IF busy THEN Cap(mem) ELSE 0)[Worker] = 0
      /\ For(Cap(mem))[Worker] <= For(Floor)[Worker]
      /\ For(Cap(disk))[Worker] <= For(Floor)[Worker]
  BY <1>1, <1>2 DEF For
<1>6. UNCHANGED <<up, For(Floor), For(IF busy THEN Cap(mem) ELSE 0), For(acked + 1)>>
  BY <1>1 DEF For, Floor
<1> QED BY <1>1, <1>4, <1>5, <1>6 DEF L!Forget

LEMMA CrashCrashes ==
  ASSUME AdmissionInv, Crash PROVE L!Crash
<1>1. up /\ up' = FALSE /\ mem' = None /\ busy' = FALSE /\ UNCHANGED <<now, disk, acked>>
  BY DEF Crash
<1>2. For(Cap(mem))' = L!Nothing /\ For(IF busy THEN Cap(mem) ELSE 0)' = L!Nothing
  BY <1>1 DEF For, Cap, L!Nothing
<1>3. UNCHANGED <<For(Cap(disk)), For(Floor), For(acked + 1)>>
  BY <1>1 DEF For, Cap, Floor
<1> QED BY <1>1, <1>2, <1>3 DEF L!Crash

LEMMA RestartLoads ==
  ASSUME AdmissionInv, Restart PROVE L!Load
<1>1. ~up /\ up' = TRUE /\ ~busy /\ UNCHANGED <<now, busy, acked>>
  BY DEF Restart, AdmissionInv, BusyOK
<1>2. Cap(mem)' = Cap(disk) /\ UNCHANGED Cap(disk)
  <2>1. CASE mem' = disk /\ disk' = disk
    BY <2>1 DEF Cap
  <2>2. CASE /\ disk # None /\ mem' = [cap |-> disk.cap, upd |-> now]
             /\ disk' \in {mem', disk}
    <3> DEFINE record == [cap |-> disk.cap, upd |-> now]
    <3>1. record # None /\ record.cap = disk.cap
      BY <2>2, Shown, RecordType DEF Time
    <3>2. mem' = record /\ (disk' = record \/ disk' = disk)
      BY <2>2
    <3> HIDE DEF record
    <3> QED BY <2>2, <3>1, <3>2 DEF Cap
  <2> QED BY <2>1, <2>2 DEF Restart
<1>3. For(Cap(mem))' = For(Cap(disk))
  BY <1>2 DEF For
<1>4. UNCHANGED <<For(Cap(disk)), For(Floor), For(IF busy THEN Cap(mem) ELSE 0), For(acked + 1)>>
  BY <1>1, <1>2 DEF For, Floor
<1> QED BY <1>1, <1>3, <1>4 DEF L!Load

\* A request that arrives, and a step that changes nothing, change nothing that
\* Ledger shows.
LEMMA ArriveUnseen ==
  ASSUME (\E cap \in 0..(Horizon + Window) : Arrive(cap)) \/ UNCHANGED vars
  PROVE  UNCHANGED L!vars
  BY DEF Arrive, vars, L!vars, For, Cap, Floor

\* Checked against the clock on arrival, compared with the record later and
\* forgotten by age, the worker's captures follow Ledger: the floor that
\* ReceiverStore is given is one that the window and the TTL keep.
THEOREM AdmissionKeepsLedger == Spec => KeepsLedger
<1>1. Init => L!Init
  BY InitLedger
<1>2. AdmissionInv /\ [Next]_vars => [L!Next]_(L!vars)
  <2> SUFFICES ASSUME AdmissionInv, [Next]_vars PROVE [L!Next]_(L!vars)
    OBVIOUS
  <2>1. CASE Tick
    BY <2>1, TickRaises DEF L!Next
  <2>2. ASSUME NEW r \in waiting, Admit(r) PROVE [L!Next]_(L!vars)
    BY <2>2, AdmitEnters
  <2>3. CASE Answer
    BY <2>3, AnswerAnswers DEF L!Next
  <2>4. CASE Prune
    BY <2>4, PruneForgets DEF L!Next
  <2>5. CASE Crash
    BY <2>5, CrashCrashes DEF L!Next
  <2>6. CASE Restart
    BY <2>6, RestartLoads DEF L!Next
  <2>7. CASE (\E cap \in 0..(Horizon + Window) : Arrive(cap)) \/ UNCHANGED vars
    BY <2>7, ArriveUnseen
  <2> QED BY <2>1, <2>2, <2>3, <2>4, <2>5, <2>6, <2>7 DEF Next
<1> QED BY <1>1, <1>2, AdmissionInvariant, PTL DEF Spec, KeepsLedger, L!Spec
=============================================================================
