------------------------ MODULE ReceiverStoreProofs ------------------------
(***************************************************************************)
(* Proofs about the receiver's worker store for any number of workers,     *)
(* names, contents, captures and images, and any set of failing calls.     *)
(***************************************************************************)
EXTENDS ReceiverStore, TLAPS

USE BoundsAssumption, FreshAssumption

LEMMA RecordFacts ==
  ASSUME NEW r \in Record
  PROVE  /\ r # None /\ r.cap \in 0..MaxCaptures /\ r.want \in Contents \cup {Bad}
         /\ r.managed \in SUBSET Names /\ r.expired \in BOOLEAN
         /\ Aged(r) \in Record /\ Aged(r).cap = r.cap /\ Aged(r).want = r.want
         /\ Aged(r).expired
  BY DEF Record, Aged

LEMMA RecordType ==
  ASSUME NEW c \in 0..MaxCaptures, NEW t \in Contents \cup {Bad},
         NEW m \in SUBSET Names, NEW e \in BOOLEAN
  PROVE  [cap |-> c, want |-> t, managed |-> m, expired |-> e] \in Record
  BY DEF Record

LEMMA StubFacts ==
  ASSUME NEW s \in Stub, NEW a \in BOOLEAN, NEW r \in BOOLEAN
  PROVE  /\ s # None /\ s.attached \in BOOLEAN /\ s.running \in BOOLEAN
         /\ Flagged(s, a, r) \in Stub /\ Flagged(s, a, r) # None
         /\ Flagged(s, a, r).cap = s.cap
  BY DEF Stub, Flagged

LEMMA NoPlanType == NoPlan \in [Names -> Plans]
  BY DEF NoPlan, Plans

LEMMA InitType == Init => TypeInv
<1> SUFFICES ASSUME Init PROVE TypeInv
  OBVIOUS
<1>1. Legacy \in Record /\ NoPlan \in [Names -> Plans] /\ "next" \in Phases
  BY DEF Legacy, Record, NoPlan, Plans, Phases
<1>2. TypeOK
  <2>1. StoreTypeOK
    <3>1. disk \in [Workers -> Record \cup {None}]
      BY <1>1 DEF Init
    <3>2. up \in BOOLEAN
      BY DEF Init
    <3>5. image \in 1..MaxImages
      BY DEF Init
    <3>3. floor \in [Workers -> 0..MaxCaptures] /\ acked \in [Workers -> 0..MaxCaptures]
      BY DEF Init
    <3>4. /\ mem \in [Workers -> Record \cup {None}]
          /\ docker \in [Workers -> [Names -> Stub \cup {None}]]
      BY DEF Init
    <3> QED BY <3>1, <3>2, <3>3, <3>4, <3>5 DEF StoreTypeOK
  <2>2. JobTypeOK
    BY <1>1 DEF Init, Idle, JobTypeOK
  <2> QED BY <2>1, <2>2 DEF TypeOK
<1>3. StoppedOK /\ JobOK
  BY DEF Init, Idle, NoPlan, StoppedOK, JobOK, Working, Reconciling, Creating
<1>4. RecordsOK
  BY DEF Init, Idle, Legacy, RecordsOK, Reconciling
<1> QED BY <1>2, <1>3, <1>4 DEF TypeInv

LEMMA UpsertType ==
  ASSUME TypeInv, NEW w \in Workers, NEW cap \in 1..MaxCaptures,
         NEW c \in Contents, Upsert(w, cap, c)
  PROVE  TypeInv'
<1> DEFINE prev == IF mem[w] = None THEN {} ELSE mem[w].managed
           rec  == [cap |-> cap, want |-> c, managed |-> prev, expired |-> FALSE]
<1>1. prev \in SUBSET Names
  BY RecordFacts DEF TypeInv, TypeOK, StoreTypeOK
<1>2. rec \in Record /\ rec.cap = cap /\ rec.want = c
  BY <1>1 DEF Record
<1>3. mem' = [mem EXCEPT ![w] = rec] /\ (disk' = disk \/ disk' = [disk EXCEPT ![w] = rec])
  BY DEF Upsert, job
<1>4. Begin("upsert", w, {}, "image", {}) \/ UNCHANGED job
  BY DEF Upsert, job
<1> HIDE DEF rec, prev
<1>5. StoreTypeOK'
  <2>1. mem' \in [Workers -> Record \cup {None}]
    BY <1>2, <1>3 DEF TypeInv, TypeOK, StoreTypeOK
  <2>2. disk' \in [Workers -> Record \cup {None}]
    BY <1>2, <1>3 DEF TypeInv, TypeOK, StoreTypeOK
  <2> QED BY <2>1, <2>2 DEF Upsert, TypeInv, TypeOK, StoreTypeOK
<1>6. JobTypeOK'
  <2>1. CASE Begin("upsert", w, {}, "image", {})
    BY <2>1, NoPlanType DEF Begin, JobTypeOK, Phases
  <2>2. CASE UNCHANGED job
    BY <2>2 DEF TypeInv, TypeOK, JobTypeOK, job
  <2> QED BY <1>4, <2>1, <2>2
<1>7. StoppedOK' /\ JobOK'
  BY DEF Upsert, Begin, job, TypeInv, StoppedOK, JobOK, Working, Creating, Reconciling, NoPlan, Desired, want
<1>8. RecordsOK'
  <2>1. \A v \in Workers : (mem'[v] = mem[v] \/ mem'[v] = rec) /\ (disk'[v] = disk[v] \/ disk'[v] = rec)
    BY <1>3 DEF TypeInv, TypeOK, StoreTypeOK
  <2>2. rec # None /\ rec.want # Bad /\ rec.cap > 0
    BY <1>2, RecordFacts
  <2>3. mem'[w] # None
    BY <1>3, <2>2 DEF TypeInv, TypeOK, StoreTypeOK
  <2> QED BY <2>1, <2>2, <2>3, <1>4 DEF Upsert, Begin, job, TypeInv, RecordsOK, InHand, Working, Reconciling
<1> QED
  BY <1>5, <1>6, <1>7, <1>8 DEF TypeInv, TypeOK

LEMMA RestartType ==
  ASSUME TypeInv, Restart
  PROVE  TypeInv'
<1>1. PICK unread \in SUBSET {w \in Workers : disk[w] # None},
           left \in SUBSET {w \in Workers : disk[w] # None /\ disk[w].want = Bad} :
        LET loaded == {w \in Workers : Compatible(w)} \ unread
            keep   == {w \in Workers : Compatible(w)} \cup unread \cup left
        IN  /\ mem' = [w \in Workers |-> IF w \in loaded THEN disk[w] ELSE None]
            /\ disk' = [w \in Workers |-> IF w \in keep THEN disk[w] ELSE None]
            /\ Begin("load", None, loaded, "next", {})
  BY DEF Restart
<1>2. StoreTypeOK'
  BY <1>1 DEF Restart, TypeInv, TypeOK, StoreTypeOK
<1>3. JobTypeOK'
  <2>1. queue' \in SUBSET Workers
    BY <1>1 DEF Begin
  <2> QED BY <1>1, <2>1, NoPlanType DEF Begin, JobTypeOK, Phases
<1>4. StoppedOK' /\ JobOK'
  BY <1>1 DEF Restart, Begin, StoppedOK, JobOK, Working, Creating, Reconciling, NoPlan
<1>5. RecordsOK'
  BY <1>1 DEF Restart, Compatible, Begin, TypeInv, RecordsOK, InHand, Working, Reconciling
<1> QED
  BY <1>2, <1>3, <1>4, <1>5 DEF TypeInv, TypeOK

LEMMA PruneType ==
  ASSUME TypeInv, Prune
  PROVE  TypeInv'
<1>1. StoreTypeOK'
  BY DEF Prune, TypeInv, TypeOK, StoreTypeOK
<1>2. JobTypeOK'
  BY NoPlanType DEF Prune, Begin, JobTypeOK, Phases
<1>3. StoppedOK' /\ JobOK'
  BY DEF Prune, Begin, TypeInv, StoppedOK, JobOK, Working, Creating, Reconciling, NoPlan
<1>4. RecordsOK'
  BY DEF Prune, Begin, TypeInv, RecordsOK, Reconciling
<1> QED
  BY <1>1, <1>2, <1>3, <1>4 DEF TypeInv, TypeOK

LEMMA NextRecordType ==
  ASSUME TypeInv, NEW w \in Workers, NextRecord(w)
  PROVE  TypeInv'
<1>1. op = "prune" => mem[w] \in Record /\ mem[w].managed \in SUBSET Names
  BY RecordFacts DEF NextRecord, TypeInv, TypeOK, StoreTypeOK, RecordsOK
<1>2. StoreTypeOK'
  BY DEF NextRecord, TypeInv, TypeOK, StoreTypeOK
<1>3. JobTypeOK'
  <2>1. CASE op = "load"
    BY <2>1, NoPlanType DEF NextRecord, Begin, TypeInv, TypeOK, JobTypeOK, Phases
  <2>2. CASE op = "prune"
    BY <1>1, <2>2, NoPlanType DEF NextRecord, Begin, TypeInv, TypeOK, JobTypeOK, Phases
  <2> QED BY <2>1, <2>2 DEF NextRecord
<1>4. StoppedOK' /\ JobOK'
  BY DEF NextRecord, Begin, TypeInv, TypeOK, StoppedOK, JobOK, Working, Creating, Reconciling, Idle, NoPlan, Desired, want
<1>5. RecordsOK'
  <2>1. CASE op = "load"
    BY <2>1 DEF NextRecord, Begin, TypeInv, RecordsOK, InHand, Working, Reconciling
  <2>2. CASE op = "prune"
    <3>1. mem'[w] = None /\ \A v \in Workers : v # w => mem'[v] = mem[v]
      BY <2>2 DEF NextRecord, TypeInv, TypeOK, StoreTypeOK
    <3>2. UNCHANGED disk /\ op' = "prune" /\ queue' = queue \ {w} /\ queue \in SUBSET Workers
      BY <2>2 DEF NextRecord, Begin, TypeInv, TypeOK, JobTypeOK
    <3> QED BY <2>2, <3>1, <3>2 DEF TypeInv, RecordsOK, Reconciling
  <2> QED BY <2>1, <2>2 DEF NextRecord
<1> QED
  BY <1>2, <1>3, <1>4, <1>5 DEF TypeInv, TypeOK

LEMMA LastRecordType ==
  ASSUME TypeInv, LastRecord
  PROVE  TypeInv'
<1>1. StoreTypeOK'
  BY DEF LastRecord, TypeInv, TypeOK, StoreTypeOK
<1>2. JobTypeOK'
  BY NoPlanType DEF LastRecord, Release, Begin, JobTypeOK, Phases
<1>3. StoppedOK' /\ JobOK' /\ RecordsOK'
  BY DEF LastRecord, Release, Begin, TypeInv, StoppedOK, JobOK, RecordsOK, Idle, Working, Creating, Reconciling, NoPlan
<1> QED
  BY <1>1, <1>2, <1>3 DEF TypeInv, TypeOK

LEMMA InspectImageType ==
  ASSUME TypeInv, InspectImage
  PROVE  TypeInv'
<1>1. StoreTypeOK'
  BY DEF InspectImage, TypeInv, TypeOK, StoreTypeOK
<1>2. JobTypeOK'
  <2>1. img' \in 0..MaxImages /\ phase' \in Phases
    BY DEF InspectImage, Abort, Trouble, TypeInv, TypeOK, StoreTypeOK, JobTypeOK, Phases
  <2>2. clean' \in BOOLEAN
    BY DEF InspectImage, Abort, Trouble, TypeInv, TypeOK, JobTypeOK
  <2> QED BY <2>1, <2>2 DEF InspectImage, Abort, Trouble, held, TypeInv, TypeOK, JobTypeOK
<1>3. StoppedOK'
  BY DEF InspectImage, TypeInv, StoppedOK, Idle
<1>4. JobOK'
  BY DEF InspectImage, Abort, Trouble, held, TypeInv, TypeOK, StoreTypeOK, JobOK, Working, Creating, Reconciling, Desired, want
<1>5. RecordsOK'
  BY DEF InspectImage, Abort, Trouble, held, TypeInv, RecordsOK, InHand, Working, Reconciling
<1> QED
  BY <1>1, <1>2, <1>3, <1>4, <1>5 DEF TypeInv, TypeOK

LEMMA ListManagedType ==
  ASSUME TypeInv, ListManaged
  PROVE  TypeInv'
<1>1. StoreTypeOK'
  BY DEF ListManaged, TypeInv, TypeOK, StoreTypeOK
<1>2. CASE Abort("list")
  <2>1. JobTypeOK' /\ JobOK' /\ StoppedOK' /\ RecordsOK'
    BY <1>2 DEF ListManaged, Abort, Trouble, held, TypeInv, TypeOK, JobTypeOK, JobOK, StoppedOK,
         RecordsOK, InHand, Idle, Working, Creating, Reconciling, Desired, want, Phases
  <2> QED BY <1>1, <2>1 DEF TypeInv, TypeOK
<1>3. CASE ~Abort("list")
  <2> DEFINE present == {n \in Names : docker[worker][n] # None}
  <2>1. PICK hidden \in SUBSET present :
          /\ phase' = "apply"
          /\ plan' = [n \in Names |-> PlanFor(n, present \ hidden)]
          /\ managed' = IF Reconciling
                        THEN {n \in Names : plan'[n] = "keep"} ELSE managed
          /\ clean' = (clean /\ hidden = {})
          /\ UNCHANGED <<held, img, cur>>
    BY <1>3 DEF ListManaged
  <2>2. \A n \in Names, l \in SUBSET Names : PlanFor(n, l) \in Plans
    BY DEF PlanFor, Plans
  <2>3. plan' \in [Names -> Plans]
    BY <2>1, <2>2
  <2>4. clean' \in BOOLEAN
    BY <2>1 DEF TypeInv, TypeOK, JobTypeOK
  <2>5. JobTypeOK'
    BY <2>1, <2>3, <2>4 DEF held, TypeInv, TypeOK, JobTypeOK, Phases
  <2>6. \A n \in Names : plan'[n] \in {"replace", "create"} => Reconciling /\ n \in Desired
    BY <2>1 DEF PlanFor, ListManaged, Reconciling, TypeInv, JobOK, Working, TypeOK, JobTypeOK
  <2>7. JobOK' /\ StoppedOK'
    BY <2>1, <2>6 DEF ListManaged, held, TypeInv, JobOK, StoppedOK, Idle, Working, Creating, Reconciling, Desired, want
  <2>8. RecordsOK'
    BY <2>1 DEF ListManaged, held, TypeInv, RecordsOK, InHand, Working, Reconciling
  <2> QED BY <1>1, <2>5, <2>7, <2>8 DEF TypeInv, TypeOK
<1> QED BY <1>2, <1>3

LEMMA CreateStubType ==
  ASSUME TypeInv, NEW n \in Names, CreateStub(n)
  PROVE  TypeInv'
<1>1. /\ worker \in Workers /\ Reconciling /\ n \in Desired /\ img \in 1..MaxImages
      /\ mem[worker] \in Record /\ mem[worker].want \in Contents /\ mem[worker].cap \in 1..MaxCaptures
  BY RecordFacts DEF CreateStub, TypeInv, TypeOK, StoreTypeOK, JobTypeOK, JobOK, RecordsOK, Working, InHand
<1>2. NewStub(n) \in Stub
  BY <1>1 DEF NewStub, Stub, Contents, Desired, want, TypeInv, TypeOK, StoreTypeOK
<1>3. docker' = docker \/ docker' = [docker EXCEPT ![worker][n] = NewStub(n)]
  BY DEF CreateStub, SetStub
<1> HIDE DEF NewStub
<1>4. StoreTypeOK'
  <2>1. docker \in [Workers -> [Names -> Stub \cup {None}]]
    BY DEF TypeInv, TypeOK, StoreTypeOK
  <2>2. docker' \in [Workers -> [Names -> Stub \cup {None}]]
    BY <1>1, <1>2, <1>3, <2>1
  <2> QED BY <2>2 DEF CreateStub, TypeInv, TypeOK, StoreTypeOK
<1>5. JobTypeOK'
  BY DEF CreateStub, Give, held, TypeInv, TypeOK, JobTypeOK, Phases, Plans
<1>6. phase' = "connect" => docker'[worker][n] # None
  BY <1>1, <1>2, StubFacts DEF CreateStub, SetStub, Give, TypeInv, TypeOK, StoreTypeOK
<1>7. StoppedOK' /\ JobOK'
  BY <1>1, <1>6 DEF CreateStub, Give, held, TypeInv, TypeOK, JobTypeOK, StoppedOK, Idle, JobOK, Working, Creating, Reconciling, Desired, want
<1>8. RecordsOK'
  BY DEF CreateStub, Give, held, TypeInv, RecordsOK, InHand, Working, Reconciling
<1> QED
  BY <1>4, <1>5, <1>7, <1>8 DEF TypeInv, TypeOK

\* Every step that creates or removes a stub.
LEMMA SetStubType ==
  ASSUME TypeInv, worker \in Workers, NEW n \in Names, NEW s \in Stub \cup {None},
         docker' = docker \/ SetStub(n, s)
  PROVE  docker' \in [Workers -> [Names -> Stub \cup {None}]]
<1>1. docker \in [Workers -> [Names -> Stub \cup {None}]]
  BY DEF TypeInv, TypeOK, StoreTypeOK
<1>2. CASE docker' = docker
  BY <1>1, <1>2
<1>3. CASE SetStub(n, s)
  BY <1>1, <1>3 DEF SetStub
<1> QED BY <1>2, <1>3

LEMMA RemoveStaleType ==
  ASSUME TypeInv, NEW n \in Names, RemoveStale(n)
  PROVE  TypeInv'
<1>1. worker \in Workers /\ Reconciling /\ n \in Desired
  BY DEF RemoveStale, TypeInv, JobOK, Working
<1>2. StoreTypeOK'
  BY <1>1, SetStubType DEF RemoveStale, TypeInv, TypeOK, StoreTypeOK
<1>3. JobTypeOK'
  BY DEF RemoveStale, held, TypeInv, TypeOK, JobTypeOK, Plans
<1>4. StoppedOK' /\ JobOK'
  BY <1>1 DEF RemoveStale, held, TypeInv, TypeOK, JobTypeOK, StoppedOK, Idle, JobOK, Working, Creating, Reconciling, Desired, want
<1>5. RecordsOK'
  BY DEF RemoveStale, held, TypeInv, RecordsOK, InHand, Working, Reconciling
<1> QED
  BY <1>2, <1>3, <1>4, <1>5 DEF TypeInv, TypeOK

\* The stub being created, and what connecting or starting it makes of it.
LEMMA CurrentType ==
  ASSUME TypeInv, Creating
  PROVE  /\ worker \in Workers /\ cur \in Names /\ Reconciling /\ Working
         /\ Current \in Stub /\ Current # None
         /\ Current.attached \in BOOLEAN /\ Current.running \in BOOLEAN
<1>1. worker \in Workers /\ cur \in Names /\ Reconciling /\ Working /\ Current # None
  BY DEF TypeInv, JobOK, Working, Creating, Current
<1>2. Current \in Stub
  BY <1>1 DEF TypeInv, TypeOK, StoreTypeOK, Current
<1> QED BY <1>1, <1>2, StubFacts

LEMMA FlagCurrent ==
  ASSUME TypeInv, Creating, NEW a \in BOOLEAN, NEW r \in BOOLEAN,
         docker' = docker \/ SetStub(cur, Flagged(Current, a, r))
  PROVE  /\ docker' \in [Workers -> [Names -> Stub \cup {None}]]
         /\ docker'[worker][cur] # None
<1>1. /\ worker \in Workers /\ cur \in Names /\ Current # None
      /\ Flagged(Current, a, r) \in Stub /\ Flagged(Current, a, r) # None
  BY CurrentType, StubFacts
<1>2. docker \in [Workers -> [Names -> Stub \cup {None}]]
  BY DEF TypeInv, TypeOK, StoreTypeOK
<1> DEFINE s == Flagged(Current, a, r)
<1>3. s \in Stub /\ s # None /\ (docker' = docker \/ docker' = [docker EXCEPT ![worker][cur] = s])
  BY <1>1 DEF SetStub
<1> HIDE DEF s
<1> QED BY <1>1, <1>2, <1>3 DEF Current

LEMMA ConnectStubType ==
  ASSUME TypeInv, ConnectStub
  PROVE  TypeInv'
<1>1. Creating
  BY DEF ConnectStub, Creating
<1>2. docker' = docker \/ SetStub(cur, Flagged(Current, TRUE, Current.running))
  BY DEF ConnectStub, Attach
<1>3. docker' \in [Workers -> [Names -> Stub \cup {None}]] /\ docker'[worker][cur] # None
  BY <1>1, <1>2, CurrentType, FlagCurrent
<1>4. StoreTypeOK'
  BY <1>3 DEF ConnectStub, TypeInv, TypeOK, StoreTypeOK
<1>5. phase' \in {"start", "undo"} /\ clean' \in {clean, FALSE} /\ UNCHANGED <<held, img, plan, cur, managed>>
  BY DEF ConnectStub, Goto, Fail, Trouble
<1>6. JobTypeOK'
  BY <1>5 DEF held, TypeInv, TypeOK, JobTypeOK, Phases
<1>7. StoppedOK' /\ JobOK' /\ RecordsOK'
  BY <1>1, <1>3, <1>5, CurrentType DEF ConnectStub, held, TypeInv, StoppedOK, Idle, JobOK, RecordsOK,
       InHand, Working, Creating, Reconciling, Desired, want
<1> QED
  BY <1>4, <1>6, <1>7 DEF TypeInv, TypeOK

LEMMA StartStubType ==
  ASSUME TypeInv, StartStub
  PROVE  TypeInv'
<1>1. Creating
  BY DEF StartStub, Creating
<1>2. docker' = docker \/ SetStub(cur, Flagged(Current, Current.attached, TRUE))
  BY DEF StartStub, Run
<1>3. docker' \in [Workers -> [Names -> Stub \cup {None}]] /\ docker'[worker][cur] # None
  BY <1>1, <1>2, CurrentType, FlagCurrent
<1>4. StoreTypeOK'
  BY <1>3 DEF StartStub, TypeInv, TypeOK, StoreTypeOK
<1>5. /\ phase' \in {"apply", "undo"} /\ clean' \in {clean, FALSE}
      /\ plan' \in {plan, [plan EXCEPT ![cur] = "done"]} /\ cur' \in {cur, None}
      /\ managed' \in {managed, managed \cup {cur}} /\ UNCHANGED <<held, img>>
      /\ phase' = "undo" => cur' = cur
  BY DEF StartStub, Fail, Trouble
<1>6. JobTypeOK'
  BY <1>1, <1>5, CurrentType DEF held, TypeInv, TypeOK, JobTypeOK, Phases, Plans
<1>7. StoppedOK' /\ JobOK' /\ RecordsOK'
  BY <1>1, <1>3, <1>5, CurrentType DEF StartStub, held, TypeInv, TypeOK, JobTypeOK, StoppedOK, Idle, JobOK, RecordsOK,
       InHand, Working, Creating, Reconciling, Desired, want
<1> QED
  BY <1>4, <1>6, <1>7 DEF TypeInv, TypeOK

LEMMA UndoStubType ==
  ASSUME TypeInv, UndoStub
  PROVE  TypeInv'
<1>1. Creating
  BY DEF UndoStub, Creating
<1>2. StoreTypeOK'
  BY <1>1, CurrentType, SetStubType DEF UndoStub, TypeInv, TypeOK, StoreTypeOK
<1>3. JobTypeOK'
  BY <1>1, CurrentType DEF UndoStub, Give, held, TypeInv, TypeOK, JobTypeOK, Phases, Plans
<1>4. StoppedOK' /\ JobOK' /\ RecordsOK'
  BY <1>1, CurrentType DEF UndoStub, Give, held, TypeInv, TypeOK, JobTypeOK, StoppedOK, Idle, JobOK, RecordsOK,
       InHand, Working, Creating, Reconciling, Desired, want
<1> QED
  BY <1>2, <1>3, <1>4 DEF TypeInv, TypeOK

LEMMA DropStubType ==
  ASSUME TypeInv, NEW n \in Names, DropStub(n)
  PROVE  TypeInv'
<1>1. worker \in Workers
  BY DEF DropStub, TypeInv, JobOK, Working
<1>2. StoreTypeOK'
  BY <1>1, SetStubType DEF DropStub, TypeInv, TypeOK, StoreTypeOK
<1>3. JobTypeOK'
  BY DEF DropStub, Give, held, TypeInv, TypeOK, JobTypeOK, Phases, Plans
<1>4. StoppedOK' /\ JobOK' /\ RecordsOK'
  BY DEF DropStub, Give, held, TypeInv, TypeOK, JobTypeOK, StoppedOK, Idle, JobOK, RecordsOK,
       InHand, Working, Creating, Reconciling, Desired, want
<1> QED
  BY <1>2, <1>3, <1>4 DEF TypeInv, TypeOK

\* The record a finished reconciliation stores.
LEMMA ReconciledFacts ==
  ASSUME TypeInv, Reconciling, Working
  PROVE  /\ worker \in Workers /\ mem[worker] \in Record
         /\ Reconciled(worker) \in Record /\ Reconciled(worker) # None
         /\ Reconciled(worker).cap = mem[worker].cap
         /\ Reconciled(worker).want = mem[worker].want
         /\ ~Reconciled(worker).expired
         /\ mem[worker].want # Bad /\ mem[worker].cap > 0
<1>1. worker \in Workers /\ mem[worker] # None /\ managed \in SUBSET Names
  BY DEF TypeInv, TypeOK, JobTypeOK, JobOK, RecordsOK, InHand
<1>2. mem[worker] \in Record /\ mem[worker].want # Bad /\ mem[worker].cap > 0
  BY <1>1 DEF TypeInv, TypeOK, StoreTypeOK, RecordsOK
<1>3. Reconciled(worker) \in Record
  BY <1>1, <1>2 DEF Record, Reconciled
<1>4. /\ Reconciled(worker).cap = mem[worker].cap
      /\ Reconciled(worker).want = mem[worker].want
      /\ ~Reconciled(worker).expired
  BY DEF Reconciled
<1> QED BY <1>1, <1>2, <1>3, <1>4, RecordFacts

LEMMA FinishUpsertType ==
  ASSUME TypeInv, FinishUpsert
  PROVE  TypeInv'
<1> DEFINE r == Reconciled(worker)
<1>1. /\ worker \in Workers /\ mem[worker] \in Record /\ r \in Record /\ r # None
      /\ r.want # Bad /\ r.cap > 0 /\ r.cap \in 0..MaxCaptures /\ r.cap = mem[worker].cap
  BY ReconciledFacts, RecordFacts DEF FinishUpsert, Finished, Applied, Reconciling, Working
<1>2. /\ mem' = [mem EXCEPT ![worker] = r]
      /\ disk' = disk \/ disk' = [disk EXCEPT ![worker] = r]
      /\ acked' = acked \/ acked' = [acked EXCEPT ![worker] = mem[worker].cap]
  BY DEF FinishUpsert
<1> HIDE DEF r
<1>3. StoreTypeOK'
  <2>1. mem' \in [Workers -> Record \cup {None}]
    BY <1>1, <1>2 DEF TypeInv, TypeOK, StoreTypeOK
  <2>2. disk' \in [Workers -> Record \cup {None}]
    BY <1>1, <1>2 DEF TypeInv, TypeOK, StoreTypeOK
  <2>3. acked' \in [Workers -> 0..MaxCaptures]
    BY <1>1, <1>2 DEF TypeInv, TypeOK, StoreTypeOK
  <2> QED BY <2>1, <2>2, <2>3 DEF FinishUpsert, TypeInv, TypeOK, StoreTypeOK
<1>4. JobTypeOK'
  BY NoPlanType DEF FinishUpsert, Release, Begin, JobTypeOK, Phases
<1>5. StoppedOK' /\ JobOK'
  BY DEF FinishUpsert, Release, Begin, TypeInv, StoppedOK, Idle, JobOK, Working, Creating, Reconciling, NoPlan
<1>6. RecordsOK'
  BY <1>1, <1>2 DEF FinishUpsert, Release, Begin, TypeInv, TypeOK, StoreTypeOK, RecordsOK, Reconciling
<1> QED
  BY <1>3, <1>4, <1>5, <1>6 DEF TypeInv, TypeOK

LEMMA FinishLoadType ==
  ASSUME TypeInv, FinishLoad
  PROVE  TypeInv'
<1> DEFINE r == Reconciled(worker)
<1>1. /\ worker \in Workers /\ r \in Record /\ r # None /\ r.want # Bad /\ r.cap > 0
  BY ReconciledFacts DEF FinishLoad, Finished, Applied, Reconciling, Working
<1>2. /\ mem' = mem \/ mem' = [mem EXCEPT ![worker] = r]
      /\ disk' = disk \/ disk' = [disk EXCEPT ![worker] = r]
  BY DEF FinishLoad
<1> HIDE DEF r
<1>3. StoreTypeOK'
  <2>1. mem' \in [Workers -> Record \cup {None}]
    BY <1>1, <1>2 DEF TypeInv, TypeOK, StoreTypeOK
  <2>2. disk' \in [Workers -> Record \cup {None}]
    BY <1>1, <1>2 DEF TypeInv, TypeOK, StoreTypeOK
  <2> QED BY <2>1, <2>2 DEF FinishLoad, TypeInv, TypeOK, StoreTypeOK
<1>4. JobTypeOK'
  BY NoPlanType DEF FinishLoad, Begin, TypeInv, TypeOK, JobTypeOK, Phases
<1>5. StoppedOK' /\ JobOK'
  BY DEF FinishLoad, Begin, TypeInv, StoppedOK, Idle, JobOK, Working, Creating, Reconciling, NoPlan
<1>6. RecordsOK'
  <2>1. \A v \in Workers : /\ mem'[v] = mem[v] \/ (v = worker /\ mem'[v] = r)
                           /\ disk'[v] = disk[v] \/ disk'[v] = r
    BY <1>1, <1>2 DEF TypeInv, TypeOK, StoreTypeOK
  <2>2. op = "load" /\ op' = "load" /\ queue' = queue /\ phase' = "next" /\ queue \in SUBSET Workers
    BY DEF FinishLoad, Begin, TypeInv, TypeOK, JobTypeOK
  <2> QED BY <1>1, <2>1, <2>2 DEF TypeInv, RecordsOK, Reconciling, InHand, Working
<1> QED
  BY <1>3, <1>4, <1>5, <1>6 DEF TypeInv, TypeOK

LEMMA FinishPruneType ==
  ASSUME TypeInv, FinishPrune
  PROVE  TypeInv'
<1>1. StoreTypeOK'
  BY DEF FinishPrune, TypeInv, TypeOK, StoreTypeOK
<1>2. JobTypeOK'
  BY NoPlanType DEF FinishPrune, Begin, TypeInv, TypeOK, JobTypeOK, Phases
<1>3. StoppedOK' /\ JobOK'
  BY DEF FinishPrune, Begin, TypeInv, StoppedOK, Idle, JobOK, Working, Creating, Reconciling, NoPlan
<1>4. RecordsOK'
  BY DEF FinishPrune, Begin, TypeInv, TypeOK, StoreTypeOK, RecordsOK, Reconciling
<1> QED
  BY <1>1, <1>2, <1>3, <1>4 DEF TypeInv, TypeOK

LEMMA ExpireType ==
  ASSUME TypeInv, NEW w \in Workers, Expire(w)
  PROVE  TypeInv'
<1> DEFINE record == IF up THEN mem[w] ELSE disk[w]
<1>1. record \in Record /\ record.cap \in 0..MaxCaptures
  BY RecordFacts DEF Expire, TypeInv, TypeOK, StoreTypeOK
<1>2. /\ mem' = IF up THEN [mem EXCEPT ![w] = Aged(mem[w])] ELSE mem
      /\ disk' = IF disk[w] = None THEN disk ELSE [disk EXCEPT ![w] = Aged(disk[w])]
      /\ up => mem[w] # None
  BY DEF Expire
<1>3. \A v \in Workers : mem'[v] \in {mem[v], Aged(mem[v])} /\ (mem[v] = None => mem'[v] = None)
  BY <1>2 DEF TypeInv, TypeOK, StoreTypeOK
<1>4. \A v \in Workers : disk'[v] \in {disk[v], Aged(disk[v])} /\ (disk[v] = None => disk'[v] = None)
  BY <1>2 DEF TypeInv, TypeOK, StoreTypeOK
<1>5. StoreTypeOK'
  <2>1. mem' \in [Workers -> Record \cup {None}]
    BY <1>2, RecordFacts DEF TypeInv, TypeOK, StoreTypeOK
  <2>2. disk' \in [Workers -> Record \cup {None}]
    BY <1>2, RecordFacts DEF TypeInv, TypeOK, StoreTypeOK
  <2>3. floor' \in [Workers -> 0..MaxCaptures]
    BY <1>1 DEF Expire, TypeInv, TypeOK, StoreTypeOK
  <2> QED BY <2>1, <2>2, <2>3 DEF Expire, TypeInv, TypeOK, StoreTypeOK
<1>6. JobTypeOK'
  BY DEF Expire, job, TypeInv, TypeOK, JobTypeOK
<1>7. \A v \in Workers : /\ mem[v] # None => /\ mem'[v] # None /\ mem'[v].want = mem[v].want
                                             /\ mem'[v].cap = mem[v].cap
                         /\ disk[v] # None => /\ disk'[v] # None /\ disk'[v].want = disk[v].want
                                              /\ disk'[v].cap = disk[v].cap
  BY <1>3, <1>4, RecordFacts DEF TypeInv, TypeOK, StoreTypeOK
<1>8. StoppedOK'
  BY <1>3 DEF Expire, job, TypeInv, StoppedOK, Idle
<1>9. JobOK'
  <2>1. Working /\ Reconciling => worker \in Workers /\ mem[worker] # None
    BY DEF TypeInv, JobOK, RecordsOK, InHand
  <2> QED BY <1>7, <2>1 DEF Expire, job, TypeInv, JobOK, Working, Creating, Reconciling, Desired, want
<1>10. RecordsOK'
  <2>1. InHand' = InHand /\ Reconciling' = Reconciling /\ queue' = queue /\ op' = op
    BY DEF Expire, job, InHand, Working, Reconciling
  <2>2. (Reconciling \/ op = "prune" => queue \in SUBSET Workers) /\ (Reconciling => InHand \in SUBSET Workers)
    BY DEF TypeInv, TypeOK, JobTypeOK, JobOK, InHand, Working
  <2> QED BY <1>3, <1>4, <1>7, <2>1, <2>2 DEF TypeInv, RecordsOK
<1> QED
  BY <1>5, <1>6, <1>8, <1>9, <1>10 DEF TypeInv, TypeOK

LEMMA StubExitsType ==
  ASSUME TypeInv, NEW w \in Workers, NEW n \in Names, StubExits(w, n)
  PROVE  TypeInv'
<1> DEFINE s == Flagged(docker[w][n], docker[w][n].attached, FALSE)
<1>1. s \in Stub /\ s # None
  <2>1. docker[w][n] \in Stub
    BY DEF StubExits, TypeInv, TypeOK, StoreTypeOK
  <2>2. docker[w][n].attached \in BOOLEAN
    BY <2>1, StubFacts
  <2> QED BY <2>1, <2>2, StubFacts
<1>2. docker' = [docker EXCEPT ![w][n] = s]
  BY DEF StubExits
<1> HIDE DEF s
<1>3. docker' \in [Workers -> [Names -> Stub \cup {None}]]
  <2>1. docker \in [Workers -> [Names -> Stub \cup {None}]]
    BY DEF TypeInv, TypeOK, StoreTypeOK
  <2> QED BY <1>1, <1>2, <2>1
<1>4. \A v \in Workers, m \in Names : docker[v][m] # None => docker'[v][m] # None
  BY <1>1, <1>2 DEF TypeInv, TypeOK, StoreTypeOK
<1>5. StoreTypeOK'
  BY <1>3 DEF StubExits, TypeInv, TypeOK, StoreTypeOK
<1>6. JobTypeOK'
  BY DEF StubExits, Moved, held, TypeInv, TypeOK, JobTypeOK
<1>7. StoppedOK'
  BY DEF StubExits, Moved, held, TypeInv, StoppedOK, Idle, Working
<1>8. JobOK' /\ RecordsOK'
  BY <1>4 DEF StubExits, Moved, held, TypeInv, JobOK, RecordsOK, InHand, Working, Creating, Reconciling, Desired, want
<1> QED
  BY <1>5, <1>6, <1>7, <1>8 DEF TypeInv, TypeOK

LEMMA PullImageType ==
  ASSUME TypeInv, PullImage
  PROVE  TypeInv'
<1>1. StoreTypeOK'
  BY DEF PullImage, TypeInv, TypeOK, StoreTypeOK
<1>2. JobTypeOK'
  BY DEF PullImage, Moved, held, TypeInv, TypeOK, JobTypeOK
<1>3. StoppedOK'
  BY DEF PullImage, Moved, held, TypeInv, StoppedOK, Idle
<1>4. JobOK' /\ RecordsOK'
  BY DEF PullImage, Moved, held, TypeInv, JobOK, RecordsOK, InHand, Working, Creating, Reconciling, Desired, want
<1> QED
  BY <1>1, <1>2, <1>3, <1>4 DEF TypeInv, TypeOK

LEMMA CrashType ==
  ASSUME TypeInv, Crash
  PROVE  TypeInv'
<1>1. StoreTypeOK'
  BY DEF Crash, TypeInv, TypeOK, StoreTypeOK
<1>2. JobTypeOK'
  BY NoPlanType DEF Crash, Release, Begin, JobTypeOK, Phases
<1>3. StoppedOK' /\ JobOK' /\ RecordsOK'
  BY DEF Crash, Release, Begin, TypeInv, StoppedOK, Idle, JobOK, RecordsOK, Working, Creating, Reconciling, NoPlan
<1> QED
  BY <1>1, <1>2, <1>3 DEF TypeInv, TypeOK

LEMMA TypeNext == TypeInv /\ [Next]_vars => TypeInv'
<1> SUFFICES ASSUME TypeInv, [Next]_vars PROVE TypeInv'
  OBVIOUS
<1>1. CASE Requests
  BY <1>1, UpsertType DEF Requests
<1>2. CASE Restart
  BY <1>2, RestartType
<1>3. CASE Prune
  BY <1>3, PruneType
<1>4. CASE Step
  BY <1>4, NextRecordType, LastRecordType, InspectImageType, ListManagedType, RemoveStaleType,
     CreateStubType, DropStubType, ConnectStubType, StartStubType, UndoStubType,
     FinishUpsertType, FinishLoadType, FinishPruneType DEF Step
<1>5. CASE Environment
  BY <1>5, ExpireType, StubExitsType, PullImageType DEF Environment
<1>6. CASE Crash
  BY <1>6, CrashType
<1>7. CASE UNCHANGED vars
  BY <1>7 DEF vars, job, TypeInv, TypeOK, StoreTypeOK, JobTypeOK, StoppedOK, Idle, JobOK, RecordsOK,
       InHand, Working, Creating, Reconciling, Desired, want
<1> QED
  BY <1>1, <1>2, <1>3, <1>4, <1>5, <1>6, <1>7 DEF Next

\* The store's variables keep their types, whatever fails: in particular the
\* container list, the plan and the record a step works on are always there.
THEOREM TypeCorrect == Spec => []TypeOK
<1>1. Spec => []TypeInv
  BY InitType, TypeNext, PTL DEF Spec
<1>2. TypeInv => TypeOK
  BY DEF TypeInv
<1> QED BY <1>1, <1>2, PTL

-----------------------------------------------------------------------------
(* The order of captures: what makes replay protection survive a restart.   *)

Ordered == CapturesOK /\ AckDurable /\ WriteAhead /\ NoReplay

LEMMA TypeFacts ==
  ASSUME TypeInv
  PROVE  /\ \A w \in Workers : floor[w] \in Nat /\ acked[w] \in Nat
         /\ \A w \in Workers : mem[w] # None => mem[w] \in Record /\ mem[w].cap \in Nat
         /\ \A w \in Workers : disk[w] # None => disk[w] \in Record /\ disk[w].cap \in Nat
         /\ \A w \in Workers, n \in Names :
              docker[w][n] # None => docker[w][n] \in Stub /\ docker[w][n].cap \in Nat
         /\ queue \in SUBSET Workers /\ (Working => worker \in Workers)
         /\ InHand \in SUBSET Workers
<1>1. \A s \in Stub : s.cap \in Nat
  BY DEF Stub
<1>2. /\ \A w \in Workers : floor[w] \in Nat /\ acked[w] \in Nat
      /\ \A w \in Workers : mem[w] # None => mem[w] \in Record /\ mem[w].cap \in Nat
      /\ \A w \in Workers : disk[w] # None => disk[w] \in Record /\ disk[w].cap \in Nat
      /\ \A w \in Workers, n \in Names :
           docker[w][n] # None => docker[w][n] \in Stub /\ docker[w][n].cap \in Nat
  BY <1>1, RecordFacts DEF TypeInv, TypeOK, StoreTypeOK
<1>3. /\ queue \in SUBSET Workers /\ (Working => worker \in Workers)
      /\ InHand \in SUBSET Workers
  BY DEF TypeInv, TypeOK, JobTypeOK, JobOK, InHand
<1> QED BY <1>2, <1>3

LEMMA InitOrdered == Init => Ordered
  BY DEF Init, Idle, Legacy, Ordered, CapturesOK, AckDurable, WriteAhead, NoReplay, Durable,
         Reconciling, Working, InHand

\* A step of a reconciliation or a prune touches stubs only, and builds one
\* only from the record on disk.
LEMMA StubStep ==
  ASSUME TypeInv, Ordered, UNCHANGED <<up, mem, disk, floor, acked, held>>,
         Working' = Working,
         \A w \in Workers, n \in Names : docker'[w][n] # None =>
           \/ docker[w][n] # None /\ docker'[w][n].cap = docker[w][n].cap
           \/ disk[w] # None /\ docker'[w][n].cap = disk[w].cap
  PROVE  Ordered'
<1>1. CapturesOK' /\ AckDurable' /\ NoReplay'
  BY DEF held, Ordered, CapturesOK, AckDurable, NoReplay, Durable, Reconciling, InHand
<1>2. WriteAhead'
  BY TypeFacts DEF Ordered, WriteAhead
<1> QED BY <1>1, <1>2 DEF Ordered

LEMMA UpsertOrdered ==
  ASSUME TypeInv, Ordered, NEW w \in Workers, NEW cap \in 1..MaxCaptures,
         NEW c \in Contents, Upsert(w, cap, c)
  PROVE  Ordered'
<1>1. up /\ op = "idle" /\ ~Working /\ cap > floor[w] /\ (mem[w] # None => cap > mem[w].cap)
  BY DEF Upsert, Newer, TypeInv, JobOK
<1> DEFINE rec == [cap |-> cap, want |-> c, expired |-> FALSE,
                   managed |-> IF mem[w] = None THEN {} ELSE mem[w].managed]
<1>2. /\ mem' = [mem EXCEPT ![w] = rec]
      /\ \/ UNCHANGED <<disk, job>>
         \/ Begin("upsert", w, {}, "image", {}) /\ disk' = [disk EXCEPT ![w] = rec]
  BY DEF Upsert
<1>3. rec \in Record
  BY RecordFacts DEF TypeInv, TypeOK, StoreTypeOK, Record
<1>4. rec.cap = cap /\ ~rec.expired /\ rec # None
  BY <1>3, RecordFacts
<1> HIDE DEF rec
<1>5. /\ mem'[w] = rec /\ mem'[w] # None /\ mem'[w].cap = cap /\ ~mem'[w].expired
      /\ \A v \in Workers : v # w => mem'[v] = mem[v]
  BY <1>2, <1>4 DEF TypeInv, TypeOK, StoreTypeOK
<1>6. UNCHANGED <<up, docker, floor, acked>>
  BY DEF Upsert
<1>7. CASE UNCHANGED <<disk, job>>
  <2>1. CapturesOK'
    BY <1>1, <1>5, <1>6, <1>7, TypeFacts DEF Ordered, CapturesOK, job, Reconciling, Working, InHand
  <2>2. AckDurable' /\ WriteAhead' /\ NoReplay'
    BY <1>1, <1>6, <1>7 DEF Ordered, AckDurable, WriteAhead, NoReplay, Durable, job
  <2> QED BY <2>1, <2>2 DEF Ordered
<1>8. CASE Begin("upsert", w, {}, "image", {}) /\ disk' = [disk EXCEPT ![w] = rec]
  <2>1. disk'[w] = mem'[w] /\ \A v \in Workers : v # w => disk'[v] = disk[v]
    BY <1>5, <1>8 DEF TypeInv, TypeOK, StoreTypeOK
  <2>2. op' = "upsert" /\ worker' = w /\ InHand' = {w}
    BY <1>8 DEF Begin, InHand, Working
  <2>3. mem'[w].want # Bad
    BY <1>5, UpsertType DEF TypeInv, RecordsOK
  <2>4. CapturesOK'
    BY <1>1, <1>5, <1>6, <2>1, <2>2, <2>3, TypeFacts DEF Ordered, CapturesOK, Reconciling, Working
  <2>5. acked[w] < cap
    BY <1>1, TypeFacts DEF Ordered, CapturesOK, AckDurable, Durable
  <2>6. AckDurable'
    BY <1>5, <1>6, <2>1, <2>5, TypeFacts DEF Ordered, AckDurable, Durable
  <2>7. \A n \in Names : docker[w][n] # None => docker[w][n].cap < cap
    BY <1>1, TypeFacts DEF Ordered, CapturesOK, WriteAhead
  <2>8. WriteAhead'
    BY <1>5, <1>6, <2>1, <2>7, TypeFacts DEF Ordered, WriteAhead
  <2>9. NoReplay'
    BY <1>5, <1>6, <2>2, <2>5, TypeFacts DEF NoReplay
  <2> QED BY <2>4, <2>6, <2>8, <2>9 DEF Ordered
<1> QED BY <1>7, <1>8, <1>2

\* A restart that can read every file finds in memory what is on disk; a file
\* it removes covered nothing.
LEMMA RestartFinds ==
  ASSUME TypeInv, Ordered, Restart, ~Fault("read")
  PROVE  /\ \A w \in Workers :
              /\ disk'[w] = disk[w] \/ (disk'[w] = None /\ disk[w].cap = 0 /\ disk[w] # None)
              /\ disk'[w] # None /\ disk'[w].want # Bad => mem'[w] = disk[w]
              /\ disk'[w] = None \/ disk'[w].want = Bad => mem'[w] = None
         /\ UNCHANGED <<docker, floor, acked>> /\ op' = "load" /\ phase' = "next"
         /\ queue' \in SUBSET Workers
         /\ \A w \in queue' : disk[w] # None /\ disk[w].want # Bad /\ mem'[w] = disk[w]
                             /\ disk'[w] = disk[w]
<1>1. PICK left \in SUBSET {w \in Workers : disk[w] # None /\ disk[w].want = Bad} :
        LET loaded == {w \in Workers : Compatible(w)}
            keep   == loaded \cup left
        IN  /\ mem' = [w \in Workers |-> IF w \in loaded THEN disk[w] ELSE None]
            /\ disk' = [w \in Workers |-> IF w \in keep THEN disk[w] ELSE None]
            /\ Begin("load", None, loaded, "next", {})
  <2>1. PICK unread \in SUBSET {w \in Workers : disk[w] # None},
             left \in SUBSET {w \in Workers : disk[w] # None /\ disk[w].want = Bad} :
          /\ unread # {} => Fault("read")
          /\ LET loaded == {w \in Workers : Compatible(w)} \ unread
                 keep   == {w \in Workers : Compatible(w)} \cup unread \cup left
             IN  /\ mem' = [w \in Workers |-> IF w \in loaded THEN disk[w] ELSE None]
                 /\ disk' = [w \in Workers |-> IF w \in keep THEN disk[w] ELSE None]
                 /\ Begin("load", None, loaded, "next", {})
    BY DEF Restart
  <2>2. unread = {}
    BY <2>1
  <2>3. /\ {w \in Workers : Compatible(w)} \ unread = {w \in Workers : Compatible(w)}
        /\ {w \in Workers : Compatible(w)} \cup unread \cup left
             = {w \in Workers : Compatible(w)} \cup left
    BY <2>2
  <2> QED BY <2>1, <2>3
<1>2. \A w \in Workers :
        /\ disk'[w] = disk[w] \/ (disk'[w] = None /\ disk[w].cap = 0 /\ disk[w] # None)
        /\ disk'[w] # None /\ disk'[w].want # Bad => mem'[w] = disk[w]
        /\ disk'[w] = None \/ disk'[w].want = Bad => mem'[w] = None
  BY <1>1 DEF Compatible, Ordered, CapturesOK
<1>3. UNCHANGED <<docker, floor, acked>> /\ op' = "load" /\ phase' = "next"
      /\ queue' = {w \in Workers : Compatible(w)}
  BY <1>1 DEF Restart, Begin
<1>4. \A w \in queue' : disk[w] # None /\ disk[w].want # Bad /\ mem'[w] = disk[w]
                       /\ disk'[w] = disk[w]
  BY <1>1, <1>3 DEF Compatible
<1> QED BY <1>2, <1>3, <1>4

LEMMA RestartOrdered ==
  ASSUME TypeInv, Ordered, Restart, ~Fault("read")
  PROVE  Ordered'
<1>1. \A w \in Workers :
        /\ disk'[w] = disk[w] \/ (disk'[w] = None /\ disk[w].cap = 0 /\ disk[w] # None)
        /\ disk'[w] # None /\ disk'[w].want # Bad => mem'[w] = disk[w]
        /\ disk'[w] = None \/ disk'[w].want = Bad => mem'[w] = None
  BY RestartFinds
<1>2. UNCHANGED <<docker, floor, acked>> /\ op' = "load" /\ phase' = "next"
  BY RestartFinds
<1>3. \A w \in queue' : disk'[w] # None /\ mem'[w] = disk'[w]
  BY RestartFinds
<1>4. CapturesOK'
  BY <1>1, <1>2, <1>3, TypeFacts DEF Ordered, CapturesOK, Reconciling, Working, InHand
<1>5. AckDurable'
  BY <1>1, <1>2, TypeFacts DEF Ordered, AckDurable, Durable
<1>6. WriteAhead'
  BY <1>1, <1>2, TypeFacts DEF Ordered, WriteAhead
<1> QED BY <1>2, <1>4, <1>5, <1>6 DEF Ordered, NoReplay

LEMMA PruneOrdered ==
  ASSUME TypeInv, Ordered, Prune
  PROVE  Ordered'
<1>1. CapturesOK'
  BY DEF Prune, Begin, Ordered, CapturesOK, Reconciling, Working
<1>2. AckDurable' /\ WriteAhead' /\ NoReplay'
  BY DEF Prune, Begin, Ordered, AckDurable, WriteAhead, NoReplay, Durable
<1> QED BY <1>1, <1>2 DEF Ordered

LEMMA NextRecordOrdered ==
  ASSUME TypeInv, Ordered, NEW w \in Workers, NextRecord(w)
  PROVE  Ordered'
<1>1. AckDurable' /\ WriteAhead' /\ NoReplay'
  BY DEF NextRecord, Begin, Ordered, AckDurable, WriteAhead, NoReplay, Durable
<1>2. CASE op = "load"
  <2>1. CapturesOK'
    BY <1>2 DEF NextRecord, Begin, Ordered, CapturesOK, Reconciling, Working, InHand
  <2> QED BY <1>1, <2>1 DEF Ordered
<1>3. CASE op = "prune"
  <2>1. mem'[w] = None /\ \A v \in Workers : v # w => mem'[v] = mem[v]
    BY <1>3 DEF NextRecord, TypeInv, TypeOK, StoreTypeOK
  <2>2. /\ UNCHANGED <<up, disk, floor>> /\ op' = "prune" /\ worker' = w
        /\ queue' = queue \ {w} /\ w \in queue
    BY <1>3 DEF NextRecord, Begin
  <2>3. mem[w] # None /\ mem[w].expired
    BY <1>3, <2>2 DEF TypeInv, RecordsOK, Ordered, CapturesOK
  <2>4. CapturesOK'
    BY <1>3, <2>1, <2>2, <2>3, TypeFacts DEF Ordered, CapturesOK, Reconciling
  <2> QED BY <1>1, <2>4 DEF Ordered
<1> QED BY <1>2, <1>3 DEF NextRecord

LEMMA LastRecordOrdered ==
  ASSUME TypeInv, Ordered, LastRecord
  PROVE  Ordered'
<1>1. CapturesOK'
  BY DEF LastRecord, Release, Begin, Ordered, CapturesOK, Reconciling, Working
<1>2. AckDurable' /\ WriteAhead' /\ NoReplay'
  BY DEF LastRecord, Release, Begin, Ordered, AckDurable, WriteAhead, NoReplay, Durable
<1> QED BY <1>1, <1>2 DEF Ordered


LEMMA FinishUpsertOrdered ==
  ASSUME TypeInv, Ordered, FinishUpsert
  PROVE  Ordered'
<1> DEFINE rec == Reconciled(worker)
<1>1. Working /\ worker \in Workers /\ Reconciling /\ worker \in InHand /\ mem[worker] \in Record
  BY TypeFacts DEF FinishUpsert, TypeInv, JobOK, RecordsOK, Reconciling, InHand
<1>2. /\ disk[worker] # None /\ disk[worker].cap = mem[worker].cap
      /\ acked[worker] < mem[worker].cap
  BY <1>1 DEF FinishUpsert, Ordered, CapturesOK, NoReplay
<1>3. rec \in Record
  BY <1>1, RecordFacts DEF Reconciled, Record, TypeInv, TypeOK, JobTypeOK
<1>4. rec.cap = mem[worker].cap /\ rec.want = mem[worker].want /\ ~rec.expired /\ rec # None
  BY <1>3, RecordFacts DEF Reconciled
<1>5. /\ mem' = [mem EXCEPT ![worker] = rec]
      /\ disk' = disk \/ disk' = [disk EXCEPT ![worker] = rec]
      /\ acked' = acked \/ acked' = [acked EXCEPT ![worker] = mem[worker].cap]
      /\ op' = "idle" /\ UNCHANGED <<up, docker, floor>>
  BY DEF FinishUpsert, Release, Begin
<1> HIDE DEF rec
<1>6. /\ mem'[worker] = rec /\ (disk'[worker] = disk[worker] \/ disk'[worker] = rec)
      /\ acked'[worker] <= mem[worker].cap
      /\ \A v \in Workers : v # worker =>
           mem'[v] = mem[v] /\ disk'[v] = disk[v] /\ acked'[v] = acked[v]
  BY <1>1, <1>2, <1>5, TypeFacts DEF TypeInv, TypeOK, StoreTypeOK
<1>7. CapturesOK'
  BY <1>1, <1>2, <1>4, <1>5, <1>6, TypeFacts DEF Ordered, CapturesOK, Reconciling, TypeInv, RecordsOK
<1>8. AckDurable'
  <2>1. disk'[worker] # None /\ disk'[worker].cap = mem[worker].cap
    BY <1>2, <1>4, <1>6
  <2>2. mem[worker].cap \in Nat /\ floor[worker] \in Nat /\ acked'[worker] \in Nat
    BY <1>1, <1>5, TypeFacts DEF TypeInv, TypeOK, StoreTypeOK
  <2>3. \A v \in Workers : v = worker => acked'[v] <= Durable(v)'
    BY <1>5, <1>6, <2>1, <2>2 DEF Durable
  <2>4. \A v \in Workers : v # worker => acked'[v] <= Durable(v)'
    BY <1>5, <1>6 DEF Ordered, AckDurable, Durable
  <2> QED BY <2>3, <2>4 DEF AckDurable
<1>9. WriteAhead'
  BY <1>1, <1>2, <1>4, <1>5, <1>6, TypeFacts DEF Ordered, WriteAhead
<1> QED BY <1>5, <1>7, <1>8, <1>9 DEF Ordered, NoReplay

LEMMA FinishLoadOrdered ==
  ASSUME TypeInv, Ordered, FinishLoad
  PROVE  Ordered'
<1> DEFINE rec == Reconciled(worker)
<1>1. Working /\ worker \in Workers /\ Reconciling /\ worker \in InHand /\ mem[worker] \in Record
  BY TypeFacts DEF FinishLoad, Finished, Applied, TypeInv, JobOK, RecordsOK, Reconciling, InHand, Working
<1>2. disk[worker] # None /\ disk[worker].cap = mem[worker].cap
  BY <1>1 DEF Ordered, CapturesOK
<1>3. rec \in Record
  BY <1>1, RecordFacts DEF Reconciled, Record, TypeInv, TypeOK, JobTypeOK
<1>4. rec.cap = mem[worker].cap /\ rec.want = mem[worker].want /\ ~rec.expired /\ rec # None
  BY <1>3, RecordFacts DEF Reconciled
<1>5. /\ mem' = mem \/ mem' = [mem EXCEPT ![worker] = rec]
      /\ disk' = disk \/ disk' = [disk EXCEPT ![worker] = rec]
      /\ op' = "load" /\ queue' = queue /\ phase' = "next" /\ UNCHANGED <<up, docker, floor, acked>>
      /\ op = "load"
  BY DEF FinishLoad, Begin
<1> HIDE DEF rec
<1>7. /\ mem'[worker] = mem[worker] \/ mem'[worker] = rec
      /\ disk'[worker] = disk[worker] \/ disk'[worker] = rec
      /\ \A v \in Workers : v # worker => mem'[v] = mem[v] /\ disk'[v] = disk[v]
  BY <1>1, <1>5, TypeFacts DEF TypeInv, TypeOK, StoreTypeOK
<1>8. CapturesOK'
  BY <1>1, <1>2, <1>4, <1>5, <1>7, TypeFacts DEF Ordered, CapturesOK, Reconciling, InHand, Working, TypeInv, RecordsOK
<1>9. AckDurable' /\ WriteAhead'
  BY <1>1, <1>2, <1>4, <1>5, <1>7, TypeFacts DEF Ordered, AckDurable, WriteAhead, Durable
<1> QED BY <1>5, <1>8, <1>9 DEF Ordered, NoReplay

LEMMA FinishPruneOrdered ==
  ASSUME TypeInv, Ordered, FinishPrune
  PROVE  Ordered'
<1>1. worker \in Workers /\ Working
  BY DEF FinishPrune, Finished, Applied, TypeInv, JobOK, Working
<1>2. mem[worker] = None /\ up /\ (disk[worker] # None => disk[worker].cap <= floor[worker])
  BY <1>1 DEF FinishPrune, Ordered, CapturesOK, TypeInv, StoppedOK, Idle
<1>3. /\ disk' = disk \/ disk' = [disk EXCEPT ![worker] = None]
      /\ op' = "prune" /\ queue' = queue /\ phase' = "next"
      /\ UNCHANGED <<up, mem, docker, floor, acked>>
  BY DEF FinishPrune, Begin
<1>4. /\ disk'[worker] = disk[worker] \/ disk'[worker] = None
      /\ \A v \in Workers : v # worker => disk'[v] = disk[v]
  BY <1>1, <1>3 DEF TypeInv, TypeOK, StoreTypeOK
<1>5. CapturesOK'
  BY <1>1, <1>3, <1>4 DEF FinishPrune, Ordered, CapturesOK, Reconciling, Working
<1>6. AckDurable'
  BY <1>1, <1>2, <1>3, <1>4, TypeFacts DEF Ordered, AckDurable, Durable
<1>7. WriteAhead'
  BY <1>1, <1>2, <1>3, <1>4, TypeFacts DEF Ordered, WriteAhead
<1> QED BY <1>3, <1>5, <1>6, <1>7 DEF Ordered, NoReplay

LEMMA CrashOrdered ==
  ASSUME TypeInv, Ordered, Crash
  PROVE  Ordered'
<1>1. CapturesOK'
  BY DEF Crash, Release, Begin, Ordered, CapturesOK, Reconciling
<1>2. AckDurable' /\ WriteAhead' /\ NoReplay'
  BY DEF Crash, Release, Begin, Ordered, AckDurable, WriteAhead, NoReplay, Durable
<1> QED BY <1>1, <1>2 DEF Ordered

LEMMA ExpireOrdered ==
  ASSUME TypeInv, Ordered, NEW w \in Workers, Expire(w)
  PROVE  Ordered'
<1> DEFINE record == IF up THEN mem[w] ELSE disk[w]
<1>1. record # None /\ record \in Record /\ record.want # Bad /\ record.cap \in Nat
  BY TypeFacts DEF Expire
<1>2. /\ ~(op = "upsert" /\ worker = w)
      /\ mem' = IF up THEN [mem EXCEPT ![w] = Aged(@)] ELSE mem
      /\ disk' = IF disk[w] = None THEN disk ELSE [disk EXCEPT ![w] = Aged(@)]
      /\ floor' = [floor EXCEPT ![w] = IF record.cap > @ THEN record.cap ELSE @]
      /\ UNCHANGED <<up, docker, acked, job>>
  BY DEF Expire
<1>3. \A v \in Workers : v # w => mem'[v] = mem[v] /\ disk'[v] = disk[v] /\ floor'[v] = floor[v]
  BY <1>2 DEF TypeInv, TypeOK, StoreTypeOK
<1>4. /\ floor'[w] = IF record.cap > floor[w] THEN record.cap ELSE floor[w]
      /\ floor'[w] \in Nat /\ floor'[w] >= floor[w] /\ floor'[w] >= record.cap
  <2>1. floor'[w] = IF record.cap > floor[w] THEN record.cap ELSE floor[w]
    BY <1>2 DEF TypeInv, TypeOK, StoreTypeOK
  <2> QED BY <2>1, <1>1, TypeFacts
<1>5. /\ mem'[w] = None <=> mem[w] = None
      /\ mem[w] # None => mem'[w].cap = mem[w].cap
      /\ ~up => mem'[w] = None
  <2>1. CASE up
    <3>1. mem[w] \in Record
      BY <1>1, <2>1
    <3>2. mem' = [mem EXCEPT ![w] = Aged(mem[w])]
      BY <1>2, <2>1
    <3>3. mem'[w] = Aged(mem[w])
      BY <3>2 DEF TypeInv, TypeOK, StoreTypeOK
    <3> QED BY <3>1, <3>3, <2>1, RecordFacts
  <2>2. CASE ~up
    BY <1>2, <2>2 DEF TypeInv, StoppedOK
  <2> QED BY <2>1, <2>2
<1>6. /\ disk'[w] = None <=> disk[w] = None
      /\ disk[w] # None => disk'[w].cap = disk[w].cap /\ disk'[w].want = disk[w].want
  BY <1>2, RecordFacts, TypeFacts DEF TypeInv, TypeOK, StoreTypeOK
<1>7. disk[w] # None => disk[w].cap <= record.cap
  BY TypeFacts, <1>1 DEF Ordered, CapturesOK
<1>8. up => mem[w] # None /\ record.cap = mem[w].cap
  BY <1>1
<1>9. mem'[w] # None /\ mem'[w].expired => mem'[w].cap <= floor'[w]
  BY <1>4, <1>5, <1>8
<1>10. /\ UNCHANGED <<up, docker, acked, op, worker, queue>> /\ InHand' = InHand
       /\ Working' = Working /\ Reconciling' = Reconciling
  BY <1>2 DEF job, InHand, Working, Reconciling
<1>11. CapturesOK'
  <2>1. op = "prune" /\ w \in queue => mem'[w].expired
    <3>1. op = "prune" => up /\ mem[w] \in Record \cup {None}
      BY DEF TypeInv, TypeOK, StoreTypeOK, StoppedOK, Idle
    <3> QED BY <1>1, <1>2, <3>1, RecordFacts DEF TypeInv, TypeOK, StoreTypeOK
  <2>2. up /\ mem'[w] = None /\ disk'[w] # None => disk'[w].cap <= floor'[w]
    BY <1>5, <1>8
  <2> QED BY <1>3, <1>4, <1>5, <1>6, <1>7, <1>9, <1>10, <2>1, <2>2, TypeFacts DEF Ordered, CapturesOK
<1>12. AckDurable'
  BY <1>3, <1>4, <1>6, <1>7, <1>10, TypeFacts DEF Ordered, AckDurable, Durable
<1>13. WriteAhead'
  BY <1>3, <1>4, <1>6, <1>10, TypeFacts DEF Ordered, WriteAhead
<1>14. NoReplay'
  BY <1>2, <1>3, <1>10 DEF Ordered, NoReplay
<1> QED BY <1>11, <1>12, <1>13, <1>14 DEF Ordered

\* The steps of a reconciliation or a prune, a stub's exit and a pull.
LEMMA StubStepsOrdered ==
  ASSUME TypeInv, Ordered
  PROVE  /\ InspectImage \/ ListManaged \/ PullImage => Ordered'
         /\ ConnectStub \/ StartStub \/ UndoStub => Ordered'
         /\ \A n \in Names : RemoveStale(n) \/ CreateStub(n) \/ DropStub(n) => Ordered'
         /\ \A w \in Workers, n \in Names : StubExits(w, n) => Ordered'
<1>1. ASSUME InspectImage \/ ListManaged \/ PullImage PROVE Ordered'
  BY <1>1, StubStep DEF InspectImage, ListManaged, PullImage, Abort, Trouble, Moved, held, Working
<1>2. ASSUME Creating, NEW s \in {None, Flagged(Current, TRUE, Current.running),
                                  Flagged(Current, Current.attached, TRUE)},
             docker' = docker \/ SetStub(cur, s)
      PROVE  \A w \in Workers, n \in Names : docker'[w][n] # None =>
               docker[w][n] # None /\ docker'[w][n].cap = docker[w][n].cap
  <2>1. s = None \/ s.cap = Current.cap
    BY <1>2 DEF Flagged
  <2>2. worker \in Workers /\ cur \in Names /\ Current # None
    BY <1>2, CurrentType
  <2>3. docker' = docker \/ docker' = [docker EXCEPT ![worker][cur] = s]
    BY <1>2 DEF SetStub
  <2>4. docker \in [Workers -> [Names -> Stub \cup {None}]]
    BY DEF TypeInv, TypeOK, StoreTypeOK
  <2> QED BY <2>1, <2>2, <2>3, <2>4 DEF Current
<1>3. ASSUME ConnectStub PROVE Ordered'
  <2>1. Creating /\ (docker' = docker \/ SetStub(cur, Flagged(Current, TRUE, Current.running)))
    BY <1>3 DEF ConnectStub, Creating, Attach
  <2>2. UNCHANGED <<up, mem, disk, floor, acked, held>> /\ Working' = Working
    BY <1>3 DEF ConnectStub, Goto, Fail, Trouble, held, Working
  <2> QED BY <1>2, <2>1, <2>2, StubStep
<1>4. ASSUME StartStub PROVE Ordered'
  <2>1. Creating /\ (docker' = docker \/ SetStub(cur, Flagged(Current, Current.attached, TRUE)))
    BY <1>4 DEF StartStub, Creating, Run
  <2>2. UNCHANGED <<up, mem, disk, floor, acked, held>> /\ Working' = Working
    BY <1>4 DEF StartStub, Fail, Trouble, held, Working
  <2> QED BY <1>2, <2>1, <2>2, StubStep
<1>5. ASSUME UndoStub PROVE Ordered'
  <2>1. Creating /\ (docker' = docker \/ SetStub(cur, None))
    BY <1>5 DEF UndoStub, Creating
  <2>2. UNCHANGED <<up, mem, disk, floor, acked, held>> /\ Working' = Working
    BY <1>5 DEF UndoStub, Give, held, Working
  <2> QED BY <1>2, <2>1, <2>2, StubStep
<1>6. ASSUME NEW n \in Names, NEW s, worker \in Workers, docker' = docker \/ SetStub(n, s)
      PROVE  \A w \in Workers, m \in Names :
               docker'[w][m] = docker[w][m] \/ (w = worker /\ docker'[w][m] = s)
  BY <1>6 DEF SetStub, TypeInv, TypeOK, StoreTypeOK
<1>7. ASSUME NEW n \in Names, RemoveStale(n) \/ DropStub(n) PROVE Ordered'
  <2>1. UNCHANGED <<up, mem, disk, floor, acked, held>> /\ Working' = Working /\ Working
    BY <1>7 DEF RemoveStale, DropStub, Give, held, Working
  <2>2. docker' = docker \/ SetStub(n, None)
    BY <1>7 DEF RemoveStale, DropStub
  <2> QED BY <1>6, <2>1, <2>2, StubStep, TypeFacts
<1>8. ASSUME NEW n \in Names, CreateStub(n) PROVE Ordered'
  <2>1. UNCHANGED <<up, mem, disk, floor, acked, held>> /\ Working' = Working /\ Working
    BY <1>8 DEF CreateStub, Give, held, Working
  <2>2. docker' = docker \/ SetStub(n, NewStub(n))
    BY <1>8 DEF CreateStub
  <2>3. Reconciling /\ worker \in InHand /\ worker \in Workers
    BY <1>8, <2>1 DEF CreateStub, TypeInv, JobOK, InHand
  <2>4. disk[worker] # None /\ NewStub(n).cap = disk[worker].cap
    BY <2>3 DEF NewStub, Ordered, CapturesOK
  <2> HIDE DEF NewStub
  <2> QED BY <1>6, <2>1, <2>2, <2>3, <2>4, StubStep
<1>9. ASSUME NEW w \in Workers, NEW n \in Names, StubExits(w, n) PROVE Ordered'
  <2> DEFINE s == Flagged(docker[w][n], docker[w][n].attached, FALSE)
  <2>1. docker[w][n] \in Stub /\ docker[w][n] # None
    BY <1>9, TypeFacts DEF StubExits
  <2>2. s.cap = docker[w][n].cap
    BY <2>1, StubFacts
  <2>3. docker' = [docker EXCEPT ![w][n] = s]
    BY <1>9 DEF StubExits
  <2> HIDE DEF s
  <2>4. \A v \in Workers, m \in Names : docker'[v][m] # None =>
          docker[v][m] # None /\ docker'[v][m].cap = docker[v][m].cap
    BY <2>1, <2>2, <2>3 DEF TypeInv, TypeOK, StoreTypeOK
  <2>5. UNCHANGED <<up, mem, disk, floor, acked, held>> /\ Working' = Working
    BY <1>9 DEF StubExits, Moved, held, Working
  <2> QED BY <2>4, <2>5, StubStep
<1> QED BY <1>1, <1>3, <1>4, <1>5, <1>7, <1>8, <1>9

LEMMA OrderedNext == ~Fault("read") /\ TypeInv /\ Ordered /\ [Next]_vars => Ordered'
<1> SUFFICES ASSUME ~Fault("read"), TypeInv, Ordered, [Next]_vars PROVE Ordered'
  OBVIOUS
<1>1. CASE Requests
  BY <1>1, UpsertOrdered DEF Requests
<1>2. CASE Restart
  BY <1>2, RestartOrdered
<1>3. CASE Prune
  BY <1>3, PruneOrdered
<1>4. CASE Step
  BY <1>4, NextRecordOrdered, LastRecordOrdered, StubStepsOrdered, FinishUpsertOrdered,
     FinishLoadOrdered, FinishPruneOrdered DEF Step
<1>5. CASE Environment
  BY <1>5, ExpireOrdered, StubStepsOrdered DEF Environment
<1>6. CASE Crash
  BY <1>6, CrashOrdered
<1>7. CASE UNCHANGED vars
  BY <1>7 DEF vars, job, Ordered, CapturesOK, AckDurable, WriteAhead, NoReplay, Durable,
       Reconciling, Working, InHand
<1> QED
  BY <1>1, <1>2, <1>3, <1>4, <1>5, <1>6, <1>7 DEF Next

LEMMA OrderedAlways == ASSUME ~Fault("read") PROVE Spec => [](TypeInv /\ Ordered)
<1>1. Init => TypeInv /\ Ordered
  BY InitType, InitOrdered
<1>2. TypeInv /\ Ordered /\ [Next]_vars => (TypeInv /\ Ordered)'
  BY TypeNext, OrderedNext
<1> QED BY <1>1, <1>2, PTL DEF Spec

\* Every snapshot answered 200 outlives a crash at any point, as long as Load
\* can read the files it finds: store.go's write-ahead and its deletions.
THEOREM AckDurableAlways == ASSUME ~Fault("read") PROVE Spec => []AckDurable
<1>1. TypeInv /\ Ordered => AckDurable
  BY DEF Ordered
<1> QED BY <1>1, OrderedAlways, PTL

\* No stub is ever built from a snapshot that is not yet on disk (store.go:122
\* before 125), whatever call fails but a read of the state directory.
THEOREM WriteAheadAlways == ASSUME ~Fault("read") PROVE Spec => []WriteAhead
<1>1. TypeInv /\ Ordered => WriteAhead
  BY DEF Ordered
<1> QED BY <1>1, OrderedAlways, PTL

\* Replay protection (store.go:107-110) over any number of restarts, failed
\* writes and expiries: what reaches the reconciliation is newer than all that
\* was answered 200.
THEOREM NoReplayAlways == ASSUME ~Fault("read") PROVE Spec => []NoReplay
<1>1. TypeInv /\ Ordered => NoReplay
  BY DEF Ordered
<1> QED BY <1>1, OrderedAlways, PTL

\* A stub only ever moves to a newer snapshot: the record being reconciled is
\* at least as new as what any of its worker's stubs was built from.
THEOREM StubsAdvanceAlways == ASSUME ~Fault("read") PROVE Spec => []StubsAdvance
<1>1. TypeInv /\ Ordered => StubsAdvance
  <2> SUFFICES ASSUME TypeInv, Ordered, Reconciling, phase # "next", NEW n \in Names,
                      docker[worker][n] # None
               PROVE  docker[worker][n].cap <= mem[worker].cap
    BY DEF StubsAdvance
  <2>1. worker \in Workers /\ worker \in InHand
    BY TypeFacts DEF Working, InHand
  <2>2. disk[worker] # None /\ disk[worker].cap = mem[worker].cap
    BY <2>1 DEF Ordered, CapturesOK
  <2> QED BY <2>1, <2>2 DEF Ordered, WriteAhead
<1> QED BY <1>1, OrderedAlways, PTL

\* The inductive invariant the runs check is an invariant.
THEOREM IInvAlways == ASSUME ~Fault("read") PROVE Spec => []IInv
<1>1. TypeInv /\ Ordered => IInv
  BY DEF Ordered, IInv
<1> QED BY <1>1, OrderedAlways, PTL

-----------------------------------------------------------------------------
(* The store follows Ledger, step by step.                                  *)

LEMMA CapsAt ==
  /\ \A w \in Workers : /\ HeldCaps[w] = Cap(mem[w]) /\ FiledCaps[w] = Cap(disk[w])
                        /\ TakenCaps[w] = IF op = "upsert" /\ worker = w THEN Cap(mem[w]) ELSE 0
  /\ Cap(None) = 0 /\ \A r \in Record : Cap(r) = r.cap
<1>1. \A r \in Record : r # None
  BY RecordFacts
<1> QED BY <1>1 DEF HeldCaps, FiledCaps, TakenCaps, Cap

LEMMA CapsType ==
  ASSUME TypeInv
  PROVE  /\ HeldCaps \in [Workers -> Nat] /\ FiledCaps \in [Workers -> Nat]
         /\ TakenCaps \in [Workers -> Nat] /\ acked \in [Workers -> Nat]
<1>1. \A w \in Workers : Cap(mem[w]) \in Nat /\ Cap(disk[w]) \in Nat
  BY TypeFacts DEF Cap
<1>2. acked \in [Workers -> Nat]
  BY DEF TypeInv, TypeOK, StoreTypeOK
<1> QED BY <1>1, <1>2 DEF HeldCaps, FiledCaps, TakenCaps

LEMMA CapsTypeNext ==
  ASSUME TypeInv'
  PROVE  /\ HeldCaps' \in [Workers -> Nat] /\ FiledCaps' \in [Workers -> Nat]
         /\ TakenCaps' \in [Workers -> Nat]
<1>1. /\ mem' \in [Workers -> Record \cup {None}]
      /\ disk' \in [Workers -> Record \cup {None}]
  BY DEF TypeInv, TypeOK, StoreTypeOK
<1>2. \A w \in Workers : Cap(mem'[w]) \in Nat /\ Cap(disk'[w]) \in Nat
  BY <1>1, RecordFacts DEF Cap
<1> QED BY <1>2 DEF HeldCaps, FiledCaps, TakenCaps

\* Two functions that agree but for one worker.
LEMMA Pointwise ==
  ASSUME NEW f \in [Workers -> Nat], NEW g \in [Workers -> Nat], NEW w \in Workers,
         \A v \in Workers : v # w => g[v] = f[v]
  PROVE  g = [f EXCEPT ![w] = g[w]] /\ (g[w] = f[w] => g = f)
  OBVIOUS

\* A step of a reconciliation, a stub's exit, a pull, the start of an operation
\* that takes no snapshot, its next record and its end.
LEMMA CapturesUnseen ==
  ASSUME UNCHANGED <<up, mem, disk, floor, acked>>,
         UNCHANGED <<op, worker>> \/ (op # "upsert" /\ op' # "upsert")
  PROVE  UNCHANGED L!vars
<1>1. UNCHANGED <<HeldCaps, FiledCaps>>
  BY DEF HeldCaps, FiledCaps
<1>2. UNCHANGED TakenCaps
  BY DEF TakenCaps
<1> QED BY <1>1, <1>2 DEF L!vars

LEMMA InitLedger == Init => L!Init
<1> SUFFICES ASSUME Init PROVE L!Init
  OBVIOUS
<1>1. \A w \in Workers : Cap(mem[w]) = 0 /\ Cap(disk[w]) = 0
  <2>1. Legacy.cap = 0
    BY DEF Legacy
  <2>2. \A w \in Workers : mem[w] = None /\ disk[w] \in {None, Legacy}
    BY DEF Init
  <2> QED BY <2>1, <2>2 DEF Cap
<1>2. HeldCaps = L!Nothing /\ FiledCaps = L!Nothing /\ TakenCaps = L!Nothing
  BY <1>1 DEF HeldCaps, FiledCaps, TakenCaps, L!Nothing
<1> QED BY <1>2 DEF Init, L!Init, L!Nothing

LEMMA UpsertAdmits ==
  ASSUME TypeInv, Ordered, TypeInv', NEW w \in Workers, NEW cap \in 1..MaxCaptures,
         NEW c \in Contents, Upsert(w, cap, c)
  PROVE  L!Admit(w, cap)
<1> DEFINE rec == [cap |-> cap, want |-> c, expired |-> FALSE,
                   managed |-> IF mem[w] = None THEN {} ELSE mem[w].managed]
<1>1. /\ up /\ op = "idle" /\ cap > floor[w] /\ (mem[w] # None => cap > mem[w].cap)
      /\ UNCHANGED <<up, floor, acked>>
  BY DEF Upsert, Newer
<1>2. /\ mem' = [mem EXCEPT ![w] = rec]
      /\ \/ UNCHANGED <<disk, job>>
         \/ Begin("upsert", w, {}, "image", {}) /\ disk' = [disk EXCEPT ![w] = rec]
  BY DEF Upsert
<1>3. rec \in Record /\ rec.cap = cap
  BY RecordFacts DEF TypeInv, TypeOK, StoreTypeOK, Record
<1>4. Cap(rec) = cap
  BY <1>3, CapsAt
<1> HIDE DEF rec
<1>5. HeldCaps' = [HeldCaps EXCEPT ![w] = cap]
  <2>1. mem'[w] = rec /\ \A v \in Workers : v # w => mem'[v] = mem[v]
    BY <1>2 DEF TypeInv, TypeOK, StoreTypeOK
  <2>2. HeldCaps'[w] = cap /\ \A v \in Workers : v # w => HeldCaps'[v] = HeldCaps[v]
    BY <1>4, <2>1 DEF HeldCaps
  <2> QED BY <2>2, Pointwise, CapsType, CapsTypeNext
<1>6. cap > HeldCaps[w] /\ cap > FiledCaps[w] /\ TakenCaps[w] = 0
  <2>1. cap > HeldCaps[w] /\ TakenCaps[w] = 0
    BY <1>1, CapsAt DEF Cap
  <2>2. disk[w] # None => disk[w].cap < cap
    BY <1>1, TypeFacts DEF Ordered, CapturesOK
  <2> QED BY <2>1, <2>2, CapsAt DEF Cap
<1>7. CASE UNCHANGED <<disk, job>>
  <2>1. UNCHANGED <<FiledCaps, TakenCaps>>
    BY <1>1, <1>7 DEF FiledCaps, TakenCaps, job
  <2> QED BY <1>1, <1>5, <1>6, <2>1 DEF L!Admit
<1>8. CASE Begin("upsert", w, {}, "image", {}) /\ disk' = [disk EXCEPT ![w] = rec]
  <2>1. disk'[w] = rec /\ mem'[w] = rec /\ \A v \in Workers : v # w => disk'[v] = disk[v]
    BY <1>2, <1>8 DEF TypeInv, TypeOK, StoreTypeOK
  <2>2. FiledCaps' = [FiledCaps EXCEPT ![w] = cap]
    <3>1. FiledCaps'[w] = cap /\ \A v \in Workers : v # w => FiledCaps'[v] = FiledCaps[v]
      BY <1>4, <2>1 DEF FiledCaps
    <3> QED BY <3>1, Pointwise, CapsType, CapsTypeNext
  <2>3. TakenCaps' = [TakenCaps EXCEPT ![w] = cap]
    <3>1. op' = "upsert" /\ worker' = w
      BY <1>8 DEF Begin
    <3>2. TakenCaps'[w] = cap /\ \A v \in Workers : v # w => TakenCaps'[v] = TakenCaps[v]
      BY <1>1, <1>4, <2>1, <3>1 DEF TakenCaps
    <3> QED BY <3>2, Pointwise, CapsType, CapsTypeNext
  <2> QED BY <1>1, <1>5, <1>6, <2>2, <2>3 DEF L!Admit
<1> QED BY <1>2, <1>7, <1>8

LEMMA FinishUpsertAnswers ==
  ASSUME TypeInv, Ordered, TypeInv', FinishUpsert
  PROVE  worker \in Workers /\ L!Answer(worker)
<1> DEFINE rec == Reconciled(worker)
<1>1. /\ op = "upsert" /\ Working /\ worker \in Workers /\ worker \in InHand /\ Reconciling
      /\ rec \in Record /\ rec.cap = mem[worker].cap
      /\ mem[worker] \in Record /\ mem[worker].cap > 0
  BY ReconciledFacts DEF FinishUpsert, TypeInv, JobOK, Reconciling, InHand
<1>2. disk[worker] \in Record /\ disk[worker].cap = mem[worker].cap
  BY <1>1, TypeFacts DEF Ordered, CapturesOK
<1>3. /\ mem' = [mem EXCEPT ![worker] = rec]
      /\ disk' = disk \/ disk' = [disk EXCEPT ![worker] = rec]
      /\ acked' \in {acked, [acked EXCEPT ![worker] = mem[worker].cap]}
      /\ op' = "idle" /\ UNCHANGED <<up, floor>>
  BY DEF FinishUpsert, Release, Begin
<1> HIDE DEF rec
<1>4. /\ Cap(rec) = mem[worker].cap /\ Cap(mem[worker]) = mem[worker].cap
      /\ Cap(disk[worker]) = mem[worker].cap
  BY <1>1, <1>2, CapsAt
<1>5. UNCHANGED <<HeldCaps, FiledCaps>>
  <2>1. /\ mem'[worker] = rec /\ disk'[worker] \in {disk[worker], rec}
        /\ \A v \in Workers : v # worker => mem'[v] = mem[v] /\ disk'[v] = disk[v]
    BY <1>1, <1>3 DEF TypeInv, TypeOK, StoreTypeOK
  <2>2. \A v \in Workers : Cap(mem'[v]) = Cap(mem[v]) /\ Cap(disk'[v]) = Cap(disk[v])
    BY <1>4, <2>1
  <2> QED BY <2>2 DEF HeldCaps, FiledCaps
<1>6. TakenCaps[worker] = mem[worker].cap /\ TakenCaps' = [TakenCaps EXCEPT ![worker] = 0]
  <2>1. TakenCaps[worker] = mem[worker].cap
    BY <1>1, <1>4, CapsAt
  <2>2. TakenCaps'[worker] = 0 /\ \A v \in Workers : v # worker => TakenCaps'[v] = TakenCaps[v]
    BY <1>1, <1>3 DEF TakenCaps
  <2> QED BY <1>1, <2>1, <2>2, Pointwise, CapsType, CapsTypeNext
<1> QED BY <1>1, <1>3, <1>5, <1>6 DEF L!Answer

\* A prune takes the record away only below the floor.
LEMMA NextRecordForgets ==
  ASSUME TypeInv, Ordered, TypeInv', NEW w \in Workers, NextRecord(w)
  PROVE  L!Forget(w) \/ UNCHANGED L!vars
<1>1. CASE op = "load"
  BY <1>1, CapturesUnseen DEF NextRecord, Begin
<1>2. CASE op = "prune"
  <2>1. mem'[w] = None /\ \A v \in Workers : v # w => mem'[v] = mem[v]
    BY <1>2 DEF NextRecord, TypeInv, TypeOK, StoreTypeOK
  <2>2. UNCHANGED <<up, disk, floor, acked>> /\ op' = "prune" /\ w \in queue
    BY <1>2 DEF NextRecord, Begin
  <2>3. up /\ mem[w] \in Record /\ mem[w].cap <= floor[w]
    BY <1>2, <2>2, TypeFacts DEF TypeInv, RecordsOK, StoppedOK, Idle, Ordered, CapturesOK
  <2>4. HeldCaps[w] <= floor[w] /\ TakenCaps[w] = 0
    BY <1>2, <2>3, CapsAt
  <2>5. HeldCaps' = [HeldCaps EXCEPT ![w] = 0]
    <3>1. HeldCaps'[w] = 0 /\ \A v \in Workers : v # w => HeldCaps'[v] = HeldCaps[v]
      BY <2>1, CapsAt DEF HeldCaps
    <3> QED BY <3>1, Pointwise, CapsType, CapsTypeNext
  <2>6. UNCHANGED <<FiledCaps, TakenCaps>>
    BY <1>2, <2>2 DEF FiledCaps, TakenCaps
  <2> QED BY <2>2, <2>3, <2>4, <2>5, <2>6 DEF L!Forget
<1> QED BY <1>1, <1>2 DEF NextRecord

LEMMA FinishPruneForgets ==
  ASSUME TypeInv, Ordered, TypeInv', FinishPrune
  PROVE  worker \in Workers /\ L!Forget(worker)
<1>1. worker \in Workers /\ Working /\ op = "prune"
  BY DEF FinishPrune, Finished, Applied, TypeInv, JobOK, Working
<1>2. mem[worker] = None /\ up /\ (disk[worker] # None => disk[worker].cap <= floor[worker])
  BY <1>1 DEF Ordered, CapturesOK, TypeInv, StoppedOK, Idle
<1>3. /\ disk' = disk \/ disk' = [disk EXCEPT ![worker] = None]
      /\ op' = "prune" /\ UNCHANGED <<up, mem, floor, acked>>
  BY DEF FinishPrune, Begin
<1>4. /\ HeldCaps[worker] = 0 /\ FiledCaps[worker] <= floor[worker] /\ TakenCaps[worker] = 0
      /\ HeldCaps[worker] <= floor[worker]
  BY <1>1, <1>2, CapsAt, TypeFacts
<1>5. HeldCaps' = [HeldCaps EXCEPT ![worker] = 0]
  <2>1. HeldCaps' = HeldCaps
    BY <1>3 DEF HeldCaps
  <2> QED BY <1>1, <1>4, <2>1, CapsType
<1>6. FiledCaps' = [FiledCaps EXCEPT ![worker] = 0] \/ UNCHANGED FiledCaps
  <2>1. CASE disk' = disk
    BY <2>1 DEF FiledCaps
  <2>2. CASE disk' = [disk EXCEPT ![worker] = None]
    <3>1. disk'[worker] = None /\ \A v \in Workers : v # worker => disk'[v] = disk[v]
      BY <1>1, <2>2 DEF TypeInv, TypeOK, StoreTypeOK
    <3>2. FiledCaps'[worker] = 0 /\ \A v \in Workers : v # worker => FiledCaps'[v] = FiledCaps[v]
      BY <1>1, <3>1, CapsAt DEF FiledCaps
    <3> QED BY <1>1, <3>2, Pointwise, CapsType, CapsTypeNext
  <2> QED BY <1>3, <2>1, <2>2
<1>7. UNCHANGED TakenCaps
  BY <1>1, <1>3 DEF TakenCaps
<1> QED BY <1>1, <1>2, <1>3, <1>4, <1>5, <1>6, <1>7 DEF L!Forget

LEMMA RestartLoads ==
  ASSUME TypeInv, Ordered, TypeInv', Restart, ~Fault("read")
  PROVE  L!Load
<1>1. /\ ~up /\ up' = TRUE /\ op = "idle" /\ op' = "load" /\ UNCHANGED <<floor, acked>>
  BY DEF Restart, Begin, TypeInv, StoppedOK, Idle
<1>2. \A w \in Workers :
        /\ disk'[w] = disk[w] \/ (disk'[w] = None /\ disk[w].cap = 0 /\ disk[w] # None)
        /\ disk'[w] # None /\ disk'[w].want # Bad => mem'[w] = disk[w]
        /\ disk'[w] = None \/ disk'[w].want = Bad => mem'[w] = None
  BY RestartFinds
<1>3. \A w \in Workers : Cap(disk'[w]) = Cap(disk[w]) /\ Cap(mem'[w]) = Cap(disk[w])
  BY <1>2 DEF Cap, Ordered, CapturesOK
<1>4. HeldCaps' = FiledCaps /\ UNCHANGED FiledCaps
  BY <1>3 DEF HeldCaps, FiledCaps
<1>5. UNCHANGED TakenCaps
  BY <1>1 DEF TakenCaps
<1> QED BY <1>1, <1>4, <1>5 DEF L!Load

LEMMA CrashCrashes ==
  ASSUME Crash PROVE L!Crash
<1>1. /\ up /\ up' = FALSE /\ op' = "idle" /\ UNCHANGED <<disk, floor, acked>>
      /\ mem' = [w \in Workers |-> None]
  BY DEF Crash, Release, Begin
<1>2. HeldCaps' = L!Nothing
  BY <1>1 DEF HeldCaps, Cap, L!Nothing
<1>3. TakenCaps' = L!Nothing /\ UNCHANGED FiledCaps
  BY <1>1 DEF TakenCaps, FiledCaps, L!Nothing
<1> QED BY <1>1, <1>2, <1>3 DEF L!Crash

\* A record's expiry changes its age, and raises the floor to what it covers.
LEMMA ExpireRaises ==
  ASSUME TypeInv, TypeInv', NEW w \in Workers, Expire(w)
  PROVE  L!Raise
<1> DEFINE record == IF up THEN mem[w] ELSE disk[w]
<1>1. record # None /\ record.cap \in Nat
  BY TypeFacts DEF Expire
<1>2. /\ mem' = IF up THEN [mem EXCEPT ![w] = Aged(@)] ELSE mem
      /\ disk' = IF disk[w] = None THEN disk ELSE [disk EXCEPT ![w] = Aged(@)]
      /\ floor' = [floor EXCEPT ![w] = IF record.cap > @ THEN record.cap ELSE @]
      /\ UNCHANGED <<up, acked, job>>
  BY DEF Expire
<1>3. \A r \in Record : Cap(Aged(r)) = Cap(r)
  BY RecordFacts, CapsAt
<1>4. \A v \in Workers : /\ mem'[v] = mem[v] \/ (mem[v] \in Record /\ mem'[v] = Aged(mem[v]))
                         /\ disk'[v] = disk[v] \/ (disk[v] \in Record /\ disk'[v] = Aged(disk[v]))
  BY <1>1, <1>2, TypeFacts DEF TypeInv, TypeOK, StoreTypeOK
<1>5. \A v \in Workers : Cap(mem'[v]) = Cap(mem[v]) /\ Cap(disk'[v]) = Cap(disk[v])
  BY <1>3, <1>4
<1>6. UNCHANGED <<HeldCaps, FiledCaps>>
  BY <1>5 DEF HeldCaps, FiledCaps
<1>7. UNCHANGED TakenCaps
  BY <1>2, <1>5 DEF TakenCaps, job
<1>8. floor' \in [Workers -> Nat]
  BY DEF TypeInv, TypeOK, StoreTypeOK
<1>9. \A v \in Workers : floor'[v] >= floor[v]
  <2>1. floor'[w] = (IF record.cap > floor[w] THEN record.cap ELSE floor[w])
        /\ \A v \in Workers : v # w => floor'[v] = floor[v]
    BY <1>2 DEF TypeInv, TypeOK, StoreTypeOK
  <2> QED BY <1>1, <2>1, TypeFacts
<1> QED BY <1>2, <1>6, <1>7, <1>8, <1>9 DEF L!Raise

\* The start-up's reconciliation rewrites the record it has.
LEMMA FinishLoadUnseen ==
  ASSUME TypeInv, Ordered, FinishLoad
  PROVE  UNCHANGED L!vars
<1> DEFINE rec == Reconciled(worker)
<1>1. /\ op = "load" /\ Working /\ worker \in Workers /\ worker \in InHand /\ Reconciling
      /\ rec \in Record /\ rec.cap = mem[worker].cap /\ mem[worker] \in Record
  BY ReconciledFacts DEF FinishLoad, Finished, Applied, TypeInv, JobOK, Reconciling, InHand, Working
<1>2. disk[worker] \in Record /\ disk[worker].cap = mem[worker].cap
  BY <1>1, TypeFacts DEF Ordered, CapturesOK
<1>3. /\ mem' = mem \/ mem' = [mem EXCEPT ![worker] = rec]
      /\ disk' = disk \/ disk' = [disk EXCEPT ![worker] = rec]
      /\ op' = "load" /\ UNCHANGED <<up, floor, acked>>
  BY DEF FinishLoad, Begin
<1> HIDE DEF rec
<1>4. Cap(rec) = Cap(mem[worker]) /\ Cap(rec) = Cap(disk[worker])
  BY <1>1, <1>2, CapsAt
<1>5. \A v \in Workers : Cap(mem'[v]) = Cap(mem[v]) /\ Cap(disk'[v]) = Cap(disk[v])
  BY <1>1, <1>3, <1>4 DEF TypeInv, TypeOK, StoreTypeOK
<1>6. UNCHANGED <<HeldCaps, FiledCaps>>
  BY <1>5 DEF HeldCaps, FiledCaps
<1>7. UNCHANGED TakenCaps
  BY <1>1, <1>3 DEF TakenCaps
<1> QED BY <1>3, <1>6, <1>7 DEF L!vars

LEMMA StubStepsUnseen ==
  ASSUME \/ InspectImage \/ ListManaged \/ ConnectStub \/ StartStub \/ UndoStub
         \/ \E n \in Names : RemoveStale(n) \/ CreateStub(n) \/ DropStub(n)
         \/ \E w \in Workers, n \in Names : StubExits(w, n)
         \/ PullImage \/ LastRecord \/ Prune \/ UNCHANGED vars
  PROVE  UNCHANGED L!vars
<1>1. UNCHANGED <<up, mem, disk, floor, acked>>
  BY DEF InspectImage, ListManaged, ConnectStub, StartStub, UndoStub, RemoveStale, CreateStub,
         DropStub, StubExits, PullImage, LastRecord, Prune, vars
<1>2. CASE LastRecord \/ Prune
  BY <1>1, <1>2, CapturesUnseen DEF LastRecord, Prune, Release, Begin
<1>3. CASE ~(LastRecord \/ Prune)
  <2>1. UNCHANGED <<op, worker>>
    BY <1>3 DEF InspectImage, ListManaged, ConnectStub, StartStub, UndoStub, RemoveStale,
         CreateStub, DropStub, StubExits, PullImage, vars, job, Abort, Trouble, Goto, Give, Fail,
         Moved, held
  <2> QED BY <1>1, <2>1, CapturesUnseen
<1> QED BY <1>2, <1>3

LEMMA StepLedger ==
  ASSUME ~Fault("read"), TypeInv, Ordered, [Next]_vars
  PROVE  [L!Next]_(L!vars)
<1>1. TypeInv'
  BY TypeNext
<1>2. CASE Requests
  <2>1. PICK w \in Workers, cap \in 1..MaxCaptures, c \in Contents : Upsert(w, cap, c)
    BY <1>2 DEF Requests
  <2> QED BY <1>1, <2>1, UpsertAdmits DEF L!Next
<1>3. CASE Restart
  BY <1>1, <1>3, RestartLoads DEF L!Next
<1>4. CASE Crash
  BY <1>4, CrashCrashes DEF L!Next
<1>5. ASSUME NEW w \in Workers, NextRecord(w) PROVE [L!Next]_(L!vars)
  BY <1>1, <1>5, NextRecordForgets DEF L!Next
<1>6. ASSUME NEW w \in Workers, Expire(w) PROVE [L!Next]_(L!vars)
  BY <1>1, <1>6, ExpireRaises DEF L!Next
<1>7. CASE FinishUpsert
  BY <1>1, <1>7, FinishUpsertAnswers DEF L!Next
<1>8. CASE FinishPrune
  BY <1>1, <1>8, FinishPruneForgets DEF L!Next
<1>9. CASE FinishLoad
  BY <1>9, FinishLoadUnseen
<1> QED BY <1>2, <1>3, <1>4, <1>5, <1>6, <1>7, <1>8, <1>9, StubStepsUnseen
           DEF Next, Step, Environment

\* What the store holds, files and answers follows Ledger through every call of
\* its operations, crash and expiry, as long as Load can read the files it finds:
\* nothing above the floor is forgotten (store.go:58-95, 97-154).
THEOREM StoreKeepsLedger == ASSUME ~Fault("read") PROVE Spec => KeepsLedger
<1>1. Init => L!Init
  BY InitLedger
<1>2. TypeInv /\ Ordered /\ [Next]_vars => [L!Next]_(L!vars)
  BY StepLedger
<1> QED BY <1>1, <1>2, OrderedAlways, PTL DEF Spec, KeepsLedger, L!Spec

\* In Ledger what is on disk or below the floor never gets less.
LEMMA LedgerAdvances ==
  ASSUME TypeInv, TypeInv', [L!Next]_(L!vars), NEW w \in Workers, NEW k \in Nat,
         k <= FiledCaps[w] \/ k <= floor[w]
  PROVE  k <= FiledCaps'[w] \/ k <= floor'[w]
<1>1. /\ FiledCaps \in [Workers -> Nat] /\ FiledCaps[w] \in Nat
      /\ floor[w] \in Nat /\ floor'[w] \in Nat
  BY CapsType DEF TypeInv, TypeOK, StoreTypeOK
<1>2. ASSUME NEW v \in Workers, NEW c \in 1..MaxCaptures, L!Admit(v, c)
      PROVE  k <= FiledCaps'[w] \/ k <= floor'[w]
  <2>1. c > FiledCaps[v] /\ floor' = floor
        /\ (FiledCaps' = FiledCaps \/ FiledCaps' = [FiledCaps EXCEPT ![v] = c])
    BY <1>2 DEF L!Admit
  <2> QED BY <1>1, <2>1
<1>3. ASSUME NEW v \in Workers, L!Forget(v) PROVE k <= FiledCaps'[w] \/ k <= floor'[w]
  <2>1. floor' = floor
        /\ (FiledCaps' = FiledCaps
             \/ (FiledCaps[v] <= floor[v] /\ FiledCaps' = [FiledCaps EXCEPT ![v] = 0]))
    BY <1>3 DEF L!Forget
  <2> QED BY <1>1, <2>1
<1>4. CASE L!Raise
  <2>1. FiledCaps' = FiledCaps /\ floor'[w] >= floor[w]
    BY <1>4 DEF L!Raise
  <2> QED BY <1>1, <2>1
<1>5. CASE (\E v \in Workers : L!Answer(v)) \/ L!Crash \/ L!Load \/ UNCHANGED L!vars
  BY <1>5 DEF L!Answer, L!Crash, L!Load, L!vars
<1> QED BY <1>2, <1>3, <1>4, <1>5 DEF L!Next

LEMMA DurableIs ==
  ASSUME TypeInv, NEW w \in Workers
  PROVE  /\ Durable(w) \in Nat /\ (Durable(w) <= FiledCaps[w] \/ Durable(w) <= floor[w])
         /\ FiledCaps[w] <= Durable(w) /\ floor[w] <= Durable(w)
  BY CapsAt, TypeFacts DEF Durable, Cap

\* A snapshot is taken only if it is newer than every one taken before, over
\* crashes, failed writes and expiries: what Agent relies on (store.go:107-124).
THEOREM TakenAlwaysAdvance == ASSUME ~Fault("read") PROVE Spec => TakenAdvance
<1>1. ASSUME TypeInv, Ordered, [Next]_vars, NEW w \in Workers
      PROVE  Durable(w)' >= Durable(w)
  <2>1. TypeInv' /\ [L!Next]_(L!vars)
    BY <1>1, TypeNext, StepLedger
  <2>2. Durable(w) \in Nat /\ (Durable(w) <= FiledCaps[w] \/ Durable(w) <= floor[w])
    BY <1>1, DurableIs
  <2>3. Durable(w) <= FiledCaps'[w] \/ Durable(w) <= floor'[w]
    BY <1>1, <2>1, <2>2, LedgerAdvances
  <2>4. /\ disk'[w] # None => disk'[w].cap \in Nat
        /\ floor'[w] \in Nat /\ FiledCaps'[w] = IF disk'[w] = None THEN 0 ELSE disk'[w].cap
    <3>1. disk'[w] \in Record \cup {None} /\ floor'[w] \in Nat
      BY <2>1 DEF TypeInv, TypeOK, StoreTypeOK
    <3> QED BY <3>1, RecordFacts DEF FiledCaps, Cap
  <2>5. Durable(w)' = IF disk'[w] # None /\ disk'[w].cap > floor'[w]
                      THEN disk'[w].cap ELSE floor'[w]
    BY DEF Durable
  <2> QED BY <2>2, <2>3, <2>4, <2>5
<1>2. ASSUME TypeInv, Ordered, Next, NEW w \in Workers,
             op = "idle", op' = "upsert", worker' = w
      PROVE  mem'[w].cap > Durable(w) /\ Durable(w)' = mem'[w].cap
  <2>1. Requests
    <3>1. ~Restart /\ ~Prune /\ ~Crash
      BY <1>2 DEF Restart, Prune, Crash, Release, Begin
    <3>2. ~Environment
      BY <1>2 DEF Environment, Expire, StubExits, PullImage, Moved, held, job
    <3>3. ~Step
      <4>1. phase = "next"
        BY <1>2 DEF TypeInv, JobOK, Working
      <4> QED BY <1>2, <4>1 DEF Step, NextRecord, LastRecord, InspectImage, ListManaged,
                   RemoveStale, CreateStub, DropStub, ConnectStub, StartStub, UndoStub,
                   FinishUpsert, FinishLoad, FinishPrune
    <3> QED BY <1>2, <3>1, <3>2, <3>3 DEF Next
  <2>2. PICK v \in Workers, cap \in 1..MaxCaptures, c \in Contents : Upsert(v, cap, c)
    BY <2>1 DEF Requests
  <2> DEFINE rec == [cap |-> cap, want |-> c, expired |-> FALSE,
                     managed |-> IF mem[v] = None THEN {} ELSE mem[v].managed]
  <2>3. /\ mem' = [mem EXCEPT ![v] = rec] /\ disk' = [disk EXCEPT ![v] = rec]
        /\ Begin("upsert", v, {}, "image", {}) /\ floor' = floor /\ up
        /\ cap > floor[v] /\ (mem[v] # None => cap > mem[v].cap)
    BY <1>2, <2>2 DEF Upsert, Newer, job
  <2>4. rec \in Record /\ rec.cap = cap /\ rec # None
    <3>1. rec \in Record /\ rec.cap = cap
      <4>1. mem[v] \in Record \cup {None}
        BY <1>2 DEF TypeInv, TypeOK, StoreTypeOK
      <4>2. mem[v] # None => mem[v].managed \in SUBSET Names
        BY <4>1, RecordFacts
      <4> QED BY <4>2 DEF Record
    <3> HIDE DEF rec
    <3> QED BY <3>1, RecordFacts
  <2>5. v = w
    BY <1>2, <2>3 DEF Begin
  <2> HIDE DEF rec
  <2>6. mem'[w] = rec /\ disk'[w] = rec
    BY <1>2, <2>3, <2>5 DEF TypeInv, TypeOK, StoreTypeOK
  <2>7. disk[w] # None => disk[w].cap < cap
    BY <1>2, <2>3, <2>5, TypeFacts DEF Ordered, CapturesOK
  <2>8. Durable(w) < cap
    BY <2>3, <2>5, <2>7 DEF Durable
  <2>9. Durable(w)' = cap
    BY <2>3, <2>4, <2>5, <2>6 DEF Durable
  <2> QED BY <2>4, <2>6, <2>8, <2>9
<1>3. TypeInv /\ Ordered /\ [Next]_vars =>
        [\A w \in Workers :
           /\ Durable(w)' >= Durable(w)
           /\ op = "idle" /\ op' = "upsert" /\ worker' = w
                => mem'[w].cap > Durable(w) /\ Durable(w)' = mem'[w].cap]_vars
  BY <1>1, <1>2
<1> QED BY <1>3, OrderedAlways, PTL DEF Spec, TakenAdvance
=============================================================================
