-------------------------- MODULE ReconcileProofs --------------------------
(***************************************************************************)
(* Proofs about one reconciliation of the receiver's worker store: what it *)
(* reports, what it leaves on the master, what it takes down, and that no  *)
(* stub escapes the records.  For any workers, names, contents and images. *)
(***************************************************************************)
EXTENDS ReceiverStoreProofs

\* Before the listing, or after an error that ends the reconciliation: no list.
Early == phase \in {"image", "list", "abort"}
Serves(n) == LET stub == docker[worker][n]
             IN  stub # None /\ stub.spec = want[n] /\ stub.attached

\* A stub runs only once it is attached: it is started after it was connected.
AttachedOK == \A w \in Workers, n \in Names :
  docker[w][n] # None /\ docker[w][n].running => docker[w][n].attached

\* What the plan says of a name, whatever has failed.
PlanOK(n) ==
  /\ n \in managed => plan[n] \in {"keep", "done"} /\ n \in Desired /\ Serves(n)
  /\ plan[n] = "drop" => n \notin Desired
  /\ plan[n] = "replace" /\ docker[worker][n] # None =>
       ~Healthy(docker[worker][n], want[n], img)
CurOK ==
  /\ cur # None => cur \in Names /\ plan[cur] = "create"
  /\ Creating => Current.spec = want[cur]
  /\ phase = "start" => Current.attached
ReportOK == Reconciling /\ Working =>
  /\ Early => managed = {} /\ cur = None
  /\ ~Early => \A n \in Names : PlanOK(n)
  /\ CurOK
ReportInv == TypeInv /\ AttachedOK /\ ReportOK

\* What it says of a name as long as no call failed and nothing moved.
CleanOK(n) ==
  LET stub == docker[worker][n] IN
  /\ plan[n] # "failed"
  /\ plan[n] = "keep" \/ (plan[n] = "done" /\ n \in Desired) =>
       n \in managed /\ Healthy(stub, want[n], img)
  /\ plan[n] \in {"none", "drop"} => n \notin Desired
  /\ plan[n] = "none" \/ (plan[n] = "done" /\ n \notin Desired) => stub = None
  /\ plan[n] = "create" /\ ~(Creating /\ n = cur) => stub = None
CleanInv == Reconciling /\ Working /\ clean /\ phase # "image" =>
  /\ phase \notin {"abort", "undo"} /\ image = img
  /\ phase # "list" => \A n \in Names : CleanOK(n)
  /\ Creating => Current.forImage = img /\ Current.image = img

-----------------------------------------------------------------------------
(* What a step does to the stubs and to what the snapshot wants.            *)

LEMMA StubAfter ==
  ASSUME TypeInv, worker \in Workers, NEW n \in Names, NEW s, SetStub(n, s)
  PROVE  /\ docker'[worker][n] = s
         /\ \A v \in Workers, m \in Names :
              v # worker \/ m # n => docker'[v][m] = docker[v][m]
  BY DEF SetStub, TypeInv, TypeOK, StoreTypeOK

LEMMA ExitAfter ==
  ASSUME TypeInv, NEW w \in Workers, NEW n \in Names, StubExits(w, n)
  PROVE  /\ docker'[w][n] # None /\ ~docker'[w][n].running
         /\ docker'[w][n].spec = docker[w][n].spec
         /\ docker'[w][n].attached = docker[w][n].attached
         /\ docker'[w][n].forImage = docker[w][n].forImage
         /\ docker'[w][n].image = docker[w][n].image
         /\ \A v \in Workers, m \in Names :
              v # w \/ m # n => docker'[v][m] = docker[v][m]
<1> DEFINE s == Flagged(docker[w][n], docker[w][n].attached, FALSE)
<1>1. docker[w][n] \in Stub
  BY DEF StubExits, TypeInv, TypeOK, StoreTypeOK
<1>2. s # None /\ ~s.running /\ s.spec = docker[w][n].spec
      /\ s.attached = docker[w][n].attached /\ s.forImage = docker[w][n].forImage
      /\ s.image = docker[w][n].image
  BY <1>1, StubFacts DEF Flagged
<1>3. docker' = [docker EXCEPT ![w][n] = s]
  BY DEF StubExits
<1> HIDE DEF s
<1>4. docker'[w][n] = s /\ \A v \in Workers, m \in Names :
        v # w \/ m # n => docker'[v][m] = docker[v][m]
  BY <1>3 DEF TypeInv, TypeOK, StoreTypeOK
<1> QED BY <1>2, <1>4

\* A record that ages keeps what it wants.
LEMMA ExpireWant ==
  ASSUME TypeInv, NEW w \in Workers, Expire(w), NEW v \in Workers, mem[v] # None
  PROVE  mem'[v].want = mem[v].want
<1>1. mem[v] \in Record
  BY DEF TypeInv, TypeOK, StoreTypeOK
<1>2. mem'[v] = mem[v] \/ mem'[v] = Aged(mem[v])
  BY DEF Expire, TypeInv, TypeOK, StoreTypeOK
<1> QED BY <1>1, <1>2, RecordFacts

-----------------------------------------------------------------------------
(* The report: one lemma per kind of step.                                  *)

\* A step that starts or ends an operation, or goes to its next record.
LEMMA BeginReport ==
  ASSUME AttachedOK, docker' = docker, NEW o, NEW w, NEW ws, NEW where, NEW names,
         Begin(o, w, ws, where, names),
         o \in {"upsert", "load"} => names = {} /\ where \in {"next", "image"}
  PROVE  AttachedOK' /\ ReportOK'
  BY DEF Begin, AttachedOK, ReportOK, CurOK, Early, Reconciling, Working, Creating

LEMMA OtherReport ==
  ASSUME ReportInv, docker' = docker, op = "idle", UNCHANGED job
  PROVE  AttachedOK' /\ ReportOK'
  BY DEF ReportInv, AttachedOK, ReportOK, Reconciling, job

LEMMA InspectImageReport ==
  ASSUME ReportInv, InspectImage
  PROVE  AttachedOK' /\ ReportOK'
<1>1. managed = {} /\ cur = None
  BY DEF InspectImage, ReportInv, ReportOK, Early, Working
<1>2. phase' \in {"list", "abort"} /\ managed' = {} /\ cur' = None
  BY <1>1 DEF InspectImage, Abort, Trouble
<1>3. AttachedOK'
  BY DEF InspectImage, ReportInv, AttachedOK
<1> QED BY <1>2, <1>3 DEF ReportOK, CurOK, Early, Creating

LEMMA ListManagedReport ==
  ASSUME ReportInv, ListManaged
  PROVE  AttachedOK' /\ ReportOK'
<1>1. AttachedOK'
  BY DEF ListManaged, ReportInv, AttachedOK
<1>2. SUFFICES ASSUME Reconciling' PROVE ReportOK'
  BY <1>1 DEF ReportOK
<1>3. Reconciling /\ Working /\ managed = {} /\ cur = None /\ worker \in Workers
  BY <1>2 DEF ListManaged, Abort, Trouble, held, Reconciling, Working, Early, ReportInv,
       ReportOK, TypeInv, JobOK
<1>4. CASE Abort("list")
  BY <1>3, <1>4 DEF Abort, Trouble, ReportOK, CurOK, Early, Creating
<1>5. CASE ~Abort("list")
  <2> DEFINE present == {n \in Names : docker[worker][n] # None}
  <2>1. PICK hidden \in SUBSET present :
          /\ phase' = "apply" /\ cur' = None /\ img' = img /\ worker' = worker
          /\ plan' = [n \in Names |-> PlanFor(n, present \ hidden)]
          /\ managed' = {n \in Names : plan'[n] = "keep"}
          /\ mem' = mem /\ docker' = docker
    BY <1>3, <1>5 DEF ListManaged, held
  <2>2. SUFFICES ASSUME NEW n \in Names PROVE PlanOK(n)'
    BY <2>1 DEF ReportOK, CurOK, Early, Creating
  <2>3. plan'[n] = PlanFor(n, present \ hidden) /\ (n \in managed' <=> plan'[n] = "keep")
    BY <2>1
  <2>4. op # "prune"
    BY <1>3 DEF Reconciling
  <2>5. Healthy(docker[worker][n], want[n], img) /\ n \in present => Serves(n)
    BY <1>3 DEF Healthy, Serves, ReportInv, AttachedOK
  <2>6. UNCHANGED <<want, Desired, Serves(n), img, docker, worker>>
    BY <2>1 DEF want, Desired, Serves
  <2> QED BY <2>3, <2>4, <2>5, <2>6 DEF PlanOK, PlanFor
<1> QED BY <1>4, <1>5

\* The facts every step of the second half of a reconciliation starts from.
LEMMA ApplyFacts ==
  ASSUME ReportInv, Working, Reconciling, ~Early
  PROVE  /\ worker \in Workers /\ mem[worker] # None
         /\ plan \in [Names -> Plans] /\ CurOK
         /\ \A n \in Names : PlanOK(n)
         /\ \A n \in Names : plan[n] \in {"replace", "create"} => n \in Desired
  BY DEF ReportInv, ReportOK, TypeInv, TypeOK, JobTypeOK, JobOK, RecordsOK, InHand

LEMMA RemoveStaleReport ==
  ASSUME ReportInv, NEW n \in Names, RemoveStale(n)
  PROVE  AttachedOK' /\ ReportOK'
<1>1. Working /\ Reconciling /\ ~Early
  BY DEF RemoveStale, Working, Early, ReportInv, TypeInv, JobOK
<1>2. TypeInv /\ AttachedOK
  BY DEF ReportInv
<1>3. /\ docker'[worker][n] = docker[worker][n] \/ docker'[worker][n] = None
      /\ \A v \in Workers, m \in Names :
           v # worker \/ m # n => docker'[v][m] = docker[v][m]
  BY <1>1, <1>2, ApplyFacts, StubAfter DEF RemoveStale
<1>4. /\ phase' = "apply" /\ cur' = n /\ plan' = [plan EXCEPT ![n] = "create"]
      /\ plan[n] = "replace"
      /\ UNCHANGED <<mem, img, managed, op, worker>>
  BY DEF RemoveStale, held
<1>5. AttachedOK'
  BY <1>1, <1>2, <1>3, ApplyFacts DEF AttachedOK
<1>6. UNCHANGED <<want, Desired>>
  BY <1>4 DEF want, Desired
<1>7. \A m \in Names : PlanOK(m)'
  BY <1>1, <1>3, <1>4, <1>6, ApplyFacts DEF PlanOK, Serves
<1>8. CurOK'
  BY <1>1, <1>4, ApplyFacts DEF CurOK, Creating
<1> QED BY <1>4, <1>5, <1>7, <1>8 DEF ReportOK, Early

LEMMA CreateStubReport ==
  ASSUME ReportInv, NEW n \in Names, CreateStub(n)
  PROVE  AttachedOK' /\ ReportOK'
<1>1. Working /\ Reconciling /\ ~Early
  BY DEF CreateStub, Working, Early, ReportInv, TypeInv, JobOK
<1>2. TypeInv /\ AttachedOK
  BY DEF ReportInv
<1> DEFINE s == NewStub(n)
<1>3. ~s.running /\ s.spec = want[n]
  BY DEF NewStub
<1>4. docker' = docker \/ SetStub(n, s)
  BY DEF CreateStub
<1>5. /\ plan[n] = "create" /\ UNCHANGED <<mem, img, managed, op, worker>>
      /\ \/ /\ phase' = "apply" /\ cur' = None
            /\ plan' = [plan EXCEPT ![n] = "failed"]
         \/ phase' = "connect" /\ cur' = n /\ plan' = plan /\ SetStub(n, s)
  BY DEF CreateStub, Give, held
<1> HIDE DEF s
<1>6. /\ docker'[worker][n] = docker[worker][n] \/ docker'[worker][n] = s
      /\ SetStub(n, s) => docker'[worker][n] = s
      /\ \A v \in Workers, m \in Names :
           v # worker \/ m # n => docker'[v][m] = docker[v][m]
  BY <1>1, <1>2, <1>4, ApplyFacts, StubAfter
<1>7. AttachedOK'
  BY <1>1, <1>2, <1>3, <1>6, ApplyFacts DEF AttachedOK
<1>8. UNCHANGED <<want, Desired>>
  BY <1>5 DEF want, Desired
<1>9. \A m \in Names : PlanOK(m)'
  BY <1>1, <1>5, <1>6, <1>8, ApplyFacts DEF PlanOK, Serves
<1>10. CurOK'
  BY <1>1, <1>3, <1>5, <1>6, <1>8, ApplyFacts DEF CurOK, Creating, Current
<1> QED BY <1>5, <1>7, <1>9, <1>10 DEF ReportOK, Early

\* A step that works on the stub being created and goes on creating it.
LEMMA FlagReport ==
  ASSUME ReportInv, Creating, NEW a \in BOOLEAN, NEW r \in BOOLEAN,
         r => a,
         docker' = docker \/ SetStub(cur, Flagged(Current, a, r)),
         UNCHANGED <<op, worker, mem, img, plan, cur, managed>>,
         phase' = "undo" \/ (phase' = "start" /\ a /\ SetStub(cur, Flagged(Current, a, r)))
  PROVE  AttachedOK' /\ ReportOK'
<1>1. Working /\ Reconciling /\ ~Early /\ TypeInv /\ AttachedOK /\ worker \in Workers
      /\ cur \in Names /\ Current # None
  BY CurrentType DEF Creating, Working, Early, ReportInv
<1>2. cur # None /\ plan[cur] = "create" /\ Current.spec = want[cur]
  BY <1>1, ApplyFacts, FreshAssumption DEF CurOK
<1> DEFINE s == Flagged(Current, a, r)
<1>3. s.spec = Current.spec /\ s.attached = a /\ s.running = r
  BY DEF Flagged
<1>4. docker' = docker \/ SetStub(cur, s)
  OBVIOUS
<1>5. phase' = "undo" \/ (phase' = "start" /\ a /\ SetStub(cur, s))
  OBVIOUS
<1> HIDE DEF s
<1>6. /\ docker'[worker][cur] = docker[worker][cur] \/ docker'[worker][cur] = s
      /\ SetStub(cur, s) => docker'[worker][cur] = s
      /\ \A v \in Workers, m \in Names :
           v # worker \/ m # cur => docker'[v][m] = docker[v][m]
  BY <1>1, <1>4, StubAfter
<1>7. AttachedOK'
  BY <1>1, <1>3, <1>6 DEF AttachedOK
<1>8. UNCHANGED <<want, Desired>>
  BY DEF want, Desired
<1>9. \A m \in Names : PlanOK(m)'
  BY <1>1, <1>2, <1>6, <1>8, ApplyFacts DEF PlanOK, Serves
<1>10. CurOK'
  BY <1>1, <1>2, <1>3, <1>5, <1>6, <1>8, ApplyFacts DEF CurOK, Current
<1> QED BY <1>5, <1>7, <1>9, <1>10 DEF ReportOK, Early

LEMMA ConnectStubReport ==
  ASSUME ReportInv, ConnectStub
  PROVE  AttachedOK' /\ ReportOK'
<1>1. Creating /\ Current.running \in BOOLEAN
  BY CurrentType DEF ConnectStub, Creating, ReportInv
<1>2. docker' = docker \/ SetStub(cur, Flagged(Current, TRUE, Current.running))
  BY DEF ConnectStub, Attach
<1>3. /\ UNCHANGED <<op, worker, mem, img, plan, cur, managed>>
      /\ phase' = "undo" \/ (phase' = "start" /\ SetStub(cur, Flagged(Current, TRUE, Current.running)))
  BY DEF ConnectStub, Goto, Fail, Trouble, Attach, held
<1> QED BY <1>1, <1>2, <1>3, FlagReport

LEMMA StartStubReport ==
  ASSUME ReportInv, StartStub
  PROVE  AttachedOK' /\ ReportOK'
<1>1. Creating /\ Current.attached
  <2>1. Creating /\ Working /\ ~Early
    BY DEF StartStub, Creating, Working, Early
  <2>2. Reconciling
    BY <2>1, CurrentType DEF ReportInv
  <2> QED BY <2>1, <2>2, ApplyFacts DEF CurOK, StartStub
<1> DEFINE s == Flagged(Current, Current.attached, TRUE)
<1>2. CASE phase' = "undo"
  BY <1>1, <1>2, FlagReport, CurrentType DEF StartStub, Fail, Trouble, Run, held, ReportInv
<1>3. CASE phase' # "undo"
  <2>1. /\ SetStub(cur, s) /\ phase' = "apply" /\ cur' = None
        /\ plan' = [plan EXCEPT ![cur] = "done"] /\ managed' = managed \cup {cur}
        /\ UNCHANGED <<op, worker, mem, img>>
    BY <1>3 DEF StartStub, Fail, Trouble, Run, held
  <2>2. Working /\ Reconciling /\ ~Early /\ TypeInv /\ AttachedOK /\ worker \in Workers
        /\ cur \in Names /\ Current # None
    BY <1>1, CurrentType DEF Creating, Working, Early, ReportInv
  <2>3. plan[cur] = "create" /\ Current.spec = want[cur] /\ cur \in Desired
    BY <1>1, <2>2, ApplyFacts, FreshAssumption DEF CurOK
  <2>4. s.spec = want[cur] /\ s.attached /\ s.running /\ s # None
    BY <1>1, <2>2, <2>3, CurrentType, StubFacts DEF Flagged
  <2> HIDE DEF s
  <2>5. /\ docker'[worker][cur] = s
        /\ \A v \in Workers, m \in Names :
             v # worker \/ m # cur => docker'[v][m] = docker[v][m]
    BY <2>1, <2>2, StubAfter
  <2>6. AttachedOK'
    BY <2>2, <2>4, <2>5 DEF AttachedOK
  <2>7. UNCHANGED <<want, Desired>>
    BY <2>1 DEF want, Desired
  <2>8. \A m \in Names : PlanOK(m)'
    BY <2>1, <2>2, <2>3, <2>4, <2>5, <2>7, ApplyFacts DEF PlanOK, Serves
  <2> QED BY <2>1, <2>6, <2>8 DEF ReportOK, Early, CurOK, Creating
<1> QED BY <1>2, <1>3

LEMMA UndoStubReport ==
  ASSUME ReportInv, UndoStub
  PROVE  AttachedOK' /\ ReportOK'
<1>1. Creating /\ Working /\ ~Early /\ TypeInv /\ AttachedOK
  BY DEF UndoStub, Creating, Working, Early, ReportInv
<1>2. Reconciling /\ worker \in Workers /\ cur \in Names
  BY <1>1, CurrentType
<1>3. plan[cur] = "create"
  BY <1>1, <1>2, ApplyFacts, FreshAssumption DEF CurOK
<1>4. /\ docker' = docker \/ SetStub(cur, None)
      /\ phase' = "apply" /\ cur' = None /\ plan' = [plan EXCEPT ![cur] = "failed"]
      /\ UNCHANGED <<op, worker, mem, img, managed>>
  BY DEF UndoStub, Give, held
<1>5. /\ docker'[worker][cur] = docker[worker][cur] \/ docker'[worker][cur] = None
      /\ \A v \in Workers, m \in Names :
           v # worker \/ m # cur => docker'[v][m] = docker[v][m]
  BY <1>1, <1>2, <1>4, StubAfter
<1>6. AttachedOK'
  BY <1>1, <1>2, <1>5 DEF AttachedOK
<1>7. UNCHANGED <<want, Desired>>
  BY <1>4 DEF want, Desired
<1>8. \A m \in Names : PlanOK(m)'
  BY <1>1, <1>2, <1>3, <1>4, <1>5, <1>7, ApplyFacts DEF PlanOK, Serves
<1> QED BY <1>4, <1>6, <1>8 DEF ReportOK, Early, CurOK, Creating

LEMMA DropStubReport ==
  ASSUME ReportInv, NEW n \in Names, DropStub(n)
  PROVE  AttachedOK' /\ ReportOK'
<1>1. Working /\ ~Early /\ TypeInv /\ AttachedOK /\ worker \in Workers
  BY DEF DropStub, Working, Early, ReportInv, TypeInv, JobOK
<1>2. /\ docker' = docker \/ SetStub(n, None)
      /\ phase' = "apply" /\ cur' = None /\ plan' = [plan EXCEPT ![n] = "done"]
      /\ plan[n] = "drop"
      /\ UNCHANGED <<op, worker, mem, img, managed>>
  BY DEF DropStub, Give, held
<1>3. /\ docker'[worker][n] = docker[worker][n] \/ docker'[worker][n] = None
      /\ \A v \in Workers, m \in Names :
           v # worker \/ m # n => docker'[v][m] = docker[v][m]
  BY <1>1, <1>2, StubAfter
<1>4. AttachedOK'
  BY <1>1, <1>3 DEF AttachedOK
<1>5. ASSUME Reconciling PROVE \A m \in Names : PlanOK(m)'
  <2>1. UNCHANGED <<want, Desired>>
    BY <1>2 DEF want, Desired
  <2> QED BY <1>1, <1>2, <1>3, <1>5, <2>1, ApplyFacts DEF PlanOK, Serves
<1> QED BY <1>2, <1>4, <1>5 DEF ReportOK, Early, CurOK, Creating, Reconciling

LEMMA ExpireReport ==
  ASSUME ReportInv, NEW w \in Workers, Expire(w)
  PROVE  AttachedOK' /\ ReportOK'
<1>1. UNCHANGED <<docker, op, worker, phase, img, plan, cur, managed>>
  BY DEF Expire, job
<1>2. AttachedOK'
  BY <1>1 DEF ReportInv, AttachedOK
<1>3. ASSUME Reconciling, Working PROVE ReportOK'
  <2>1. worker \in Workers /\ mem[worker] # None /\ TypeInv
    BY <1>3 DEF ReportInv, TypeInv, JobOK, RecordsOK, InHand
  <2>2. want' = want
    BY <1>1, <2>1, ExpireWant DEF want
  <2>3. Desired' = Desired
    BY <2>2 DEF Desired
  <2> QED BY <1>1, <1>3, <2>2, <2>3 DEF ReportInv, ReportOK, PlanOK, CurOK, Serves, Early,
               Creating, Current, Working, Reconciling
<1> QED BY <1>1, <1>2, <1>3 DEF ReportOK, Reconciling, Working

LEMMA StubExitsReport ==
  ASSUME ReportInv, NEW w \in Workers, NEW n \in Names, StubExits(w, n)
  PROVE  AttachedOK' /\ ReportOK'
<1>1. UNCHANGED <<mem, op, worker, phase, img, plan, cur, managed>>
  BY DEF StubExits, Moved, held
<1>2. /\ TypeInv /\ docker[w][n] # None
      /\ docker'[w][n] # None /\ ~docker'[w][n].running
      /\ docker'[w][n].spec = docker[w][n].spec
      /\ docker'[w][n].attached = docker[w][n].attached
      /\ \A v \in Workers, m \in Names :
           v # w \/ m # n => docker'[v][m] = docker[v][m]
  BY ExitAfter DEF ReportInv, StubExits
<1>3. AttachedOK'
  BY <1>2 DEF ReportInv, AttachedOK
<1>4. ASSUME Reconciling, Working PROVE ReportOK'
  <2>1. worker \in Workers
    BY <1>4 DEF ReportInv, TypeInv, JobOK
  <2>2. UNCHANGED <<want, Desired>>
    BY <1>1 DEF want, Desired
  <2>3. \A m \in Names : PlanOK(m) => PlanOK(m)'
    BY <1>1, <1>2, <2>1, <2>2 DEF PlanOK, Serves, Healthy
  <2>4. CurOK => CurOK'
    <3>1. Creating => cur \in Names
      BY DEF ReportInv, TypeInv, JobOK
    <3> QED BY <1>1, <1>2, <2>1, <2>2, <3>1 DEF CurOK, Creating, Current
  <2> QED BY <1>1, <1>4, <2>3, <2>4 DEF ReportInv, ReportOK, Early, Reconciling, Working
<1> QED BY <1>1, <1>3, <1>4 DEF ReportOK, Reconciling, Working

LEMMA PullImageReport ==
  ASSUME ReportInv, PullImage
  PROVE  AttachedOK' /\ ReportOK'
  BY DEF PullImage, Moved, held, ReportInv, AttachedOK, ReportOK, PlanOK, CurOK, Serves, Early,
         Creating, Current, Working, Reconciling, want, Desired

LEMMA ReportNext == ReportInv /\ [Next]_vars => ReportInv'
<1> SUFFICES ASSUME ReportInv, [Next]_vars PROVE ReportInv'
  OBVIOUS
<1>1. TypeInv'
  BY TypeNext DEF ReportInv
<1>2. SUFFICES AttachedOK' /\ ReportOK'
  BY <1>1 DEF ReportInv
<1>3. AttachedOK
  BY DEF ReportInv
<1>4. CASE Requests
  <2>1. PICK w \in Workers, cap \in 1..MaxCaptures, c \in Contents : Upsert(w, cap, c)
    BY <1>4 DEF Requests
  <2>2. docker' = docker /\ op = "idle" /\ (Begin("upsert", w, {}, "image", {}) \/ UNCHANGED job)
    BY <2>1 DEF Upsert, job
  <2> QED BY <1>3, <2>2, BeginReport, OtherReport
<1>5. CASE Restart
  <2>1. docker' = docker /\ \E ws : Begin("load", None, ws, "next", {})
    BY <1>5 DEF Restart
  <2> QED BY <1>3, <2>1, BeginReport
<1>6. CASE Prune
  <2>1. docker' = docker /\ \E ws : Begin("prune", None, ws, "next", {})
    BY <1>6 DEF Prune
  <2> QED BY <1>3, <2>1, BeginReport
<1>7. CASE Step
  <2>1. CASE \E w \in Workers : NextRecord(w)
    <3>1. PICK w \in Workers : NextRecord(w)
      BY <2>1
    <3>2. /\ docker' = docker
          /\ \/ Begin("load", w, queue \ {w}, "image", {})
             \/ Begin("prune", w, queue \ {w}, "list", mem[w].managed)
      BY <3>1 DEF NextRecord
    <3> QED BY <1>3, <3>2, BeginReport
  <2>2. CASE LastRecord
    BY <1>3, <2>2, BeginReport DEF LastRecord, Release
  <2>3. CASE FinishUpsert
    BY <1>3, <2>3, BeginReport DEF FinishUpsert, Release
  <2>4. CASE FinishLoad
    BY <1>3, <2>4, BeginReport DEF FinishLoad
  <2>5. CASE FinishPrune
    BY <1>3, <2>5, BeginReport DEF FinishPrune
  <2>6. CASE \E n \in Names : RemoveStale(n) \/ CreateStub(n) \/ DropStub(n)
    BY <2>6, RemoveStaleReport, CreateStubReport, DropStubReport
  <2>7. CASE InspectImage \/ ListManaged \/ ConnectStub \/ StartStub \/ UndoStub
    BY <2>7, InspectImageReport, ListManagedReport, ConnectStubReport, StartStubReport, UndoStubReport
  <2> QED BY <1>7, <2>1, <2>2, <2>3, <2>4, <2>5, <2>6, <2>7 DEF Step
<1>8. CASE Environment
  BY <1>8, ExpireReport, StubExitsReport, PullImageReport DEF Environment
<1>9. CASE Crash
  BY <1>3, <1>9, BeginReport DEF Crash, Release
<1>10. CASE UNCHANGED vars
  BY <1>10 DEF vars, job, ReportInv, AttachedOK, ReportOK, PlanOK, CurOK, Serves, Early, Creating, Current, Working,
       Reconciling, want, Desired
<1> QED BY <1>4, <1>5, <1>6, <1>7, <1>8, <1>9, <1>10 DEF Next

LEMMA ReportInit == Init => ReportInv
<1> SUFFICES ASSUME Init PROVE ReportInv
  OBVIOUS
<1>1. AttachedOK /\ ReportOK
  BY DEF Init, Idle, AttachedOK, ReportOK, Reconciling
<1> QED BY <1>1, InitType DEF ReportInv

LEMMA ReportAlways == Spec => []ReportInv
  BY ReportInit, ReportNext, PTL DEF Spec

\* Whatever call fails, and whatever moves under it, a reconciliation reports
\* only stubs that exist, route as the snapshot asks and are on Traefik's
\* network (reconcileWorker's list, store.go:217-241).
THEOREM ReportedStubsAlwaysServe == Spec => []ReportedStubsServe
<1>1. ReportInv => ReportedStubsServe
  <2> SUFFICES ASSUME ReportInv, Reconciling, phase # "next", NEW n \in managed
               PROVE  Serves(n)
    BY DEF ReportedStubsServe, Serves
  <2>1. n \in Names /\ ~Early /\ Working
    BY DEF ReportInv, TypeInv, TypeOK, JobTypeOK, ReportOK, Working
  <2> QED BY <2>1, ApplyFacts DEF PlanOK
<1> QED BY <1>1, ReportAlways, PTL

\* No step of a reconciliation takes down a stub that already is what it is to
\* be: an unchanged service keeps its route (store.go:220-223).
THEOREM HealthyNeverTakenDown == Spec => HealthyUntouched
<1>1. ASSUME ReportInv, [Next]_vars, Reconciling, phase = "apply", NEW n \in Desired,
             docker[worker][n] # None, Healthy(docker[worker][n], want[n], img)
      PROVE  docker'[worker][n] # None
  <2>1. Working /\ ~Early /\ TypeInv /\ n \in Names
    BY <1>1 DEF Working, Early, ReportInv, Desired
  <2>2. worker \in Workers /\ PlanOK(n)
    BY <1>1, <2>1, ApplyFacts
  <2>3. CASE docker' = docker
    BY <1>1, <2>3
  <2>4. CASE \E m \in Names : RemoveStale(m) \/ DropStub(m)
    <3>1. PICK m \in Names : RemoveStale(m) \/ DropStub(m)
      BY <2>4
    <3>2. (docker' = docker \/ SetStub(m, None)) /\ plan[m] \in {"replace", "drop"}
      BY <3>1 DEF RemoveStale, DropStub
    <3>3. m # n
      BY <1>1, <2>2, <3>2 DEF PlanOK
    <3> QED BY <1>1, <2>1, <2>2, <3>2, <3>3, StubAfter
  <2>5. CASE \E m \in Names : CreateStub(m)
    <3>1. PICK m \in Names : CreateStub(m)
      BY <2>5
    <3>2. docker' = docker \/ (docker[worker][m] = None /\ SetStub(m, NewStub(m)))
      BY <3>1 DEF CreateStub
    <3> HIDE DEF NewStub
    <3> QED BY <1>1, <2>1, <2>2, <3>2, StubAfter
  <2>6. CASE \E w \in Workers, m \in Names : StubExits(w, m)
    BY <1>1, <2>1, <2>2, <2>6, ExitAfter
  <2> QED BY <1>1, <2>3, <2>4, <2>5, <2>6 DEF Next, vars, Requests, Upsert, Restart, Prune, Step,
               NextRecord, LastRecord, InspectImage, ListManaged, ConnectStub, StartStub, UndoStub,
               FinishUpsert, FinishLoad, FinishPrune, Environment, Expire, PullImage, Crash
<1>2. ReportInv /\ [Next]_vars =>
        [(Reconciling /\ phase = "apply") =>
           \A n \in Desired :
             LET stub == docker[worker][n]
             IN  (stub # None /\ Healthy(stub, want[n], img))
                   => docker'[worker][n] # None]_vars
  BY <1>1
<1> QED BY <1>2, ReportAlways, PTL DEF Spec, HealthyUntouched

-----------------------------------------------------------------------------
(* A reconciliation in which nothing failed and nothing moved.              *)

CleanOn == Reconciling /\ Working /\ clean /\ phase # "image"

LEMMA BeginClean ==
  ASSUME NEW o, NEW w, NEW ws, NEW where, NEW names, Begin(o, w, ws, where, names),
         o \in {"upsert", "load"} => where \in {"next", "image"}
  PROVE  CleanInv'
  BY DEF Begin, CleanInv, Reconciling, Working

LEMMA InspectImageClean ==
  ASSUME ReportInv, CleanInv, InspectImage
  PROVE  CleanInv'
<1>1. ~clean' \/ (phase' = "list" /\ image' = img')
  BY DEF InspectImage, Abort, Trouble
<1> QED BY <1>1 DEF CleanInv, Creating

LEMMA ListManagedClean ==
  ASSUME ReportInv, CleanInv, ListManaged
  PROVE  CleanInv'
<1> SUFFICES ASSUME Reconciling', clean' PROVE CleanInv'
  BY DEF CleanInv
<1> DEFINE present == {n \in Names : docker[worker][n] # None}
<1>1. /\ phase' = "apply" /\ UNCHANGED <<op, worker, img, image, mem, docker>>
      /\ plan' = [n \in Names |-> PlanFor(n, present)] /\ clean
      /\ managed' = {n \in Names : plan'[n] = "keep"}
  BY DEF ListManaged, Abort, Trouble, held, Reconciling
<1>2. Reconciling /\ op # "prune" /\ image = img
  BY <1>1 DEF CleanInv, Reconciling, Working, ListManaged
<1>3. UNCHANGED <<want, Desired>>
  BY <1>1 DEF want, Desired
<1>4. SUFFICES ASSUME NEW n \in Names PROVE CleanOK(n)'
  BY <1>1, <1>2 DEF CleanInv, Creating
<1>5. plan'[n] = PlanFor(n, present) /\ (n \in managed' <=> plan'[n] = "keep")
      /\ (n \in present <=> docker[worker][n] # None)
  BY <1>1
<1> HIDE DEF present
<1> QED BY <1>1, <1>2, <1>3, <1>5 DEF CleanOK, PlanFor, Healthy

\* The facts a clean step of the second half starts from.
LEMMA CleanFacts ==
  ASSUME ReportInv, CleanInv, CleanOn, ~Early
  PROVE  /\ phase # "undo" /\ image = img /\ worker \in Workers
         /\ plan \in [Names -> Plans] /\ CurOK
         /\ \A n \in Names : PlanOK(n) /\ CleanOK(n)
         /\ \A n \in Names : plan[n] \in {"replace", "create"} => n \in Desired
         /\ Creating => Current.forImage = img /\ Current.image = img
<1>1. Working /\ Reconciling
  BY DEF CleanOn
<1> QED BY <1>1, ApplyFacts DEF CleanInv, CleanOn, Early

LEMMA RemoveStaleClean ==
  ASSUME ReportInv, CleanInv, NEW n \in Names, RemoveStale(n)
  PROVE  CleanInv'
<1> SUFFICES ASSUME clean' PROVE CleanInv'
  BY DEF CleanInv
<1>1. CleanOn /\ ~Early /\ TypeInv
  BY DEF RemoveStale, CleanOn, Working, Early, ReportInv, TypeInv, JobOK
<1>2. /\ SetStub(n, None) /\ phase' = "apply" /\ plan[n] = "replace"
      /\ plan' = [plan EXCEPT ![n] = "create"]
      /\ UNCHANGED <<mem, image, img, managed, op, worker>>
  BY DEF RemoveStale, held
<1>3. /\ docker'[worker][n] = None
      /\ \A v \in Workers, m \in Names :
           v # worker \/ m # n => docker'[v][m] = docker[v][m]
  BY <1>1, <1>2, CleanFacts, StubAfter
<1>4. UNCHANGED <<want, Desired>>
  BY <1>2 DEF want, Desired
<1>5. ~Creating /\ ~Creating'
  BY <1>2 DEF Creating, RemoveStale
<1>6. \A m \in Names : CleanOK(m)'
  BY <1>1, <1>2, <1>3, <1>4, <1>5, CleanFacts DEF CleanOK
<1> QED BY <1>1, <1>2, <1>5, <1>6, CleanFacts DEF CleanInv

LEMMA CreateStubClean ==
  ASSUME ReportInv, CleanInv, NEW n \in Names, CreateStub(n)
  PROVE  CleanInv'
<1> SUFFICES ASSUME clean' PROVE CleanInv'
  BY DEF CleanInv
<1>1. CleanOn /\ ~Early /\ TypeInv /\ ~Creating
  BY DEF CreateStub, Give, CleanOn, Working, Early, ReportInv, TypeInv, JobOK, Creating
<1>2. plan[n] = "create" /\ docker[worker][n] = None
  BY <1>1, CleanFacts DEF CreateStub, CleanOK
<1> DEFINE s == NewStub(n)
<1>3. s.forImage = img /\ s.image = image
  BY DEF NewStub
<1>4. /\ SetStub(n, s) /\ phase' = "connect" /\ cur' = n
      /\ UNCHANGED <<mem, image, img, plan, managed, op, worker>>
  BY <1>2 DEF CreateStub, Give, held
<1> HIDE DEF s
<1>5. /\ docker'[worker][n] = s
      /\ \A v \in Workers, m \in Names :
           v # worker \/ m # n => docker'[v][m] = docker[v][m]
  BY <1>1, <1>4, CleanFacts, StubAfter
<1>6. UNCHANGED <<want, Desired>>
  BY <1>4 DEF want, Desired
<1>7. \A m \in Names : CleanOK(m)'
  BY <1>1, <1>2, <1>4, <1>5, <1>6, CleanFacts DEF CleanOK, Creating
<1> QED BY <1>1, <1>3, <1>4, <1>5, <1>7, CleanFacts DEF CleanInv, Creating, Current

LEMMA ConnectStubClean ==
  ASSUME ReportInv, CleanInv, ConnectStub
  PROVE  CleanInv'
<1> SUFFICES ASSUME clean' PROVE CleanInv'
  BY DEF CleanInv
<1>1. Creating /\ Working /\ ~Early /\ TypeInv /\ phase = "connect"
  BY DEF ConnectStub, Creating, Working, Early, ReportInv
<1>2. /\ CleanOn /\ cur \in Names /\ cur # None
  BY <1>1, CurrentType, FreshAssumption DEF ConnectStub, Goto, Fail, Trouble, CleanOn
<1> DEFINE s == Flagged(Current, TRUE, Current.running)
<1>3. s.forImage = Current.forImage /\ s.image = Current.image
  BY DEF Flagged
<1>4. /\ SetStub(cur, s) /\ phase' = "start"
      /\ UNCHANGED <<mem, image, img, plan, cur, managed, op, worker>>
  BY DEF ConnectStub, Goto, Fail, Trouble, Attach, held
<1> HIDE DEF s
<1>5. /\ docker'[worker][cur] = s
      /\ \A v \in Workers, m \in Names :
           v # worker \/ m # cur => docker'[v][m] = docker[v][m]
  BY <1>1, <1>2, <1>4, CleanFacts, StubAfter
<1>6. UNCHANGED <<want, Desired>>
  BY <1>4 DEF want, Desired
<1>7. plan[cur] = "create"
  BY <1>1, <1>2, CleanFacts DEF CurOK
<1>8. \A m \in Names : CleanOK(m)'
  BY <1>1, <1>2, <1>4, <1>5, <1>6, <1>7, CleanFacts DEF CleanOK, Creating
<1> QED BY <1>1, <1>2, <1>3, <1>4, <1>5, <1>8, CleanFacts DEF CleanInv, Creating, Current

LEMMA StartStubClean ==
  ASSUME ReportInv, CleanInv, StartStub
  PROVE  CleanInv'
<1> SUFFICES ASSUME clean' PROVE CleanInv'
  BY DEF CleanInv
<1>1. Creating /\ Working /\ ~Early /\ TypeInv /\ phase = "start"
  BY DEF StartStub, Creating, Working, Early, ReportInv
<1>2. /\ CleanOn /\ cur \in Names /\ cur # None
  BY <1>1, CurrentType, FreshAssumption DEF StartStub, Fail, Trouble, CleanOn
<1> DEFINE s == Flagged(Current, Current.attached, TRUE)
<1>3. /\ s.forImage = Current.forImage /\ s.image = Current.image /\ s.spec = Current.spec
      /\ s.running
  BY DEF Flagged
<1>4. /\ SetStub(cur, s) /\ phase' = "apply" /\ cur' = None
      /\ plan' = [plan EXCEPT ![cur] = "done"] /\ managed' = managed \cup {cur}
      /\ UNCHANGED <<mem, image, img, op, worker>>
  BY DEF StartStub, Fail, Trouble, Run, held
<1> HIDE DEF s
<1>5. /\ docker'[worker][cur] = s
      /\ \A v \in Workers, m \in Names :
           v # worker \/ m # cur => docker'[v][m] = docker[v][m]
  BY <1>1, <1>2, <1>4, CleanFacts, StubAfter
<1>6. UNCHANGED <<want, Desired>>
  BY <1>4 DEF want, Desired
<1>7. /\ plan[cur] = "create" /\ cur \in Desired
      /\ Current.spec = want[cur] /\ Current.forImage = img /\ Current.image = img
  BY <1>1, <1>2, CleanFacts DEF CurOK
<1>8. Healthy(s, want[cur], img)
  BY <1>3, <1>7 DEF Healthy
<1>9. \A m \in Names : CleanOK(m)'
  BY <1>1, <1>2, <1>4, <1>5, <1>6, <1>7, <1>8, CleanFacts DEF CleanOK, Creating, Healthy
<1> QED BY <1>1, <1>2, <1>4, <1>9, CleanFacts DEF CleanInv, Creating

LEMMA DropStubClean ==
  ASSUME ReportInv, CleanInv, NEW n \in Names, DropStub(n)
  PROVE  CleanInv'
<1> SUFFICES ASSUME clean', Reconciling' PROVE CleanInv'
  BY DEF CleanInv
<1>1. CleanOn /\ ~Early /\ TypeInv
  BY DEF DropStub, Give, held, CleanOn, Working, Early, ReportInv, Reconciling
<1>2. /\ SetStub(n, None) /\ phase' = "apply" /\ plan[n] = "drop"
      /\ plan' = [plan EXCEPT ![n] = "done"]
      /\ UNCHANGED <<mem, image, img, managed, op, worker>>
  BY DEF DropStub, Give, held
<1>3. /\ docker'[worker][n] = None
      /\ \A v \in Workers, m \in Names :
           v # worker \/ m # n => docker'[v][m] = docker[v][m]
  BY <1>1, <1>2, CleanFacts, StubAfter
<1>4. UNCHANGED <<want, Desired>>
  BY <1>2 DEF want, Desired
<1>5. ~Creating /\ ~Creating'
  BY <1>2 DEF Creating, DropStub
<1>6. \A m \in Names : CleanOK(m)'
  BY <1>1, <1>2, <1>3, <1>4, <1>5, CleanFacts DEF CleanOK
<1> QED BY <1>1, <1>2, <1>5, <1>6, CleanFacts DEF CleanInv

LEMMA EnvironmentClean ==
  ASSUME ReportInv, CleanInv, Environment
  PROVE  CleanInv'
<1> SUFFICES ASSUME CleanOn' PROVE CleanInv'
  BY DEF CleanInv, CleanOn
<1>1. UNCHANGED <<op, worker, phase, img, plan, cur, managed>> /\ CleanOn
  BY DEF Environment, Expire, StubExits, PullImage, Moved, held, job, CleanOn, Working, Reconciling
<1>2. worker \in Workers /\ mem[worker] # None /\ TypeInv /\ (Creating => cur \in Names)
  BY <1>1 DEF CleanOn, ReportInv, TypeInv, JobOK, RecordsOK, InHand, Working, Reconciling
<1>3. image' = image
  BY <1>1 DEF Environment, Expire, StubExits, PullImage, Moved, CleanOn, Working
<1>4. want' = want
  BY <1>1, <1>2, ExpireWant DEF Environment, StubExits, PullImage, want
<1>5. Desired' = Desired
  BY <1>4 DEF Desired
<1>6. \A n \in Names : docker'[worker][n] = docker[worker][n]
  <2>1. CASE docker' = docker
    BY <2>1
  <2>2. CASE \E w \in Workers, n \in Names : StubExits(w, n)
    <3>1. PICK w \in Workers, n \in Names : StubExits(w, n)
      BY <2>2
    <3>2. w # worker
      BY <3>1, <1>1 DEF StubExits, Moved, CleanOn, Working
    <3> QED BY <1>2, <3>1, <3>2, ExitAfter
  <2> QED BY <2>1, <2>2 DEF Environment, Expire, PullImage
<1>7. \A n \in Names : CleanOK(n) => CleanOK(n)'
  BY <1>1, <1>4, <1>5, <1>6 DEF CleanOK, Creating
<1> QED BY <1>1, <1>2, <1>3, <1>6, <1>7 DEF CleanInv, CleanOn, Creating, Current

LEMMA CleanNext == ReportInv /\ CleanInv /\ [Next]_vars => CleanInv'
<1> SUFFICES ASSUME ReportInv, CleanInv, [Next]_vars PROVE CleanInv'
  OBVIOUS
<1>1. CASE Requests
  <2>1. op = "idle" /\ ((\E w : Begin("upsert", w, {}, "image", {})) \/ UNCHANGED job)
    BY <1>1 DEF Requests, Upsert, job
  <2> QED BY <2>1, BeginClean DEF CleanInv, Reconciling, job
<1>2. CASE Restart
  <2>1. \E ws : Begin("load", None, ws, "next", {})
    BY <1>2 DEF Restart
  <2> QED BY <2>1, BeginClean
<1>3. CASE Prune
  <2>1. \E ws : Begin("prune", None, ws, "next", {})
    BY <1>3 DEF Prune
  <2> QED BY <2>1, BeginClean
<1>4. CASE Step
  <2>1. CASE \E w \in Workers : NextRecord(w)
    BY <2>1, BeginClean DEF NextRecord
  <2>2. CASE LastRecord
    BY <2>2, BeginClean DEF LastRecord, Release
  <2>3. CASE FinishUpsert
    BY <2>3, BeginClean DEF FinishUpsert, Release
  <2>4. CASE FinishLoad
    BY <2>4, BeginClean DEF FinishLoad
  <2>5. CASE FinishPrune
    BY <2>5, BeginClean DEF FinishPrune
  <2>6. CASE \E n \in Names : RemoveStale(n) \/ CreateStub(n) \/ DropStub(n)
    BY <2>6, RemoveStaleClean, CreateStubClean, DropStubClean
  <2>7. CASE InspectImage \/ ListManaged \/ ConnectStub \/ StartStub
    BY <2>7, InspectImageClean, ListManagedClean, ConnectStubClean, StartStubClean
  <2>8. CASE UndoStub
    BY <2>8 DEF UndoStub, Give, CleanInv
  <2> QED BY <1>4, <2>1, <2>2, <2>3, <2>4, <2>5, <2>6, <2>7, <2>8 DEF Step
<1>5. CASE Environment
  BY <1>5, EnvironmentClean
<1>6. CASE Crash
  BY <1>6, BeginClean DEF Crash, Release
<1>7. CASE UNCHANGED vars
  BY <1>7 DEF vars, job, CleanInv, CleanOK, Creating, Current, Working, Reconciling, want, Desired
<1> QED BY <1>1, <1>2, <1>3, <1>4, <1>5, <1>6, <1>7 DEF Next

LEMMA CleanAlways == Spec => [](ReportInv /\ CleanInv)
<1>1. Init => CleanInv
  BY DEF Init, Idle, CleanInv, Reconciling
<1> QED BY <1>1, ReportInit, ReportNext, CleanNext, PTL DEF Spec

\* A reconciliation in which no call failed and nothing moved ends with exactly
\* the stubs the snapshot wants, current, attached and running, and reports
\* exactly those (reconcileWorker, createStubContainer).
THEOREM ReconcileAlwaysExact == Spec => []ReconcileExact
<1>1. ReportInv /\ CleanInv => ReconcileExact
  <2> SUFFICES ASSUME ReportInv, CleanInv, Reconciling, Applied, clean
               PROVE  /\ managed = Desired
                      /\ \A n \in Names :
                           IF n \notin Desired THEN docker[worker][n] = None
                           ELSE /\ docker[worker][n] # None /\ docker[worker][n].attached
                                /\ Healthy(docker[worker][n], want[n], img)
    BY DEF ReconcileExact
  <2>1. CleanOn /\ ~Early /\ ~Creating /\ TypeInv
    BY DEF Applied, CleanOn, Working, Early, Creating, ReportInv
  <2>2. \A n \in Names : plan[n] \in {"none", "keep", "done"}
    BY <2>1, CleanFacts DEF Applied, CreatesLeft, CleanOK, Plans
  <2>3. \A n \in Names : n \in Desired <=> n \in managed
    BY <2>1, <2>2, CleanFacts DEF CleanOK, PlanOK
  <2>4. managed \subseteq Names /\ Desired \subseteq Names
    BY DEF ReportInv, TypeInv, TypeOK, JobTypeOK, Desired
  <2>5. \A n \in Names : n \notin Desired => docker[worker][n] = None
    BY <2>1, <2>2, <2>3, CleanFacts DEF CleanOK, PlanOK
  <2>6. \A n \in Desired : Healthy(docker[worker][n], want[n], img) /\ Serves(n)
    BY <2>1, <2>2, <2>3, <2>4, CleanFacts DEF CleanOK, PlanOK
  <2> QED BY <2>3, <2>4, <2>5, <2>6 DEF Serves
<1> QED BY <1>1, CleanAlways, PTL

-----------------------------------------------------------------------------
(* Every stub is in its worker's record.  Each of these faults alone lets   *)
(* one escape: the state file or the list is lost, or a stub outlives the   *)
(* error that ends its name's turn.                                         *)

Losing == {"read", "image", "list", "inspect", "remove", "late"}

\* The workers whose record need not list their stubs: the one being worked on
\* and, at start-up, those Load has yet to reconcile.
Busy == (IF op = "load" THEN queue ELSE {}) \cup (IF Working THEN {worker} ELSE {})
Exists(n) == docker[worker][n] # None

FiledOK == \A w \in Workers, n \in Names :
  docker[w][n] # None => disk[w] # None /\ disk[w].want # Bad
RecordedOK == up => \A w \in Workers \ Busy, n \in Names :
  docker[w][n] # None => mem[w] # None /\ n \in mem[w].managed
PruneOK == op = "prune" /\ Working => \A n \in Names : Exists(n) =>
  (phase = "list" => n \in managed) /\ (phase = "apply" => plan[n] = "drop")
TurnOK == Reconciling /\ Working /\ phase \notin {"image", "list"} =>
  \A n \in Names : Exists(n) =>
    n \in managed \/ plan[n] \in {"replace", "drop"} \/ (Creating /\ n = cur)
TrackInv == phase # "abort" /\ FiledOK /\ RecordedOK /\ PruneOK /\ TurnOK

TrackAll == ReportInv /\ Ordered /\ TrackInv

LEMMA NoneLost ==
  ASSUME Faults \cap Losing = {}
  PROVE  \A f \in Losing : ~Fault(f)
  BY DEF Fault

\* A step of the running operation's turn leaves the other workers alone.
LEMMA TurnTracked ==
  ASSUME TrackAll, Working, Working', UNCHANGED <<up, mem, disk, held>>,
         \A v \in Workers, m \in Names : v # worker => docker'[v][m] = docker[v][m],
         \A m \in Names : docker'[worker][m] # None =>
           Exists(m) \/ (disk[worker] # None /\ disk[worker].want # Bad)
  PROVE  FiledOK' /\ RecordedOK'
<1>1. worker \in Workers /\ worker' = worker /\ Busy' = Busy /\ worker \in Busy
  BY DEF TrackAll, ReportInv, TypeInv, JobOK, held, Busy
<1>2. FiledOK'
  BY <1>1 DEF TrackAll, TrackInv, FiledOK, Exists
<1>3. RecordedOK'
  BY <1>1 DEF TrackAll, TrackInv, RecordedOK
<1> QED BY <1>2, <1>3

\* While it reconciles, the worker's record is on disk and compatible.
LEMMA FiledWorker ==
  ASSUME TrackAll, Reconciling, Working
  PROVE  worker \in Workers /\ disk[worker] # None /\ disk[worker].want # Bad
<1>1. worker \in Workers /\ worker \in InHand /\ mem[worker] # None /\ mem[worker].cap > 0
  BY DEF TrackAll, ReportInv, TypeInv, JobOK, RecordsOK, InHand
<1>2. disk[worker] # None /\ disk[worker].cap = mem[worker].cap
      /\ (disk[worker].want = Bad => disk[worker].cap = 0)
  BY <1>1 DEF TrackAll, Ordered, CapturesOK
<1> QED BY <1>1, <1>2, TypeFacts DEF TrackAll, ReportInv

LEMMA InspectImageTracked ==
  ASSUME Faults \cap Losing = {}, TrackAll, InspectImage
  PROVE  TrackInv'
<1>1. phase' = "list" /\ UNCHANGED <<up, mem, disk, docker, held>> /\ Working /\ Reconciling
  BY NoneLost DEF Losing, InspectImage, Abort, Working
<1>2. Working' /\ FiledOK' /\ RecordedOK'
  BY <1>1, TurnTracked DEF Working, Exists
<1> QED BY <1>1, <1>2 DEF TrackInv, PruneOK, TurnOK, Reconciling, held

LEMMA ListManagedTracked ==
  ASSUME Faults \cap Losing = {}, TrackAll, ListManaged
  PROVE  TrackInv'
<1> DEFINE present == {n \in Names : docker[worker][n] # None}
<1>1. /\ phase' = "apply" /\ UNCHANGED <<up, mem, disk, docker, held, cur>>
      /\ plan' = [n \in Names |-> PlanFor(n, present)]
      /\ managed' = IF Reconciling THEN {n \in Names : plan'[n] = "keep"} ELSE managed
      /\ Working /\ phase = "list"
  BY NoneLost DEF Losing, ListManaged, Abort, Working
<1>2. Working' /\ FiledOK' /\ RecordedOK'
  BY <1>1, TurnTracked DEF Working, Exists
<1>3. ASSUME NEW n \in Names, Exists(n)'
      PROVE  /\ op = "prune" => plan'[n] = "drop"
             /\ Reconciling => n \in managed' \/ plan'[n] \in {"replace", "drop"}
  <2>1. plan'[n] = PlanFor(n, present) /\ n \in present
    BY <1>1, <1>3 DEF Exists, held
  <2>2. op = "prune" => n \in managed
    BY <1>1, <2>1 DEF TrackAll, TrackInv, PruneOK, Exists
  <2> HIDE DEF present
  <2> QED BY <1>1, <2>1, <2>2 DEF PlanFor, Reconciling
<1> QED BY <1>1, <1>2, <1>3 DEF TrackInv, PruneOK, TurnOK, Reconciling, held

LEMMA RemoveStaleTracked ==
  ASSUME Faults \cap Losing = {}, TrackAll, NEW n \in Names, RemoveStale(n)
  PROVE  TrackInv'
<1>1. /\ SetStub(n, None) /\ phase = "apply" /\ phase' = "apply" /\ Working
      /\ plan' = [plan EXCEPT ![n] = "create"] /\ plan[n] = "replace"
      /\ UNCHANGED <<up, mem, disk, held, managed>>
  BY NoneLost DEF Losing, RemoveStale, Working
<1>2. ReportInv /\ TypeInv /\ Reconciling /\ worker \in Workers /\ plan \in [Names -> Plans]
  BY <1>1 DEF TrackAll, ReportInv, TypeInv, TypeOK, JobTypeOK, JobOK
<1>3. /\ docker'[worker][n] = None
      /\ \A v \in Workers, m \in Names :
           v # worker \/ m # n => docker'[v][m] = docker[v][m]
  BY <1>1, <1>2, StubAfter
<1>4. Working' /\ FiledOK' /\ RecordedOK'
  BY <1>1, <1>2, <1>3, TurnTracked DEF Working, Exists
<1>5. TurnOK'
  BY <1>1, <1>2, <1>3 DEF TrackAll, TrackInv, TurnOK, Exists, Creating, held
<1> QED BY <1>1, <1>2, <1>4, <1>5 DEF TrackInv, PruneOK, Reconciling, held

LEMMA CreateStubTracked ==
  ASSUME Faults \cap Losing = {}, TrackAll, NEW n \in Names, CreateStub(n)
  PROVE  TrackInv'
<1>1. /\ phase = "apply" /\ Working /\ plan[n] = "create" /\ ~Creating /\ ~Early
      /\ UNCHANGED <<up, mem, disk, held, managed>>
  BY DEF CreateStub, Give, Working, Creating, Early
<1>2. ReportInv /\ TypeInv /\ Reconciling /\ worker \in Workers /\ plan \in [Names -> Plans]
  BY <1>1 DEF TrackAll, ReportInv, TypeInv, TypeOK, JobTypeOK, JobOK
<1>3. PlanOK(n) /\ n \notin managed
  BY <1>1, <1>2, ApplyFacts DEF PlanOK
<1>4. ~Exists(n)
  BY <1>1, <1>2, <1>3 DEF TrackAll, TrackInv, TurnOK
<1> DEFINE s == NewStub(n)
<1>5. \/ /\ SetStub(n, s) /\ phase' = "connect" /\ cur' = n /\ plan' = plan
      \/ /\ docker' = docker /\ phase' = "apply"
         /\ plan' = [plan EXCEPT ![n] = "failed"]
  BY <1>4, NoneLost DEF Losing, CreateStub, Give, Exists
<1> HIDE DEF s
<1>6. \A v \in Workers, m \in Names :
        v # worker \/ m # n => docker'[v][m] = docker[v][m]
  BY <1>2, <1>5, StubAfter
<1>7. Working' /\ FiledOK' /\ RecordedOK'
  BY <1>1, <1>2, <1>5, <1>6, TurnTracked, FiledWorker DEF Working, Exists
<1>8. TurnOK'
  BY <1>1, <1>2, <1>4, <1>5, <1>6 DEF TrackAll, TrackInv, TurnOK, Exists, Creating, held
<1> QED BY <1>1, <1>2, <1>5, <1>7, <1>8 DEF TrackInv, PruneOK, Reconciling, held

\* Connecting, starting and undoing the stub being created.
LEMMA CreatingTracked ==
  ASSUME Faults \cap Losing = {}, TrackAll, ConnectStub \/ StartStub \/ UndoStub
  PROVE  TrackInv'
<1>1. Creating /\ Working /\ UNCHANGED <<up, mem, disk, held>> /\ phase' # "abort" /\ Working'
      /\ phase' \notin {"image", "list"}
  BY DEF ConnectStub, StartStub, UndoStub, Creating, Working, Goto, Fail, Trouble, Give, held
<1>2. ReportInv /\ TypeInv /\ Reconciling /\ worker \in Workers /\ cur \in Names
      /\ Exists(cur) /\ plan \in [Names -> Plans] /\ phase \notin {"image", "list"}
  BY <1>1, CurrentType DEF TrackAll, ReportInv, TypeInv, TypeOK, JobTypeOK, Exists, Current, Creating
<1>3. \A v \in Workers, m \in Names :
        v # worker \/ m # cur => docker'[v][m] = docker[v][m]
  <2>1. \E s : docker' = docker \/ SetStub(cur, s)
    BY DEF ConnectStub, StartStub, UndoStub, Attach, Run
  <2> QED BY <1>2, <2>1, StubAfter
<1>4. FiledOK' /\ RecordedOK'
  BY <1>1, <1>2, <1>3, TurnTracked DEF Exists
<1>5. \/ Creating' /\ cur' = cur /\ plan' = plan /\ managed' = managed
      \/ cur \in managed' /\ managed \subseteq managed' /\ plan' = [plan EXCEPT ![cur] = "done"]
      \/ SetStub(cur, None) /\ managed' = managed /\ plan' = [plan EXCEPT ![cur] = "failed"]
  BY NoneLost DEF Losing, ConnectStub, StartStub, UndoStub, Goto, Fail, Trouble, Give, Creating
<1>6. SetStub(cur, None) => docker'[worker][cur] = None
  BY <1>2, StubAfter
<1>7. TurnOK'
  BY <1>1, <1>2, <1>3, <1>5, <1>6 DEF TrackAll, TrackInv, TurnOK, Exists, held
<1> QED BY <1>1, <1>2, <1>4, <1>7 DEF TrackInv, PruneOK, Reconciling, held

LEMMA DropStubTracked ==
  ASSUME Faults \cap Losing = {}, TrackAll, NEW n \in Names, DropStub(n)
  PROVE  TrackInv'
<1>1. /\ SetStub(n, None) /\ phase = "apply" /\ phase' = "apply" /\ Working
      /\ plan' = [plan EXCEPT ![n] = "done"]
      /\ UNCHANGED <<up, mem, disk, held, managed>>
  BY NoneLost DEF Losing, DropStub, Give, Working
<1>2. TypeInv /\ worker \in Workers /\ plan \in [Names -> Plans]
  BY <1>1 DEF TrackAll, ReportInv, TypeInv, TypeOK, JobTypeOK, JobOK
<1>3. /\ docker'[worker][n] = None
      /\ \A v \in Workers, m \in Names :
           v # worker \/ m # n => docker'[v][m] = docker[v][m]
  BY <1>1, <1>2, StubAfter
<1>4. Working' /\ FiledOK' /\ RecordedOK'
  BY <1>1, <1>2, <1>3, TurnTracked DEF Working, Exists
<1>5. TurnOK'
  BY <1>1, <1>2, <1>3 DEF TrackAll, TrackInv, TurnOK, Exists, Creating, Reconciling, held
<1>6. PruneOK'
  BY <1>1, <1>2, <1>3 DEF TrackAll, TrackInv, PruneOK, Exists, held
<1> QED BY <1>1, <1>4, <1>5, <1>6 DEF TrackInv

\* Nobody is worked on after the step: only the record and the file matter.
LEMMA IdleTracked ==
  ASSUME phase' = "next", FiledOK', RecordedOK'
  PROVE  TrackInv'
  BY DEF TrackInv, PruneOK, TurnOK, Working

LEMMA UpsertTracked ==
  ASSUME TrackAll, NEW w \in Workers, NEW cap \in 1..MaxCaptures,
         NEW c \in Contents, Upsert(w, cap, c)
  PROVE  TrackInv'
<1> DEFINE prev == IF mem[w] = None THEN {} ELSE mem[w].managed
           rec  == [cap |-> cap, want |-> c, managed |-> prev, expired |-> FALSE]
<1>1. /\ up /\ op = "idle" /\ up' /\ docker' = docker /\ phase = "next"
      /\ mem' = [mem EXCEPT ![w] = rec]
      /\ disk' = disk \/ disk' = [disk EXCEPT ![w] = rec]
      /\ Begin("upsert", w, {}, "image", {}) \/ UNCHANGED job
  BY DEF Upsert, job, TrackAll, ReportInv, TypeInv, JobOK, Working
<1>2. /\ mem \in [Workers -> Record \cup {None}] /\ disk \in [Workers -> Record \cup {None}]
      /\ prev \in SUBSET Names
  BY RecordFacts DEF TrackAll, ReportInv, TypeInv, TypeOK, StoreTypeOK
<1>3. rec \in Record /\ rec.want = c /\ rec.managed = prev
  BY <1>2 DEF Record
<1>4. rec # None /\ rec.want # Bad
  BY <1>3, RecordFacts, FreshAssumption
<1>5. \A n \in Names : docker[w][n] # None => n \in prev
  BY <1>1 DEF TrackAll, TrackInv, RecordedOK, Busy, Working
<1> HIDE DEF rec, prev
<1>6. FiledOK'
  BY <1>1, <1>2, <1>4 DEF TrackAll, TrackInv, FiledOK
<1>7. RecordedOK'
  <2>1. \A v \in Workers, n \in Names : docker'[v][n] # None =>
          mem'[v] # None /\ n \in mem'[v].managed
    BY <1>1, <1>2, <1>3, <1>4, <1>5 DEF TrackAll, TrackInv, RecordedOK, Busy, Working
  <2> QED BY <2>1 DEF RecordedOK
<1> QED BY <1>1, <1>6, <1>7 DEF TrackInv, PruneOK, TurnOK, Begin, job, Working, Reconciling

LEMMA RestartTracked ==
  ASSUME Faults \cap Losing = {}, TrackAll, Restart
  PROVE  TrackInv'
<1>1. PICK left \in SUBSET {w \in Workers : disk[w] # None /\ disk[w].want = Bad} :
        LET loaded == {w \in Workers : Compatible(w)}
        IN  /\ mem' = [w \in Workers |-> IF w \in loaded THEN disk[w] ELSE None]
            /\ disk' = [w \in Workers |-> IF w \in loaded \cup left THEN disk[w] ELSE None]
            /\ Begin("load", None, loaded, "next", {}) /\ docker' = docker
  <2>1. PICK unread \in SUBSET {w \in Workers : disk[w] # None},
             left \in SUBSET {w \in Workers : disk[w] # None /\ disk[w].want = Bad} :
          /\ unread # {} => Fault("read")
          /\ LET loaded == {w \in Workers : Compatible(w)} \ unread
                 keep   == {w \in Workers : Compatible(w)} \cup unread \cup left
             IN  /\ mem' = [w \in Workers |-> IF w \in loaded THEN disk[w] ELSE None]
                 /\ disk' = [w \in Workers |-> IF w \in keep THEN disk[w] ELSE None]
                 /\ Begin("load", None, loaded, "next", {})
    BY DEF Restart
  <2>2. unread = {}
    BY <2>1, NoneLost DEF Losing
  <2>3. docker' = docker
    BY DEF Restart
  <2> QED BY <2>1, <2>2, <2>3
<1>2. FiledOK'
  BY <1>1 DEF TrackAll, TrackInv, FiledOK, Compatible
<1>3. RecordedOK'
  <2>1. \A w \in Workers \ queue', n \in Names : docker'[w][n] = None
    BY <1>1 DEF Begin, TrackAll, TrackInv, FiledOK, Compatible
  <2> QED BY <1>1, <2>1 DEF RecordedOK, Busy, Begin
<1> QED BY <1>1, <1>2, <1>3, IdleTracked DEF Begin

\* Steps between two records that touch neither records, files nor stubs.
LEMMA PauseTracked ==
  ASSUME TrackAll, Prune \/ LastRecord
  PROVE  TrackInv'
<1>1. /\ UNCHANGED <<up, mem, disk, docker>> /\ phase' = "next" /\ Busy = {}
  BY DEF Prune, LastRecord, Release, Begin, Busy, Working, TrackAll, ReportInv, TypeInv, JobOK
<1>2. FiledOK'
  BY <1>1 DEF TrackAll, TrackInv, FiledOK
<1>3. RecordedOK'
  BY <1>1 DEF TrackAll, TrackInv, RecordedOK
<1> QED BY <1>1, <1>2, <1>3, IdleTracked

LEMMA NextRecordTracked ==
  ASSUME TrackAll, NEW w \in Workers, NextRecord(w)
  PROVE  TrackInv'
<1>1. UNCHANGED <<up, disk, docker>> /\ phase = "next" /\ w \in queue /\ up
  BY DEF NextRecord, TrackAll, ReportInv, TypeInv, StoppedOK, Idle
<1>2. FiledOK'
  BY <1>1 DEF TrackAll, TrackInv, FiledOK
<1>3. CASE op = "load"
  <2>1. /\ op' = "load" /\ worker' = w /\ queue' = queue \ {w} /\ phase' = "image" /\ mem' = mem
    BY <1>3 DEF NextRecord, Begin
  <2>2. RecordedOK'
    BY <1>1, <1>3, <2>1 DEF TrackAll, TrackInv, RecordedOK, Busy, Working
  <2> QED BY <1>2, <2>1, <2>2 DEF TrackInv, PruneOK, TurnOK
<1>4. CASE op = "prune"
  <2>1. /\ op' = "prune" /\ worker' = w /\ queue' = queue \ {w} /\ phase' = "list"
        /\ managed' = mem[w].managed /\ mem' = [mem EXCEPT ![w] = None]
    BY <1>4 DEF NextRecord, Begin
  <2>2. \A v \in Workers, n \in Names :
          docker[v][n] # None => mem[v] # None /\ n \in mem[v].managed
    BY <1>1, <1>4 DEF TrackAll, TrackInv, RecordedOK, Busy, Working
  <2>3. RecordedOK'
    <3>1. \A v \in Workers : v # w => mem'[v] = mem[v]
      BY <2>1 DEF TrackAll, ReportInv, TypeInv, TypeOK, StoreTypeOK
    <3> QED BY <1>1, <2>1, <2>2, <3>1 DEF RecordedOK, Busy, Working
  <2>4. PruneOK'
    BY <1>1, <2>1, <2>2 DEF PruneOK, Exists
  <2> QED BY <1>2, <2>1, <2>3, <2>4 DEF TrackInv, TurnOK, Reconciling
<1> QED BY <1>3, <1>4 DEF NextRecord

\* A reconciliation that is through has every stub that is left in its list.
LEMMA TurnDone ==
  ASSUME TrackAll, Reconciling, Finished, Working
  PROVE  phase = "apply" /\ \A n \in Names : Exists(n) => n \in managed
<1>1. phase = "apply" /\ Applied
  BY DEF Finished, Applied, TrackAll, TrackInv
<1>2. \A n \in Names : plan[n] \notin {"replace", "drop"}
  BY <1>1 DEF Applied, CreatesLeft
<1> QED BY <1>1, <1>2 DEF TrackAll, TrackInv, TurnOK, Creating

LEMMA FinishUpsertTracked ==
  ASSUME TrackAll, FinishUpsert
  PROVE  TrackInv'
<1> DEFINE r == Reconciled(worker)
<1>1. Working /\ Reconciling /\ Finished /\ op = "upsert"
  BY DEF FinishUpsert, TrackAll, ReportInv, TypeInv, JobOK, Reconciling
<1>2. /\ worker \in Workers /\ r # None /\ r.want # Bad
  BY <1>1, ReconciledFacts DEF TrackAll, ReportInv
<1>3. r.managed = managed /\ \A n \in Names : Exists(n) => n \in managed
  BY <1>1, TurnDone DEF Reconciled
<1>4. /\ mem' = [mem EXCEPT ![worker] = r] /\ (disk' = disk \/ disk' = [disk EXCEPT ![worker] = r])
      /\ UNCHANGED <<up, docker>> /\ phase' = "next"
  BY DEF FinishUpsert, Release, Begin
<1> HIDE DEF r
<1>5. /\ mem'[worker] = r /\ (disk'[worker] = disk[worker] \/ disk'[worker] = r)
      /\ \A v \in Workers : v # worker => mem'[v] = mem[v] /\ disk'[v] = disk[v]
  BY <1>2, <1>4 DEF TrackAll, ReportInv, TypeInv, TypeOK, StoreTypeOK
<1>6. FiledOK'
  BY <1>2, <1>4, <1>5 DEF TrackAll, TrackInv, FiledOK
<1>7. RecordedOK'
  BY <1>1, <1>2, <1>3, <1>4, <1>5 DEF TrackAll, TrackInv, RecordedOK, Busy, Exists
<1> QED BY <1>4, <1>6, <1>7, IdleTracked

LEMMA FinishLoadTracked ==
  ASSUME TrackAll, FinishLoad
  PROVE  TrackInv'
<1> DEFINE r == Reconciled(worker)
<1>1. Working /\ Reconciling /\ Finished /\ op = "load"
  BY DEF FinishLoad, Finished, Applied, Reconciling, Working
<1>2. /\ worker \in Workers /\ r # None /\ r.want # Bad
  BY <1>1, ReconciledFacts DEF TrackAll, ReportInv
<1>3. r.managed = managed /\ \A n \in Names : Exists(n) => n \in managed
  BY <1>1, TurnDone DEF Reconciled
<1>4. Failed => managed = {}
  BY <1>1, TurnDone DEF Failed
<1>5. /\ UNCHANGED <<up, docker, queue>> /\ op' = "load" /\ phase' = "next"
      /\ \/ Failed /\ mem' = mem /\ disk' = disk
         \/ /\ mem' = [mem EXCEPT ![worker] = r]
            /\ disk' = disk \/ disk' = [disk EXCEPT ![worker] = r]
  BY DEF FinishLoad, Begin
<1> HIDE DEF r
<1>6. /\ \/ Failed /\ mem'[worker] = mem[worker] /\ disk'[worker] = disk[worker]
         \/ mem'[worker] = r /\ (disk'[worker] = disk[worker] \/ disk'[worker] = r)
      /\ \A v \in Workers : v # worker => mem'[v] = mem[v] /\ disk'[v] = disk[v]
  BY <1>2, <1>5 DEF TrackAll, ReportInv, TypeInv, TypeOK, StoreTypeOK
<1>7. FiledOK'
  BY <1>2, <1>5, <1>6 DEF TrackAll, TrackInv, FiledOK
<1>8. RecordedOK'
  BY <1>1, <1>2, <1>3, <1>4, <1>5, <1>6 DEF TrackAll, TrackInv, RecordedOK, Busy, Exists, Working
<1> QED BY <1>5, <1>7, <1>8, IdleTracked

LEMMA FinishPruneTracked ==
  ASSUME TrackAll, FinishPrune
  PROVE  TrackInv'
<1>1. op = "prune" /\ phase = "apply" /\ Applied /\ Working
  BY DEF FinishPrune, Finished, Applied, TrackAll, TrackInv, Working
<1>2. worker \in Workers /\ \A n \in Names : ~Exists(n)
  BY <1>1 DEF TrackAll, TrackInv, PruneOK, Applied, ReportInv, TypeInv, JobOK
<1>3. /\ UNCHANGED <<up, mem, docker>> /\ op' = "prune" /\ phase' = "next"
      /\ disk' = disk \/ disk' = [disk EXCEPT ![worker] = None]
  BY DEF FinishPrune, Begin
<1>4. \A v \in Workers : v # worker => disk'[v] = disk[v]
  BY <1>2, <1>3 DEF TrackAll, ReportInv, TypeInv, TypeOK, StoreTypeOK
<1>5. FiledOK'
  BY <1>2, <1>3, <1>4 DEF TrackAll, TrackInv, FiledOK, Exists
<1>6. RecordedOK'
  BY <1>1, <1>2, <1>3 DEF TrackAll, TrackInv, RecordedOK, Busy, Exists
<1> QED BY <1>3, <1>5, <1>6, IdleTracked

LEMMA CrashTracked ==
  ASSUME TrackAll, Crash
  PROVE  TrackInv'
<1>1. ~up' /\ phase' = "next" /\ UNCHANGED <<disk, docker>>
  BY DEF Crash, Release, Begin
<1> QED BY <1>1, IdleTracked DEF TrackAll, TrackInv, FiledOK, RecordedOK

LEMMA ExpireTracked ==
  ASSUME TrackAll, NEW w \in Workers, Expire(w)
  PROVE  TrackInv'
<1>1. UNCHANGED <<up, docker, op, worker, queue, phase, plan, cur, managed>>
  BY DEF Expire, job
<1>2. \A r \in Record : Aged(r).managed = r.managed
  BY DEF Aged
<1>3. \A v \in Workers :
        /\ mem[v] # None => mem'[v] # None /\ mem'[v].managed = mem[v].managed
        /\ disk[v] # None => disk'[v] # None /\ disk'[v].want = disk[v].want
  <2>1. \A v \in Workers :
          /\ mem[v] # None => mem[v] \in Record /\ mem'[v] \in {mem[v], Aged(mem[v])}
          /\ disk[v] # None => disk[v] \in Record /\ disk'[v] \in {disk[v], Aged(disk[v])}
    BY DEF Expire, TrackAll, ReportInv, TypeInv, TypeOK, StoreTypeOK
  <2> QED BY <1>2, <2>1, RecordFacts
<1>4. FiledOK' /\ RecordedOK'
  BY <1>1, <1>3 DEF TrackAll, TrackInv, FiledOK, RecordedOK, Busy, Working
<1> QED BY <1>1, <1>4 DEF TrackAll, TrackInv, PruneOK, TurnOK, Exists, Creating, Working, Reconciling

LEMMA MovedTracked ==
  ASSUME TrackAll, PullImage \/ \E w \in Workers, n \in Names : StubExits(w, n)
  PROVE  TrackInv'
<1>1. UNCHANGED <<up, mem, disk, op, worker, queue, phase, plan, cur, managed>>
  BY DEF PullImage, StubExits, Moved, held
<1>2. \A v \in Workers, n \in Names : docker'[v][n] # None => docker[v][n] # None
  <2>1. CASE PullImage
    BY <2>1 DEF PullImage
  <2>2. CASE \E w \in Workers, n \in Names : StubExits(w, n)
    <3>1. PICK w \in Workers, n \in Names : StubExits(w, n)
      BY <2>2
    <3>2. docker[w][n] # None
      BY <3>1 DEF StubExits
    <3> QED BY <3>1, <3>2, ExitAfter DEF TrackAll, ReportInv
  <2> QED BY <2>1, <2>2
<1>3. FiledOK' /\ RecordedOK'
  BY <1>1, <1>2 DEF TrackAll, TrackInv, FiledOK, RecordedOK, Busy, Working
<1>4. Working => worker \in Workers
  BY DEF TrackAll, ReportInv, TypeInv, JobOK
<1> QED BY <1>1, <1>2, <1>3, <1>4 DEF TrackAll, TrackInv, PruneOK, TurnOK, Exists, Creating, Working, Reconciling

LEMMA TrackNext == Faults \cap Losing = {} /\ TrackAll /\ [Next]_vars => TrackAll'
<1> SUFFICES ASSUME Faults \cap Losing = {}, TrackAll, [Next]_vars PROVE TrackAll'
  OBVIOUS
<1>1. ReportInv' /\ Ordered'
  BY ReportNext, OrderedNext, NoneLost DEF Losing, TrackAll, ReportInv
<1>2. SUFFICES TrackInv'
  BY <1>1 DEF TrackAll
<1>3. CASE Requests
  BY <1>3, UpsertTracked DEF Requests
<1>4. CASE Restart
  BY <1>4, RestartTracked
<1>5. CASE Prune
  BY <1>5, PauseTracked
<1>6. CASE Step
  BY <1>6, NextRecordTracked, PauseTracked, InspectImageTracked, ListManagedTracked, RemoveStaleTracked,
     CreateStubTracked, DropStubTracked, CreatingTracked, FinishUpsertTracked, FinishLoadTracked,
     FinishPruneTracked DEF Step
<1>7. CASE Environment
  BY <1>7, ExpireTracked, MovedTracked DEF Environment
<1>8. CASE Crash
  BY <1>8, CrashTracked
<1>9. CASE UNCHANGED vars
  BY <1>9 DEF vars, job, TrackAll, TrackInv, FiledOK, RecordedOK, PruneOK, TurnOK, Busy, Exists,
       Creating, Working, Reconciling
<1> QED BY <1>3, <1>4, <1>5, <1>6, <1>7, <1>8, <1>9 DEF Next

LEMMA TrackAlways == ASSUME Faults \cap Losing = {} PROVE Spec => []TrackAll
<1>1. Init => TrackInv
  BY DEF Init, Idle, TrackInv, FiledOK, RecordedOK, PruneOK, TurnOK, Working
<1>2. Init => TrackAll
  BY <1>1, ReportInit, InitOrdered DEF TrackAll
<1> QED BY <1>2, TrackNext, PTL DEF Spec

\* Between operations every stub on the master is in its worker's record, over
\* crashes, failed writes and failed creates: the worker's expiry will remove
\* it (store.go:139-154).  Without the faults of Losing, each of which alone
\* breaks it.
THEOREM StubsAlwaysTracked == ASSUME Faults \cap Losing = {} PROVE Spec => []TrackedStubs
<1>1. TrackAll => TrackedStubs
  <2> SUFFICES ASSUME TrackAll, up, op = "idle" PROVE TrackedStubs
    BY DEF TrackedStubs
  <2>1. Busy = {}
    BY DEF Busy, TrackAll, ReportInv, TypeInv, JobOK
  <2> QED BY <2>1 DEF TrackAll, TrackInv, RecordedOK, TrackedStubs
<1> QED BY <1>1, TrackAlways, PTL

\* README.md:171's promise, under the same condition: of a worker whose record
\* and file are gone, no stub is left on the master.
THEOREM ForgottenLeaveNothing ==
  ASSUME Faults \cap Losing = {} PROVE Spec => []ForgottenWorkersLeaveNoStubs
<1>1. TrackedStubs => ForgottenWorkersLeaveNoStubs
  BY DEF TrackedStubs, ForgottenWorkersLeaveNoStubs
<1> QED BY <1>1, StubsAlwaysTracked, PTL
=============================================================================
