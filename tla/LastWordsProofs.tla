--------------------------- MODULE LastWordsProofs ---------------------------
(***************************************************************************)
(* Of an upgraded request: what one side said before it left arrives, if   *)
(* that side's leaving is what ends the conversation.                      *)
(***************************************************************************)
EXTENDS TunnelUpgradeProofs

\* At most one side has left, and it had read by then all that the other says
\* to the end.  Once this fails it never holds again.
Calm ==
  /\ "cut" \notin broken
  /\ ~(client = "left" /\ backend = "closed")
  /\ client = "left" => downHeard = downSaid
  /\ backend = "closed" => upHeard = upSaid /\ upSaid # <<>>

AllData(q)   == \A j \in 1..Len(q) : q[j].op = "data"
OneSwitch(q) == q # <<>> /\ \A j \in 1..Len(q) : q[j].op = IF j = 1 THEN "switch" ELSE "data"
Switching(q) == \E j \in 1..Len(q) : q[j].op = "switch"

\* The client has the 101, or it is on its way to a client that waits for it.
Opened ==
  \/ upSaid # <<>> \/ client = "open"
  \/ ~ClientGone /\ (Switching(cout) \/ Switching(down))

\* Before the 101 nothing ends but by a failure, and nothing is said upwards.
EarlyOK ==
  /\ client = "waiting" => upSaid = <<>>
  /\ client \in {"open", "refused"} \/ upSaid # <<>> => worker \in {"relay", "copy", "done"}
  /\ stub = "dial" => broken = {} /\ conn = <<>>
  /\ worker \in {"start", "dial", "await"} /\ "cut" \notin broken =>
       stub = "await" /\ broken = {} /\ conn = <<>> /\ backend # "dropped"
  /\ worker = "await" /\ answer # <<>> /\ answer[1].op = "switch" =>
       /\ \A j \in 1..Len(answer) : j # 1 => answer[j].op = "data"
       /\ backend \notin {"idle", "asked", "refusing"}

\* After it the ends follow one another, from the side that left to the other,
\* each when its queue is read out; no connection is reset.
EndsOK ==
  /\ broken = {}
  /\ client \in {"waiting", "open", "left", "dropped"} /\ stub \in {"await", "relay", "done"}
  /\ worker \in {"relay", "done"} /\ backend \in {"open", "closed", "dropped"}
  /\ stub = "done" => IF client = "left" THEN cin = <<>> ELSE worker = "done" /\ down = <<>>
  /\ worker = "done" => IF backend = "closed" THEN br = <<>> /\ answer = <<>>
                        ELSE stub = "done" /\ up = <<>>
  /\ client = "dropped" => stub = "done" /\ cout = <<>> /\ backend = "closed"
  /\ backend = "dropped" => worker = "done" /\ conn = <<>> /\ client = "left"
  /\ stub = "done" \/ worker = "done" => client = "left" \/ backend = "closed"

\* Nothing is on the wire but the 101, once, and data behind it.
ShapeOK ==
  /\ AllData(br) /\ AllData(answer)
  /\ conn # <<>> \/ upHeard # <<>> => AllData(up)
  /\ stub = "await" =>
       /\ client = "waiting" /\ cout = <<>> /\ OneSwitch(down)
       /\ Head(down) = Written("switch", 0, ResponseHead, FALSE)
  /\ stub # "await" => AllData(down) /\ IF client = "waiting" THEN OneSwitch(cout) ELSE AllData(cout)

\* Nothing is lost: neither direction has a cut link.
WholeUp   == Flow(upSaid, upHeard, conn, Msgs(up), cin, {})
WholeDown == Flow(downSaid, downHeard, cout, Msgs(down), br \o answer, {})

Chain   == EndsOK /\ ShapeOK /\ WholeUp /\ WholeDown
LastInv == CarryInv /\ EarlyOK /\ (Calm /\ Opened => Chain)

-----------------------------------------------------------------------------
(* Queues.                                                                  *)

LEMMA FlowEmpty ==
  ASSUME NEW said, NEW heard, NEW q1, NEW q2, NEW q3,
         Carries(said, heard, q1, q2, q3), Flow(said, heard, q1, q2, q3, {}), heard = said
  PROVE  /\ \A j \in 1..Len(q1) : q1[j].op \in Opens
         /\ \A j \in 1..Len(q2) : q2[j].op \in Opens
         /\ \A j \in 1..Len(q3) : q3[j].op \in Opens
<1>1. PICK h1, h2, h3 \in Nat : Placed(said, heard, q1, q2, q3, {}, h1, h2, h3)
  BY DEF Flow
<1>2. /\ Len(said) \in Nat /\ Len(heard) = Len(said)
      /\ Len(q1) \in Nat /\ Len(q2) \in Nat /\ Len(q3) \in Nat
  BY DEF Carries
<1>3. /\ At(q1, Len(heard), h1, said)
      /\ At(q2, Len(heard) + Len(q1) - h1, h2, said)
      /\ At(q3, Len(heard) + Len(q1) - h1 + Len(q2) - h2, h3, said)
      /\ Len(said) = Len(heard) + Len(q1) - h1 + Len(q2) - h2 + Len(q3) - h3
  BY <1>1 DEF Placed
<1>4. h1 \in 0..Len(q1) /\ h2 \in 0..Len(q2) /\ h3 \in 0..Len(q3)
  BY <1>3 DEF At
<1>5. h1 = Len(q1) /\ h2 = Len(q2) /\ h3 = Len(q3)
  BY <1>2, <1>3, <1>4
<1> QED BY <1>2, <1>3, <1>5 DEF At

LEMMA FlowDone ==
  ASSUME NEW said, NEW heard, NEW q1, NEW q2, NEW q3,
         Carries(said, heard, q1, q2, q3), Flow(said, heard, q1, q2, q3, {}),
         q1 = <<>>, q2 = <<>>, q3 = <<>>
  PROVE  heard = said
<1>1. PICK h1, h2, h3 \in Nat : Placed(said, heard, q1, q2, q3, {}, h1, h2, h3)
  BY DEF Flow
<1>2. Len(q1) = 0 /\ Len(q2) = 0 /\ Len(q3) = 0
  OBVIOUS
<1>3. /\ At(q1, Len(heard), h1, said)
      /\ At(q2, Len(heard) + Len(q1) - h1, h2, said)
      /\ At(q3, Len(heard) + Len(q1) - h1 + Len(q2) - h2, h3, said)
      /\ Len(said) = Len(heard) + Len(q1) - h1 + Len(q2) - h2 + Len(q3) - h3
  BY <1>1 DEF Placed
<1>4. h1 = 0 /\ h2 = 0 /\ h3 = 0
  BY <1>2, <1>3 DEF At
<1>5. said \in Seq(Pieces) /\ heard \in Seq(Pieces) /\ Len(said) \in Nat /\ Len(heard) \in Nat
  BY DEF Carries
<1>6. Len(said) = Len(heard)
  BY <1>2, <1>3, <1>4, <1>5
<1>7. \A j \in 1..Len(heard) : heard[j] = said[j]
  BY DEF Flow
<1> QED BY <1>5, <1>6, <1>7, SeqEqual

\* Behind a piece of data in the tunnel there is nothing that opens.
LEMMA FlowData2 ==
  ASSUME NEW said, NEW heard, NEW q1, NEW q2, NEW q3,
         Carries(said, heard, q1, q2, q3), Flow(said, heard, q1, q2, q3, {}),
         q2 # <<>>, q2[1].op = "data"
  PROVE  \A j \in 1..Len(q2) : q2[j].op \notin Opens
<1>1. PICK h1, h2, h3 \in Nat : Placed(said, heard, q1, q2, q3, {}, h1, h2, h3)
  BY DEF Flow
<1>2. /\ h2 \in 0..Len(q2)
      /\ \A j \in 1..Len(q2) : q2[j].op \in Opens <=> j <= h2
  BY <1>1 DEF Placed, At
<1>3. Len(q2) \in Nat /\ 1 \in 1..Len(q2)
  BY TailIs DEF Carries
<1>4. h2 = 0
  BY <1>2, <1>3 DEF Opens
<1> QED BY <1>2, <1>3, <1>4

LEMMA DataTail ==
  ASSUME NEW S, NEW q \in Seq(S), q # <<>>, AllData(q)
  PROVE  AllData(Tail(q))
<1>1. \A j \in 1..Len(Tail(q)) : Tail(q)[j] = q[j + 1] /\ j + 1 \in 1..Len(q)
  OBVIOUS
<1> QED BY <1>1 DEF AllData

LEMMA DataAppend ==
  ASSUME NEW S, NEW q \in Seq(S), NEW m \in S, AllData(q), m.op = "data"
  PROVE  AllData(Append(q, m))
BY AppendIs DEF AllData

LEMMA DatasAll ==
  ASSUME NEW q \in Seq(Datas)
  PROVE  AllData(q)
<1>1. \A j \in 1..Len(q) : q[j] \in Datas
  OBVIOUS
<1> QED BY <1>1 DEF AllData, Datas

LEMMA NoData ==
  ASSUME NEW S, NEW q \in Seq(S), AllData(q), \A j \in 1..Len(q) : q[j].op \in Opens
  PROVE  q = <<>>
<1> SUFFICES ASSUME q # <<>> PROVE FALSE
  OBVIOUS
<1>1. 1 \in 1..Len(q)
  OBVIOUS
<1> QED BY <1>1 DEF AllData, Opens

LEMMA SwitchTail ==
  ASSUME NEW S, NEW q \in Seq(S), OneSwitch(q)
  PROVE  AllData(Tail(q)) /\ q # <<>> /\ q[1].op = "switch" /\ Head(q) = q[1] /\ Switching(q)
<1>1. q # <<>> /\ \A j \in 1..Len(q) : q[j].op = IF j = 1 THEN "switch" ELSE "data"
  BY DEF OneSwitch
<1>2. /\ Len(q) \in Nat \ {0} /\ Head(q) = q[1]
      /\ \A j \in 1..Len(Tail(q)) : Tail(q)[j] = q[j + 1] /\ j + 1 \in 1..Len(q) /\ j + 1 # 1
  BY <1>1
<1>3. 1 \in 1..Len(q)
  BY <1>2
<1> QED BY <1>1, <1>2, <1>3 DEF AllData, Switching

LEMMA SwitchAppend ==
  ASSUME NEW S, NEW q \in Seq(S), NEW m \in S, OneSwitch(q), m.op = "data"
  PROVE  OneSwitch(Append(q, m))
<1>1. q # <<>> /\ \A j \in 1..Len(q) : q[j].op = IF j = 1 THEN "switch" ELSE "data"
  BY DEF OneSwitch
<1>2. /\ Len(q) \in Nat \ {0} /\ Len(Append(q, m)) = Len(q) + 1 /\ Append(q, m)[Len(q) + 1] = m
      /\ \A j \in 1..Len(q) : Append(q, m)[j] = q[j]
  BY <1>1, AppendIs
<1>3. ASSUME NEW j \in 1..Len(q) + 1
      PROVE  Append(q, m)[j].op = IF j = 1 THEN "switch" ELSE "data"
  <2>1. CASE j \in 1..Len(q)
    BY <1>1, <1>2, <2>1
  <2>2. CASE j = Len(q) + 1
    BY <1>2, <2>2
  <2> QED BY <1>2, <2>1, <2>2
<1> QED BY <1>2, <1>3 DEF OneSwitch

LEMMA SwitchingFrom ==
  ASSUME NEW S, NEW q \in Seq(S)
  PROVE  /\ q # <<>> /\ Switching(Tail(q)) => Switching(q)
         /\ \A m \in S : Switching(Append(q, m)) => Switching(q) \/ m.op = "switch"
         /\ \A p \in Prefixes(q) : Switching(p) => Switching(q)
<1>1. ASSUME q # <<>>, Switching(Tail(q)) PROVE Switching(q)
  <2>1. \A j \in 1..Len(Tail(q)) : Tail(q)[j] = q[j + 1] /\ j + 1 \in 1..Len(q)
    BY <1>1
  <2> QED BY <1>1, <2>1 DEF Switching
<1>2. ASSUME NEW m \in S, Switching(Append(q, m)) PROVE Switching(q) \/ m.op = "switch"
  BY <1>2, AppendIs DEF Switching
<1>3. ASSUME NEW p \in Prefixes(q), Switching(p) PROVE Switching(q)
  <2>1. PICK n \in 0..Len(q) : p = SubSeq(q, 1, n)
    BY DEF Prefixes
  <2>2. Len(p) = n /\ \A j \in 1..n : p[j] = q[j] /\ j \in 1..Len(q)
    BY <2>1, PrefixIs
  <2> QED BY <1>3, <2>2 DEF Switching
<1> QED BY <1>1, <1>2, <1>3

-----------------------------------------------------------------------------
(* What the invariant says of a state.                                      *)

LEMMA Early ==
  ASSUME CarryInv
  PROVE  /\ upSaid = <<>> => upHeard = <<>>
         /\ Len(upHeard) <= Len(upSaid) /\ Len(upHeard) \in Nat /\ Len(upSaid) \in Nat
         /\ Len(downHeard) <= Len(downSaid) /\ Len(downHeard) \in Nat /\ Len(downSaid) \in Nat
<1>1. /\ Len(upHeard) <= Len(upSaid) /\ Len(upHeard) \in Nat /\ Len(upSaid) \in Nat
      /\ Len(downHeard) <= Len(downSaid) /\ Len(downHeard) \in Nat /\ Len(downSaid) \in Nat
  BY DEF CarryInv, WordsOK, UpFlow, DownFlow, Flow
<1>2. upSaid = <<>> => upHeard = <<>>
  BY <1>1 DEF CarryInv, WordsOK
<1> QED BY <1>1, <1>2

\* The side that stays has nothing more to read of the one that has left.
LEMMA Drained ==
  ASSUME CarryInv, Calm, Opened, Chain
  PROVE  /\ client = "left" => cout = <<>> /\ down = <<>> /\ br = <<>> /\ answer = <<>>
         /\ backend = "closed" => conn = <<>> /\ up = <<>> /\ cin = <<>>
<1>1. ASSUME client = "left" PROVE cout = <<>> /\ down = <<>> /\ br = <<>> /\ answer = <<>>
  <2> DEFINE rest == br \o answer
  <2>1. AllData(cout) /\ AllData(down) /\ AllData(br) /\ AllData(answer)
    BY <1>1 DEF Chain, ShapeOK
  <2>2. /\ Carries(downSaid, downHeard, cout, Msgs(down), rest)
        /\ down \in Seq(Frames(FALSE)) /\ rest \in Seq(AnswerPieces)
    BY DownCarries DEF CarryInv
  <2>3. /\ \A j \in 1..Len(cout) : cout[j].op \in Opens
        /\ \A j \in 1..Len(Msgs(down)) : Msgs(down)[j].op \in Opens
        /\ \A j \in 1..Len(rest) : rest[j].op \in Opens
    <3>1. Flow(downSaid, downHeard, cout, Msgs(down), rest, {}) /\ downHeard = downSaid
      BY <1>1 DEF Chain, WholeDown, Calm
    <3> HIDE DEF rest
    <3> QED BY <2>2, <3>1, FlowEmpty
  <2>4. "data" \notin Opens
    BY DEF Opens
  <2>5. cout = <<>>
    BY <2>1, <2>3, NoData DEF CarryInv, QueuesOK
  <2>6. down = <<>>
    <3>1. \A j \in 1..Len(down) : Msgs(down)[j].op = down[j].op
      <4>1. Len(Msgs(down)) = Len(down) /\ \A j \in 1..Len(down) : Msgs(down)[j] = Message(down[j])
        BY <2>2, MsgsAre
      <4>2. \A j \in 1..Len(down) : down[j] \in DownFrames
        BY DEF CarryInv, QueuesOK
      <4> QED BY <4>1, <4>2, ReadIs
    <3>2. Len(Msgs(down)) = Len(down)
      BY <2>2, MsgsAre
    <3>3. \A j \in 1..Len(down) : down[j].op \in Opens
      BY <2>3, <3>1, <3>2
    <3> QED BY <2>1, <2>2, <3>3, NoData
  <2>7. br = <<>> /\ answer = <<>>
    <3>1. \A j \in 1..Len(rest) : rest[j] = IF j <= Len(br) THEN br[j] ELSE answer[j - Len(br)]
      BY RestTail DEF CarryInv, QueuesOK
    <3>2. Len(rest) = Len(br) + Len(answer) /\ Len(br) \in Nat /\ Len(answer) \in Nat
      BY DEF CarryInv, QueuesOK
    <3> HIDE DEF rest
    <3>3. \A j \in 1..Len(rest) : rest[j].op = "data"
      BY <2>1, <3>1, <3>2 DEF AllData
    <3>4. Len(rest) = 0
      BY <2>3, <2>4, <3>2, <3>3
    <3>5. Len(br) = 0 /\ Len(answer) = 0
      BY <3>2, <3>4
    <3> QED BY <3>5 DEF CarryInv, QueuesOK
  <2> QED BY <2>5, <2>6, <2>7
<1>2. ASSUME backend = "closed" PROVE conn = <<>> /\ up = <<>> /\ cin = <<>>
  <2>1. Carries(upSaid, upHeard, conn, Msgs(up), cin) /\ up \in Seq(Frames(TRUE))
    BY UpCarries DEF CarryInv
  <2>2. upHeard = upSaid /\ upHeard # <<>>
    BY <1>2 DEF Calm
  <2>3. /\ \A j \in 1..Len(conn) : conn[j].op \in Opens
        /\ \A j \in 1..Len(Msgs(up)) : Msgs(up)[j].op \in Opens
        /\ \A j \in 1..Len(cin) : cin[j].op \in Opens
    <3>1. Flow(upSaid, upHeard, conn, Msgs(up), cin, {})
      BY DEF Chain, WholeUp
    <3> QED BY <2>1, <2>2, <3>1, FlowEmpty
  <2>5. conn = <<>> /\ cin = <<>>
    BY <2>3, DatasAll, NoData DEF CarryInv, QueuesOK
  <2>6. up = <<>>
    <3>1. \A j \in 1..Len(up) : Msgs(up)[j].op = up[j].op
      <4>1. \A j \in 1..Len(up) : Msgs(up)[j] = Message(up[j])
        BY <2>1, MsgsAre
      <4>2. \A j \in 1..Len(up) : up[j] \in UpFrames
        BY DEF CarryInv, QueuesOK
      <4> QED BY <4>1, <4>2, ReadIs
    <3>2. Len(Msgs(up)) = Len(up)
      BY <2>1, MsgsAre
    <3>3. AllData(up)
      BY <2>2 DEF Chain, ShapeOK
    <3>4. \A j \in 1..Len(up) : up[j].op \in Opens
      BY <2>3, <3>1, <3>2
    <3> QED BY <2>1, <3>3, <3>4, NoData
  <2> QED BY <2>5, <2>6
<1> QED BY <1>1, <1>2

\* What has been lost once is not made good.
LEMMA CalmBefore ==
  ASSUME CarryInv, Next, Calm'
  PROVE  Calm
<1>1. broken \subseteq broken'
  BY DEF Next, Stub, Worker, Client, Container, StubOpens, StubAwaits, StubUp, StubDown,
         WorkerStarts, WorkerDials, WorkerAwaits, WorkerUp, WorkerDown, Reset, ResetOf, ClientSays,
         ClientHears, ClientLeaves, BackendSwitches, BackendRefuses, BackendSays, BackendHears,
         BackendCloses
<1>2. client = "left" => client' = "left" /\ downHeard' = downHeard
  BY DEF Next, Stub, Worker, Client, Container, StubOpens, StubAwaits, StubUp, StubDown,
         WorkerStarts, WorkerDials, WorkerAwaits, WorkerUp, WorkerDown, Reset, ClientSays,
         ClientHears, ClientLeaves, ClientGone, BackendSwitches, BackendRefuses, BackendSays,
         BackendHears, BackendCloses, ends, words
<1>3. backend = "closed" => backend' = "closed" /\ upHeard' = upHeard
  <2>1. worker = "dial" => backend = "idle"
    BY DEF CarryInv, ControlOK
  <2> QED BY <2>1
          DEF Next, Stub, Worker, Client, Container, StubOpens, StubAwaits, StubUp, StubDown,
              WorkerStarts, WorkerDials, WorkerAwaits, WorkerUp, WorkerDown, Reset, ClientSays,
              ClientHears, ClientLeaves, BackendSwitches, BackendRefuses, BackendSays,
              BackendHears, BackendCloses, ends, words
<1>4. upSaid' = upSaid \/ Len(upSaid') = Len(upSaid) + 1
  <2>1. CASE ClientSays
    <3>1. PICK s \in Sizes : upSaid' = Append(upSaid, Piece("data", Len(upSaid) + 1, s))
      BY <2>1 DEF ClientSays
    <3> QED BY <3>1 DEF CarryInv, WordsOK
  <2>2. CASE upSaid' = upSaid
    BY <2>2
  <2>3. ClientSays \/ upSaid' = upSaid
    BY DEF Next, Stub, Worker, Client, Container, StubOpens, StubAwaits, StubUp, StubDown,
           WorkerStarts, WorkerDials, WorkerAwaits, WorkerUp, WorkerDown, Reset, ClientHears,
           ClientLeaves, BackendSwitches, BackendRefuses, BackendSays, BackendHears,
           BackendCloses, words
  <2> QED BY <2>1, <2>2, <2>3
<1>5. downSaid' = downSaid \/ Len(downSaid') = Len(downSaid) + 1
  <2>1. CASE BackendSays
    <3>1. PICK s \in Sizes : downSaid' = Append(downSaid, Piece("data", Len(downSaid) + 1, s))
      BY <2>1 DEF BackendSays
    <3> QED BY <3>1 DEF CarryInv, WordsOK
  <2>2. CASE WorkerStarts
    <3>1. downSaid = <<>>
      BY <2>2 DEF WorkerStarts, CarryInv, ControlOK
    <3>2. downSaid' = downSaid \/ \E s \in Sizes : downSaid' = <<Piece("data", 1, s)>>
      BY <2>2 DEF WorkerStarts
    <3> QED BY <3>1, <3>2
  <2>3. CASE downSaid' = downSaid
    BY <2>3
  <2>4. BackendSays \/ WorkerStarts \/ downSaid' = downSaid
    BY DEF Next, Stub, Worker, Client, Container, StubOpens, StubAwaits, StubUp, StubDown,
           WorkerDials, WorkerAwaits, WorkerUp, WorkerDown, Reset, ClientSays, ClientHears,
           ClientLeaves, BackendSwitches, BackendRefuses, BackendHears, BackendCloses, words
  <2> QED BY <2>1, <2>2, <2>3, <2>4
<1>6. client = "left" => downHeard = downSaid
  <2> SUFFICES ASSUME client = "left" PROVE downHeard = downSaid
    OBVIOUS
  <2>1. downHeard = downSaid'
    BY <1>2 DEF Calm
  <2> QED BY <1>5, <2>1, Early
<1>7. backend = "closed" => upHeard = upSaid /\ upSaid # <<>>
  <2> SUFFICES ASSUME backend = "closed" PROVE upHeard = upSaid /\ upSaid # <<>>
    OBVIOUS
  <2>1. upHeard = upSaid' /\ upSaid' # <<>>
    BY <1>3 DEF Calm
  <2>2. upSaid' = upSaid
    BY <1>4, <2>1, Early
  <2> QED BY <2>1, <2>2
<1> QED BY <1>1, <1>2, <1>3, <1>6, <1>7 DEF Calm

LEMMA EarlyStep ==
  ASSUME CarryInv, EarlyOK, Next
  PROVE  EarlyOK'
<1> USE DEF CarryInv, EarlyOK
<1>1. client' = "waiting" => upSaid' = <<>>
  BY DEF Next, Stub, Worker, Client, Container, StubOpens, StubAwaits, StubUp, StubDown,
         WorkerStarts, WorkerDials, WorkerAwaits, WorkerUp, WorkerDown, Reset, ClientSays,
         ClientHears, ClientLeaves, BackendSwitches, BackendRefuses, BackendSays, BackendHears,
         BackendCloses, ends, words
<1>2. client' \in {"open", "refused"} \/ upSaid' # <<>> => worker' \in {"relay", "copy", "done"}
  <2>1. worker \in {"relay", "copy", "done"} => worker' \in {"relay", "copy", "done"}
    BY DEF Next, Stub, Worker, Client, Container, StubOpens, StubAwaits, StubUp, StubDown,
           WorkerStarts, WorkerDials, WorkerAwaits, WorkerUp, WorkerDown, Write, Reset, ClientSays,
           ClientHears, ClientLeaves, BackendSwitches, BackendRefuses, BackendSays, BackendHears,
           BackendCloses, ends, ControlOK
  <2>2. client' \in {"open", "refused"} => client \in {"open", "refused"} \/ cout # <<>>
    BY DEF Next, Stub, Worker, Client, Container, StubOpens, StubAwaits, StubUp, StubDown,
           WorkerStarts, WorkerDials, WorkerAwaits, WorkerUp, WorkerDown, Reset, ClientSays,
           ClientHears, ClientLeaves, BackendSwitches, BackendRefuses, BackendSays, BackendHears,
           BackendCloses, ends
  <2>3. upSaid' = upSaid \/ client = "open"
    BY DEF Next, Stub, Worker, Client, Container, StubOpens, StubAwaits, StubUp, StubDown,
           WorkerStarts, WorkerDials, WorkerAwaits, WorkerUp, WorkerDown, Reset, ClientSays,
           ClientHears, ClientLeaves, BackendSwitches, BackendRefuses, BackendSays, BackendHears,
           BackendCloses, words
  <2>4. cout # <<>> => worker \in {"relay", "copy", "done"}
    BY DEF StatesOK, ControlOK
  <2> QED BY <2>1, <2>2, <2>3, <2>4
<1>3. stub' = "dial" => broken' = {} /\ conn' = <<>>
  <2> SUFFICES ASSUME stub' = "dial" PROVE broken' = {} /\ conn' = <<>>
    OBVIOUS
  <2>1. stub = "dial"
    BY DEF Next, Stub, Worker, Client, Container, StubOpens, StubAwaits, StubUp, StubDown,
           WorkerStarts, WorkerDials, WorkerAwaits, WorkerUp, WorkerDown, Reset, ClientSays,
           ClientHears, ClientLeaves, BackendSwitches, BackendRefuses, BackendSays, BackendHears,
           BackendCloses, ends
  <2>2. worker = "idle" /\ cout = <<>> /\ broken = {} /\ conn = <<>>
    BY <2>1 DEF ControlOK
  <2> QED BY <2>1, <2>2
          DEF Next, Stub, Worker, Client, Container, StubOpens, StubAwaits, StubUp, StubDown,
              WorkerStarts, WorkerDials, WorkerAwaits, WorkerUp, WorkerDown, Reset, ClientSays,
              ClientHears, ClientLeaves, BackendSwitches, BackendRefuses, BackendSays,
              BackendHears, BackendCloses, ends, wire
<1>4. worker' \in {"start", "dial", "await"} /\ "cut" \notin broken' =>
        stub' = "await" /\ broken' = {} /\ conn' = <<>> /\ backend' # "dropped"
  <2> SUFFICES ASSUME worker' \in {"start", "dial", "await"}, "cut" \notin broken'
               PROVE  stub' = "await" /\ broken' = {} /\ conn' = <<>> /\ backend' # "dropped"
    OBVIOUS
  <2>1. CASE StubOpens
    <3>1. worker = "idle" /\ broken = {} /\ conn = <<>> /\ backend = "idle"
      BY <2>1 DEF StubOpens, ControlOK
    <3> QED BY <2>1, <3>1 DEF StubOpens
  <2>2. CASE ~StubOpens
    <3>1. worker \in {"start", "dial", "await"} /\ "cut" \notin broken
      BY <2>2 DEF Next, Stub, Worker, Client, Container, StubAwaits, StubUp, StubDown,
                  WorkerStarts, WorkerDials, WorkerAwaits, WorkerUp, WorkerDown, Write, Reset,
                  ResetOf, ClientSays, ClientHears, ClientLeaves, BackendSwitches,
                  BackendRefuses, BackendSays, BackendHears, BackendCloses, ends
    <3>2. /\ stub = "await" /\ broken = {} /\ conn = <<>> /\ backend # "dropped"
          /\ down = <<>> /\ cout = <<>>
      BY <3>1 DEF ControlOK
    <3>3. CASE StubAwaits
      BY <3>1, <3>2, <3>3 DEF StubAwaits, DownEnds
    <3>4. CASE Reset
      BY <3>1, <3>2, <3>4 DEF Reset, ResetOf, BackendGone, ends
    <3>5. CASE WorkerStarts \/ WorkerDials \/ WorkerAwaits
      BY <3>1, <3>2, <3>5 DEF WorkerStarts, WorkerDials, WorkerAwaits, words, wire
    <3>6. CASE ClientSays \/ ClientHears \/ ClientLeaves
      BY <3>1, <3>2, <3>6 DEF ClientSays, ClientHears, ClientLeaves, words, wire, ends
    <3>7. CASE Container
      BY <3>1, <3>2, <3>7 DEF Container, BackendSwitches, BackendRefuses, BackendSays,
                              BackendHears, BackendCloses, words, wire, ends
    <3>8. CASE StubUp \/ StubDown \/ WorkerUp \/ WorkerDown
      BY <3>1, <3>2, <3>8 DEF StubUp, StubDown, WorkerUp, WorkerDown
    <3> QED BY <2>2, <3>3, <3>4, <3>5, <3>6, <3>7, <3>8 DEF Next, Stub, Worker, Client
  <2> QED BY <2>1, <2>2
<1>5. worker' = "await" /\ answer' # <<>> /\ answer'[1].op = "switch" =>
        /\ \A j \in 1..Len(answer') : j # 1 => answer'[j].op = "data"
        /\ backend' \notin {"idle", "asked", "refusing"}
  <2> SUFFICES ASSUME worker' = "await", answer' # <<>>, answer'[1].op = "switch"
               PROVE  /\ \A j \in 1..Len(answer') : j # 1 => answer'[j].op = "data"
                      /\ backend' \notin {"idle", "asked", "refusing"}
    OBVIOUS
  <2>1. CASE WorkerDials
    BY <2>1 DEF WorkerDials, wire, ControlOK
  <2>2. CASE ~WorkerDials
    <3>1. worker = "await"
      BY <2>2 DEF Next, Stub, Worker, Client, Container, StubOpens, StubAwaits, StubUp, StubDown,
                  WorkerStarts, WorkerAwaits, WorkerUp, WorkerDown, Write, Reset,
                  ClientSays, ClientHears, ClientLeaves, BackendSwitches,
                  BackendRefuses, BackendSays, BackendHears, BackendCloses, ends
    <3>2. CASE UNCHANGED answer
      <4>1. backend' \in {backend, "dropped", "closed"}
        BY <3>1, <3>2, <2>2
           DEF Next, Stub, Worker, Client, Container, StubOpens, StubAwaits, StubUp, StubDown,
               WorkerStarts, WorkerAwaits, WorkerUp, WorkerDown, Reset,
               ClientSays, ClientHears, ClientLeaves, BackendSwitches,
               BackendRefuses, BackendSays, BackendHears, BackendCloses, ends, ControlOK
      <4> QED BY <3>1, <3>2, <4>1
    <3>3. CASE Reset
      <4>1. backend' = backend /\ (answer' = answer \/ answer' \in Prefixes(answer))
        BY <3>3 DEF Reset, ends
      <4>2. CASE answer' \in Prefixes(answer)
        <5>1. PICK n \in 0..Len(answer) : answer' = SubSeq(answer, 1, n)
          BY <4>2 DEF Prefixes
        <5>2. Len(answer') = n /\ \A j \in 1..n : answer'[j] = answer[j]
          BY <5>1, PrefixIs DEF QueuesOK
        <5>3. n # 0 /\ answer # <<>> /\ 1 \in 1..n
          BY <5>1, <5>2 DEF QueuesOK
        <5> QED BY <3>1, <4>1, <5>1, <5>2, <5>3
      <4> QED BY <3>2, <4>1, <4>2
    <3>4. CASE BackendSwitches
      <4>1. answer' = <<Piece("switch", 0, ResponseHead)>> /\ backend' = "open"
        BY <3>4 DEF BackendSwitches
      <4> QED BY <4>1
    <3>5. CASE BackendRefuses
      <4>1. CASE backend = "asked" /\ answer' = <<Piece("refusal", 0, ResponseHead)>>
        BY <4>1, Fixed
      <4>2. CASE backend = "refusing" /\ answer' = Append(answer, Piece("last", 0, 0))
        <5>1. answer = <<>> => answer'[1] = Piece("last", 0, 0)
          BY <4>2
        <5>2. answer # <<>> => answer'[1] = answer[1]
          BY <4>2, Fixed, AppendIs, TailIs DEF QueuesOK
        <5> QED BY <3>1, <4>2, <5>1, <5>2, Fixed
      <4> QED BY <3>5, <4>1, <4>2 DEF BackendRefuses
    <3>6. CASE BackendSays
      <4>1. PICK s \in Sizes : answer' = Append(answer, Piece("data", Len(downSaid) + 1, s))
        BY <3>6 DEF BackendSays
      <4> DEFINE m == Piece("data", Len(downSaid) + 1, s)
      <4>2. m \in AnswerPieces /\ m.op = "data"
        <5>1. Len(downSaid) + 1 \in Nat
          BY DEF WordsOK
        <5>2. m \in Datas
          BY <5>1, SaidIs
        <5> QED BY <5>2, PassedIs, Kinds
      <4>3. answer' = Append(answer, m)
        BY <4>1
      <4> HIDE DEF m
      <4>4. backend \in {"open", "refusing"} /\ backend' = backend
        BY <3>6 DEF BackendSays, ends
      <4>5. CASE answer = <<>>
        <5>1. answer'[1] = m
          BY <4>3, <4>5
        <5> QED BY <4>2, <5>1
      <4>6. CASE answer # <<>>
        <5>1. /\ Len(answer') = Len(answer) + 1 /\ answer'[Len(answer) + 1] = m
              /\ \A j \in 1..Len(answer) : answer'[j] = answer[j]
              /\ Len(answer) \in Nat \ {0}
          BY <4>2, <4>3, <4>6, AppendIs, TailIs DEF QueuesOK
        <5>2. answer'[1] = answer[1]
          BY <5>1
        <5>3. ASSUME NEW j \in 1..Len(answer'), j # 1 PROVE answer'[j].op = "data"
          BY <3>1, <4>2, <4>6, <5>1, <5>2, <5>3
        <5> QED BY <3>1, <4>4, <4>6, <5>2, <5>3
      <4> QED BY <4>5, <4>6
    <3> QED BY <2>2, <3>1, <3>2, <3>3, <3>4, <3>5, <3>6
            DEF Next, Stub, Worker, Client, Container, StubOpens, StubAwaits, StubUp, StubDown,
                WorkerStarts, WorkerAwaits, Write, WorkerUp, WorkerDown, ClientSays, ClientHears,
                ClientLeaves, BackendHears, BackendCloses, wire
  <2> QED BY <2>1, <2>2
<1> QED BY <1>1, <1>2, <1>3, <1>4, <1>5 DEF EarlyOK

-----------------------------------------------------------------------------
(* The 101 is written.                                                      *)

LEMMA OpensOnly ==
  ASSUME CarryInv, ~Opened, Opened', Next
  PROVE  WorkerAwaits
<1> SUFFICES ASSUME ~WorkerAwaits PROVE FALSE
  OBVIOUS
<1>1. upSaid = <<>> /\ client # "open"
  BY DEF Opened
<1>2. upSaid' = <<>>
  BY <1>1
     DEF Next, Stub, Worker, Client, Container, StubOpens, StubAwaits, StubUp, StubDown,
         WorkerStarts, WorkerDials, WorkerAwaits, WorkerUp, WorkerDown, Reset, ClientSays,
         ClientHears, ClientLeaves, BackendSwitches, BackendRefuses, BackendSays, BackendHears,
         BackendCloses, words
<1>3. ~ClientGone' => ~ClientGone
  BY DEF Next, Stub, Worker, Client, Container, StubOpens, StubAwaits, StubUp, StubDown,
         WorkerStarts, WorkerDials, WorkerAwaits, WorkerUp, WorkerDown, Reset, ClientSays,
         ClientHears, ClientLeaves, BackendSwitches, BackendRefuses, BackendSays, BackendHears,
         BackendCloses, ends, ClientGone
<1>4. client' # "open"
  <2>1. CASE ClientHears
    <3>1. CASE cout # <<>> /\ Head(cout).op = "switch"
      <4>1. Head(cout) = cout[1] /\ 1 \in 1..Len(cout)
        BY <3>1 DEF CarryInv, QueuesOK
      <4>2. Switching(cout) /\ ~ClientGone
        BY <2>1, <3>1, <4>1 DEF Switching, ClientHears
      <4> QED BY <4>2 DEF Opened
    <3>2. CASE ~(cout # <<>> /\ Head(cout).op = "switch")
      BY <1>1, <2>1, <3>2 DEF ClientHears
    <3> QED BY <3>1, <3>2
  <2>2. CASE ~ClientHears
    BY <1>1, <2>2
       DEF Next, Stub, Worker, Client, Container, StubOpens, StubAwaits, StubUp, StubDown,
           WorkerStarts, WorkerDials, WorkerAwaits, WorkerUp, WorkerDown, Reset, ClientSays,
           ClientLeaves, BackendSwitches, BackendRefuses, BackendSays, BackendHears,
           BackendCloses, ends
  <2> QED BY <2>1, <2>2
<1>5. ~ClientGone /\ ~Switching(cout) /\ ~Switching(down) /\ (Switching(cout') \/ Switching(down'))
  <2>1. ~ClientGone' /\ (Switching(cout)' \/ Switching(down)')
    BY <1>2, <1>4 DEF Opened
  <2> QED BY <1>3, <2>1 DEF Opened, Switching
<1>6. /\ cout \in Seq(OutPieces) /\ down \in Seq(DownFrames)
  BY DEF CarryInv, QueuesOK
<1>7. ~Switching(down')
  <2> SUFFICES ASSUME Switching(down') PROVE FALSE
    OBVIOUS
  <2>1. CASE down' = down
    BY <1>5, <2>1
  <2>2. CASE down # <<>> /\ down' = Tail(down)
    BY <1>5, <1>6, <2>2, SwitchingFrom
  <2>3. CASE down' \in Prefixes(down)
    BY <1>5, <1>6, <2>3, SwitchingFrom
  <2>4. CASE WorkerStarts
    <3>1. down = <<>>
      BY <2>4 DEF WorkerStarts, CarryInv, ControlOK
    <3>2. CASE down' # down
      <4>1. PICK s \in Sizes :
              Write(<<Written("refusal", 0, ResponseHead, FALSE), Written("data", 1, s, FALSE),
                      Written("close", 0, 0, FALSE)>>, "done")
        BY <2>4, <3>2 DEF WorkerStarts
      <4> DEFINE o == Written("refusal", 0, ResponseHead, FALSE)
                 d == Written("data", 1, s, FALSE)
                 e == Written("close", 0, 0, FALSE)
      <4>2. o.op # "switch" /\ d.op # "switch" /\ e.op # "switch"
        BY DEF Written
      <4>3. Write(<<o, d, e>>, "done")
        BY <4>1
      <4> HIDE DEF o, d, e
      <4>4. down' = <<o, d, e>>
        BY <3>1, <3>2, <4>3 DEF Write
      <4> QED BY <4>2, <4>4 DEF Switching
    <3> QED BY <2>1, <3>2
  <2>5. CASE WorkerDown
    <3> DEFINE m == Head(Rest)
    <3>1. \/ down' = down
          \/ \E next : Write(<<Written("close", 0, 0, FALSE)>>, next)
          \/ \E next : Write(<<Written("data", m.n, m.size, FALSE)>>, next)
      BY <2>5 DEF WorkerDown
    <3>2. ASSUME NEW f, f.op # "switch", NEW next, Write(<<f>>, next) PROVE FALSE
      <4>1. down' = down \/ down' = down \o <<f>>
        BY <3>2 DEF Write
      <4>2. CASE down' = down \o <<f>>
        <5> DEFINE T == DownFrames \cup {f}
        <5>1. down \in Seq(T) /\ f \in T
          BY <1>6
        <5>2. down \o <<f>> = Append(down, f)
          <6> HIDE DEF T
          <6> QED BY <5>1
        <5> HIDE DEF T
        <5> QED BY <1>5, <3>2, <4>2, <5>1, <5>2, SwitchingFrom
      <4> QED BY <2>1, <4>1, <4>2
    <3>3. Written("close", 0, 0, FALSE).op # "switch" /\ Written("data", m.n, m.size, FALSE).op # "switch"
      BY DEF Written
    <3> HIDE DEF m
    <3> QED BY <2>1, <3>1, <3>2, <3>3
  <2> QED BY <2>1, <2>2, <2>3, <2>4, <2>5
          DEF Next, Stub, Worker, Client, Container, StubOpens, StubAwaits, StubUp, StubDown,
              WorkerDials, WorkerUp, Reset, ClientSays, ClientHears, ClientLeaves,
              BackendSwitches, BackendRefuses, BackendSays, BackendHears, BackendCloses, wire
<1>8. ~Switching(cout')
  <2> SUFFICES ASSUME Switching(cout') PROVE FALSE
    OBVIOUS
  <2>1. CASE cout' = cout
    BY <1>5, <2>1
  <2>2. CASE cout # <<>> /\ cout' = Tail(cout)
    BY <1>5, <1>6, <2>2, SwitchingFrom
  <2>3. CASE cout' \in Prefixes(cout)
    BY <1>5, <1>6, <2>3, SwitchingFrom
  <2>4. ASSUME NEW m, m.op # "switch", cout' = Append(cout, m) PROVE FALSE
    <3> DEFINE T == OutPieces \cup {m}
    <3>1. cout \in Seq(T) /\ m \in T
      BY <1>6
    <3> HIDE DEF T
    <3> QED BY <1>5, <2>4, <3>1, SwitchingFrom
  <2>5. CASE StubAwaits
    <3>1. CASE cout' # cout
      <4> DEFINE m == Message(Head(down))
                 p == Piece(m.op, 0, m.size)
      <4>1. cout' = Append(cout, p) /\ down # <<>>
        BY <2>5, <3>1 DEF StubAwaits
      <4>2. m.op = Head(down).op /\ Head(down) = down[1] /\ 1 \in 1..Len(down)
        BY <1>6, <4>1, DownHead DEF CarryInv
      <4>3. p.op # "switch"
        BY <1>5, <4>2 DEF Piece, Switching
      <4> HIDE DEF m, p
      <4> QED BY <2>4, <4>1, <4>3
    <3> QED BY <2>1, <3>1
  <2>6. CASE StubDown
    <3>1. cout' = cout \/ \E m : m.op = "data" /\ cout' = Append(cout, m)
      BY <2>6 DEF StubDown
    <3> QED BY <2>1, <2>4, <3>1
  <2> QED BY <2>1, <2>2, <2>3, <2>5, <2>6
          DEF Next, Stub, Worker, Client, Container, StubOpens, StubUp,
              WorkerStarts, WorkerDials, WorkerUp, WorkerDown, Reset, ClientSays, ClientHears,
              ClientLeaves, BackendSwitches, BackendRefuses, BackendSays, BackendHears,
              BackendCloses, wire
<1> QED BY <1>5, <1>7, <1>8

LEMMA OpensChain ==
  ASSUME CarryInv, CarryInv', EarlyOK, WorkerAwaits, ~Opened, Opened', Calm'
  PROVE  Chain'
<1>1. worker = "await" /\ UNCHANGED <<client, stub, backend, words, cin, cout, up, conn, broken>>
  BY DEF WorkerAwaits
<1>2. UNCHANGED <<upSaid, upHeard, downSaid, downHeard>>
  BY <1>1 DEF words
<1>3. stub = "await" /\ broken = {} /\ conn = <<>> /\ backend # "dropped"
  BY <1>1 DEF EarlyOK, Calm
<1>4. down = <<>> /\ cout = <<>> /\ downHeard = <<>> /\ br = <<>>
  BY <1>1 DEF CarryInv, ControlOK
<1>5. upSaid = <<>> /\ upHeard = <<>> /\ client # "open"
  BY Early DEF Opened
<1>6. ~ClientGone /\ Switching(down')
  <2>1. ~Switching(<<>>)
    BY DEF Switching
  <2>2. ~ClientGone' /\ (Switching(cout)' \/ Switching(down)')
    BY <1>1, <1>2, <1>5 DEF Opened
  <2> QED BY <1>1, <1>4, <2>1, <2>2 DEF ClientGone, Switching
<1>7. client = "waiting"
  BY <1>1, <1>5, <1>6 DEF CarryInv, StatesOK, EarlyOK, ClientGone
<1>8. answer # <<>> /\ down' # <<>>
  <2>1. down' # <<>>
    BY <1>6 DEF Switching
  <2> QED BY <1>4, <2>1 DEF WorkerAwaits
<1> DEFINE op == Head(answer).op
           f == Written(op, 0, ResponseHead, FALSE)
           next == IF op = "switch" THEN "relay" ELSE "copy"
<1>9. Write(<<f>>, next)
  BY <1>8 DEF WorkerAwaits, AnswerEnds
<1>10. f.op = op
  BY DEF Written
<1>11. down' = <<f>> /\ worker' = next
  <2> HIDE DEF f, next
  <2> QED BY <1>3, <1>4, <1>9 DEF Write
<1>12. op = "switch"
  <2> HIDE DEF op
  <2>1. Len(<<f>>) = 1 /\ <<f>>[1] = f
    OBVIOUS
  <2> HIDE DEF f
  <2> QED BY <1>6, <1>10, <1>11, <2>1 DEF Switching
<1>13. worker' = "relay" /\ down' = <<Written("switch", 0, ResponseHead, FALSE)>>
  BY <1>11, <1>12
<1> HIDE DEF op, f, next
<1>14. Len(answer) \in Nat \ {0} /\ Head(answer) = answer[1] /\ answer \in Seq(AnswerPieces)
       /\ Len(Tail(answer)) = Len(answer) - 1
  BY <1>8 DEF CarryInv, QueuesOK
<1>15. /\ \A j \in 1..Len(answer) : j # 1 => answer[j].op = "data"
       /\ backend \notin {"idle", "asked", "refusing"}
  BY <1>1, <1>8, <1>12, <1>14 DEF EarlyOK, op
<1>16. backend = "open"
  <2>1. backend # "closed"
    BY <1>1, <1>2, <1>5 DEF Calm
  <2> QED BY <1>3, <1>15, <2>1 DEF CarryInv, StatesOK
<1>17. AllData(br') /\ AllData(answer')
  <2>1. PICK n \in 0..Len(Tail(answer)) :
          /\ br' = SubSeq(answer, 2, n + 1)
          /\ answer' = SubSeq(answer, n + 2, Len(answer))
    BY <1>8, Zenon DEF WorkerAwaits, AnswerEnds
  <2>2. n \in 0..Len(answer) - 1
    BY <1>14
  <2>3. /\ Len(br') = n /\ \A j \in 1..n : br'[j] = answer[j + 1]
        /\ Len(answer') = Len(answer) - 1 - n
        /\ \A j \in 1..Len(answer) - 1 - n : answer'[j] = answer[j + n + 1]
    BY <1>14, <2>1, <2>2, SplitIs
  <2>4. ASSUME NEW j \in 1..n PROVE br'[j].op = "data"
    <3>1. j + 1 \in 1..Len(answer) /\ j + 1 # 1
      BY <1>14, <2>2
    <3> QED BY <1>15, <2>3, <3>1
  <2>5. ASSUME NEW j \in 1..Len(answer) - 1 - n PROVE answer'[j].op = "data"
    <3>1. j + n + 1 \in 1..Len(answer) /\ j + n + 1 # 1
      BY <1>14, <2>2
    <3> QED BY <1>15, <2>3, <3>1
  <2> QED BY <2>3, <2>4, <2>5 DEF AllData
<1>18. EndsOK'
  BY <1>1, <1>3, <1>7, <1>13, <1>16 DEF EndsOK
<1>19. ShapeOK'
  <2> DEFINE s == Written("switch", 0, ResponseHead, FALSE)
  <2>1. s.op = "switch" /\ down' = <<s>>
    BY <1>13, Fixed
  <2>2. Head(down') = s /\ OneSwitch(down')
    <3> HIDE DEF s
    <3> QED BY <2>1 DEF OneSwitch
  <2> QED BY <1>1, <1>2, <1>3, <1>4, <1>5, <1>7, <1>17, <2>2 DEF ShapeOK
<1>20. UpCut' = {} /\ DownCut' = {}
  BY <1>1, <1>3, <1>7, <1>13, <1>16 DEF UpCut, DownCut, ClientGone, BackendGone
<1>21. WholeUp' /\ WholeDown'
  BY <1>20 DEF CarryInv, UpFlow, DownFlow, WholeUp, WholeDown
<1> QED BY <1>18, <1>19, <1>21 DEF Chain

-----------------------------------------------------------------------------
(* The steps of a calm conversation that is open: what is left of each      *)
(* action when no connection is reset and nothing is refused.               *)

StubTakes ==
  /\ stub = "await" /\ stub' = "relay" /\ client = "waiting"
  /\ down # <<>> /\ down' = Tail(down)
  /\ cout = <<>> /\ cout' = <<Piece("switch", 0, ResponseHead)>>
  /\ UNCHANGED <<client, worker, backend, words, cin, up, br, conn, answer>>
StubSends ==
  /\ stub = "relay" /\ cin # <<>> /\ cin' = Tail(cin)
  /\ up' = Append(up, Written("data", Head(cin).n, Head(cin).size, TRUE))
  /\ UNCHANGED <<ends, words, cout, down, br, conn, answer>>
StubPasses ==
  /\ stub = "relay" /\ down # <<>> /\ down' = Tail(down)
  /\ Head(down).op = "data" /\ cout' = Append(cout, Message(Head(down)))
  /\ UNCHANGED <<ends, words, cin, up, br, conn, answer>>
StubEnds ==
  /\ stub = "relay" /\ stub' = "done"
  /\ \/ client = "left" /\ cin = <<>>
     \/ worker = "done" /\ down = <<>>
  /\ UNCHANGED <<client, worker, backend, words, wire>>
WorkerSkips ==
  /\ worker = "relay" /\ up # <<>> /\ up' = Tail(up) /\ Head(up).op = "end"
  /\ UNCHANGED <<ends, words, cin, cout, down, br, conn, answer>>
WorkerPasses ==
  /\ worker = "relay" /\ up # <<>> /\ up' = Tail(up)
  /\ Head(up).op = "data" /\ conn' = Append(conn, Message(Head(up)))
  /\ UNCHANGED <<ends, words, cin, cout, down, br, answer>>
WorkerSends ==
  /\ worker = "relay" /\ Rest # <<>>
  /\ down' = Append(down, Written("data", Head(Rest).n, Head(Rest).size, FALSE))
  /\ IF br # <<>> THEN br' = Tail(br) /\ answer' = answer ELSE answer' = Tail(answer) /\ br' = br
  /\ UNCHANGED <<ends, words, cin, cout, up, conn>>
WorkerEnds ==
  /\ worker = "relay" /\ worker' = "done"
  /\ \/ stub = "done" /\ up = <<>>
     \/ backend = "closed" /\ br = <<>> /\ answer = <<>>
  /\ UNCHANGED <<client, stub, backend, words, wire>>
ClientOpens ==
  /\ client = "waiting" /\ client' = "open" /\ cout # <<>> /\ cout' = Tail(cout)
  /\ Head(cout).op = "switch"
  /\ UNCHANGED <<stub, worker, backend, words, cin, up, down, br, conn, answer>>
ClientReads ==
  /\ client = "open" /\ cout # <<>> /\ cout' = Tail(cout) /\ Head(cout).op = "data"
  /\ downHeard' = Append(downHeard, Head(cout))
  /\ UNCHANGED <<ends, upSaid, upHeard, downSaid, cin, up, down, br, conn, answer>>
ClientEnds ==
  /\ client = "open"
  /\ client' = "left" \/ (client' = "dropped" /\ cout = <<>> /\ stub = "done")
  /\ UNCHANGED <<stub, worker, backend, words, wire>>
BackendReads ==
  /\ backend = "open" /\ conn # <<>> /\ conn' = Tail(conn)
  /\ upHeard' = Append(upHeard, Head(conn))
  /\ UNCHANGED <<ends, upSaid, downSaid, downHeard, cin, cout, up, down, br, answer>>
BackendEnds ==
  /\ backend = "open"
  /\ backend' = "closed" \/ (backend' = "dropped" /\ conn = <<>> /\ worker = "done")
  /\ UNCHANGED <<client, stub, worker, words, wire>>

ChainNext ==
  \/ StubTakes \/ StubSends \/ StubPasses \/ StubEnds
  \/ WorkerSkips \/ WorkerPasses \/ WorkerSends \/ WorkerEnds
  \/ ClientSays \/ ClientOpens \/ ClientReads \/ ClientEnds
  \/ (BackendSays /\ backend = "open") \/ BackendReads \/ BackendEnds

LEMMA CalmSteps ==
  ASSUME CarryInv, EarlyOK, Calm, Calm', Opened, Opened', Chain, Next
  PROVE  ChainNext /\ broken' = {}
<1> USE DEF Chain
<1>q. /\ cin \in Seq(Datas) /\ conn \in Seq(Datas) /\ cout \in Seq(OutPieces)
      /\ br \in Seq(AnswerPieces) /\ answer \in Seq(AnswerPieces)
      /\ up \in Seq(UpFrames) /\ down \in Seq(DownFrames)
  BY DEF CarryInv, QueuesOK
<1>e. /\ broken = {} /\ stub \in {"await", "relay", "done"} /\ worker \in {"relay", "done"}
      /\ client \in {"waiting", "open", "left", "dropped"}
      /\ backend \in {"open", "closed", "dropped"}
  BY DEF EndsOK
<1>d. /\ AllData(br) /\ AllData(answer)
      /\ stub # "await" => AllData(down) /\ IF client = "waiting" THEN OneSwitch(cout) ELSE AllData(cout)
  BY DEF ShapeOK
<1>h. \A S : \A q \in Seq(S) : q # <<>> => Head(q) = q[1] /\ 1 \in 1..Len(q)
  OBVIOUS
<1>1. CASE StubOpens
  BY <1>1, <1>e DEF StubOpens
<1>2. CASE StubAwaits
  <2>1. /\ client = "waiting" /\ cout = <<>> /\ OneSwitch(down)
        /\ Head(down) = Written("switch", 0, ResponseHead, FALSE)
    BY <1>2 DEF StubAwaits, ShapeOK
  <2>2. down # <<>>
    BY <2>1 DEF OneSwitch
  <2> DEFINE m == Message(Head(down))
  <2>3. m = Piece("switch", 0, ResponseHead) /\ m.op = "switch" /\ m.size = ResponseHead
    <3>1. "switch" \in Ops /\ 0 \in Nat
      BY DEF Ops
    <3>2. Message(Written("switch", 0, ResponseHead, FALSE)) = Piece("switch", 0, ResponseHead)
      BY <3>1, SmallSize, WrittenIs
    <3>3. /\ Piece("switch", 0, ResponseHead).op = "switch"
          /\ Piece("switch", 0, ResponseHead).size = ResponseHead
      BY DEF Piece
    <3> QED BY <2>1, <3>2, <3>3
  <2>4. /\ down' = Tail(down) /\ cout' = Append(cout, Piece(m.op, 0, m.size)) /\ stub' = "relay"
        /\ UNCHANGED <<client, worker, backend, words, cin, up, br, conn, answer, broken>>
    <3> HIDE DEF m
    <3> QED BY <1>2, <1>e, <2>2, <2>3 DEF StubAwaits, DownEnds, m
  <2>5. cout' = <<Piece("switch", 0, ResponseHead)>>
    <3>1. cout' = Append(cout, Piece("switch", 0, ResponseHead))
      BY <2>3, <2>4
    <3> DEFINE p == Piece("switch", 0, ResponseHead)
    <3>2. cout' = Append(cout, p)
      BY <3>1
    <3> HIDE DEF p
    <3>3. cout' = <<p>>
      BY <2>1, <3>2
    <3> QED BY <3>3 DEF p
  <2>6. StubTakes
    BY <1>2, <2>1, <2>2, <2>4, <2>5 DEF StubTakes, StubAwaits
  <2> QED BY <1>e, <2>4, <2>6 DEF ChainNext
<1>3. CASE StubUp
  <2>1. client # "dropped"
    BY <1>3 DEF StubUp, EndsOK
  <2>2. StubSends \/ StubEnds
    <3>1. CASE cin # <<>>
      BY <1>3, <1>e, <3>1 DEF StubUp, Ok, StubSends, ends
    <3>2. CASE cin = <<>>
      BY <1>3, <1>e, <2>1, <3>2 DEF StubUp, StubEnds, ClientGone, words, wire
    <3> QED BY <3>1, <3>2
  <2>3. broken' = {}
    BY <1>3, <1>e DEF StubUp
  <2> QED BY <2>2, <2>3 DEF ChainNext
<1>4. CASE StubDown
  <2>1. stub = "relay" /\ AllData(down)
    BY <1>4, <1>e, <1>d DEF StubDown
  <2>2. CASE down # <<>>
    <3>1. Head(down).op = "data" /\ Message(Head(down)).op = "data"
      <4>1. Head(down).op = "data"
        BY <1>q, <1>h, <2>1, <2>2 DEF AllData
      <4>2. Message(Head(down)).op = Head(down).op
        BY <2>2, DownHead DEF CarryInv
      <4> QED BY <4>1, <4>2
    <3> QED BY <1>4, <1>e, <2>1, <2>2, <3>1 DEF StubDown, DownEnds, ChainNext, StubPasses, ends
  <2>3. CASE down = <<>>
    BY <1>4, <1>e, <2>1, <2>3 DEF StubDown, DownEnds, ChainNext, StubEnds, wire
  <2> QED BY <2>2, <2>3
<1>5. CASE WorkerStarts \/ WorkerDials \/ WorkerAwaits
  BY <1>5, <1>e DEF WorkerStarts, WorkerDials, WorkerAwaits
<1>6. CASE WorkerUp
  <2>1. CASE up # <<>>
    <3>1. Message(Head(up)).op = Head(up).op
      BY <1>q, <1>h, <2>1, ReadIs
    <3> QED BY <1>6, <1>e, <2>1, <3>1
            DEF WorkerUp, UpEnds, ChainNext, WorkerSkips, WorkerPasses, ends
  <2>2. CASE up = <<>>
    BY <1>6, <1>e, <2>2 DEF WorkerUp, UpEnds, ChainNext, WorkerEnds, words, wire
  <2> QED BY <2>1, <2>2
<1>7. CASE WorkerDown
  <2>1. worker = "relay" /\ UNCHANGED <<client, stub, backend, words, cin, cout, up, conn, broken>>
    BY <1>7, <1>e DEF WorkerDown
  <2>2. CASE Rest # <<>>
    <3> DEFINE m == Head(Rest)
               f == Written("data", m.n, m.size, FALSE)
    <3>1. m.op = "data"
      BY <1>q, <1>d, <1>h, <2>2 DEF AllData, Rest
    <3>2. /\ IF m.op = "last" THEN Write(<<Written("close", 0, 0, FALSE)>>, "done")
             ELSE Write(<<f>>, worker)
          /\ IF Rest = br THEN br' = Tail(br) /\ UNCHANGED answer
             ELSE answer' = Tail(answer) /\ UNCHANGED br
      BY <1>7, <2>2 DEF WorkerDown, AnswerEnds, Rest
    <3>3. Write(<<f>>, worker)
      BY <3>1, <3>2
    <3>4. f \in DownFrames
      <4>1. m \in Datas
        <5>1. m \in AnswerPieces
          BY <1>q, <1>h, <2>2 DEF Rest
        <5> QED BY <3>1, <5>1 DEF AnswerPieces, Datas
      <4> HIDE DEF m
      <4> QED BY <4>1, PassedIs
    <3>5. down' = Append(down, f) /\ worker' = worker
      <4> HIDE DEF f
      <4> QED BY <1>q, <1>e, <3>3, <3>4, WriteOne
    <3>6. IF br # <<>> THEN br' = Tail(br) /\ answer' = answer ELSE answer' = Tail(answer) /\ br' = br
      BY <2>2, <3>2 DEF Rest
    <3>7. WorkerSends
      BY <2>1, <2>2, <3>5, <3>6 DEF WorkerSends, ends
    <3> QED BY <1>e, <2>1, <3>7 DEF ChainNext
  <2>3. CASE Rest = <<>>
    <3>1. backend # "dropped"
      BY <2>1 DEF EndsOK
    <3>2. WorkerEnds
      BY <1>7, <1>e, <2>1, <2>3, <3>1 DEF WorkerDown, AnswerEnds, BackendGone, WorkerEnds, wire
    <3> QED BY <1>e, <2>1, <3>2 DEF ChainNext
  <2> QED BY <2>2, <2>3
<1>8. CASE Reset
  <2>1. "cut" \notin broken'
    BY DEF Calm
  <2>2. ~(ClientGone /\ cout # <<>>) /\ ~(stub = "done" /\ cin # <<>>)
    BY Drained DEF EndsOK, ClientGone
  <2>3. ~(stub = "done" /\ down # <<>>) /\ ~(worker = "done" /\ up # <<>>)
    BY Drained DEF EndsOK
  <2>4. ~(worker = "done" /\ answer # <<>>) /\ ~(BackendGone /\ conn # <<>>)
    BY Drained DEF EndsOK, BackendGone
  <2> QED BY <1>8, <2>1, <2>2, <2>3, <2>4 DEF Reset, ResetOf
<1>9. CASE ClientSays
  BY <1>9, <1>e DEF ClientSays, ChainNext
<1>10. CASE ClientHears
  <2>1. client \in {"waiting", "open"} /\ broken' = {}
    BY <1>10, <1>e DEF ClientHears, ClientGone
  <2>2. CASE cout # <<>>
    <3>1. stub # "await" /\ Head(cout) = cout[1] /\ 1 \in 1..Len(cout)
      BY <1>q, <1>h, <2>2 DEF ShapeOK
    <3>2. CASE client = "waiting"
      <4>1. Head(cout).op = "switch"
        BY <1>d, <3>1, <3>2 DEF OneSwitch
      <4> QED BY <1>10, <2>1, <2>2, <3>2, <4>1 DEF ClientHears, ChainNext, ClientOpens, words
    <3>3. CASE client = "open"
      <4>1. Head(cout).op = "data"
        BY <1>d, <3>1, <3>3 DEF AllData
      <4> QED BY <1>10, <2>1, <2>2, <3>3, <4>1 DEF ClientHears, ChainNext, ClientReads, ends
    <3> QED BY <2>1, <3>2, <3>3
  <2>3. CASE cout = <<>>
    <3>1. stub = "done"
      BY <1>10, <1>e, <2>3 DEF ClientHears
    <3>2. client # "waiting"
      BY <1>d, <2>3, <3>1 DEF OneSwitch
    <3> QED BY <1>10, <1>e, <2>1, <2>3, <3>1, <3>2 DEF ClientHears, ChainNext, ClientEnds, words, wire
  <2> QED BY <2>2, <2>3
<1>11. CASE ClientLeaves
  <2>1. client # "waiting"
    <3> SUFFICES ASSUME client = "waiting" PROVE FALSE
      OBVIOUS
    <3>1. upSaid = <<>>
      BY DEF EarlyOK
    <3>2. upSaid' = <<>> /\ client' = "left"
      BY <1>11, <3>1 DEF ClientLeaves, words
    <3> QED BY <3>2 DEF Opened, ClientGone
  <2> QED BY <1>11, <1>e, <2>1 DEF ClientLeaves, ClientGone, ChainNext, ClientEnds,
                                    words, wire
<1>12. CASE BackendSwitches \/ BackendRefuses
  BY <1>12, <1>e DEF BackendSwitches, BackendRefuses
<1>13. CASE BackendSays
  BY <1>13, <1>e DEF BackendSays, ChainNext
<1>14. CASE BackendHears
  BY <1>14, <1>e DEF BackendHears, ChainNext, BackendReads, BackendEnds, ends, words, wire
<1>15. CASE BackendCloses
  BY <1>15, <1>e DEF BackendCloses, ChainNext, BackendEnds, words, wire
<1> QED
  BY <1>1, <1>2, <1>3, <1>4, <1>5, <1>6, <1>7, <1>8, <1>9, <1>10, <1>11, <1>12, <1>13, <1>14, <1>15
     DEF Next, Stub, Worker, Client, Container

LEMMA EndsStep ==
  ASSUME CarryInv, Calm, Calm', Opened, Chain, ChainNext, broken' = {}
  PROVE  EndsOK'
<1> USE DEF Chain, EndsOK, ends, words, wire
<1>1. CASE StubTakes
  BY <1>1 DEF StubTakes
<1>2. CASE StubSends \/ StubPasses
  BY <1>2 DEF StubSends, StubPasses
<1>3. CASE StubEnds
  BY <1>3 DEF StubEnds, Calm
<1>4. CASE WorkerSkips \/ WorkerPasses \/ WorkerSends
  BY <1>4 DEF WorkerSkips, WorkerPasses, WorkerSends
<1>5. CASE WorkerEnds
  BY <1>5 DEF WorkerEnds, Calm
<1>6. CASE ClientSays \/ ClientOpens \/ ClientReads
  BY <1>6 DEF ClientSays, ClientOpens, ClientReads
<1>7. CASE ClientEnds
  BY <1>7 DEF ClientEnds, Calm
<1>8. CASE BackendSays /\ backend = "open"
  BY <1>8 DEF BackendSays
<1>9. CASE BackendReads
  BY <1>9 DEF BackendReads
<1>10. CASE BackendEnds
  BY <1>10 DEF BackendEnds, Calm
<1> QED BY <1>1, <1>2, <1>3, <1>4, <1>5, <1>6, <1>7, <1>8, <1>9, <1>10 DEF ChainNext

LEMMA ShapeStep ==
  ASSUME CarryInv, EarlyOK, Chain, ChainNext
  PROVE  ShapeOK'
<1> USE DEF Chain
<1>q. /\ cin \in Seq(Datas) /\ conn \in Seq(Datas) /\ cout \in Seq(OutPieces)
      /\ br \in Seq(AnswerPieces) /\ answer \in Seq(AnswerPieces)
      /\ up \in Seq(UpFrames) /\ down \in Seq(DownFrames)
  BY DEF CarryInv, QueuesOK
<1>n. AllData(<<>>)
  BY DEF AllData
<1>1. CASE StubTakes
  <2> DEFINE p == Piece("switch", 0, ResponseHead)
  <2>1. OneSwitch(down)
    BY <1>1 DEF StubTakes, ShapeOK
  <2>2. AllData(down')
    BY <1>1, <1>q, <2>1, SwitchTail DEF StubTakes
  <2>3. OneSwitch(cout')
    <3>1. p.op = "switch" /\ cout' = <<p>>
      BY <1>1, Fixed DEF StubTakes
    <3> HIDE DEF p
    <3> QED BY <3>1 DEF OneSwitch
  <2> QED BY <1>1, <2>2, <2>3 DEF StubTakes, ShapeOK, words
<1>2. CASE StubSends
  <2>1. conn' # <<>> \/ upHeard' # <<>> => AllData(up')
    <3> SUFFICES ASSUME conn' # <<>> \/ upHeard' # <<>> PROVE AllData(up')
      OBVIOUS
    <3>1. AllData(up)
      BY <1>2 DEF StubSends, words, ShapeOK
    <3> DEFINE p == Head(cin)
               f == Written("data", p.n, p.size, TRUE)
    <3>2. p \in Datas /\ up' = Append(up, f)
      BY <1>2, <1>q DEF StubSends
    <3> HIDE DEF p
    <3>3. f \in UpFrames /\ f.op = "data"
      <4>1. f \in UpFrames
        BY <3>2, PassedIs
      <4>2. f.op = "data"
        BY DEF Written
      <4> QED BY <4>1, <4>2
    <3> HIDE DEF f
    <3> QED BY <1>q, <3>1, <3>2, <3>3, DataAppend
  <2> QED BY <1>2, <2>1 DEF StubSends, ShapeOK, ends, words
<1>3. CASE StubPasses
  <2>1. AllData(down) /\ down # <<>> /\ down' = Tail(down) /\ stub' = "relay" /\ client' = client
    BY <1>3 DEF StubPasses, ShapeOK, ends
  <2>2. AllData(down')
    BY <1>q, <2>1, DataTail
  <2> DEFINE m == Message(Head(down))
  <2>3. m \in OutPieces /\ m.op = "data" /\ cout' = Append(cout, m)
    <3>1. Head(down) \in DownFrames
      BY <1>q, <2>1
    <3>2. m \in Datas /\ m.op = "data"
      BY <1>3, <3>1, ReadIs DEF StubPasses
    <3> QED BY <1>3, <3>2, Kinds DEF StubPasses
  <2> HIDE DEF m
  <2>4. IF client' = "waiting" THEN OneSwitch(cout') ELSE AllData(cout')
    <3>1. IF client = "waiting" THEN OneSwitch(cout) ELSE AllData(cout)
      BY <1>3 DEF StubPasses, ShapeOK
    <3> QED BY <1>q, <2>1, <2>3, <3>1, SwitchAppend, DataAppend
  <2> QED BY <1>3, <2>1, <2>2, <2>4 DEF StubPasses, ShapeOK, ends, words
<1>4. CASE StubEnds \/ WorkerEnds \/ BackendEnds
  BY <1>4 DEF StubEnds, WorkerEnds, BackendEnds, ShapeOK, words, wire
<1>5. CASE WorkerSkips
  <2>1. conn' # <<>> \/ upHeard' # <<>> => AllData(up')
    BY <1>5, <1>q, DataTail DEF WorkerSkips, ShapeOK, words
  <2> QED BY <1>5, <2>1 DEF WorkerSkips, ShapeOK, ends, words
<1>6. CASE WorkerPasses
  <2>1. Carries(upSaid, upHeard, conn, Msgs(up), cin) /\ up \in Seq(Frames(TRUE))
    BY UpCarries DEF CarryInv
  <2>2. /\ \A j \in 1..Len(up) : Msgs(up)[j] = Message(up[j])
        /\ Len(Msgs(up)) = Len(up)
    BY <2>1, MsgsAre
  <2>3. \A j \in 1..Len(up) : up[j] \in UpFrames /\ Msgs(up)[j].op = up[j].op
    <3>1. \A j \in 1..Len(up) : up[j] \in UpFrames
      BY <1>q
    <3> QED BY <2>2, <3>1, ReadIs
  <2>4. up # <<>> /\ up[1].op = "data" /\ 1 \in 1..Len(up)
    BY <1>6, <1>q DEF WorkerPasses
  <2>5. Msgs(up) # <<>> /\ Msgs(up)[1].op = "data"
    BY <2>2, <2>3, <2>4
  <2>6. \A j \in 1..Len(Msgs(up)) : Msgs(up)[j].op \notin Opens
    BY <2>1, <2>5, FlowData2 DEF WholeUp
  <2>7. \A j \in 1..Len(up) : up[j].op \in {"start", "end", "data"} /\ up[j].op \notin Opens
    BY <2>2, <2>3, <2>6 DEF UpFrames
  <2>8. AllData(up)
    BY <2>7 DEF AllData, Opens
  <2>9. AllData(up')
    BY <1>6, <1>q, <2>8, DataTail DEF WorkerPasses
  <2> QED BY <1>6, <2>9 DEF WorkerPasses, ShapeOK, ends, words
<1>7. CASE WorkerSends
  <2>1. AllData(br') /\ AllData(answer')
    <3>1. AllData(br) /\ AllData(answer)
      BY DEF ShapeOK
    <3> QED BY <1>7, <1>q, <3>1, DataTail DEF WorkerSends, Rest
  <2> DEFINE p == Head(Rest)
             f == Written("data", p.n, p.size, FALSE)
  <2>2. f \in DownFrames /\ f.op = "data" /\ down' = Append(down, f)
    <3>1. p \in Datas
      <4>1. Rest \in Seq(AnswerPieces) /\ AllData(Rest) /\ Rest # <<>>
        BY <1>7, <1>q DEF WorkerSends, Rest, ShapeOK
      <4>2. Head(Rest) = Rest[1] /\ 1 \in 1..Len(Rest) /\ Rest[1] \in AnswerPieces
        BY <4>1
      <4> QED BY <4>1, <4>2 DEF AllData, AnswerPieces, Datas
    <3>2. f.op = "data"
      BY DEF Written
    <3>3. f \in DownFrames
      <4> HIDE DEF p
      <4> QED BY <3>1, PassedIs
    <3> QED BY <1>7, <3>2, <3>3 DEF WorkerSends
  <2> HIDE DEF p, f
  <2>3. stub = "await" => OneSwitch(down') /\ Head(down') = Written("switch", 0, ResponseHead, FALSE)
    <3> SUFFICES ASSUME stub = "await"
                 PROVE  OneSwitch(down') /\ Head(down') = Written("switch", 0, ResponseHead, FALSE)
      OBVIOUS
    <3>1. OneSwitch(down) /\ Head(down) = Written("switch", 0, ResponseHead, FALSE)
      BY DEF ShapeOK
    <3>2. down # <<>>
      BY <3>1 DEF OneSwitch
    <3>3. Head(down') = Head(down)
      BY <1>q, <2>2, <3>2
    <3> QED BY <1>q, <2>2, <3>1, <3>3, SwitchAppend
  <2>4. stub # "await" => AllData(down')
    BY <1>q, <2>2, DataAppend DEF ShapeOK
  <2> QED BY <1>7, <2>1, <2>3, <2>4 DEF WorkerSends, ShapeOK, ends, words
<1>8. CASE ClientSays
  <2>1. UNCHANGED <<client, stub, upHeard, cout, up, down, br, conn, answer>>
    BY <1>8 DEF ClientSays, ends
  <2> QED BY <2>1 DEF ShapeOK
<1>9. CASE ClientOpens
  <2>1. stub # "await" /\ OneSwitch(cout)
    BY <1>9 DEF ClientOpens, ShapeOK
  <2>2. AllData(cout')
    BY <1>9, <1>q, <2>1, SwitchTail DEF ClientOpens
  <2> QED BY <1>9, <2>1, <2>2 DEF ClientOpens, ShapeOK, words
<1>10. CASE ClientReads
  <2>1. stub # "await" /\ AllData(cout)
    BY <1>10 DEF ClientReads, ShapeOK
  <2>2. AllData(cout')
    BY <1>10, <1>q, <2>1, DataTail DEF ClientReads
  <2> QED BY <1>10, <2>1, <2>2 DEF ClientReads, ShapeOK, ends
<1>11. CASE ClientEnds
  BY <1>11 DEF ClientEnds, ShapeOK, words, wire
<1>12. CASE BackendSays
  <2>1. PICK s \in Sizes : answer' = Append(answer, Piece("data", Len(downSaid) + 1, s))
    BY <1>12 DEF BackendSays
  <2> DEFINE m == Piece("data", Len(downSaid) + 1, s)
  <2>2. m \in AnswerPieces /\ m.op = "data"
    <3>1. Len(downSaid) + 1 \in Nat
      BY DEF CarryInv, WordsOK
    <3>2. m \in Datas
      BY <3>1, SaidIs
    <3> QED BY <3>2, PassedIs, Kinds
  <2>3. answer' = Append(answer, m)
    BY <2>1
  <2> HIDE DEF m
  <2>4. AllData(answer')
    BY <1>q, <2>2, <2>3, DataAppend DEF ShapeOK
  <2>5. UNCHANGED <<client, stub, upHeard, cout, up, down, br, conn>>
    BY <1>12 DEF BackendSays, ends
  <2> QED BY <2>4, <2>5 DEF ShapeOK
<1>13. CASE BackendReads
  BY <1>13 DEF BackendReads, ShapeOK, ends
<1> QED BY <1>1, <1>2, <1>3, <1>4, <1>5, <1>6, <1>7, <1>8, <1>9, <1>10, <1>11, <1>12, <1>13
        DEF ChainNext

LEMMA WholeUpStep ==
  ASSUME CarryInv, Chain, ChainNext
  PROVE  WholeUp'
<1>a. Carries(upSaid, upHeard, conn, Msgs(up), cin) /\ up \in Seq(Frames(TRUE))
  BY UpCarries DEF CarryInv
<1>b. Flow(upSaid, upHeard, conn, Msgs(up), cin, {})
  BY DEF Chain, WholeUp
<1> SUFFICES Flow(upSaid', upHeard', conn', Msgs(up'), cin', {})
  BY DEF WholeUp
<1>c. CASE UNCHANGED <<upSaid, upHeard, conn, up, cin>>
  BY <1>b, <1>c
<1>1. CASE StubSends
  <2> DEFINE p == Head(cin)
             f == Written("data", p.n, p.size, TRUE)
  <2>1. p \in Datas /\ p = cin[1] /\ cin # <<>> /\ up' = Append(up, f)
    BY <1>1 DEF StubSends, CarryInv, QueuesOK
  <2>2. p \in Pieces /\ p.op = "data" /\ f = Written(p.op, p.n, p.size, TRUE)
    BY <2>1, PassedIs
  <2> HIDE DEF p, f
  <2>3. Msgs(up') = Append(Msgs(up), p)
    BY <1>a, <2>1, <2>2, MsgsAppend
  <2>4. Flow(upSaid, upHeard, conn, Append(Msgs(up), p), Tail(cin), {})
    BY <1>a, <1>b, <2>1, <2>2, FlowPass32
  <2> QED BY <1>1, <2>3, <2>4 DEF StubSends, words
<1>2. CASE WorkerSkips
  <2>1. Msgs(up') = Tail(Msgs(up)) /\ Msgs(up) # <<>> /\ Msgs(up)[1].op = "end"
    <3>1. Head(up) \in UpFrames
      BY <1>2 DEF WorkerSkips, CarryInv, QueuesOK
    <3> QED BY <1>2, <3>1, UpHead, ReadIs DEF WorkerSkips, CarryInv
  <2>2. Flow(upSaid, upHeard, conn, Tail(Msgs(up)), cin, {})
    BY <1>a, <1>b, <2>1, FlowDropOpens2 DEF Opens
  <2> QED BY <1>2, <2>1, <2>2 DEF WorkerSkips, words
<1>3. CASE WorkerPasses
  <2> DEFINE m == Message(Head(up))
  <2>1. Msgs(up') = Tail(Msgs(up)) /\ Msgs(up) # <<>> /\ Msgs(up)[1] = m /\ m.op = "data"
    <3>1. Head(up) \in UpFrames
      BY <1>3 DEF WorkerPasses, CarryInv, QueuesOK
    <3> QED BY <1>3, <3>1, UpHead, ReadIs DEF WorkerPasses, CarryInv
  <2>2. conn' = Append(conn, m)
    BY <1>3 DEF WorkerPasses
  <2> HIDE DEF m
  <2>3. Flow(upSaid, upHeard, Append(conn, m), Tail(Msgs(up)), cin, {})
    BY <1>a, <1>b, <2>1, FlowPass21
  <2> QED BY <1>3, <2>1, <2>2, <2>3 DEF WorkerPasses, words
<1>4. CASE ClientSays
  <2>1. PICK s \in Sizes :
          /\ cin' = Append(cin, Piece("data", Len(upSaid) + 1, s))
          /\ upSaid' = Append(upSaid, Piece("data", Len(upSaid) + 1, s))
    BY <1>4 DEF ClientSays
  <2> DEFINE m == Piece("data", Len(upSaid) + 1, s)
  <2>2. m \in Pieces /\ m.op = "data"
    <3>1. Len(upSaid) + 1 \in Nat
      BY DEF CarryInv, WordsOK
    <3>2. m \in Datas
      BY <3>1, SaidIs
    <3> QED BY <3>2, PassedIs
  <2>3. cin' = Append(cin, m) /\ upSaid' = Append(upSaid, m)
    BY <2>1
  <2> HIDE DEF m
  <2>4. UNCHANGED <<upHeard, conn, up>>
    BY <1>4 DEF ClientSays
  <2>5. Flow(Append(upSaid, m), upHeard, conn, Msgs(up), Append(cin, m), {})
    BY <1>a, <1>b, <2>2, FlowSay
  <2> QED BY <2>3, <2>4, <2>5
<1>5. CASE BackendReads
  <2>1. conn # <<>> /\ Head(conn) = conn[1] /\ conn[1].op = "data"
    BY <1>5 DEF BackendReads, CarryInv, QueuesOK, Datas
  <2>2. Flow(upSaid, Append(upHeard, conn[1]), Tail(conn), Msgs(up), cin, {})
    BY <1>a, <1>b, <2>1, FlowHear
  <2> QED BY <1>5, <2>1, <2>2 DEF BackendReads
<1>6. CASE \/ StubTakes \/ StubPasses \/ StubEnds \/ WorkerSends \/ WorkerEnds
           \/ ClientOpens \/ ClientReads \/ ClientEnds \/ BackendSays \/ BackendEnds
  BY <1>6, <1>c
     DEF StubTakes, StubPasses, StubEnds, WorkerSends, WorkerEnds, ClientOpens, ClientReads,
         ClientEnds, BackendSays, BackendEnds, words, wire
<1> QED BY <1>1, <1>2, <1>3, <1>4, <1>5, <1>6 DEF ChainNext

LEMMA WholeDownStep ==
  ASSUME CarryInv, Chain, ChainNext
  PROVE  WholeDown'
<1> DEFINE rest == br \o answer
<1>a. /\ Carries(downSaid, downHeard, cout, Msgs(down), rest)
      /\ down \in Seq(Frames(FALSE)) /\ rest \in Seq(AnswerPieces)
  BY DownCarries DEF CarryInv
<1>b. Flow(downSaid, downHeard, cout, Msgs(down), rest, {})
  BY DEF Chain, WholeDown
<1> SUFFICES Flow(downSaid', downHeard', cout', Msgs(down'), rest', {})
  BY DEF WholeDown
<1>d. UNCHANGED <<br, answer>> => rest' = rest
  OBVIOUS
<1> HIDE DEF rest
<1>c. CASE UNCHANGED <<downSaid, downHeard, cout, down, br, answer>>
  BY <1>b, <1>c, <1>d
<1>1. CASE StubTakes
  <2> DEFINE p == Piece("switch", 0, ResponseHead)
  <2>1. /\ Msgs(down') = Tail(Msgs(down)) /\ Msgs(down) # <<>> /\ Msgs(down)[1].op = "switch"
    <3>1. Head(down).op = "switch"
      BY <1>1, Fixed DEF StubTakes, Chain, ShapeOK
    <3> QED BY <1>1, <3>1, DownHead DEF StubTakes, CarryInv
  <2>2. p.op \in Opens /\ cout = <<>> /\ cout' = <<p>>
    BY <1>1, Fixed DEF StubTakes, Opens
  <2> HIDE DEF p
  <2>3. Flow(downSaid, downHeard, cout, Tail(Msgs(down)), rest, {})
    BY <1>a, <1>b, <2>1, FlowDropOpens2 DEF Opens
  <2>4. Carries(downSaid, downHeard, cout, Tail(Msgs(down)), rest)
    <3>1. Tail(Msgs(down)) \in Seq(Pieces)
      BY <1>a, <2>1, TailIs DEF Carries
    <3> QED BY <1>a, <3>1 DEF Carries
  <2>5. Flow(downSaid, downHeard, <<p>>, Tail(Msgs(down)), rest, {})
    BY <2>2, <2>3, <2>4, FlowMoveOpens
  <2> QED BY <1>1, <1>d, <2>1, <2>2, <2>5 DEF StubTakes, words
<1>2. CASE StubPasses
  <2> DEFINE m == Message(Head(down))
  <2>1. Msgs(down') = Tail(Msgs(down)) /\ Msgs(down) # <<>> /\ Msgs(down)[1] = m /\ m.op = "data"
    BY <1>2, DownHead DEF StubPasses, CarryInv
  <2>2. cout' = Append(cout, m)
    BY <1>2 DEF StubPasses
  <2> HIDE DEF m
  <2>3. Flow(downSaid, downHeard, Append(cout, m), Tail(Msgs(down)), rest, {})
    BY <1>a, <1>b, <2>1, FlowPass21
  <2> QED BY <1>2, <1>d, <2>1, <2>2, <2>3 DEF StubPasses, words
<1>3. CASE WorkerSends
  <2> DEFINE m == Head(Rest)
             f == Written("data", m.n, m.size, FALSE)
  <2>1. rest' = Tail(rest) /\ rest # <<>> /\ rest[1] = m
    <3>1. CASE br # <<>>
      <4>1. br' = Tail(br) /\ answer' = answer /\ Rest = br
        BY <1>3, <3>1 DEF WorkerSends, Rest
      <4>2. Tail(br) \o answer = Tail(br \o answer) /\ Head(br) = (br \o answer)[1] /\ br \o answer # <<>>
        BY <3>1, RestTail DEF CarryInv, QueuesOK
      <4> QED BY <4>1, <4>2 DEF rest
    <3>2. CASE br = <<>>
      <4>1. answer' = Tail(answer) /\ br' = br /\ Rest = answer /\ answer # <<>>
        BY <1>3, <3>2 DEF WorkerSends, Rest
      <4>2. rest = answer /\ rest' = Tail(answer)
        <5>1. \A a \in Seq(AnswerPieces) : <<>> \o a = a
          OBVIOUS
        <5>2. answer \in Seq(AnswerPieces) /\ Tail(answer) \in Seq(AnswerPieces)
          BY <4>1 DEF CarryInv, QueuesOK
        <5> QED BY <3>2, <4>1, <5>1, <5>2 DEF rest
      <4>3. Head(answer) = answer[1]
        BY <4>1 DEF CarryInv, QueuesOK
      <4> QED BY <4>1, <4>2, <4>3
    <3> QED BY <3>1, <3>2
  <2>2. m \in Datas
    <3>1. Rest \in Seq(AnswerPieces) /\ AllData(Rest) /\ Rest # <<>>
      BY <1>3 DEF WorkerSends, Rest, CarryInv, QueuesOK, Chain, ShapeOK
    <3>2. Head(Rest) = Rest[1] /\ 1 \in 1..Len(Rest) /\ Rest[1] \in AnswerPieces
      BY <3>1
    <3> QED BY <3>1, <3>2 DEF AllData, AnswerPieces, Datas
  <2>3. down' = Append(down, f)
    BY <1>3 DEF WorkerSends
  <2> HIDE DEF m
  <2>4. m.op = "data" /\ m \in Pieces /\ f = Written(m.op, m.n, m.size, FALSE)
    BY <2>2, PassedIs
  <2> HIDE DEF f
  <2>5. Msgs(down') = Append(Msgs(down), m)
    BY <1>a, <2>3, <2>4, MsgsAppend
  <2>6. Flow(downSaid, downHeard, cout, Append(Msgs(down), m), Tail(rest), {})
    BY <1>a, <1>b, <2>1, <2>4, FlowPass32
  <2> QED BY <1>3, <2>1, <2>5, <2>6 DEF WorkerSends, words
<1>4. CASE ClientOpens
  <2>1. cout # <<>> /\ Head(cout) = cout[1] /\ cout[1].op \in Opens
    BY <1>4 DEF ClientOpens, CarryInv, QueuesOK, Opens
  <2>2. Flow(downSaid, downHeard, Tail(cout), Msgs(down), rest, {})
    BY <1>a, <1>b, <2>1, FlowDropOpens1
  <2> QED BY <1>4, <1>d, <2>2 DEF ClientOpens, words
<1>5. CASE ClientReads
  <2>1. cout # <<>> /\ Head(cout) = cout[1] /\ cout[1].op = "data"
    BY <1>5 DEF ClientReads, CarryInv, QueuesOK
  <2>2. Flow(downSaid, Append(downHeard, cout[1]), Tail(cout), Msgs(down), rest, {})
    BY <1>a, <1>b, <2>1, FlowHear
  <2> QED BY <1>5, <1>d, <2>1, <2>2 DEF ClientReads
<1>6. CASE BackendSays
  <2>1. PICK s \in Sizes :
          /\ answer' = Append(answer, Piece("data", Len(downSaid) + 1, s))
          /\ downSaid' = Append(downSaid, Piece("data", Len(downSaid) + 1, s))
    BY <1>6 DEF BackendSays
  <2> DEFINE m == Piece("data", Len(downSaid) + 1, s)
  <2>2. m \in AnswerPieces /\ m \in Pieces /\ m.op = "data"
    <3>1. Len(downSaid) + 1 \in Nat
      BY DEF CarryInv, WordsOK
    <3>2. m \in Datas
      BY <3>1, SaidIs
    <3> QED BY <3>2, PassedIs, Kinds
  <2>3. answer' = Append(answer, m) /\ downSaid' = Append(downSaid, m)
    BY <2>1
  <2> HIDE DEF m
  <2>4. UNCHANGED <<downHeard, cout, down, br>>
    BY <1>6 DEF BackendSays
  <2>5. rest' = Append(rest, m)
    <3>1. br \o Append(answer, m) = Append(br \o answer, m)
      BY <2>2, RestAppend DEF CarryInv, QueuesOK
    <3> QED BY <2>3, <2>4, <3>1 DEF rest
  <2>6. Flow(Append(downSaid, m), downHeard, cout, Msgs(down), Append(rest, m), {})
    BY <1>a, <1>b, <2>2, FlowSay
  <2> QED BY <2>3, <2>4, <2>5, <2>6
<1>7. CASE \/ StubSends \/ StubEnds \/ WorkerSkips \/ WorkerPasses \/ WorkerEnds
           \/ ClientSays \/ ClientEnds \/ BackendReads \/ BackendEnds
  BY <1>7, <1>c
     DEF StubSends, StubEnds, WorkerSkips, WorkerPasses, WorkerEnds, ClientSays, ClientEnds,
         BackendReads, BackendEnds, words, wire
<1> QED BY <1>1, <1>2, <1>3, <1>4, <1>5, <1>6, <1>7 DEF ChainNext

-----------------------------------------------------------------------------
(* The theorem.                                                             *)

LEMMA LastInit == Init => LastInv
<1> SUFFICES ASSUME Init PROVE LastInv
  OBVIOUS
<1>1. ~Opened
  BY DEF Init, Opened, Switching
<1>2. EarlyOK
  BY DEF Init, EarlyOK
<1> QED BY <1>1, <1>2, CarryInit DEF LastInv

LEMMA LastStep == LastInv /\ [Next]_vars => LastInv'
<1> SUFFICES ASSUME LastInv, [Next]_vars PROVE LastInv'
  OBVIOUS
<1>1. CarryInv'
  BY CarryStep DEF LastInv
<1>2. CASE Next
  <2>1. EarlyOK'
    BY <1>2, EarlyStep DEF LastInv
  <2>2. ASSUME Calm', Opened' PROVE Chain'
    <3>1. CASE Opened
      <4>1. Calm /\ Chain
        BY <1>2, <2>2, <3>1, CalmBefore DEF LastInv
      <4>2. ChainNext /\ broken' = {}
        BY <1>2, <2>2, <3>1, <4>1, CalmSteps DEF LastInv
      <4> QED BY <2>2, <3>1, <4>1, <4>2, EndsStep, ShapeStep, WholeUpStep, WholeDownStep
              DEF LastInv, Chain
    <3>2. CASE ~Opened
      <4>1. WorkerAwaits
        BY <1>2, <2>2, <3>2, OpensOnly DEF LastInv
      <4> QED BY <1>1, <2>2, <3>2, <4>1, OpensChain DEF LastInv
    <3> QED BY <3>1, <3>2
  <2> QED BY <1>1, <2>1, <2>2 DEF LastInv
<1>3. CASE UNCHANGED vars
  <2>1. UNCHANGED <<client, stub, worker, backend, headers, broken, cin, cout, up, down, br,
                    conn, answer, upSaid, upHeard, downSaid, downHeard>>
    BY <1>3 DEF vars, ends, words, wire
  <2>2. EarlyOK'
    BY <2>1 DEF LastInv, EarlyOK
  <2>3. Calm' = Calm /\ Opened' = Opened
    BY <2>1 DEF Calm, Opened, ClientGone, Switching
  <2>4. Chain => Chain'
    BY <2>1 DEF Chain, EndsOK, ShapeOK, AllData, OneSwitch, WholeUp, WholeDown
  <2> QED BY <1>1, <2>2, <2>3, <2>4 DEF LastInv
<1> QED BY <1>2, <1>3

LEMMA LastWordsHold == LastInv => LastWords
<1> SUFFICES ASSUME LastInv, "cut" \notin broken
             PROVE  /\ (client = "dropped" /\ backend = "closed" /\ upSaid # <<>> /\ upHeard = upSaid) =>
                         downHeard = downSaid
                    /\ (client = "left" /\ backend = "dropped" /\ downHeard = downSaid) =>
                         upHeard = upSaid
  BY DEF LastWords
<1>1. ASSUME client = "dropped", backend = "closed", upSaid # <<>>, upHeard = upSaid
      PROVE  downHeard = downSaid
  <2>1. Chain
    BY <1>1 DEF LastInv, Calm, Opened
  <2>2. cout = <<>> /\ down = <<>> /\ br = <<>> /\ answer = <<>>
    BY <1>1, <2>1 DEF Chain, EndsOK
  <2>3. Msgs(down) = <<>> /\ br \o answer = <<>>
    BY <2>2, MsgsEmpty
  <2>4. Carries(downSaid, downHeard, cout, Msgs(down), br \o answer)
    BY DownCarries DEF LastInv, CarryInv
  <2> DEFINE rest == br \o answer
  <2>5. Carries(downSaid, downHeard, cout, Msgs(down), rest)
        /\ Flow(downSaid, downHeard, cout, Msgs(down), rest, {}) /\ rest = <<>>
    BY <2>1, <2>3, <2>4 DEF Chain, WholeDown
  <2> HIDE DEF rest
  <2> QED BY <2>2, <2>3, <2>5, FlowDone
<1>2. ASSUME client = "left", backend = "dropped", downHeard = downSaid
      PROVE  upHeard = upSaid
  <2>1. CASE upSaid = <<>>
    BY <2>1, Early DEF LastInv
  <2>2. CASE upSaid # <<>>
    <3>1. Chain
      BY <1>2, <2>2 DEF LastInv, Calm, Opened
    <3>2. conn = <<>> /\ up = <<>> /\ cin = <<>>
      BY <1>2, <3>1 DEF Chain, EndsOK
    <3>3. Msgs(up) = <<>>
      BY <3>2, MsgsEmpty
    <3>4. Carries(upSaid, upHeard, conn, Msgs(up), cin)
      BY UpCarries DEF LastInv, CarryInv
    <3>5. Flow(upSaid, upHeard, conn, Msgs(up), cin, {})
      BY <3>1 DEF Chain, WholeUp
    <3> QED BY <3>2, <3>3, <3>4, <3>5, FlowDone
  <2> QED BY <2>1, <2>2
<1> QED BY <1>1, <1>2

\* README.md:9, bodies are streamed: each relay closes both its connections when
\* its first goroutine ends (server.go:281, proxy.go:301), and still what one end
\* said before it left is read by the other, when the other had been read out.
THEOREM LastWordsArrive == Spec => []LastWords
BY LastInit, LastStep, LastWordsHold, PTL DEF Spec
=============================================================================
