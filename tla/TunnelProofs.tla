---------------------------- MODULE TunnelProofs ----------------------------
(***************************************************************************)
(* Proofs about one request through the tunnel, for bodies and responses   *)
(* of any length and connections of any capacity: what travels each way    *)
(* stays in shape and is counted, so that nothing is made up or lost.      *)
(***************************************************************************)
EXTENDS Tunnel, SequenceTheorems, TLAPS

\* Both directions have one form: an interim answer, a head, chunks, an end;
\* any of them may have been read already, or be yet to be written.
Beginnings == {"start", "head", "missing"}
Endings    == {"end", "close"}
Infos(q) == IF q # <<>> /\ q[1] = "info" THEN 1 ELSE 0
Heads(q) == IF Infos(q) < Len(q) /\ q[Infos(q) + 1] \in Beginnings THEN 1 ELSE 0
Ends(q)  == IF q # <<>> /\ q[Len(q)] \in Endings THEN 1 ELSE 0
Chunks(q) == Len(q) - Infos(q) - Heads(q) - Ends(q)
Formed(q) == /\ Chunks(q) >= 0
             /\ \A j \in (Infos(q) + Heads(q) + 1)..(Len(q) - Ends(q)) : q[j] = "data"

\* The request: what the container has read, what is written to it and what
\* is in the tunnel were all read from the client.
UpOK ==
  /\ stub = "dial" => worker = "idle" /\ pump = "off" /\ status = "none"
  /\ worker = "idle" => upward = <<>> /\ pump = "off"
  /\ Formed(upward) /\ Infos(upward) = 0
  /\ Heads(upward) = 1 => worker \in {"start", "done"}
  /\ worker = "start" /\ (upward # <<>> \/ ~reset) => Heads(upward) = 1
  /\ Ends(upward) = 1 => pump = "ended"
  /\ worker \in {"idle", "start", "dial"} => wpump = "off" /\ backend = "idle"
  /\ conn # <<>> => backend # "idle"
  /\ \A j \in DOMAIN conn : conn[j] = "chunk"
  /\ ~ended
  /\ taken + Len(conn) + Chunks(upward) <= sent

\* The container's answer, as far as it has written it and the worker has not
\* read it.
AnswerOK ==
  /\ Formed(answer)
  /\ backend = "idle" => answer = <<>> /\ resp = 0
  /\ backend = "reading" => answer = <<>> /\ Infos(downward) = 0
  /\ backend \in {"reading", "continued"} =>
       /\ Heads(answer) = 0 /\ Chunks(answer) = 0 /\ Ends(answer) = 0 /\ resp = 0
       /\ worker \in {"await", "done"}
  /\ "backend" \notin lost /\ worker = "await" /\ backend \in {"answering", "answered", "closed"} =>
       Heads(answer) = 1
  /\ Ends(answer) = 1 => backend \in {"answered", "closed"}
  /\ "backend" \notin lost /\ backend \in {"answered", "closed"} /\ worker \in {"await", "copy"} =>
       Ends(answer) = 1
  /\ worker = "join" => answer = <<>> /\ backend \in {"answered", "closed"}
  /\ backend = "idle" => worker \in {"idle", "start", "dial", "done"}

\* The response in the tunnel.
DownOK ==
  /\ Formed(downward)
  /\ worker \in {"idle", "start", "dial"} => downward = <<>> /\ stub \in {"dial", "await", "done"}
  /\ worker \in {"idle", "start", "dial", "await"} =>
       Heads(downward) = 0 /\ Chunks(downward) = 0 /\ Ends(downward) = 0 /\ got = 0
  /\ Infos(answer) + Infos(downward) <= 1
  /\ worker = "copy" => Ends(downward) = 0
  /\ \A j \in DOMAIN downward : downward[j] = "head" => backend # "idle"
  /\ status = "ok" => backend # "idle"
  /\ got + Chunks(downward) + Chunks(answer) <=
       resp + (IF backend = "idle" /\ worker = "done" THEN 1 ELSE 0)

\* A tunnel that is not reset has an answer in it, or its head has been read,
\* unless the container or the agent was lost.
AnsweredOK ==
  /\ lost \cap {"dial", "agent"} # {} => worker = "done"
  /\ stub = "await" /\ ~reset /\ worker \in {"copy", "join"} => Heads(downward) = 1
  /\ lost = {} /\ backend # "died" /\ stub = "await" /\ ~reset /\ worker = "done" =>
       Heads(downward) = 1
  /\ EmptyOnlyWhenLost

\* As long as the stub listens, the worker stays and nothing is lost.
Whole == "none" \notin Framings /\ "cut" \notin Faults
WholeOK == Whole =>
  /\ reset => worker = "done" \/ stub = "done"
  /\ lost = {} /\ backend \notin {"idle", "died"} /\ stub # "done" =>
       /\ ~reset /\ worker # "done" /\ wpump # "ended"
       /\ Ends(downward) = 1 => worker = "join"
       /\ got + Chunks(downward) + Chunks(answer) = resp
  /\ WholeResponse
TunnelInv == TypeOK /\ (stub # "done" => ~junk)
             /\ UpOK /\ AnswerOK /\ DownOK /\ AnsweredOK /\ WholeOK

-----------------------------------------------------------------------------
(* What reading, writing and losing a frame does to the parts of a queue.   *)

LEMMA EmptyParts ==
  Formed(<<>>) /\ Infos(<<>>) = 0 /\ Heads(<<>>) = 0 /\ Ends(<<>>) = 0 /\ Chunks(<<>>) = 0
  BY DEF Formed, Infos, Heads, Ends, Chunks

LEMMA PartsType ==
  ASSUME NEW S, NEW q \in Seq(S)
  PROVE  /\ Len(q) \in Nat /\ (q = <<>> <=> Len(q) = 0)
         /\ Infos(q) \in 0..1 /\ Heads(q) \in 0..1 /\ Ends(q) \in 0..1 /\ Chunks(q) \in Int
         /\ Formed(q) => Chunks(q) \in Nat
         /\ q = <<>> => Infos(q) = 0 /\ Heads(q) = 0 /\ Ends(q) = 0 /\ Chunks(q) = 0
  BY DEF Formed, Infos, Heads, Ends, Chunks

LEMMA TailParts ==
  ASSUME NEW S, NEW q \in Seq(S), q # <<>>, Formed(q)
  PROVE  /\ Formed(Tail(q)) /\ Infos(Tail(q)) = 0
         /\ Head(q) \in {"info", "data"} \cup Beginnings \cup Endings
         /\ Head(q) = "info" =>
              /\ Infos(q) = 1 /\ Heads(Tail(q)) = Heads(q)
              /\ Chunks(Tail(q)) = Chunks(q) /\ Ends(Tail(q)) = Ends(q)
         /\ Head(q) \in Beginnings =>
              /\ Infos(q) = 0 /\ Heads(q) = 1 /\ Heads(Tail(q)) = 0
              /\ Chunks(Tail(q)) = Chunks(q) /\ Ends(Tail(q)) = Ends(q)
         /\ Head(q) = "data" =>
              /\ Infos(q) = 0 /\ Heads(q) = 0 /\ Heads(Tail(q)) = 0
              /\ Chunks(Tail(q)) = Chunks(q) - 1 /\ Ends(Tail(q)) = Ends(q)
         /\ Head(q) \in Endings =>
              /\ Infos(q) = 0 /\ Heads(q) = 0 /\ Chunks(q) = 0 /\ Ends(q) = 1 /\ Tail(q) = <<>>
<1> DEFINE t == Tail(q)
<1>1. /\ t \in Seq(S) /\ Len(q) \in Nat /\ Len(q) > 0 /\ Len(t) = Len(q) - 1 /\ Head(q) = q[1]
      /\ \A j \in 1..Len(t) : t[j] = q[j + 1]
      /\ t = <<>> <=> Len(q) = 1
  <2>1. Len(q) \in Nat /\ Len(q) > 0 /\ Head(q) = q[1]
    BY EmptySeq
  <2>2. t \in Seq(S) /\ Len(t) = Len(q) - 1 /\ \A j \in 1..Len(t) : t[j] = q[j + 1]
    BY HeadTailProperties
  <2> HIDE DEF t
  <2>3. t = <<>> <=> Len(t) = 0
    BY <2>2, EmptySeq
  <2> QED BY <2>1, <2>2, <2>3
<1> HIDE DEF t
<1>2. "info" \notin Beginnings \cup Endings /\ "data" \notin Beginnings \cup Endings
      /\ Beginnings \cap Endings = {}
  BY DEF Beginnings, Endings
<1>3. CASE q[1] = "info"
  <2>1. Infos(q) = 1 /\ Heads(q) \in 0..1 /\ Ends(q) \in 0..1
    BY <1>1, <1>3 DEF Infos, Heads, Ends
  <2>2. Infos(t) = 0
    BY <1>1, <1>2, <2>1 DEF Formed, Infos, Heads, Ends, Chunks
  <2>3. Heads(t) = Heads(q) /\ Ends(t) = Ends(q)
    BY <1>1, <1>2, <1>3, <2>1, <2>2 DEF Heads, Ends
  <2>4. Chunks(t) = Chunks(q)
    BY <1>1, <2>1, <2>2, <2>3 DEF Chunks
  <2>5. Formed(t)
    <3> SUFFICES ASSUME NEW j \in (Infos(t) + Heads(t) + 1)..(Len(t) - Ends(t)) PROVE t[j] = "data"
      BY <1>1, <2>1, <2>3, <2>4 DEF Formed
    <3>1. j \in 1..Len(t) /\ j + 1 \in (Infos(q) + Heads(q) + 1)..(Len(q) - Ends(q))
      BY <1>1, <2>1, <2>2, <2>3 DEF Formed
    <3> QED BY <1>1, <3>1 DEF Formed
  <2> QED BY <1>1, <1>2, <1>3, <2>1, <2>2, <2>3, <2>4, <2>5 DEF t
<1>4. CASE q[1] \in Beginnings
  <2>1. Infos(q) = 0 /\ Heads(q) = 1 /\ Ends(q) \in 0..1
    BY <1>1, <1>2, <1>4 DEF Infos, Heads, Ends
  <2>2. Infos(t) = 0 /\ Heads(t) = 0
    BY <1>1, <1>2, <2>1 DEF Formed, Infos, Heads, Ends, Chunks
  <2>3. Ends(t) = Ends(q)
    BY <1>1, <1>2, <1>4 DEF Ends
  <2>4. Chunks(t) = Chunks(q)
    BY <1>1, <2>1, <2>2, <2>3 DEF Chunks
  <2>5. Formed(t)
    <3> SUFFICES ASSUME NEW j \in (Infos(t) + Heads(t) + 1)..(Len(t) - Ends(t)) PROVE t[j] = "data"
      BY <1>1, <2>1, <2>3, <2>4 DEF Formed
    <3>1. j \in 1..Len(t) /\ j + 1 \in (Infos(q) + Heads(q) + 1)..(Len(q) - Ends(q))
      BY <1>1, <2>1, <2>2, <2>3 DEF Formed
    <3> QED BY <1>1, <3>1 DEF Formed
  <2> QED BY <1>1, <1>2, <1>4, <2>1, <2>2, <2>3, <2>4, <2>5 DEF t
<1>5. CASE q[1] = "data"
  <2>1. Infos(q) = 0 /\ Heads(q) = 0 /\ Ends(q) \in 0..1
    BY <1>1, <1>2, <1>5 DEF Infos, Heads, Ends
  <2>2. Infos(t) = 0 /\ Heads(t) = 0
    BY <1>1, <1>2, <2>1 DEF Formed, Infos, Heads, Ends, Chunks
  <2>3. Ends(t) = Ends(q)
    BY <1>1, <1>2, <1>5 DEF Ends
  <2>4. Formed(t) /\ Chunks(t) = Chunks(q) - 1
    <3>1. Ends(q) = 1 => Len(q) > 1
      BY <1>1, <1>2, <1>5 DEF Ends
    <3> QED BY <1>1, <2>1, <2>2, <2>3, <3>1 DEF Formed, Chunks
  <2> QED BY <1>1, <1>2, <1>5, <2>1, <2>2, <2>3, <2>4 DEF t
<1>6. CASE q[1] \notin {"info", "data"} \cup Beginnings
  <2>1. Infos(q) = 0 /\ Heads(q) = 0 /\ Ends(q) \in 0..1
    BY <1>1, <1>6 DEF Infos, Heads, Ends
  <2>2. Len(q) = 1 /\ Ends(q) = 1
    BY <1>1, <1>6, <2>1 DEF Formed, Chunks
  <2>3. q[1] \in Endings /\ t = <<>> /\ Chunks(q) = 0
    BY <1>1, <2>1, <2>2 DEF Ends, Chunks
  <2> QED BY <1>1, <1>2, <2>1, <2>2, <2>3, EmptyParts DEF t
<1> QED BY <1>3, <1>4, <1>5, <1>6

LEMMA AppendParts ==
  ASSUME NEW S, NEW q \in Seq(S), Formed(q), Ends(q) = 0,
         NEW f \in S, f \notin {"info"} \cup Beginnings
  PROVE  /\ Append(q, f) \in Seq(S) /\ Len(Append(q, f)) = Len(q) + 1
         /\ Infos(Append(q, f)) = Infos(q) /\ Heads(Append(q, f)) = Heads(q)
         /\ f = "data" => /\ Formed(Append(q, f)) /\ Ends(Append(q, f)) = 0
                          /\ Chunks(Append(q, f)) = Chunks(q) + 1
         /\ f \in Endings => /\ Formed(Append(q, f)) /\ Ends(Append(q, f)) = 1
                             /\ Chunks(Append(q, f)) = Chunks(q)
<1> DEFINE t == Append(q, f)
<1>1. /\ t \in Seq(S) /\ Len(q) \in Nat /\ Len(t) = Len(q) + 1 /\ t # <<>>
      /\ \A j \in 1..Len(q) : t[j] = q[j]
      /\ t[Len(t)] = f /\ (q = <<>> <=> Len(q) = 0)
  BY AppendProperties
<1> HIDE DEF t
<1>2. Infos(t) = Infos(q) /\ Infos(q) \in 0..1
  BY <1>1 DEF Infos
<1>3. Heads(t) = Heads(q) /\ Heads(q) \in 0..1
  BY <1>1, <1>2 DEF Heads
<1>4. "data" \notin Endings
  BY DEF Endings
<1>5. f = "data" => Formed(t) /\ Ends(t) = 0 /\ Chunks(t) = Chunks(q) + 1
  BY <1>1, <1>2, <1>3, <1>4 DEF Formed, Ends, Chunks
<1>6. f \in Endings => Formed(t) /\ Ends(t) = 1 /\ Chunks(t) = Chunks(q)
  BY <1>1, <1>2, <1>3 DEF Formed, Ends, Chunks
<1> QED BY <1>1, <1>2, <1>3, <1>5, <1>6 DEF t

\* The first frames: an interim answer on an empty queue, a head on one that
\* holds an interim answer at most.
LEMMA BeginParts ==
  ASSUME NEW S, NEW q \in Seq(S), Formed(q),
         Heads(q) = 0, Chunks(q) = 0, Ends(q) = 0, NEW f \in S,
         f \in Beginnings \/ (f = "info" /\ Infos(q) = 0)
  PROVE  LET t == Append(q, f) IN
         /\ t \in Seq(S) /\ Len(t) = Len(q) + 1 /\ Formed(t) /\ Chunks(t) = 0 /\ Ends(t) = 0
         /\ f = "info" => Infos(t) = 1 /\ Heads(t) = 0
         /\ f \in Beginnings => Infos(t) = Infos(q) /\ Heads(t) = 1
<1> DEFINE t == Append(q, f)
<1>1. /\ t \in Seq(S) /\ Len(q) \in Nat /\ Len(t) = Len(q) + 1 /\ t # <<>>
      /\ \A j \in 1..Len(q) : t[j] = q[j]
      /\ t[Len(t)] = f /\ (q = <<>> <=> Len(q) = 0)
  BY AppendProperties
<1> HIDE DEF t
<1>2. Infos(q) = Len(q) /\ Infos(q) \in 0..1
  BY <1>1 DEF Chunks, Infos
<1>3. "info" \notin Beginnings \cup Endings /\ Beginnings \cap Endings = {}
  BY DEF Beginnings, Endings
<1>4. CASE f = "info"
  <2>1. Infos(t) = 1 /\ Len(t) = 1 /\ Heads(t) = 0 /\ Ends(t) = 0
    BY <1>1, <1>2, <1>3, <1>4 DEF Infos, Heads, Ends
  <2> QED BY <1>1, <1>3, <1>4, <2>1 DEF Formed, Chunks, t
<1>5. CASE f \in Beginnings
  <2>1. Infos(t) = Infos(q)
    BY <1>1, <1>2, <1>3, <1>5 DEF Infos
  <2>2. Heads(t) = 1 /\ Ends(t) = 0
    BY <1>1, <1>2, <1>3, <1>5, <2>1 DEF Heads, Ends
  <2> QED BY <1>1, <1>2, <1>3, <1>5, <2>1, <2>2 DEF Formed, Chunks, t
<1> QED BY <1>4, <1>5

\* What a reset leaves.
LEMMA PrefixParts ==
  ASSUME NEW S, NEW q \in Seq(S), Formed(q), NEW n \in 0..Len(q)
  PROVE  LET p == SubSeq(q, 1, n) IN
         /\ p \in Seq(S) /\ Len(p) = n /\ Formed(p) /\ \A j \in 1..n : p[j] = q[j]
         /\ Infos(p) <= Infos(q) /\ Heads(p) <= Heads(q)
         /\ Ends(p) <= Ends(q) /\ Chunks(p) <= Chunks(q)
         /\ p # <<>> /\ Infos(q) = 0 => Heads(p) = Heads(q)
<1> DEFINE p == SubSeq(q, 1, n)
<1>1. /\ p \in Seq(S) /\ Len(q) \in Nat /\ n \in Nat /\ n <= Len(q) /\ Len(p) = n
      /\ \A j \in 1..n : p[j] = q[j]
      /\ (p = <<>> <=> n = 0) /\ (q = <<>> <=> Len(q) = 0)
  OBVIOUS
<1> HIDE DEF p
<1>2. /\ Infos(q) \in 0..1 /\ Infos(p) \in 0..1 /\ Infos(p) <= Infos(q)
      /\ (n > 0 => Infos(p) = Infos(q)) /\ (n = 0 => Infos(p) = 0)
  BY <1>1 DEF Infos
<1>3. /\ Heads(q) \in 0..1 /\ Heads(p) \in 0..1 /\ Heads(p) <= Heads(q)
      /\ n > Infos(q) => Heads(p) = Heads(q)
      /\ n <= Infos(q) => Heads(p) = 0
  BY <1>1, <1>2 DEF Heads
<1>4. Ends(q) \in 0..1 /\ Ends(p) \in 0..1 /\ (n = Len(q) => Ends(p) = Ends(q))
  BY <1>1 DEF Ends
<1>5. "data" \notin Endings /\ "info" \notin Endings /\ Beginnings \cap Endings = {}
  BY DEF Beginnings, Endings
<1>6. n < Len(q) => Ends(p) = 0
  <2> SUFFICES ASSUME n < Len(q), n > 0 PROVE q[n] \notin Endings
    BY <1>1, <1>4 DEF Ends
  <2>1. CASE n <= Infos(q)
    BY <1>1, <1>2, <1>5, <2>1 DEF Infos
  <2>2. CASE n > Infos(q) /\ n <= Infos(q) + Heads(q)
    BY <1>1, <1>2, <1>3, <1>5, <2>2 DEF Heads
  <2>3. CASE n > Infos(q) + Heads(q)
    <3>1. q[n] = "data"
      BY <1>1, <1>2, <1>3, <1>4, <2>3 DEF Formed
    <3> QED BY <3>1, <1>5
  <2> QED BY <1>1, <1>2, <1>3, <2>1, <2>2, <2>3
<1>7. Chunks(q) \in Nat
  BY <1>1, <1>2, <1>3, <1>4 DEF Formed, Chunks
<1>8. Chunks(p) >= 0 /\ Chunks(p) <= Chunks(q)
  <2>1. CASE n = Len(q)
    BY <1>1, <1>2, <1>3, <1>4, <1>7, <2>1 DEF Chunks
  <2>2. CASE n < Len(q) /\ n <= Infos(q) + Heads(q)
    BY <1>1, <1>2, <1>3, <1>6, <1>7, <2>2 DEF Chunks
  <2>3. CASE n < Len(q) /\ n > Infos(q) + Heads(q)
    BY <1>1, <1>2, <1>3, <1>4, <1>6, <1>7, <2>3 DEF Chunks
  <2> QED BY <1>1, <1>2, <1>3, <2>1, <2>2, <2>3
<1>9. Formed(p)
  <2> SUFFICES ASSUME NEW j \in (Infos(p) + Heads(p) + 1)..(Len(p) - Ends(p)) PROVE p[j] = "data"
    BY <1>8 DEF Formed
  <2>1. n > 0 /\ j \in 1..n /\ Infos(p) = Infos(q)
    BY <1>1, <1>2, <1>3, <1>4
  <2>2. j > Infos(q) /\ n > Infos(q) /\ Heads(p) = Heads(q)
    BY <1>1, <1>2, <1>3, <1>4, <2>1
  <2>3. j \in (Infos(q) + Heads(q) + 1)..(Len(q) - Ends(q))
    BY <1>1, <1>2, <1>3, <1>4, <1>6, <2>1, <2>2
  <2> QED BY <1>1, <2>1, <2>3 DEF Formed
<1> QED BY <1>1, <1>2, <1>3, <1>4, <1>6, <1>8, <1>9 DEF p

-----------------------------------------------------------------------------
(* The invariant: initially, then one lemma per action.                     *)

LEMMA Numbers ==
  ASSUME TypeOK
  PROVE  /\ size \in Nat /\ sent \in Nat /\ taken \in Nat /\ got \in Nat /\ resp \in Nat
         /\ upward \in Seq(Up) /\ downward \in Seq(Down)
         /\ answer \in Seq({"info", "head", "data", "end"}) /\ conn \in Seq({"chunk", "last"})
         /\ Len(upward) \in Nat /\ Len(downward) \in Nat /\ Len(answer) \in Nat /\ Len(conn) \in Nat
         /\ \A q \in {upward, downward, answer} :
              /\ Infos(q) \in 0..1 /\ Heads(q) \in 0..1 /\ Ends(q) \in 0..1 /\ Chunks(q) \in Int
              /\ Formed(q) => Chunks(q) \in Nat
              /\ q = <<>> <=> Len(q) = 0
              /\ q = <<>> => Infos(q) = 0 /\ Heads(q) = 0 /\ Ends(q) = 0 /\ Chunks(q) = 0
<1>1. /\ upward \in Seq(Up) /\ downward \in Seq(Down)
      /\ answer \in Seq({"info", "head", "data", "end"}) /\ conn \in Seq({"chunk", "last"})
  BY DEF TypeOK, QueuesOK
<1>2. size \in Nat /\ sent \in Nat /\ taken \in Nat /\ got \in Nat /\ resp \in Nat
  BY DEF TypeOK, CountsOK
<1>3. ASSUME NEW S, NEW q \in Seq(S)
      PROVE  /\ Infos(q) \in 0..1 /\ Heads(q) \in 0..1 /\ Ends(q) \in 0..1 /\ Chunks(q) \in Int
             /\ Formed(q) => Chunks(q) \in Nat
             /\ q = <<>> <=> Len(q) = 0
             /\ q = <<>> => Infos(q) = 0 /\ Heads(q) = 0 /\ Ends(q) = 0 /\ Chunks(q) = 0
  BY <1>3, PartsType
<1>4. Len(upward) \in Nat /\ Len(downward) \in Nat /\ Len(answer) \in Nat /\ Len(conn) \in Nat
  BY <1>1
<1> QED BY <1>1, <1>2, <1>3, <1>4, Zenon

LEMMA TunnelInit == Init => TunnelInv
<1> SUFFICES ASSUME Init PROVE TunnelInv
  OBVIOUS
<1>1. TypeOK
  <2>1. size \in 0..MaxBody
    BY TunnelBounds DEF Init
  <2>2. StatesOK
    BY DEF Init, StatesOK
  <2> FlagsOK
    BY DEF Init, FlagsOK
  <2>3. CountsOK
    BY <2>1, TunnelBounds DEF Init, CountsOK
  <2>4. QueuesOK
    BY TunnelBounds DEF Init, QueuesOK
  <2> QED BY <2>2, <2>3, <2>4 DEF TypeOK
<1>2. UpOK /\ AnswerOK /\ DownOK
  BY EmptyParts DEF Init, UpOK, AnswerOK, DownOK
<1>3. AnsweredOK /\ WholeOK
  BY DEF Init, AnsweredOK, EmptyOnlyWhenLost, WholeOK, WholeResponse
<1> QED BY <1>1, <1>2, <1>3 DEF TunnelInv, Init

LEMMA OpenTunnelInv ==
  ASSUME TunnelInv, OpenTunnel
  PROVE  TunnelInv'
<1>1. /\ stub = "dial" /\ worker = "idle" /\ pump = "off" /\ upward = <<>> /\ status = "none"
      /\ backend = "idle" /\ wpump = "off"
  BY DEF OpenTunnel, TunnelInv, UpOK
<1>2. UNCHANGED <<framing, size, gone, sent, got, junk, downward, reset, wpump, container>>
  BY DEF OpenTunnel
<1>3. \/ stub' = "await" /\ pump' = "on" /\ upward' = <<"start">> /\ worker' = "start" /\ status' = status
      \/ stub' = "done" /\ status' = "bad_gateway" /\ UNCHANGED <<pump, upward, worker>>
  BY DEF OpenTunnel
<1>4. /\ <<"start">> \in Seq(Up) /\ Len(<<"start">>) = 1 /\ Formed(<<"start">>)
      /\ Infos(<<"start">>) = 0 /\ Heads(<<"start">>) = 1 /\ Ends(<<"start">>) = 0 /\ Chunks(<<"start">>) = 0
  BY DEF Up, Formed, Infos, Heads, Ends, Chunks, Beginnings, Endings
<1>5. TypeOK'
  <2> StatesOK /\ FlagsOK /\ CountsOK /\ QueuesOK
    BY DEF TunnelInv, TypeOK
  <2>1. StatesOK'
    BY <1>2, <1>3 DEF StatesOK, container
  <2> FlagsOK'
    BY <1>2 DEF FlagsOK, container
  <2>2. CountsOK'
    BY <1>2 DEF CountsOK, container
  <2>3. QueuesOK'
    <3>1. upward' \in Seq(Up) /\ Len(upward') <= Capacity
      <4>1. upward \in Seq(Up) /\ Len(upward) <= Capacity
        BY DEF QueuesOK
      <4>2. upward' = <<"start">> \/ upward' = upward
        BY <1>3
      <4>3. 1 <= Capacity
        BY TunnelBounds
      <4> QED BY <4>1, <4>2, <4>3, <1>4
    <3> QED BY <1>2, <3>1 DEF QueuesOK, container
  <2> QED BY <2>1, <2>2, <2>3 DEF TypeOK
<1>6. UpOK'
  BY <1>1, <1>2, <1>3, <1>4, EmptyParts DEF TunnelInv, UpOK, container
<1>7. AnswerOK' /\ DownOK'
  BY <1>1, <1>2, <1>3 DEF TunnelInv, AnswerOK, DownOK, container
<1>8. AnsweredOK'
  BY <1>1, <1>2, <1>3 DEF TunnelInv, AnsweredOK, EmptyOnlyWhenLost, container
<1>9. WholeOK'
  BY <1>1, <1>2, <1>3 DEF TunnelInv, WholeOK, WholeResponse, container
<1>10. stub' # "done" => ~junk'
  BY <1>1, <1>2 DEF TunnelInv
<1> QED BY <1>5, <1>6, <1>7, <1>8, <1>9, <1>10 DEF TunnelInv

\* The pump, and net/http's own reading of the body.
LEMMA ClientInv ==
  ASSUME TunnelInv, PumpChunk \/ PumpEnd \/ PumpFails \/ Discard
  PROVE  TunnelInv'
<1>1. /\ UNCHANGED <<client, stub, downward, reset, workerSide, container>>
      /\ pump = "on" /\ stub # "dial" /\ worker # "idle"
  BY DEF PumpChunk, PumpEnd, PumpFails, Discard, tcp, TunnelInv, UpOK
<1>2. \/ /\ sent < size /\ sent' = sent + 1 /\ pump' = pump
         /\ upward' = upward \/ (upward' = Append(upward, "data") /\ Writable)
      \/ /\ pump' = "ended" /\ (sent' = sent \/ (sent < size /\ sent' = sent + 1))
         /\ upward' = upward \/ (upward' = Append(upward, "end") /\ Writable)
  BY DEF PumpChunk, PumpEnd, PumpFails, Discard, tcp
<1>3. /\ Formed(upward) /\ Ends(upward) = 0 /\ Infos(upward) = 0 /\ upward \in Seq(Up)
      /\ sent \in Nat /\ sent <= size /\ size \in Nat
  <2>1. sent <= size
    BY Numbers DEF TunnelInv, TypeOK, CountsOK
  <2> QED BY <1>1, <2>1, Numbers DEF TunnelInv, UpOK
<1>4. \A f \in {"data", "end"} : Writable /\ upward' = Append(upward, f) =>
        /\ upward' \in Seq(Up) /\ Len(upward') <= Capacity /\ Formed(upward')
        /\ Infos(upward') = 0 /\ Heads(upward') = Heads(upward) /\ upward' # <<>>
        /\ Ends(upward') = (IF f = "end" THEN 1 ELSE 0)
        /\ Chunks(upward') = Chunks(upward) + (IF f = "data" THEN 1 ELSE 0)
  <2> SUFFICES ASSUME NEW f \in {"data", "end"}, Writable, upward' = Append(upward, f)
               PROVE  /\ upward' \in Seq(Up) /\ Len(upward') <= Capacity /\ Formed(upward')
                      /\ Infos(upward') = 0 /\ Heads(upward') = Heads(upward) /\ upward' # <<>>
                      /\ Ends(upward') = (IF f = "end" THEN 1 ELSE 0)
                      /\ Chunks(upward') = Chunks(upward) + (IF f = "data" THEN 1 ELSE 0)
    OBVIOUS
  <2>1. f \in Up /\ f \notin {"info"} \cup Beginnings /\ (f \in Endings <=> f = "end")
    BY DEF Up, Beginnings, Endings
  <2>2. Len(upward) < Capacity /\ Len(upward) \in Nat
    BY <1>3 DEF Writable
  <2>3. /\ upward' \in Seq(Up) /\ Len(upward') = Len(upward) + 1
        /\ Infos(upward') = Infos(upward) /\ Heads(upward') = Heads(upward)
        /\ f = "data" => /\ Formed(upward') /\ Ends(upward') = 0
                         /\ Chunks(upward') = Chunks(upward) + 1
        /\ f \in Endings => /\ Formed(upward') /\ Ends(upward') = 1
                            /\ Chunks(upward') = Chunks(upward)
    BY <1>3, <2>1, AppendParts
  <2>4. Chunks(upward) \in Nat
    BY <1>3, Numbers DEF TunnelInv
  <2>5. Len(upward') <= Capacity /\ upward' # <<>>
    BY <2>2, <2>3, TunnelBounds, EmptySeq
  <2>6. CASE f = "data"
    BY <1>3, <2>1, <2>3, <2>4, <2>5, <2>6
  <2>7. CASE f = "end"
    BY <1>3, <2>1, <2>3, <2>4, <2>5, <2>7
  <2> QED BY <2>6, <2>7
<1>5. TypeOK'
  <2>1. upward' \in Seq(Up) /\ Len(upward') <= Capacity
    BY <1>2, <1>4 DEF TunnelInv, TypeOK, QueuesOK
  <2>2. pump' \in {"on", "ended"} /\ sent' \in 0..size
    BY <1>1, <1>2, <1>3
  <2>3. StatesOK'
    <3>1. StatesOK
      BY DEF TunnelInv, TypeOK
    <3>2. UNCHANGED <<framing, gone, stub, status, junk, reset, worker, wpump, backend, ended>>
      BY <1>1 DEF client, workerSide, container
    <3> QED BY <2>2, <3>1, <3>2 DEF StatesOK
  <2> FlagsOK'
    <3>1. FlagsOK /\ UNCHANGED reset
      BY DEF TunnelInv, TypeOK, PumpChunk, PumpEnd, PumpFails, Discard, tcp
    <3> QED BY <1>1, <3>1 DEF FlagsOK, client, container
  <2>4. CountsOK'
    BY <1>1, <2>2 DEF TunnelInv, TypeOK, CountsOK, client, container
  <2>5. QueuesOK'
    BY <1>1, <2>1 DEF TunnelInv, TypeOK, QueuesOK, container
  <2> QED BY <2>3, <2>4, <2>5 DEF TypeOK
<1>6. UpOK'
  <2>1. UpOK /\ (Writable => ~reset)
    BY DEF TunnelInv, Writable, Broken
  <2>2. /\ Len(conn) \in Nat /\ Chunks(upward) \in Nat /\ taken \in Nat
        /\ upward = <<>> => Heads(upward) = 0
    BY <1>3, Numbers DEF TunnelInv
  <2> QED BY <1>1, <1>2, <1>3, <1>4, <2>1, <2>2 DEF UpOK, client, workerSide, container
<1>7. AnswerOK' /\ DownOK'
  BY <1>1 DEF TunnelInv, AnswerOK, DownOK, client, workerSide, container
<1>8. AnsweredOK' /\ WholeOK'
  <2>1. UNCHANGED reset
    BY DEF PumpChunk, PumpEnd, PumpFails, Discard, tcp
  <2> QED BY <1>1, <2>1 DEF TunnelInv, AnsweredOK, EmptyOnlyWhenLost, WholeOK, WholeResponse, client, workerSide, container
<1> QED BY <1>1, <1>5, <1>6, <1>7, <1>8 DEF TunnelInv, client

\* What the stub reads from the tunnel.
LEMMA ReadDown ==
  ASSUME TunnelInv, downward # <<>>, downward' = Tail(downward)
  PROVE  /\ downward' \in Seq(Down) /\ Len(downward') = Len(downward) - 1 /\ Formed(downward')
         /\ Infos(downward') = 0 /\ Heads(downward') <= Heads(downward)
         /\ Heads(downward') \in 0..1
         /\ Ends(downward') <= Ends(downward) /\ Ends(downward') \in 0..1
         /\ Chunks(downward') \in Nat
         /\ Head(downward) # "data" => Chunks(downward') = Chunks(downward)
         /\ Head(downward) = "data" => Chunks(downward') = Chunks(downward) - 1
         /\ Head(downward) = "info" => Heads(downward') = Heads(downward)
         /\ Head(downward) # "close" => Ends(downward') = Ends(downward)
         /\ Head(downward) = "close" => Heads(downward) = 0 /\ Chunks(downward) = 0 /\ Ends(downward) = 1
         /\ \A j \in DOMAIN downward' : downward'[j] = downward[j + 1] /\ j + 1 \in DOMAIN downward
         /\ Head(downward) = downward[1] /\ 1 \in DOMAIN downward
<1>1. downward \in Seq(Down) /\ Formed(downward) /\ Len(downward) \in Nat
  BY Numbers DEF TunnelInv, DownOK
<1>2. downward' \in Seq(Down) /\ Len(downward') = Len(downward) - 1
      /\ \A j \in 1..Len(downward') : downward'[j] = downward[j + 1]
  BY <1>1, HeadTailProperties
<1>3. Head(downward) \in Down /\ DOMAIN downward = 1..Len(downward) /\ DOMAIN downward' = 1..Len(downward')
      /\ Len(downward) > 0 /\ Head(downward) = downward[1]
  BY <1>1, <1>2, HeadTailProperties, EmptySeq
<1>4. "data" \notin Beginnings \cup Endings /\ "info" \notin Beginnings \cup Endings
      /\ \A f \in Down : f \in Endings <=> f = "close"
  BY DEF Beginnings, Endings, Down
<1>5. /\ Infos(downward') \in 0..1 /\ Heads(downward') \in 0..1 /\ Ends(downward') \in 0..1
      /\ Formed(downward') => Chunks(downward') \in Nat
      /\ downward' = <<>> => Ends(downward') = 0 /\ Heads(downward') = 0 /\ Chunks(downward') = 0
      /\ Infos(downward) \in 0..1 /\ Heads(downward) \in 0..1 /\ Ends(downward) \in 0..1
  BY <1>1, <1>2, PartsType
<1>6. Formed(downward') /\ Infos(downward') = 0
  BY <1>1, TailParts
<1>7. CASE Head(downward) = "info"
  BY <1>1, <1>2, <1>3, <1>4, <1>5, <1>6, <1>7, TailParts
<1>8. CASE Head(downward) \in Beginnings
  BY <1>1, <1>2, <1>3, <1>4, <1>5, <1>6, <1>8, TailParts
<1>9. CASE Head(downward) = "data"
  BY <1>1, <1>2, <1>3, <1>4, <1>5, <1>6, <1>9, TailParts
<1>10. CASE Head(downward) = "close"
  BY <1>1, <1>2, <1>3, <1>4, <1>5, <1>6, <1>10, TailParts
<1> QED BY <1>1, <1>3, <1>4, <1>7, <1>8, <1>9, <1>10, TailParts

LEMMA AwaitInv ==
  ASSUME TunnelInv, Await
  PROVE  TunnelInv'
<1>1. /\ stub = "await"
      /\ UNCHANGED <<framing, size, gone, got, junk, pump, sent, upward, reset, worker, wpump,
                     conn, answer, backend, taken, ended, resp, lost>>
  BY DEF Await, workerSide, container
<1>2. TypeOK /\ UpOK /\ AnswerOK /\ DownOK /\ AnsweredOK /\ WholeOK /\ ~junk
  BY <1>1 DEF TunnelInv
<1>3. /\ Infos(downward) \in 0..1 /\ Heads(downward) \in 0..1 /\ Ends(downward) \in 0..1
      /\ Chunks(downward) \in Nat /\ got \in Nat /\ resp \in Nat /\ Chunks(answer) \in Nat
      /\ Infos(answer) \in 0..1
      /\ downward = <<>> => Heads(downward) = 0
  BY <1>2, Numbers DEF DownOK, AnswerOK
<1>4. CASE /\ downward # <<>> /\ downward' = Tail(downward)
           /\ \/ Head(downward) = "info" /\ UNCHANGED <<stub, status>>
              \/ Head(downward) = "head" /\ stub' = "flush" /\ status' = "ok"
              \/ Head(downward) = "missing" /\ stub' = "flush" /\ status' = "missing"
  <2>1. /\ downward' \in Seq(Down) /\ Len(downward') = Len(downward) - 1 /\ Formed(downward')
        /\ Infos(downward') = 0 /\ Heads(downward') <= Heads(downward)
        /\ Heads(downward') \in 0..1 /\ Ends(downward') = Ends(downward)
        /\ Chunks(downward') = Chunks(downward)
        /\ Head(downward) = "info" => Heads(downward') = Heads(downward)
    BY <1>4, ReadDown
  <2>2. \A j \in DOMAIN downward' : downward'[j] = downward[j + 1] /\ j + 1 \in DOMAIN downward
    BY <1>4, ReadDown
  <2>3. Head(downward) = downward[1] /\ 1 \in DOMAIN downward
    BY <1>4, ReadDown
  <2>4. (Head(downward) = "head" => backend # "idle") /\ worker \notin {"idle", "start", "dial"}
    BY <1>2, <1>4, <2>3 DEF DownOK
  <2>5. TypeOK'
    <3>1. StatesOK'
      BY <1>1, <1>2, <1>4 DEF TypeOK, StatesOK
    <3>2. FlagsOK'
      BY <1>1, <1>2 DEF TypeOK, FlagsOK
    <3>3. CountsOK'
      BY <1>1, <1>2 DEF TypeOK, CountsOK
    <3>4. QueuesOK'
      <4>1. Len(downward') <= Capacity
        BY <1>2, <2>1, Numbers, TunnelBounds DEF TypeOK, QueuesOK
      <4> QED BY <1>1, <1>2, <2>1, <4>1 DEF TypeOK, QueuesOK
    <3> QED BY <3>1, <3>2, <3>3, <3>4 DEF TypeOK
  <2>6. UpOK' /\ AnswerOK'
    BY <1>1, <1>2, <1>4, <2>1 DEF UpOK, AnswerOK
  <2>7. DownOK'
    <3>1. \A j \in DOMAIN downward' : downward'[j] = "head" => backend' # "idle"
      BY <1>1, <1>2, <2>2 DEF DownOK
    <3> QED BY <1>1, <1>2, <1>3, <1>4, <2>1, <2>4, <3>1 DEF DownOK
  <2>8. AnsweredOK' /\ WholeOK'
    BY <1>1, <1>2, <1>3, <1>4, <2>1 DEF AnsweredOK, EmptyOnlyWhenLost, WholeOK, WholeResponse
  <2> QED BY <1>1, <1>2, <2>5, <2>6, <2>7, <2>8 DEF TunnelInv
<1>5. CASE /\ downward = <<>> /\ UNCHANGED downward /\ stub' = "done"
           /\ \/ worker = "done" /\ ~reset /\ status' = "empty"
              \/ reset /\ status' = "bad_gateway"
  <2>1. TypeOK'
    <3>1. StatesOK'
      BY <1>1, <1>2, <1>5 DEF TypeOK, StatesOK
    <3>2. FlagsOK'
      BY <1>1, <1>2 DEF TypeOK, FlagsOK
    <3>3. CountsOK' /\ QueuesOK'
      BY <1>1, <1>2, <1>5 DEF TypeOK, CountsOK, QueuesOK
    <3> QED BY <3>1, <3>2, <3>3 DEF TypeOK
  <2>2. UpOK' /\ AnswerOK' /\ DownOK'
    BY <1>1, <1>2, <1>5 DEF UpOK, AnswerOK, DownOK
  <2>3. AnsweredOK' /\ WholeOK'
    <3>1. EmptyOnlyWhenLost'
      <4>1. Heads(downward) = 0
        BY <1>3, <1>5
      <4>2. lost = {} /\ backend # "died" /\ worker = "done" => reset
        BY <1>1, <1>2, <4>1 DEF AnsweredOK
      <4> QED BY <1>1, <1>5, <4>2 DEF EmptyOnlyWhenLost
    <3>2. AnsweredOK'
      BY <1>1, <1>2, <1>5, <3>1 DEF AnsweredOK
    <3>3. WholeOK'
      BY <1>1, <1>2, <1>5 DEF WholeOK, WholeResponse
    <3> QED BY <3>2, <3>3
  <2> QED BY <1>1, <1>5, <2>1, <2>2, <2>3 DEF TunnelInv
<1> QED BY <1>4, <1>5 DEF Await, AwaitInfo, AwaitHead, AwaitMissing, AwaitEOF, AwaitReset,
                          NextDown, DownEOF, DownReset

\* The head is flushed, or the client leaves.
LEMMA FlushInv ==
  ASSUME TunnelInv, Flush \/ ClientAborts
  PROVE  TunnelInv'
<1>1. /\ UNCHANGED <<framing, size, got, junk, pump, sent, status, upward, downward, reset, worker,
                     wpump, conn, answer, backend, taken, ended, resp, lost>>
      /\ stub # "done" /\ stub' # "done" /\ (stub' = "await" => stub = "await")
      /\ (stub' = "dial" => stub = "dial")
      /\ (stub' = stub \/ (stub = "flush" /\ stub' = "copy"))
      /\ (gone' = gone \/ gone' = TRUE)
  BY DEF Flush, ClientAborts, client, stubSide, tcp, workerSide, container
<1>2. TypeOK /\ UpOK /\ AnswerOK /\ DownOK /\ AnsweredOK /\ WholeOK /\ ~junk
  BY <1>1 DEF TunnelInv
<1>3. TypeOK'
  <2>1. StatesOK'
    BY <1>1, <1>2 DEF TypeOK, StatesOK
  <2>2. FlagsOK'
    BY <1>1, <1>2 DEF TypeOK, FlagsOK
  <2>3. CountsOK' /\ QueuesOK'
    BY <1>1, <1>2 DEF TypeOK, CountsOK, QueuesOK
  <2> QED BY <2>1, <2>2, <2>3 DEF TypeOK
<1>4. UpOK' /\ AnswerOK' /\ DownOK'
  BY <1>1, <1>2 DEF UpOK, AnswerOK, DownOK
<1>5. AnsweredOK' /\ WholeOK'
  BY <1>1, <1>2 DEF AnsweredOK, EmptyOnlyWhenLost, WholeOK, WholeResponse
<1> QED BY <1>1, <1>2, <1>3, <1>4, <1>5 DEF TunnelInv

LEMMA CopyInv ==
  ASSUME TunnelInv, Copy
  PROVE  TunnelInv'
<1>1. /\ stub = "copy"
      /\ UNCHANGED <<framing, size, gone, status, pump, sent, upward, reset, worker, wpump,
                     conn, answer, backend, taken, ended, resp, lost>>
  BY DEF Copy, workerSide, container
<1>2. TypeOK /\ UpOK /\ AnswerOK /\ DownOK /\ AnsweredOK /\ WholeOK /\ ~junk
      /\ worker \notin {"idle", "start", "dial"}
  BY <1>1 DEF TunnelInv, DownOK
<1>3. /\ Infos(downward) \in 0..1 /\ Heads(downward) \in 0..1 /\ Ends(downward) \in 0..1
      /\ Chunks(downward) \in Nat /\ got \in Nat /\ resp \in Nat /\ Chunks(answer) \in Nat
      /\ Infos(answer) \in 0..1 /\ (answer = <<>> => Chunks(answer) = 0)
  BY <1>2, Numbers DEF DownOK, AnswerOK
<1>4. Whole /\ lost = {} /\ backend \notin {"idle", "died"} =>
        /\ ~reset /\ worker # "done" /\ wpump # "ended"
        /\ Ends(downward) = 1 => worker = "join"
        /\ got + Chunks(downward) + Chunks(answer) = resp
  BY <1>1, <1>2 DEF WholeOK
<1>5. CASE downward # <<>> /\ downward' = Tail(downward) /\ Head(downward) \in {"data", "close"}
  <2>1. /\ downward' \in Seq(Down) /\ Len(downward') = Len(downward) - 1 /\ Formed(downward')
        /\ Infos(downward') = 0 /\ Heads(downward') <= Heads(downward)
        /\ Heads(downward') \in 0..1 /\ Ends(downward') <= Ends(downward) /\ Ends(downward') \in 0..1
        /\ Chunks(downward') \in Nat
        /\ Head(downward) = "data" => /\ Chunks(downward') = Chunks(downward) - 1
                                      /\ Ends(downward') = Ends(downward)
        /\ Head(downward) = "close" => /\ Chunks(downward') = Chunks(downward)
                                       /\ Chunks(downward) = 0 /\ Ends(downward) = 1
    BY <1>5, ReadDown
  <2>2. \A j \in DOMAIN downward' : downward'[j] = downward[j + 1] /\ j + 1 \in DOMAIN downward
    BY <1>5, ReadDown
  <2>3. QueuesOK'
    <3>1. Len(downward') <= Capacity
      BY <1>2, <2>1, Numbers, TunnelBounds DEF TypeOK, QueuesOK
    <3> QED BY <1>1, <1>2, <2>1, <3>1 DEF TypeOK, QueuesOK
  <2>4. UpOK' /\ AnswerOK'
    <3>1. stub' # "dial"
      BY <1>1, <1>5 DEF Copy, CopyData, CopyEnds, CopyReset, NextDown, DownEOF, DownReset
    <3> QED BY <1>1, <1>2, <2>1, <3>1 DEF UpOK, AnswerOK
  <2>5. \A j \in DOMAIN downward' : downward'[j] = "head" => backend' # "idle"
    BY <1>1, <1>2, <2>2 DEF DownOK
  <2>6. CASE Head(downward) = "data"
    <3>1. /\ IF gone THEN stub' = "done" /\ got' = got ELSE stub' = stub /\ got' = got + 1
          /\ junk' = junk
      BY <1>1, <1>5, <2>6 DEF Copy, CopyData, CopyEnds, CopyReset, NextDown, DownEOF, DownReset
    <3>2. worker # "await" /\ got' \in Nat /\ got' + Chunks(downward') <= got + Chunks(downward)
      BY <1>2, <1>3, <2>1, <2>6, <3>1 DEF DownOK
    <3>3. got' \in 0..(MaxResponse + 1)
      <4>1. resp <= MaxResponse
        BY <1>2, TunnelBounds DEF TypeOK, CountsOK
      <4>2. got + Chunks(downward) + Chunks(answer) <= resp + 1
        BY <1>2, <1>3 DEF DownOK
      <4> QED BY <1>3, <2>1, <3>2, <4>1, <4>2, TunnelBounds
    <3>4. TypeOK'
      <4>1. StatesOK'
        BY <1>1, <1>2, <3>1 DEF TypeOK, StatesOK
      <4>2. FlagsOK'
        BY <1>1, <1>2, <3>1 DEF TypeOK, FlagsOK
      <4>3. CountsOK'
        BY <1>1, <1>2, <3>3 DEF TypeOK, CountsOK
      <4> QED BY <2>3, <4>1, <4>2, <4>3 DEF TypeOK
    <3>5. DownOK'
      BY <1>1, <1>2, <1>3, <2>1, <2>5, <3>1, <3>2 DEF DownOK
    <3>6. AnsweredOK'
      BY <1>1, <1>2, <3>1 DEF AnsweredOK, EmptyOnlyWhenLost
    <3>7. WholeOK'
      <4>1. ~gone => got' + Chunks(downward') = got + Chunks(downward)
        BY <1>3, <2>1, <2>6, <3>1
      <4> QED BY <1>1, <1>2, <1>3, <1>4, <2>1, <2>6, <3>1, <3>2, <4>1 DEF WholeOK, WholeResponse
    <3> QED BY <1>2, <2>4, <3>1, <3>4, <3>5, <3>6, <3>7 DEF TunnelInv
  <2>7. CASE Head(downward) = "close"
    <3>1. stub' = "done" /\ got' = got /\ junk' = junk
      BY <1>1, <1>5, <2>7 DEF Copy, CopyData, CopyEnds, CopyReset, NextDown, DownEOF, DownReset
    <3>2. TypeOK'
      <4>1. StatesOK'
        BY <1>1, <1>2, <3>1 DEF TypeOK, StatesOK
      <4>2. FlagsOK'
        BY <1>1, <1>2, <3>1 DEF TypeOK, FlagsOK
      <4>3. CountsOK'
        BY <1>1, <1>2, <3>1 DEF TypeOK, CountsOK
      <4> QED BY <2>3, <4>1, <4>2, <4>3 DEF TypeOK
    <3>3. DownOK'
      BY <1>1, <1>2, <1>3, <2>1, <2>5, <2>7, <3>1 DEF DownOK
    <3>4. AnsweredOK'
      BY <1>1, <1>2, <3>1 DEF AnsweredOK, EmptyOnlyWhenLost
    <3>5. Whole => WholeResponse'
      <4> SUFFICES ASSUME Whole, status = "ok", ~gone, backend # "died", lost = {}
                   PROVE  backend \in {"answered", "closed"} /\ got = resp /\ ~junk
        BY <1>1, <3>1 DEF WholeResponse
      <4>1. backend # "idle"
        BY <1>2 DEF DownOK
      <4>2. worker = "join" /\ got + Chunks(downward) + Chunks(answer) = resp
        BY <1>4, <2>1, <2>7, <4>1
      <4>3. answer = <<>> /\ backend \in {"answered", "closed"}
        BY <1>2, <4>2 DEF AnswerOK
      <4> QED BY <1>2, <1>3, <2>1, <2>7, <4>2, <4>3
    <3>6. WholeOK'
      BY <1>1, <1>2, <3>1, <3>5 DEF WholeOK, Whole
    <3> QED BY <2>4, <3>1, <3>2, <3>3, <3>4, <3>6 DEF TunnelInv
  <2> QED BY <1>5, <2>6, <2>7
<1>6. CASE downward = <<>> /\ UNCHANGED downward /\ (worker = "done" \/ reset)
           /\ stub' = "done" /\ got' = got /\ (junk' = junk \/ (junk' = TRUE /\ reset))
  <2>1. TypeOK'
    <3>1. StatesOK'
      BY <1>1, <1>2, <1>6 DEF TypeOK, StatesOK
    <3>2. FlagsOK'
      BY <1>1, <1>2, <1>6 DEF TypeOK, FlagsOK
    <3>3. CountsOK' /\ QueuesOK'
      BY <1>1, <1>2, <1>6 DEF TypeOK, CountsOK, QueuesOK
    <3> QED BY <3>1, <3>2, <3>3 DEF TypeOK
  <2>2. UpOK' /\ AnswerOK' /\ DownOK'
    BY <1>1, <1>2, <1>6 DEF UpOK, AnswerOK, DownOK
  <2>3. AnsweredOK'
    BY <1>1, <1>2, <1>6 DEF AnsweredOK, EmptyOnlyWhenLost
  <2>4. status = "ok" => backend # "idle"
    BY <1>2 DEF DownOK
  <2>5. WholeOK'
    BY <1>1, <1>2, <1>4, <1>6, <2>4 DEF WholeOK, WholeResponse
  <2> QED BY <1>6, <2>1, <2>2, <2>3, <2>5 DEF TunnelInv
<1> QED BY <1>1, <1>5, <1>6 DEF Copy, CopyData, CopyEnds, CopyReset, NextDown, DownEOF, DownReset

\* The worker's handler: it answers with the three frames of an error, or dials.
LEMMA StartInv ==
  ASSUME TunnelInv, ReadStart
  PROVE  TunnelInv'
<1>1. /\ worker = "start"
      /\ UNCHANGED <<framing, size, gone, status, got, junk, stub, pump, sent, reset, wpump,
                     conn, answer, backend, taken, ended, resp, lost>>
  BY DEF ReadStart, client, stubSide, container
<1>2. /\ TypeOK /\ UpOK /\ AnswerOK /\ DownOK /\ AnsweredOK /\ WholeOK /\ (stub # "done" => ~junk)
      /\ downward = <<>> /\ backend = "idle" /\ wpump = "off" /\ answer = <<>> /\ resp = 0 /\ got = 0
      /\ conn = <<>> /\ status # "ok" /\ stub # "dial"
  BY <1>1 DEF TunnelInv, UpOK, AnswerOK, DownOK
<1>3. /\ Chunks(upward) \in Nat /\ Ends(upward) \in 0..1 /\ taken \in Nat /\ sent \in Nat
      /\ Len(conn) = 0 /\ Infos(answer) = 0 /\ Chunks(answer) = 0 /\ Len(upward) \in Nat
      /\ upward \in Seq(Up) /\ Formed(upward)
  BY <1>2, Numbers DEF UpOK
<1>4. \/ /\ upward # <<>> /\ upward' = Tail(upward)
         /\ \/ worker' = "dial" /\ downward' = downward
            \/ worker' = "done" /\ downward' = downward /\ (reset \/ stub = "done")
            \/ worker' = "done" /\ downward' = downward \o <<"missing", "data", "close">>
      \/ upward = <<>> /\ reset /\ worker' = "done" /\ UNCHANGED <<upward, downward>>
  BY DEF ReadStart, Write, Lost
<1>5. /\ upward' \in Seq(Up) /\ Len(upward') <= Len(upward) /\ Formed(upward')
      /\ Infos(upward') = 0 /\ Heads(upward') = 0 /\ Ends(upward') \in 0..1
      /\ Ends(upward') <= Ends(upward) /\ Chunks(upward') <= Chunks(upward)
      /\ Chunks(upward') \in Nat
  <2>1. CASE upward = <<>>
    BY <1>3, <1>4, <2>1, EmptyParts
  <2>2. CASE upward # <<>>
    <3>1. Heads(upward) = 1 /\ Infos(upward) = 0
      BY <1>1, <1>2, <2>2 DEF UpOK
    <3>2. upward[1] \in Beginnings /\ Head(upward) = upward[1]
      BY <1>3, <2>2, <3>1, EmptySeq DEF Heads
    <3>3. upward' = Tail(upward)
      BY <1>4, <2>2
    <3>4. upward' \in Seq(Up) /\ Len(upward') = Len(upward) - 1
      BY <1>3, <2>2, <3>3, HeadTailProperties
    <3>5. /\ Formed(upward') /\ Infos(upward') = 0 /\ Heads(upward') = 0
          /\ Chunks(upward') = Chunks(upward) /\ Ends(upward') = Ends(upward)
      BY <1>3, <2>2, <3>2, <3>3, TailParts
    <3> QED BY <1>3, <3>4, <3>5
  <2> QED BY <2>1, <2>2
<1>6. \/ downward' = <<>> /\ (worker' = "dial" \/ (worker' = "done" /\ (reset \/ stub = "done")))
      \/ downward' = <<"missing", "data", "close">> /\ worker' = "done"
  BY <1>2, <1>4
<1>7. LET e == <<"missing", "data", "close">> IN
        /\ e \in Seq(Down) /\ Len(e) = 3 /\ Formed(e) /\ Infos(e) = 0 /\ Heads(e) = 1
        /\ Ends(e) = 1 /\ Chunks(e) = 1 /\ \A j \in DOMAIN e : e[j] # "head"
  BY DEF Down, Formed, Infos, Heads, Ends, Chunks, Beginnings, Endings
<1>8. /\ downward' \in Seq(Down) /\ Len(downward') <= 3 /\ Formed(downward') /\ Infos(downward') = 0
      /\ Chunks(downward') = (IF downward' = <<>> THEN 0 ELSE 1)
      /\ \A j \in DOMAIN downward' : downward'[j] # "head"
      /\ downward' = <<>> => Heads(downward') = 0 /\ Ends(downward') = 0
      /\ downward' # <<>> => Heads(downward') = 1 /\ worker' = "done"
  <2>1. CASE downward' = <<>>
    BY <2>1, EmptyParts
  <2>2. CASE downward' = <<"missing", "data", "close">>
    BY <1>6, <1>7, <2>2
  <2> QED BY <1>6, <2>1, <2>2
<1>9. TypeOK'
  <2>1. StatesOK'
    BY <1>1, <1>2, <1>4 DEF TypeOK, StatesOK
  <2>2. FlagsOK'
    BY <1>1, <1>2 DEF TypeOK, FlagsOK
  <2>3. CountsOK'
    BY <1>1, <1>2 DEF TypeOK, CountsOK
  <2>4. QueuesOK'
    <3>1. Len(upward') <= Capacity /\ Len(downward') <= Capacity
      <4>1. Len(upward) <= Capacity
        BY <1>2 DEF TypeOK, QueuesOK
      <4>2. Len(upward') \in Nat /\ Len(downward') \in Nat
        BY <1>5, <1>8
      <4> QED BY <1>3, <1>5, <1>8, <4>1, <4>2, TunnelBounds
    <3> QED BY <1>1, <1>2, <1>5, <1>8, <3>1 DEF TypeOK, QueuesOK
  <2> QED BY <2>1, <2>2, <2>3, <2>4 DEF TypeOK
<1>10. UpOK'
  BY <1>1, <1>2, <1>3, <1>4, <1>5 DEF UpOK
<1>11. AnswerOK'
  BY <1>1, <1>2, <1>4, <1>8 DEF AnswerOK
<1>12. DownOK'
  BY <1>1, <1>2, <1>3, <1>6, <1>8 DEF DownOK
<1>13. AnsweredOK'
  BY <1>1, <1>2, <1>6, <1>8 DEF AnsweredOK, EmptyOnlyWhenLost
<1>14. WholeOK'
  BY <1>1, <1>2, <1>6 DEF WholeOK, WholeResponse
<1> QED BY <1>1, <1>2, <1>9, <1>10, <1>11, <1>12, <1>13, <1>14 DEF TunnelInv

LEMMA DialInv ==
  ASSUME TunnelInv, DialBackend
  PROVE  TunnelInv'
<1>1. /\ worker = "dial"
      /\ UNCHANGED <<framing, size, gone, status, got, junk, stub, pump, sent, upward, downward,
                     reset, conn, answer, taken, ended, resp>>
      /\ \/ worker' = "await" /\ backend' = "reading" /\ wpump' \in {"off", "on"} /\ lost' = lost
         \/ worker' = "done" /\ lost' = lost \cup {"dial"} /\ UNCHANGED <<backend, wpump>>
  BY DEF DialBackend, client, stubSide, tcp
<1>2. /\ TypeOK /\ UpOK /\ AnswerOK /\ DownOK /\ AnsweredOK /\ WholeOK /\ (stub # "done" => ~junk)
      /\ downward = <<>> /\ backend = "idle" /\ wpump = "off" /\ answer = <<>> /\ resp = 0 /\ got = 0
      /\ conn = <<>> /\ status # "ok" /\ Heads(upward) # 1
  BY <1>1 DEF TunnelInv, UpOK, AnswerOK, DownOK
<1>3. /\ Infos(answer) = 0 /\ Heads(answer) = 0 /\ Chunks(answer) = 0 /\ Ends(answer) = 0
      /\ Infos(downward) = 0 /\ Heads(downward) = 0 /\ Chunks(downward) = 0 /\ Ends(downward) = 0
  BY <1>2, EmptyParts
<1>4. TypeOK'
  <2>1. StatesOK'
    BY <1>1, <1>2 DEF TypeOK, StatesOK
  <2>2. FlagsOK'
    BY <1>1, <1>2 DEF TypeOK, FlagsOK
  <2>3. CountsOK' /\ QueuesOK'
    BY <1>1, <1>2 DEF TypeOK, CountsOK, QueuesOK
  <2> QED BY <2>1, <2>2, <2>3 DEF TypeOK
<1>5. UpOK'
  BY <1>1, <1>2 DEF UpOK
<1>6. AnswerOK'
  BY <1>1, <1>2, <1>3 DEF AnswerOK
<1>7. DownOK'
  BY <1>1, <1>2, <1>3 DEF DownOK
<1>8. AnsweredOK'
  BY <1>1, <1>2, <1>3 DEF AnsweredOK, EmptyOnlyWhenLost
<1>9. WholeOK'
  BY <1>1, <1>2, <1>3 DEF WholeOK, WholeResponse
<1> QED BY <1>1, <1>2, <1>4, <1>5, <1>6, <1>7, <1>8, <1>9 DEF TunnelInv

LEMMA JoinInv ==
  ASSUME TunnelInv, Join
  PROVE  TunnelInv'
<1>1. /\ worker = "join" /\ wpump = "ended" /\ worker' = "done"
      /\ UNCHANGED <<framing, size, gone, status, got, junk, stub, pump, sent, upward, downward,
                     reset, wpump, conn, answer, backend, taken, ended, resp, lost>>
  BY DEF Join, client, stubSide, tcp, container
<1>2. /\ TypeOK /\ UpOK /\ AnswerOK /\ DownOK /\ AnsweredOK /\ WholeOK /\ (stub # "done" => ~junk)
      /\ backend \in {"answered", "closed"}
  BY <1>1 DEF TunnelInv, AnswerOK
<1>3. TypeOK'
  <2>1. StatesOK'
    BY <1>1, <1>2 DEF TypeOK, StatesOK
  <2>2. FlagsOK'
    BY <1>1, <1>2 DEF TypeOK, FlagsOK
  <2>3. CountsOK' /\ QueuesOK'
    BY <1>1, <1>2 DEF TypeOK, CountsOK, QueuesOK
  <2> QED BY <2>1, <2>2, <2>3 DEF TypeOK
<1>4. UpOK' /\ AnswerOK' /\ DownOK'
  BY <1>1, <1>2 DEF UpOK, AnswerOK, DownOK
<1>5. AnsweredOK' /\ WholeOK'
  BY <1>1, <1>2 DEF AnsweredOK, EmptyOnlyWhenLost, WholeOK, WholeResponse
<1> QED BY <1>1, <1>2, <1>3, <1>4, <1>5 DEF TunnelInv

\* The worker reads the container's answer and passes it on: what it reads,
\* and the three ways a frame may leave the response in the tunnel.
LEMMA RelayInv ==
  ASSUME TunnelInv, Relay
  PROVE  TunnelInv'
<1>1. UNCHANGED <<framing, size, gone, status, got, junk, stub, pump, sent, upward, reset,
                  wpump, conn, backend, taken, ended, resp, lost>>
  BY DEF Relay, client, stubSide
<1>2. /\ TypeOK /\ UpOK /\ AnswerOK /\ DownOK /\ AnsweredOK /\ WholeOK /\ (stub # "done" => ~junk)
      /\ worker \in {"await", "copy"}
  BY DEF TunnelInv, Relay
<1>3. /\ Infos(answer) \in 0..1 /\ Heads(answer) \in 0..1 /\ Ends(answer) \in 0..1
      /\ Chunks(answer) \in Nat /\ Formed(answer) /\ answer \in Seq({"info", "head", "data", "end"})
      /\ Infos(downward) \in 0..1 /\ Heads(downward) \in 0..1 /\ Ends(downward) \in 0..1
      /\ Chunks(downward) \in Nat /\ Formed(downward) /\ downward \in Seq(Down)
      /\ got \in Nat /\ resp \in Nat /\ Len(downward) \in Nat /\ Len(answer) \in Nat
      /\ got + Chunks(downward) + Chunks(answer) <= resp
      /\ (answer # <<>> => backend # "idle") /\ Ends(downward) = 0
      /\ answer = <<>> => Infos(answer) = 0 /\ Heads(answer) = 0 /\ Chunks(answer) = 0 /\ Ends(answer) = 0
  BY <1>2, Numbers DEF AnswerOK, DownOK
<1>5. UpOK'
  <2>1. worker' \in {"await", "copy", "join", "done"}
    BY DEF Relay, Write
  <2> QED BY <1>1, <1>2, <2>1 DEF UpOK
<1>6. ASSUME worker' \in {"await", "copy", "join", "done"},
             answer' \in Seq({"info", "head", "data", "end"}), Len(answer') <= Len(answer),
             downward' \in Seq(Down), Len(downward') <= Capacity
      PROVE  TypeOK'
  <2>1. StatesOK'
    BY <1>1, <1>2, <1>6 DEF TypeOK, StatesOK
  <2>2. FlagsOK'
    BY <1>1, <1>2 DEF TypeOK, FlagsOK
  <2>3. CountsOK'
    BY <1>1, <1>2 DEF TypeOK, CountsOK
  <2>4. Len(answer') <= Capacity
    <3>1. Len(answer) <= Capacity /\ Len(answer') \in Nat
      BY <1>2, <1>6 DEF TypeOK, QueuesOK
    <3> QED BY <1>3, <1>6, <3>1, TunnelBounds
  <2>5. QueuesOK'
    BY <1>1, <1>2, <1>6, <2>4 DEF TypeOK, QueuesOK
  <2> QED BY <2>1, <2>2, <2>3, <2>5 DEF TypeOK
<1>7. Len(downward) <= Capacity
  BY <1>2 DEF TypeOK, QueuesOK
<1>8. Whole /\ lost = {} /\ backend # "died" /\ stub # "done" /\ answer # <<>> =>
        /\ ~reset /\ wpump # "ended" /\ got + Chunks(downward) + Chunks(answer) = resp
  BY <1>2, <1>3 DEF WholeOK
<1>9. CASE answer = <<>>
  <2>1. /\ worker' = "done" /\ UNCHANGED <<answer, downward>> /\ backend \in {"closed", "died"}
    BY <1>9 DEF Relay, NextAnswer, AnswerCut, Hung
  <2>2. backend = "died" \/ "backend" \in lost
    BY <1>2, <1>3, <1>9, <2>1 DEF AnswerOK
  <2>3. TypeOK'
    BY <1>3, <1>6, <1>7, <2>1
  <2>4. AnswerOK' /\ DownOK'
    BY <1>1, <1>2, <2>1, <2>2 DEF AnswerOK, DownOK
  <2>5. AnsweredOK' /\ WholeOK'
    BY <1>1, <1>2, <2>1, <2>2 DEF AnsweredOK, EmptyOnlyWhenLost, WholeOK, WholeResponse
  <2> QED BY <1>1, <1>2, <1>5, <2>3, <2>4, <2>5 DEF TunnelInv
<1>10. CASE answer # <<>>
  <2>1. /\ answer' = Tail(answer) /\ Head(answer) \in {"info", "head", "data", "end"}
        /\ Head(answer) = "info" => worker = "await" /\ Write(<<"info">>, "await")
        /\ Head(answer) = "head" => worker = "await" /\ Write(<<"head">>, "copy")
        /\ Head(answer) = "data" => worker = "copy" /\ Write(<<"data">>, "copy")
        /\ Head(answer) = "end" =>
             worker = "copy" /\ Write(<<"close">>, IF Waits THEN "join" ELSE "done")
    BY <1>10 DEF Relay, NextAnswer, AnswerCut
  <2>2. /\ answer' \in Seq({"info", "head", "data", "end"}) /\ Len(answer') <= Len(answer)
        /\ Formed(answer') /\ Infos(answer') = 0
    <3>1. answer' \in Seq({"info", "head", "data", "end"}) /\ Len(answer') = Len(answer) - 1
      BY <1>3, <1>10, <2>1, HeadTailProperties
    <3> QED BY <1>3, <1>10, <2>1, <3>1, TailParts
  <2>3. "head" \in Beginnings /\ "end" \in Endings /\ "close" \in Endings
    BY DEF Beginnings, Endings
  <2>4. /\ Head(answer) = "info" =>
             /\ Infos(answer) = 1 /\ Heads(answer') = Heads(answer)
             /\ Chunks(answer') = Chunks(answer) /\ Ends(answer') = Ends(answer)
        /\ Head(answer) = "head" =>
             /\ Heads(answer) = 1 /\ Heads(answer') = 0
             /\ Chunks(answer') = Chunks(answer) /\ Ends(answer') = Ends(answer)
        /\ Head(answer) = "data" =>
             /\ Heads(answer) = 0 /\ Heads(answer') = 0
             /\ Chunks(answer') = Chunks(answer) - 1 /\ Ends(answer') = Ends(answer)
        /\ Head(answer) = "end" => Chunks(answer) = 0 /\ Ends(answer) = 1 /\ answer' = <<>>
    <3>1. /\ Head(answer) = "info" =>
               /\ Infos(answer) = 1 /\ Heads(answer') = Heads(answer)
               /\ Chunks(answer') = Chunks(answer) /\ Ends(answer') = Ends(answer)
          /\ Head(answer) \in Beginnings =>
               /\ Heads(answer) = 1 /\ Heads(answer') = 0
               /\ Chunks(answer') = Chunks(answer) /\ Ends(answer') = Ends(answer)
          /\ Head(answer) = "data" =>
               /\ Heads(answer) = 0 /\ Heads(answer') = 0
               /\ Chunks(answer') = Chunks(answer) - 1 /\ Ends(answer') = Ends(answer)
          /\ Head(answer) \in Endings => Chunks(answer) = 0 /\ Ends(answer) = 1 /\ answer' = <<>>
      BY <1>3, <1>10, <2>1, TailParts
    <3> QED BY <2>3, <3>1
  <2>5. /\ answer' = <<>> => Heads(answer') = 0 /\ Chunks(answer') = 0
        /\ Ends(answer') \in 0..1 /\ Chunks(answer') \in Nat
    BY <2>2, PartsType
  <2>6. backend # "idle" /\ backend # "reading"
    BY <1>2, <1>10 DEF AnswerOK
  <2>sum. ASSUME got' + Chunks(downward') + Chunks(answer') <= resp'
         PROVE  got' + Chunks(downward') + Chunks(answer') <=
                  resp' + (IF backend' = "idle" /\ worker' = "done" THEN 1 ELSE 0)
    BY <1>1, <1>3, <2>6, <2>sum
  <2>7. CASE worker' = "done" /\ downward' = downward /\ (reset \/ stub = "done")
    <3>1. TypeOK'
      BY <1>3, <1>6, <1>7, <2>2, <2>7
    <3>2. Ends(answer') <= Ends(answer) /\ Chunks(answer') <= Chunks(answer)
      BY <1>3, <2>1, <2>4, <2>5, EmptyParts
    <3>3. AnswerOK'
      <4>1. /\ backend \in {"continued"} => Heads(answer') = 0 /\ Chunks(answer') = 0 /\ Ends(answer') = 0
        BY <1>2, <1>3, <2>1, <2>4, <2>5, <3>2 DEF AnswerOK
      <4> QED BY <1>1, <1>2, <1>3, <2>2, <2>5, <2>6, <2>7, <3>2, <4>1 DEF AnswerOK
    <3>4. DownOK'
      <4>1. /\ got' + Chunks(downward') + Chunks(answer') <= resp'
            /\ Infos(answer') + Infos(downward') <= 1
        BY <1>1, <1>3, <2>2, <2>5, <2>7, <3>2
      <4> QED BY <1>1, <1>2, <2>6, <2>7, <2>sum, <4>1 DEF DownOK
    <3>5. AnsweredOK' /\ WholeOK'
      BY <1>1, <1>2, <1>8, <1>10, <2>7 DEF AnsweredOK, EmptyOnlyWhenLost, WholeOK, WholeResponse
    <3> QED BY <1>1, <1>2, <1>5, <3>1, <3>3, <3>4, <3>5 DEF TunnelInv
  <2>8. ASSUME NEW f \in Down, NEW next, downward' = Append(downward, f), worker' = next,
               Len(downward) + 1 <= Capacity, next \in {"await", "copy", "join", "done"}
        PROVE  TypeOK' /\ \A j \in DOMAIN downward' : downward'[j] = "head" => backend # "idle"
    <3>1. downward' \in Seq(Down) /\ Len(downward') <= Capacity
      BY <1>3, <2>8, AppendProperties
    <3> QED BY <1>6, <2>2, <2>6, <2>8, <3>1
  <2>9. CASE /\ Head(answer) = "info" /\ worker' = "await"
             /\ downward' = Append(downward, "info") /\ Len(downward) + 1 <= Capacity
    <3>1. "info" \in Down
      BY DEF Down
    <3>2. Heads(downward) = 0 /\ Chunks(downward) = 0 /\ Infos(downward) = 0
      BY <1>2, <1>3, <2>1, <2>4, <2>9 DEF DownOK
    <3>3. Formed(downward') /\ Infos(downward') = 1 /\ Heads(downward') = 0
          /\ Chunks(downward') = 0 /\ Ends(downward') = 0
      BY <1>3, <2>9, <3>1, <3>2, BeginParts
    <3>4. TypeOK' /\ \A j \in DOMAIN downward' : downward'[j] = "head" => backend # "idle"
      BY <2>8, <2>9, <3>1
    <3>5. AnswerOK'
      BY <1>1, <1>2, <2>1, <2>2, <2>4, <2>6, <2>9 DEF AnswerOK
    <3>6. DownOK'
      <4>1. /\ got' + Chunks(downward') + Chunks(answer') <= resp'
            /\ Infos(answer') + Infos(downward') <= 1 /\ got = 0
        BY <1>1, <1>2, <1>3, <2>1, <2>2, <2>4, <2>9, <3>2, <3>3 DEF DownOK
      <4> QED BY <1>1, <1>2, <2>6, <2>9, <2>sum, <3>3, <3>4, <4>1 DEF DownOK
    <3>7. AnsweredOK'
      BY <1>1, <1>2, <2>9 DEF AnsweredOK, EmptyOnlyWhenLost
    <3>8. WholeOK'
      BY <1>1, <1>2, <1>3, <1>8, <1>10, <2>1, <2>4, <2>9, <3>2, <3>3 DEF WholeOK, WholeResponse
    <3> QED BY <1>1, <1>2, <1>5, <3>4, <3>5, <3>6, <3>7, <3>8 DEF TunnelInv
  <2>10. CASE /\ Head(answer) = "head" /\ worker' = "copy"
              /\ downward' = Append(downward, "head") /\ Len(downward) + 1 <= Capacity
    <3>1. "head" \in Down
      BY DEF Down
    <3>2. Heads(downward) = 0 /\ Chunks(downward) = 0
      BY <1>2, <1>3, <2>1, <2>10 DEF DownOK
    <3>3. Formed(downward') /\ Infos(downward') = Infos(downward) /\ Heads(downward') = 1
          /\ Chunks(downward') = 0 /\ Ends(downward') = 0
      BY <1>3, <2>3, <2>10, <3>1, <3>2, BeginParts
    <3>4. TypeOK' /\ \A j \in DOMAIN downward' : downward'[j] = "head" => backend # "idle"
      BY <2>8, <2>10, <3>1
    <3>5. AnswerOK'
      <4>1. backend # "continued"
        BY <1>2, <1>3, <2>4, <2>10 DEF AnswerOK
      <4> QED BY <1>1, <1>2, <2>1, <2>2, <2>4, <2>6, <2>10, <4>1 DEF AnswerOK
    <3>6. DownOK'
      <4>1. /\ got' + Chunks(downward') + Chunks(answer') <= resp'
            /\ Infos(answer') + Infos(downward') <= 1
        BY <1>1, <1>3, <2>2, <2>4, <2>10, <3>2, <3>3
      <4> QED BY <1>1, <1>2, <2>6, <2>10, <2>sum, <3>3, <3>4, <4>1 DEF DownOK
    <3>7. AnsweredOK'
      BY <1>1, <1>2, <2>10, <3>3 DEF AnsweredOK, EmptyOnlyWhenLost
    <3>8. WholeOK'
      BY <1>1, <1>2, <1>3, <1>8, <1>10, <2>1, <2>4, <2>10, <3>2, <3>3 DEF WholeOK, WholeResponse
    <3> QED BY <1>1, <1>2, <1>5, <3>4, <3>5, <3>6, <3>7, <3>8 DEF TunnelInv
  <2>11. CASE /\ Head(answer) = "data" /\ worker' = "copy"
              /\ downward' = Append(downward, "data") /\ Len(downward) + 1 <= Capacity
    <3>1. "data" \in Down /\ "data" \notin {"info"} \cup Beginnings
      BY DEF Down, Beginnings
    <3>2. Formed(downward') /\ Infos(downward') = Infos(downward) /\ Heads(downward') = Heads(downward)
          /\ Chunks(downward') = Chunks(downward) + 1 /\ Ends(downward') = 0
      BY <1>3, <2>11, <3>1, AppendParts
    <3>3. TypeOK' /\ \A j \in DOMAIN downward' : downward'[j] = "head" => backend # "idle"
      BY <2>8, <2>11, <3>1
    <3>4. AnswerOK'
      <4>1. backend # "continued"
        BY <1>2, <2>1, <2>11 DEF AnswerOK
      <4> QED BY <1>1, <1>2, <2>1, <2>2, <2>4, <2>6, <2>11, <4>1 DEF AnswerOK
    <3>5. DownOK'
      <4>1. /\ got' + Chunks(downward') + Chunks(answer') <= resp'
            /\ Infos(answer') + Infos(downward') <= 1
        BY <1>1, <1>3, <2>2, <2>4, <2>11, <3>2
      <4> QED BY <1>1, <1>2, <2>1, <2>6, <2>11, <2>sum, <3>2, <3>3, <4>1 DEF DownOK
    <3>6. AnsweredOK'
      BY <1>1, <1>2, <2>1, <2>11, <3>2 DEF AnsweredOK, EmptyOnlyWhenLost
    <3>7. WholeOK'
      <4>1. got + Chunks(downward') + Chunks(answer') = got + Chunks(downward) + Chunks(answer)
        BY <1>3, <2>4, <2>11, <3>2
      <4> QED BY <1>1, <1>2, <1>3, <1>8, <1>10, <2>1, <2>11, <3>2, <4>1 DEF WholeOK, WholeResponse
    <3> QED BY <1>1, <1>2, <1>5, <3>3, <3>4, <3>5, <3>6, <3>7 DEF TunnelInv
  <2>12. CASE /\ Head(answer) = "end" /\ worker' = IF Waits THEN "join" ELSE "done"
              /\ downward' = Append(downward, "close") /\ Len(downward) + 1 <= Capacity
    <3>1. "close" \in Down /\ "close" \notin {"info"} \cup Beginnings
      BY DEF Down, Beginnings
    <3>2. Formed(downward') /\ Infos(downward') = Infos(downward) /\ Heads(downward') = Heads(downward)
          /\ Chunks(downward') = Chunks(downward) /\ Ends(downward') = 1
      BY <1>3, <2>3, <2>12, <3>1, AppendParts
    <3>3. TypeOK' /\ \A j \in DOMAIN downward' : downward'[j] = "head" => backend # "idle"
      BY <2>8, <2>12, <3>1
    <3>4. backend \in {"answered", "closed"} /\ worker' \in {"join", "done"} /\ worker = "copy"
      BY <1>2, <2>1, <2>4, <2>12 DEF AnswerOK
    <3>5. Infos(answer') = 0 /\ Heads(answer') = 0 /\ Chunks(answer') = 0 /\ Ends(answer') = 0
      BY <2>4, <2>12, EmptyParts
    <3>6. AnswerOK'
      BY <1>1, <1>2, <2>2, <2>4, <2>12, <3>4, <3>5 DEF AnswerOK
    <3>7. DownOK'
      <4>1. /\ got' + Chunks(downward') + Chunks(answer') <= resp'
            /\ Infos(answer') + Infos(downward') <= 1
        BY <1>1, <1>3, <2>4, <2>12, <3>2, <3>5
      <4> QED BY <1>1, <1>2, <2>sum, <3>2, <3>3, <3>4, <4>1 DEF DownOK
    <3>8. AnsweredOK'
      BY <1>1, <1>2, <3>2, <3>4 DEF AnsweredOK, EmptyOnlyWhenLost
    <3>9. WholeOK'
      <4>1. Whole => worker' = "join"
        BY <1>2, <2>12 DEF Whole, Waits, TypeOK, StatesOK
      <4> QED BY <1>1, <1>2, <1>3, <1>8, <1>10, <2>4, <2>12, <3>2, <3>4, <3>5, <4>1
              DEF WholeOK, WholeResponse
    <3> QED BY <1>1, <1>2, <1>5, <3>3, <3>6, <3>7, <3>8, <3>9 DEF TunnelInv
  <2>13. \A f \in Down : downward \o <<f>> = Append(downward, f) /\ Len(<<f>>) = 1
    BY <1>3, AppendIsConcat
  <2>14. ASSUME NEW f \in Down, NEW next, Write(<<f>>, next)
         PROVE  \/ worker' = "done" /\ downward' = downward /\ (reset \/ stub = "done")
                \/ /\ worker' = next /\ downward' = Append(downward, f)
                   /\ Len(downward) + 1 <= Capacity
    BY <2>13, <2>14 DEF Write, Lost, Room
  <2>15. {"info", "head", "data", "close"} \subseteq Down
    BY DEF Down
  <2> QED BY <2>1, <2>7, <2>9, <2>10, <2>11, <2>12, <2>14, <2>15
<1> QED BY <1>9, <1>10

LEMMA WorkerPumpInv ==
  ASSUME TunnelInv, WorkerPump
  PROVE  TunnelInv'
<1>1. /\ wpump = "on" /\ wpump' \in {"on", "ended"}
      /\ UNCHANGED <<framing, size, gone, status, got, junk, stub, pump, sent, downward, reset,
                     worker, answer, backend, taken, ended, resp, lost>>
  BY DEF WorkerPump, client, stubSide
<1>2. /\ TypeOK /\ UpOK /\ AnswerOK /\ DownOK /\ AnsweredOK /\ WholeOK /\ (stub # "done" => ~junk)
      /\ worker \notin {"idle", "start", "dial"} /\ stub # "dial"
      /\ worker # "done" => Heads(upward) # 1
  BY <1>1 DEF TunnelInv, UpOK
<1>3. /\ Formed(upward) /\ Infos(upward) = 0 /\ Ends(upward) \in 0..1
      /\ worker # "done" => Heads(upward) = 0
      /\ Chunks(upward) \in Nat /\ upward \in Seq(Up) /\ conn \in Seq({"chunk", "last"})
      /\ Len(upward) \in Nat /\ Len(conn) \in Nat /\ taken \in Nat /\ sent \in Nat /\ size \in Nat
      /\ Len(upward) <= Capacity /\ Len(conn) <= Capacity /\ sent <= size
  <2>1. Len(upward) <= Capacity /\ Len(conn) <= Capacity
    BY <1>2 DEF TypeOK, QueuesOK
  <2>2. sent <= size
    BY <1>2, Numbers DEF TypeOK, CountsOK
  <2> QED BY <1>2, <2>1, <2>2, Numbers DEF UpOK
<1>4. /\ StatesOK' /\ FlagsOK' /\ CountsOK' /\ AnswerOK' /\ DownOK' /\ AnsweredOK'
      /\ Whole => WholeResponse'
  <2>1. StatesOK'
    BY <1>1, <1>2 DEF TypeOK, StatesOK
  <2>2. FlagsOK'
    BY <1>1, <1>2 DEF TypeOK, FlagsOK
  <2>3. CountsOK'
    BY <1>1, <1>2 DEF TypeOK, CountsOK
  <2> QED BY <1>1, <1>2, <2>1, <2>2, <2>3 DEF AnswerOK, DownOK, AnsweredOK, EmptyOnlyWhenLost, WholeOK, WholeResponse
<1>5. CASE UNCHANGED <<upward, conn>> /\ wpump' = "ended" /\ (worker = "done" \/ reset \/ stub = "done")
  <2>1. QueuesOK'
    BY <1>1, <1>2, <1>5 DEF TypeOK, QueuesOK
  <2>2. UpOK'
    BY <1>1, <1>2, <1>5 DEF UpOK
  <2>3. WholeOK'
    BY <1>1, <1>2, <1>4, <1>5 DEF WholeOK
  <2> QED BY <1>1, <1>2, <1>4, <2>1, <2>2, <2>3 DEF TunnelInv, TypeOK
<1>6. CASE /\ upward # <<>> /\ worker # "done" /\ upward' = Tail(upward)
           /\ \/ conn' = conn
              \/ Head(upward) = "data" /\ Len(conn) < Capacity /\ conn' = Append(conn, "chunk")
              \/ Head(upward) = "data" /\ conn' = <<"chunk">>
           /\ lost = {} => wpump' = "on"
  <2>1. upward' \in Seq(Up) /\ Len(upward') = Len(upward) - 1
    BY <1>3, <1>6, HeadTailProperties
  <2>2. /\ Formed(upward') /\ Infos(upward') = 0 /\ Heads(upward') = 0
        /\ Ends(upward') = 1 => Ends(upward) = 1
        /\ Chunks(upward') = Chunks(upward) - (IF Head(upward) = "data" THEN 1 ELSE 0)
        /\ Chunks(upward') \in Nat
    <3>1. Head(upward) \in Endings \cup {"data"}
      <4>1. Head(upward) = upward[1] /\ Len(upward) > 0 /\ Head(upward) \in Up
        BY <1>3, <1>6, EmptySeq, HeadTailProperties
      <4> QED BY <1>3, <1>6, <4>1 DEF Heads, Infos, Up, Beginnings, Endings
    <3>2. "data" \notin Endings
      BY DEF Endings
    <3>3. CASE Head(upward) = "data"
      <4>1. /\ Formed(upward') /\ Infos(upward') = 0 /\ Heads(upward') = 0
            /\ Chunks(upward') = Chunks(upward) - 1 /\ Ends(upward') = Ends(upward)
        BY <1>3, <1>6, <3>3, TailParts
      <4>2. Chunks(upward') \in Nat
        BY <2>1, <4>1, PartsType
      <4> QED BY <3>3, <4>1, <4>2
    <3>4. CASE Head(upward) \in Endings
      <4>1. upward' = <<>> /\ Chunks(upward) = 0
        BY <1>3, <1>6, <3>4, TailParts
      <4> QED BY <3>2, <3>4, <4>1, EmptyParts
    <3> QED BY <3>1, <3>3, <3>4
  <2>3. backend # "idle"
    BY <1>2, <1>6 DEF AnswerOK
  <2>4. /\ conn' \in Seq({"chunk", "last"}) /\ Len(conn') <= Capacity
        /\ \A j \in DOMAIN conn' : conn'[j] = "chunk"
        /\ Len(conn') \in Nat
        /\ Len(conn') <= Len(conn) + (IF Head(upward) = "data" THEN 1 ELSE 0)
    <3>1. \A j \in DOMAIN conn : conn[j] = "chunk"
      BY <1>2 DEF UpOK
    <3>2. CASE Head(upward) = "data" /\ Len(conn) < Capacity /\ conn' = Append(conn, "chunk")
      <4>1. /\ conn' \in Seq({"chunk", "last"}) /\ Len(conn') = Len(conn) + 1
            /\ \A j \in 1..Len(conn) : conn'[j] = conn[j]
            /\ conn'[Len(conn')] = "chunk"
        BY <1>3, <3>2, AppendProperties
      <4>2. DOMAIN conn = 1..Len(conn) /\ DOMAIN conn' = 1..Len(conn')
        BY <1>3, <4>1
      <4>3. \A j \in DOMAIN conn' : conn'[j] = "chunk"
        BY <1>3, <3>1, <4>1, <4>2
      <4> QED BY <1>3, <3>2, <4>1, <4>3, TunnelBounds
    <3>3. CASE Head(upward) = "data" /\ conn' = <<"chunk">>
      <4>1. /\ <<"chunk">> \in Seq({"chunk", "last"}) /\ Len(<<"chunk">>) = 1
            /\ \A j \in DOMAIN <<"chunk">> : <<"chunk">>[j] = "chunk"
        OBVIOUS
      <4> QED BY <1>3, <3>3, <4>1, TunnelBounds
    <3>4. CASE conn' = conn
      BY <1>3, <3>1, <3>4
    <3> QED BY <1>6, <3>2, <3>3, <3>4
  <2>5. taken + Len(conn) + Chunks(upward) <= sent
    BY <1>2 DEF UpOK
  <2>6. taken + Len(conn') + Chunks(upward') <= sent
    BY <1>3, <2>2, <2>4, <2>5
  <2>7. QueuesOK'
    <3>1. Len(upward') <= Capacity
      BY <1>3, <2>1, TunnelBounds
    <3> QED BY <1>1, <1>2, <2>1, <2>4, <3>1 DEF TypeOK, QueuesOK
  <2>8. UpOK'
    BY <1>1, <1>2, <2>2, <2>3, <2>4, <2>6 DEF UpOK
  <2>9. WholeOK'
    BY <1>1, <1>2, <1>4, <1>6 DEF WholeOK
  <2> QED BY <1>1, <1>2, <1>4, <2>7, <2>8, <2>9 DEF TunnelInv, TypeOK
<1>7. upward # <<>> => Head(upward) # "close"
  <2>1. upward # <<>> => Head(upward) \in Up
    BY <1>3, HeadTailProperties
  <2> QED BY <2>1 DEF Up
<1>8. CASE upward # <<>> /\ worker # "done" /\ upward' = Tail(upward)
  <2>1. /\ Head(upward) = "data" => Len(conn) < Capacity \/ Hung
        /\ conn' = IF "backend" \in lost THEN conn
                   ELSE IF Hung THEN IF Head(upward) = "data" THEN <<"chunk">> ELSE conn
                   ELSE IF Head(upward) = "data" THEN Append(conn, "chunk")
                   ELSE IF Head(upward) = "close" /\ framing = "chunked" THEN Append(conn, "last")
                   ELSE conn
        /\ wpump' = IF Head(upward) = "close" \/ (Head(upward) = "data" /\ "backend" \in lost)
                    THEN "ended" ELSE "on"
    BY <1>8 DEF WorkerPump
  <2>2. \/ conn' = conn
        \/ Head(upward) = "data" /\ Len(conn) < Capacity /\ conn' = Append(conn, "chunk")
        \/ Head(upward) = "data" /\ conn' = <<"chunk">>
    BY <1>7, <1>8, <2>1
  <2>3. lost = {} => wpump' = "on"
    BY <1>7, <1>8, <2>1
  <2> QED BY <1>6, <1>8, <2>2, <2>3
<1> QED BY <1>5, <1>8 DEF WorkerPump, Lost

LEMMA ResetInv ==
  ASSUME TunnelInv, Reset
  PROVE  TunnelInv'
<1>1. /\ ~reset /\ stub # "dial" /\ reset' = TRUE
      /\ worker = "done" \/ stub = "done" \/ "agent" \in lost \/ "cut" \in Faults
      /\ UNCHANGED <<framing, size, gone, status, got, junk, stub, pump, sent, worker, wpump,
                     conn, answer, backend, taken, ended, resp, lost>>
  BY DEF Reset, client, stubSide, workerSide, container, Fault
<1>2. /\ TypeOK /\ UpOK /\ AnswerOK /\ DownOK /\ AnsweredOK /\ WholeOK /\ (stub # "done" => ~junk)
  BY DEF TunnelInv
<1>3. /\ Formed(upward) /\ upward \in Seq(Up) /\ Formed(downward) /\ downward \in Seq(Down)
      /\ Infos(upward) = 0 /\ Heads(upward) \in 0..1 /\ Ends(upward) \in 0..1 /\ Chunks(upward) \in Nat
      /\ Infos(downward) \in 0..1 /\ Heads(downward) \in 0..1 /\ Ends(downward) \in 0..1
      /\ Chunks(downward) \in Nat /\ Infos(answer) \in 0..1 /\ Chunks(answer) \in Nat
      /\ Len(upward) \in Nat /\ Len(downward) \in Nat /\ Len(upward) <= Capacity /\ Len(downward) <= Capacity
      /\ got \in Nat /\ resp \in Nat /\ taken \in Nat /\ sent \in Nat /\ Len(conn) \in Nat
  <2>1. Len(upward) <= Capacity /\ Len(downward) <= Capacity
    BY <1>2 DEF TypeOK, QueuesOK
  <2> QED BY <1>2, <2>1, Numbers DEF UpOK, DownOK, AnswerOK
<1>4. PICK n \in 0..Len(downward) : downward' = SubSeq(downward, 1, n)
  BY DEF Reset
<1>5. PICK m \in 0..Len(upward) : upward' = SubSeq(upward, 1, m)
  BY DEF Reset
<1>6. /\ downward' \in Seq(Down) /\ Len(downward') = n /\ Formed(downward')
      /\ \A j \in 1..n : downward'[j] = downward[j]
      /\ Infos(downward') <= Infos(downward) /\ Heads(downward') <= Heads(downward)
      /\ Ends(downward') <= Ends(downward) /\ Chunks(downward') <= Chunks(downward)
  BY <1>3, <1>4, PrefixParts
<1>7. /\ upward' \in Seq(Up) /\ Len(upward') = m /\ Formed(upward')
      /\ Infos(upward') <= Infos(upward) /\ Heads(upward') <= Heads(upward)
      /\ Ends(upward') <= Ends(upward) /\ Chunks(upward') <= Chunks(upward)
      /\ upward' # <<>> => Heads(upward') = Heads(upward)
  BY <1>3, <1>5, PrefixParts
<1>8. /\ Infos(downward') \in 0..1 /\ Heads(downward') \in 0..1 /\ Ends(downward') \in 0..1
      /\ Chunks(downward') \in Nat
      /\ Infos(upward') \in 0..1 /\ Heads(upward') \in 0..1 /\ Ends(upward') \in 0..1
      /\ Chunks(upward') \in Nat
  BY <1>6, <1>7, PartsType
<1>9. /\ downward = <<>> => downward' = <<>>
      /\ upward = <<>> => upward' = <<>>
  <2>1. downward = <<>> => n = 0
    BY <1>4
  <2>2. upward = <<>> => m = 0
    BY <1>5
  <2> QED BY <1>6, <1>7, <2>1, <2>2, EmptySeq
<1>10. TypeOK'
  <2>1. StatesOK'
    BY <1>1, <1>2 DEF TypeOK, StatesOK
  <2>2. FlagsOK'
    BY <1>1, <1>2 DEF TypeOK, FlagsOK
  <2>3. CountsOK'
    BY <1>1, <1>2 DEF TypeOK, CountsOK
  <2>4. Len(upward') <= Capacity /\ Len(downward') <= Capacity
    BY <1>3, <1>6, <1>7, TunnelBounds
  <2>5. QueuesOK'
    BY <1>1, <1>2, <1>6, <1>7, <2>4 DEF TypeOK, QueuesOK
  <2> QED BY <2>1, <2>2, <2>3, <2>5 DEF TypeOK
<1>11. UpOK'
  <2>1. taken + Len(conn) + Chunks(upward') <= sent
    BY <1>2, <1>3, <1>7, <1>8 DEF UpOK
  <2>2. upward' # <<>> => upward # <<>>
    BY <1>9
  <2> QED BY <1>1, <1>2, <1>3, <1>7, <1>8, <1>9, <2>1, <2>2 DEF UpOK
<1>12. AnswerOK'
  BY <1>1, <1>2, <1>3, <1>6, <1>8 DEF AnswerOK
<1>13. DownOK'
  <2>1. \A j \in DOMAIN downward' : downward'[j] = "head" => backend # "idle"
    <3>1. DOMAIN downward' = 1..n /\ 1..n \subseteq DOMAIN downward
      BY <1>3, <1>6
    <3> QED BY <1>2, <1>6, <3>1 DEF DownOK
  <2>2. got + Chunks(downward') + Chunks(answer) <=
          resp + (IF backend = "idle" /\ worker = "done" THEN 1 ELSE 0)
    BY <1>2, <1>3, <1>6, <1>8 DEF DownOK
  <2>3. got' + Chunks(downward') + Chunks(answer') <=
          resp' + (IF backend' = "idle" /\ worker' = "done" THEN 1 ELSE 0)
    BY <1>1, <2>2
  <2>4. /\ Infos(answer') + Infos(downward') <= 1
        /\ Chunks(downward) = 0 => Chunks(downward') = 0
        /\ Heads(downward) = 0 => Heads(downward') = 0
        /\ Ends(downward) = 0 => Ends(downward') = 0
    BY <1>1, <1>2, <1>3, <1>6, <1>8 DEF DownOK
  <2> QED BY <1>1, <1>2, <1>6, <1>9, <2>1, <2>3, <2>4 DEF DownOK
<1>14. AnsweredOK'
  BY <1>1, <1>2 DEF AnsweredOK, EmptyOnlyWhenLost
<1>15. WholeOK'
  <2>1. Whole => worker = "done" \/ stub = "done"
    BY <1>1, <1>2 DEF Whole, AnsweredOK
  <2> QED BY <1>1, <1>2, <2>1 DEF WholeOK, WholeResponse
<1> QED BY <1>1, <1>2, <1>10, <1>11, <1>12, <1>13, <1>14, <1>15 DEF TunnelInv

\* The container.
LEMMA BackendReadsInv ==
  ASSUME TunnelInv, BackendReads
  PROVE  TunnelInv'
<1>1. /\ backend # "idle" /\ ~Hung /\ conn # <<>> /\ conn' = Tail(conn)
      /\ UNCHANGED <<framing, size, gone, status, got, junk, stub, pump, sent, upward, downward,
                     reset, worker, wpump, answer, backend, resp, lost>>
  BY DEF BackendReads, client, stubSide, tcp, workerSide
<1>2. /\ TypeOK /\ UpOK /\ AnswerOK /\ DownOK /\ AnsweredOK /\ WholeOK /\ (stub # "done" => ~junk)
  BY DEF TunnelInv
<1>3. /\ conn \in Seq({"chunk", "last"}) /\ Len(conn) \in Nat /\ Len(conn) > 0
      /\ conn' \in Seq({"chunk", "last"}) /\ Len(conn') = Len(conn) - 1 /\ Head(conn) = conn[1]
      /\ \A j \in 1..Len(conn') : conn'[j] = conn[j + 1]
      /\ DOMAIN conn = 1..Len(conn) /\ DOMAIN conn' = 1..Len(conn')
      /\ Chunks(upward) \in Nat /\ taken \in Nat /\ sent \in Nat /\ size \in Nat /\ sent <= size
      /\ Len(conn) <= Capacity
  <2>1. conn \in Seq({"chunk", "last"}) /\ Len(conn) \in Nat /\ Len(conn) > 0 /\ Head(conn) = conn[1]
    BY <1>1, <1>2, Numbers, EmptySeq
  <2>2. /\ conn' \in Seq({"chunk", "last"}) /\ Len(conn') = Len(conn) - 1
        /\ \A j \in 1..Len(conn') : conn'[j] = conn[j + 1]
    BY <1>1, <2>1, HeadTailProperties
  <2>3. sent <= size
    BY <1>2, Numbers DEF TypeOK, CountsOK
  <2>4. Len(conn) <= Capacity
    BY <1>2 DEF TypeOK, QueuesOK
  <2>5. Chunks(upward) \in Nat /\ taken \in Nat /\ sent \in Nat /\ size \in Nat
    BY <1>2, Numbers DEF UpOK
  <2> QED BY <2>1, <2>2, <2>3, <2>4, <2>5
<1>4. \A j \in DOMAIN conn : conn[j] = "chunk"
  BY <1>2 DEF UpOK
<1>5. taken' = taken + 1 /\ UNCHANGED ended
  <2>1. Head(conn) = "chunk"
    BY <1>3, <1>4
  <2> QED BY <2>1 DEF BackendReads
<1>6. taken + Len(conn) + Chunks(upward) <= sent
  BY <1>2 DEF UpOK
<1>7. taken' \in 0..size /\ taken' + Len(conn') + Chunks(upward) <= sent
  BY <1>3, <1>5, <1>6
<1>8. TypeOK'
  <2>1. StatesOK'
    BY <1>1, <1>2 DEF TypeOK, StatesOK
  <2>2. FlagsOK'
    BY <1>1, <1>2, <1>5 DEF TypeOK, FlagsOK
  <2>3. CountsOK'
    BY <1>1, <1>2, <1>7 DEF TypeOK, CountsOK
  <2>4. Len(conn') <= Capacity
    BY <1>3, TunnelBounds
  <2>5. QueuesOK'
    BY <1>1, <1>2, <1>3, <2>4 DEF TypeOK, QueuesOK
  <2> QED BY <2>1, <2>2, <2>3, <2>5 DEF TypeOK
<1>9. UpOK'
  <2>1. \A j \in DOMAIN conn' : conn'[j] = "chunk"
    BY <1>3, <1>4
  <2> QED BY <1>1, <1>2, <1>5, <1>7, <2>1 DEF UpOK
<1>10. AnswerOK' /\ DownOK' /\ AnsweredOK'
  BY <1>1, <1>2 DEF AnswerOK, DownOK, AnsweredOK, EmptyOnlyWhenLost
<1>11. WholeOK'
  BY <1>1, <1>2 DEF WholeOK, WholeResponse
<1> QED BY <1>1, <1>2, <1>8, <1>9, <1>10, <1>11 DEF TunnelInv

LEMMA BackendAnswersInv ==
  ASSUME TunnelInv, BackendContinues \/ BackendAnswers
  PROVE  TunnelInv'
<1>1. UNCHANGED <<framing, size, gone, status, got, junk, stub, pump, sent, upward, downward,
                  reset, worker, wpump, conn, taken, ended, lost>>
  BY DEF BackendContinues, BackendAnswers, client, stubSide, tcp, workerSide
<1>2. /\ TypeOK /\ UpOK /\ AnswerOK /\ DownOK /\ AnsweredOK /\ WholeOK /\ (stub # "done" => ~junk)
  BY DEF TunnelInv
<1>3. /\ Formed(answer) /\ answer \in Seq({"info", "head", "data", "end"})
      /\ Infos(answer) \in 0..1 /\ Heads(answer) \in 0..1 /\ Ends(answer) \in 0..1
      /\ Chunks(answer) \in Nat /\ Chunks(downward) \in Nat /\ Infos(downward) \in 0..1
      /\ Len(answer) \in Nat /\ got \in Nat /\ resp \in Nat
  BY <1>2, Numbers DEF AnswerOK, DownOK
<1>4. backend \notin {"idle", "answered", "closed", "died"} /\ Ends(answer) = 0
  BY <1>2, <1>3 DEF BackendContinues, BackendAnswers, AnswerOK
<1>5. got + Chunks(downward) + Chunks(answer) <= resp
  BY <1>2, <1>3, <1>4 DEF DownOK
<1>6. Whole /\ lost = {} /\ stub # "done" =>
        /\ ~reset /\ worker # "done" /\ wpump # "ended"
        /\ Ends(downward) = 1 => worker = "join"
        /\ got + Chunks(downward) + Chunks(answer) = resp
  BY <1>2, <1>4 DEF WholeOK
<1>7. ASSUME NEW f \in {"info", "head", "data", "end"}, answer' = Append(answer, f),
             Len(answer) < Capacity,
             backend' \in {"continued", "answering", "answered"}, resp' \in 0..MaxResponse
      PROVE  TypeOK' /\ UpOK'
  <2>1. answer' \in Seq({"info", "head", "data", "end"}) /\ Len(answer') = Len(answer) + 1
    BY <1>3, <1>7, AppendProperties
  <2>2. StatesOK'
    BY <1>1, <1>2, <1>7 DEF TypeOK, StatesOK
  <2>3. FlagsOK'
    BY <1>1, <1>2 DEF TypeOK, FlagsOK
  <2>4. CountsOK'
    BY <1>1, <1>2, <1>7 DEF TypeOK, CountsOK
  <2>5. Len(answer') <= Capacity
    BY <1>3, <1>7, <2>1, TunnelBounds
  <2>6. QueuesOK'
    BY <1>1, <1>2, <2>1, <2>5 DEF TypeOK, QueuesOK
  <2>7. UpOK'
    BY <1>1, <1>2, <1>4, <1>7 DEF UpOK
  <2> QED BY <2>2, <2>3, <2>4, <2>6, <2>7 DEF TypeOK
<1>8. resp \in 0..MaxResponse
  BY <1>2 DEF TypeOK, CountsOK
<1>9. CASE BackendContinues
  <2>1. /\ backend = "reading" /\ backend' = "continued" /\ answer' = Append(answer, "info") /\ resp' = resp
    BY <1>9 DEF BackendContinues
  <2>2. /\ answer = <<>> /\ Infos(downward) = 0 /\ Heads(answer) = 0 /\ Chunks(answer) = 0 /\ resp = 0
        /\ worker \in {"await", "done"} /\ Infos(answer) = 0 /\ Len(answer) = 0
    BY <1>2, <2>1, EmptyParts DEF AnswerOK
  <2>3. TypeOK' /\ UpOK'
    BY <1>7, <1>8, <2>1, <2>2, TunnelBounds
  <2>4. Formed(answer') /\ Infos(answer') = 1 /\ Heads(answer') = 0 /\ Chunks(answer') = 0 /\ Ends(answer') = 0
    <3>1. /\ Formed(answer) /\ answer \in Seq({"info", "head", "data", "end"}) /\ Infos(answer) = 0
          /\ Heads(answer) = 0 /\ Chunks(answer) = 0 /\ Ends(answer) = 0
      BY <1>3, <1>4, <2>2
    <3> QED BY <2>1, <3>1, BeginParts
  <2>5. AnswerOK'
    BY <1>1, <1>2, <2>1, <2>2, <2>4 DEF AnswerOK
  <2>6. DownOK'
    <3>1. Infos(answer') + Infos(downward') <= 1 /\ got' + Chunks(downward') + Chunks(answer') <=
            resp' + (IF backend' = "idle" /\ worker' = "done" THEN 1 ELSE 0)
      BY <1>1, <1>3, <1>5, <2>1, <2>2, <2>4
    <3> QED BY <1>1, <1>2, <2>1, <3>1 DEF DownOK
  <2>7. AnsweredOK'
    BY <1>1, <1>2, <2>1 DEF AnsweredOK, EmptyOnlyWhenLost
  <2>8. WholeOK'
    BY <1>1, <1>2, <1>3, <1>6, <2>1, <2>2, <2>4 DEF WholeOK, WholeResponse
  <2> QED BY <1>1, <1>2, <2>3, <2>5, <2>6, <2>7, <2>8 DEF TunnelInv
<1>10. CASE /\ Len(answer) < Capacity /\ backend \in {"reading", "continued"}
            /\ backend' = "answering" /\ answer' = Append(answer, "head") /\ resp' = resp
  <2>1. Heads(answer) = 0 /\ Chunks(answer) = 0 /\ worker \in {"await", "done"}
    BY <1>2, <1>10 DEF AnswerOK
  <2>2. TypeOK' /\ UpOK'
    BY <1>7, <1>8, <1>10
  <2>3. "head" \in Beginnings
    BY DEF Beginnings
  <2>4. Formed(answer') /\ Infos(answer') = Infos(answer) /\ Heads(answer') = 1 /\ Chunks(answer') = 0
        /\ Ends(answer') = 0
    BY <1>3, <1>4, <1>10, <2>1, <2>3, BeginParts
  <2>5. AnswerOK'
    BY <1>1, <1>2, <1>10, <2>1, <2>4 DEF AnswerOK
  <2>6. DownOK'
    <3>1. Infos(answer') + Infos(downward') <= 1
      BY <1>1, <1>2, <2>4 DEF DownOK
    <3>2. got' + Chunks(downward') + Chunks(answer') <=
            resp' + (IF backend' = "idle" /\ worker' = "done" THEN 1 ELSE 0)
      BY <1>1, <1>3, <1>5, <1>10, <2>1, <2>4
    <3> QED BY <1>1, <1>2, <1>4, <1>10, <3>1, <3>2 DEF DownOK
  <2>7. AnsweredOK'
    BY <1>1, <1>2, <1>10 DEF AnsweredOK, EmptyOnlyWhenLost
  <2>8. WholeOK'
    BY <1>1, <1>2, <1>3, <1>4, <1>6, <1>10, <2>1, <2>4 DEF WholeOK, WholeResponse
  <2> QED BY <1>1, <1>2, <2>2, <2>5, <2>6, <2>7, <2>8 DEF TunnelInv
<1>11. CASE /\ Len(answer) < Capacity /\ backend = "answering" /\ resp < MaxResponse
            /\ resp' = resp + 1 /\ answer' = Append(answer, "data") /\ backend' = backend
  <2>1. resp' \in 0..MaxResponse
    BY <1>8, <1>11, TunnelBounds
  <2>2. TypeOK' /\ UpOK'
    BY <1>7, <1>11, <2>1
  <2>3. "data" \notin {"info"} \cup Beginnings
    BY DEF Beginnings
  <2>4. Formed(answer') /\ Infos(answer') = Infos(answer) /\ Heads(answer') = Heads(answer)
        /\ Chunks(answer') = Chunks(answer) + 1 /\ Ends(answer') = 0
    BY <1>3, <1>4, <1>11, <2>3, AppendParts
  <2>5. AnswerOK'
    BY <1>1, <1>2, <1>11, <2>4 DEF AnswerOK
  <2>6. DownOK'
    <3>1. Infos(answer') + Infos(downward') <= 1
      BY <1>1, <1>2, <2>4 DEF DownOK
    <3>2. got' + Chunks(downward') + Chunks(answer') <=
            resp' + (IF backend' = "idle" /\ worker' = "done" THEN 1 ELSE 0)
      BY <1>1, <1>3, <1>5, <1>11, <2>4
    <3> QED BY <1>1, <1>2, <1>4, <1>11, <3>1, <3>2 DEF DownOK
  <2>7. AnsweredOK'
    BY <1>1, <1>2, <1>11 DEF AnsweredOK, EmptyOnlyWhenLost
  <2>8. WholeOK'
    <3>1. got + Chunks(downward) + Chunks(answer) = resp =>
            got' + Chunks(downward') + Chunks(answer') = resp'
      BY <1>1, <1>3, <1>11, <2>4
    <3> QED BY <1>1, <1>2, <1>4, <1>6, <1>11, <3>1 DEF WholeOK, WholeResponse
  <2> QED BY <1>1, <1>2, <2>2, <2>5, <2>6, <2>7, <2>8 DEF TunnelInv
<1>12. CASE /\ Len(answer) < Capacity /\ backend = "answering"
            /\ backend' = "answered" /\ answer' = Append(answer, "end") /\ resp' = resp
  <2>1. TypeOK' /\ UpOK'
    BY <1>7, <1>8, <1>12
  <2>2. "end" \notin {"info"} \cup Beginnings /\ "end" \in Endings
    BY DEF Beginnings, Endings
  <2>3. Formed(answer') /\ Infos(answer') = Infos(answer) /\ Heads(answer') = Heads(answer)
        /\ Chunks(answer') = Chunks(answer) /\ Ends(answer') = 1
    BY <1>3, <1>4, <1>12, <2>2, AppendParts
  <2>4. AnswerOK'
    BY <1>1, <1>2, <1>12, <2>3 DEF AnswerOK
  <2>5. DownOK'
    <3>1. Infos(answer') + Infos(downward') <= 1
      BY <1>1, <1>2, <2>3 DEF DownOK
    <3>2. got' + Chunks(downward') + Chunks(answer') <=
            resp' + (IF backend' = "idle" /\ worker' = "done" THEN 1 ELSE 0)
      BY <1>1, <1>3, <1>5, <1>12, <2>3
    <3> QED BY <1>1, <1>2, <1>4, <1>12, <3>1, <3>2 DEF DownOK
  <2>6. AnsweredOK'
    BY <1>1, <1>2, <1>12 DEF AnsweredOK, EmptyOnlyWhenLost
  <2>7. WholeOK'
    <3>1. Whole /\ stub = "done" => ~(status = "ok" /\ ~gone /\ lost = {})
      BY <1>2, <1>4 DEF WholeOK, WholeResponse
    <3> QED BY <1>1, <1>2, <1>4, <1>6, <1>12, <2>3, <3>1 DEF WholeOK, WholeResponse
  <2> QED BY <1>1, <1>2, <2>1, <2>4, <2>5, <2>6, <2>7 DEF TunnelInv
<1> QED BY <1>9, <1>10, <1>11, <1>12 DEF BackendAnswers, Fault

LEMMA BackendClosesInv ==
  ASSUME TunnelInv, BackendCloses
  PROVE  TunnelInv'
<1>1. /\ UNCHANGED <<framing, size, gone, status, got, junk, stub, pump, sent, upward, downward,
                     reset, worker, wpump, conn, answer, taken, ended, resp, lost>>
      /\ \/ backend = "answered" /\ backend' = "closed"
         \/ /\ "die" \in Faults /\ backend \in {"reading", "continued", "answering"}
            /\ backend' = "died"
  BY DEF BackendCloses, client, stubSide, tcp, workerSide, Fault
<1>2. /\ TypeOK /\ UpOK /\ AnswerOK /\ DownOK /\ AnsweredOK /\ WholeOK /\ (stub # "done" => ~junk)
  BY DEF TunnelInv
<1>3. TypeOK'
  <2>1. StatesOK'
    BY <1>1, <1>2 DEF TypeOK, StatesOK
  <2>2. FlagsOK'
    BY <1>1, <1>2 DEF TypeOK, FlagsOK
  <2>3. CountsOK'
    BY <1>1, <1>2 DEF TypeOK, CountsOK
  <2>4. QueuesOK'
    BY <1>1, <1>2 DEF TypeOK, QueuesOK
  <2> QED BY <2>1, <2>2, <2>3, <2>4 DEF TypeOK
<1>4. UpOK'
  BY <1>1, <1>2 DEF UpOK
<1>5. AnswerOK'
  BY <1>1, <1>2 DEF AnswerOK
<1>6. DownOK'
  <2>1. got' + Chunks(downward') + Chunks(answer') <=
          resp' + (IF backend' = "idle" /\ worker' = "done" THEN 1 ELSE 0)
    BY <1>1, <1>2 DEF DownOK
  <2> QED BY <1>1, <1>2, <2>1 DEF DownOK
<1>7. AnsweredOK'
  BY <1>1, <1>2 DEF AnsweredOK, EmptyOnlyWhenLost
<1>8. WholeOK'
  BY <1>1, <1>2 DEF WholeOK, WholeResponse
<1> QED BY <1>1, <1>2, <1>3, <1>4, <1>5, <1>6, <1>7, <1>8 DEF TunnelInv

\* What is lost: the agent, or what the container's connection still held.
LEMMA AgentDiesInv ==
  ASSUME TunnelInv, AgentDies
  PROVE  TunnelInv'
<1>1. /\ worker \notin {"idle", "done"} /\ worker' = "done" /\ lost' = lost \cup {"agent"}
      /\ UNCHANGED <<framing, size, gone, status, got, junk, stub, pump, sent, upward, downward,
                     reset, wpump, conn, answer, backend, taken, ended, resp>>
  BY DEF AgentDies, client, stubSide, tcp
<1>2. /\ TypeOK /\ UpOK /\ AnswerOK /\ DownOK /\ AnsweredOK /\ WholeOK /\ (stub # "done" => ~junk)
  BY DEF TunnelInv
<1>3. /\ got \in Nat /\ Chunks(downward) \in Nat /\ Chunks(answer) \in Nat /\ resp \in Nat
  BY <1>2, Numbers DEF AnswerOK, DownOK
<1>4. TypeOK'
  <2>1. StatesOK'
    BY <1>1, <1>2 DEF TypeOK, StatesOK
  <2>2. FlagsOK'
    BY <1>1, <1>2 DEF TypeOK, FlagsOK
  <2>3. CountsOK' /\ QueuesOK'
    BY <1>1, <1>2 DEF TypeOK, CountsOK, QueuesOK
  <2> QED BY <2>1, <2>2, <2>3 DEF TypeOK
<1>5. UpOK' /\ AnswerOK'
  BY <1>1, <1>2 DEF UpOK, AnswerOK
<1>6. DownOK'
  <2>1. got + Chunks(downward) + Chunks(answer) <= resp
    BY <1>1, <1>2, <1>3 DEF DownOK
  <2>2. got' + Chunks(downward') + Chunks(answer') <=
          resp' + (IF backend' = "idle" /\ worker' = "done" THEN 1 ELSE 0)
    BY <1>1, <1>3, <2>1
  <2> QED BY <1>1, <1>2, <2>2 DEF DownOK
<1>7. AnsweredOK'
  BY <1>1, <1>2 DEF AnsweredOK, EmptyOnlyWhenLost
<1>8. WholeOK'
  BY <1>1, <1>2 DEF WholeOK, WholeResponse
<1> QED BY <1>1, <1>2, <1>4, <1>5, <1>6, <1>7, <1>8 DEF TunnelInv

LEMMA ContainerResetInv ==
  ASSUME TunnelInv, ContainerReset
  PROVE  TunnelInv'
<1>1. /\ backend \in {"closed", "died"} /\ lost' = lost \cup {"backend"} /\ conn' = <<>>
      /\ UNCHANGED <<framing, size, gone, status, got, junk, stub, pump, sent, upward, downward,
                     reset, worker, wpump, backend, taken, ended, resp>>
  BY DEF ContainerReset, Hung, client, stubSide, tcp, workerSide
<1>2. /\ TypeOK /\ UpOK /\ AnswerOK /\ DownOK /\ AnsweredOK /\ WholeOK /\ (stub # "done" => ~junk)
  BY DEF TunnelInv
<1>3. PICK n \in 0..Len(answer) : answer' = SubSeq(answer, 1, n)
  BY DEF ContainerReset
<1>4. /\ Formed(answer) /\ answer \in Seq({"info", "head", "data", "end"}) /\ Len(answer) \in Nat
      /\ Infos(answer) \in 0..1 /\ Ends(answer) \in 0..1 /\ Chunks(answer) \in Nat
      /\ Infos(downward) \in 0..1 /\ Chunks(downward) \in Nat /\ got \in Nat /\ resp \in Nat
      /\ taken \in Nat /\ sent \in Nat /\ Len(conn) \in Nat /\ Chunks(upward) \in Nat
      /\ Len(answer) <= Capacity
  <2>1. Len(answer) <= Capacity
    BY <1>2 DEF TypeOK, QueuesOK
  <2> QED BY <1>2, <2>1, Numbers DEF UpOK, AnswerOK, DownOK
<1>5. /\ answer' \in Seq({"info", "head", "data", "end"}) /\ Len(answer') = n /\ Formed(answer')
      /\ Infos(answer') <= Infos(answer) /\ Ends(answer') <= Ends(answer)
      /\ Chunks(answer') <= Chunks(answer)
  BY <1>3, <1>4, PrefixParts
<1>6. /\ Infos(answer') \in 0..1 /\ Ends(answer') \in 0..1 /\ Chunks(answer') \in Nat
      /\ answer = <<>> => answer' = <<>>
  <2>1. answer = <<>> => n = 0
    BY <1>3
  <2> QED BY <1>5, <2>1, PartsType, EmptySeq
<1>7. TypeOK'
  <2>1. StatesOK'
    BY <1>1, <1>2 DEF TypeOK, StatesOK
  <2>2. FlagsOK'
    BY <1>1, <1>2 DEF TypeOK, FlagsOK
  <2>3. CountsOK'
    BY <1>1, <1>2 DEF TypeOK, CountsOK
  <2>4. /\ conn' \in Seq({"chunk", "last"}) /\ Len(conn') <= Capacity
        /\ Len(answer') <= Capacity
    BY <1>1, <1>4, <1>5, TunnelBounds
  <2>5. QueuesOK'
    BY <1>1, <1>2, <1>5, <2>4 DEF TypeOK, QueuesOK
  <2> QED BY <2>1, <2>2, <2>3, <2>5 DEF TypeOK
<1>8. UpOK'
  <2>1. taken + Len(conn') + Chunks(upward) <= sent
    <3>1. Len(conn') = 0 /\ taken + Len(conn) + Chunks(upward) <= sent
      BY <1>1, <1>2 DEF UpOK
    <3> QED BY <1>4, <3>1
  <2>2. DOMAIN conn' = {}
    BY <1>1
  <2> QED BY <1>1, <1>2, <2>1, <2>2 DEF UpOK
<1>9. AnswerOK'
  BY <1>1, <1>2, <1>4, <1>5, <1>6 DEF AnswerOK
<1>10. DownOK'
  <2>1. got + Chunks(downward) + Chunks(answer) <= resp
    BY <1>1, <1>2, <1>4 DEF DownOK
  <2>2. /\ got' + Chunks(downward') + Chunks(answer') <=
            resp' + (IF backend' = "idle" /\ worker' = "done" THEN 1 ELSE 0)
        /\ Infos(answer') + Infos(downward') <= 1
    <3>1. Infos(answer) + Infos(downward) <= 1
      BY <1>2 DEF DownOK
    <3> QED BY <1>1, <1>4, <1>5, <1>6, <2>1, <3>1
  <2> QED BY <1>1, <1>2, <2>2 DEF DownOK
<1>11. AnsweredOK'
  BY <1>1, <1>2 DEF AnsweredOK, EmptyOnlyWhenLost
<1>12. WholeOK'
  BY <1>1, <1>2 DEF WholeOK, WholeResponse
<1> QED BY <1>1, <1>2, <1>7, <1>8, <1>9, <1>10, <1>11, <1>12 DEF TunnelInv

LEMMA StutterInv ==
  ASSUME TunnelInv, UNCHANGED vars
  PROVE  TunnelInv'
<1>1. UNCHANGED <<framing, size, gone, status, got, junk, stub, pump, sent, upward, downward,
                  reset, worker, wpump, conn, answer, backend, taken, ended, resp, lost>>
  BY DEF vars, client, stubSide, tcp, workerSide, container
<1>2. TypeOK /\ UpOK /\ AnswerOK /\ DownOK /\ AnsweredOK /\ WholeOK /\ (stub # "done" => ~junk)
  BY DEF TunnelInv
<1>3. TypeOK'
  <2>1. StatesOK'
    BY <1>1, <1>2 DEF TypeOK, StatesOK
  <2>2. FlagsOK'
    BY <1>1, <1>2 DEF TypeOK, FlagsOK
  <2>3. CountsOK' /\ QueuesOK'
    BY <1>1, <1>2 DEF TypeOK, CountsOK, QueuesOK
  <2> QED BY <2>1, <2>2, <2>3 DEF TypeOK
<1>4. UpOK' /\ AnswerOK' /\ DownOK'
  BY <1>1, <1>2 DEF UpOK, AnswerOK, DownOK
<1>5. AnsweredOK' /\ WholeOK'
  BY <1>1, <1>2 DEF AnsweredOK, EmptyOnlyWhenLost, WholeOK, WholeResponse
<1> QED BY <1>1, <1>2, <1>3, <1>4, <1>5 DEF TunnelInv

LEMMA TunnelStep == TunnelInv /\ [Next]_vars => TunnelInv'
<1> SUFFICES ASSUME TunnelInv, [Next]_vars PROVE TunnelInv'
  OBVIOUS
<1>1. CASE OpenTunnel
  BY <1>1, OpenTunnelInv
<1>2. CASE PumpChunk \/ PumpEnd \/ PumpFails \/ Discard
  BY <1>2, ClientInv
<1>3. CASE Await
  BY <1>3, AwaitInv
<1>4. CASE Flush \/ ClientAborts
  BY <1>4, FlushInv
<1>5. CASE Copy
  BY <1>5, CopyInv
<1>6. CASE ReadStart
  BY <1>6, StartInv
<1>7. CASE DialBackend
  BY <1>7, DialInv
<1>8. CASE Relay
  BY <1>8, RelayInv
<1>9. CASE Join
  BY <1>9, JoinInv
<1>10. CASE WorkerPump
  BY <1>10, WorkerPumpInv
<1>11. CASE Reset
  BY <1>11, ResetInv
<1>12. CASE BackendReads
  BY <1>12, BackendReadsInv
<1>13. CASE BackendContinues \/ BackendAnswers
  BY <1>13, BackendAnswersInv
<1>14. CASE BackendCloses
  BY <1>14, BackendClosesInv
<1>15. CASE AgentDies
  BY <1>15, AgentDiesInv
<1>16. CASE ContainerReset
  BY <1>16, ContainerResetInv
<1>17. CASE UNCHANGED vars
  BY <1>17, StutterInv
<1> QED BY <1>1, <1>2, <1>3, <1>4, <1>5, <1>6, <1>7, <1>8, <1>9, <1>10, <1>11, <1>12, <1>13,
           <1>14, <1>15, <1>16, <1>17 DEF Next, Stub, Client, StubPump, Worker, Container

LEMMA TunnelAlways == Spec => []TunnelInv
  BY TunnelInit, TunnelStep, PTL DEF Spec

-----------------------------------------------------------------------------
(* Theorems.                                                                *)

\* Whatever the capacity of the connections, the length of the body and of
\* the answer: no write overfills a connection, and no more than one chunk
\* more than the container wrote (an error text) reaches the client.
THEOREM TypeCorrect == Spec => []TypeOK
<1>1. TunnelInv => TypeOK
  BY DEF TunnelInv
<1> QED BY <1>1, TunnelAlways, PTL

\* A client is given an empty 200 that no container sent (server.go:81-83) only
\* when the container could not be reached, died or had its connection reset, or
\* the agent's process ended: whatever else fails, in whatever order the two
\* handlers and their pumps end, for every framing, body and answer.
THEOREM AnsweredByContainer == Spec => []EmptyOnlyWhenLost
<1>1. TunnelInv => EmptyOnlyWhenLost
  BY DEF TunnelInv, AnsweredOK
<1> QED BY <1>1, TunnelAlways, PTL

\* A client that stays and is answered 200 gets every chunk the container
\* wrote, for a request with a body: the worker does not close the tunnel
\* before its pump is done, and the pump not before the stub has left
\* (proxy.go:199-202), even if the answer came before the body's end.  Without
\* a body, or on a tunnel that breaks, the kernel may drop what is on its way.
THEOREM ResponseArrivesWhole ==
  ASSUME "none" \notin Framings, "cut" \notin Faults
  PROVE  Spec => []WholeResponse
<1>1. TunnelInv => WholeResponse
  BY DEF TunnelInv, WholeOK, Whole
<1> QED BY <1>1, TunnelAlways, PTL
=============================================================================
