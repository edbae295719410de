------------------------ MODULE TunnelUpgradeProofs ------------------------
(***************************************************************************)
(* Proofs about an upgraded request: what the codec writes it reads back,  *)
(* and in each direction what is read is a prefix of what was written, for *)
(* connections of any capacity and chunks of any admitted size.            *)
(***************************************************************************)
EXTENDS TunnelUpgrade, SequenceTheorems, TLAPS

-----------------------------------------------------------------------------
(* The codec.                                                               *)

\* The long form of a length below 2^32.
LEMMA LongDef ==
  ASSUME NEW h,
         h[2] = 0, h[3] = 0, h[4] = 0, h[5] = 0,
         h[6] \in Nat, h[7] \in Nat, h[8] \in Nat, h[9] \in Nat
  PROVE  Long(h)[9] = ((h[6] * 256 + h[7]) * 256 + h[8]) * 256 + h[9]
<1> DEFINE step(v) == [i \in 1..9 |-> IF i = 1 THEN 0 ELSE v[i - 1] * 256 + h[i]]
           v7 == h[6] * 256 + h[7]
           v8 == v7 * 256 + h[8]
           v9 == v8 * 256 + h[9]
           w == [i \in 1..9 |-> IF i \in 1..5 THEN 0 ELSE IF i = 6 THEN h[6]
                  ELSE IF i = 7 THEN v7 ELSE IF i = 8 THEN v8 ELSE v9]
<1>1. /\ v7 \in Nat /\ v7 = h[6] * 256 + h[7]
      /\ v8 \in Nat /\ v8 = v7 * 256 + h[8]
      /\ v9 \in Nat /\ v9 = v8 * 256 + h[9]
  <2>1. v7 \in Nat
    OBVIOUS
  <2> HIDE DEF v7
  <2>2. v8 \in Nat
    BY <2>1
  <2> HIDE DEF v8
  <2>3. v9 \in Nat
    BY <2>2
  <2> QED BY <2>1, <2>2, <2>3 DEF v7, v8, v9
<1> HIDE DEF v7, v8, v9
<1>2. /\ w[1] = 0 /\ w[2] = 0 /\ w[3] = 0 /\ w[4] = 0 /\ w[5] = 0 /\ w[6] = h[6]
      /\ w[7] = v7 /\ w[8] = v8 /\ w[9] = v9
  OBVIOUS
<1>3. w = [i \in 1..9 |-> w[i]]
  OBVIOUS
<1> HIDE DEF w
<1>4. \A i \in 1..9 : w[i] = IF i = 1 THEN 0 ELSE w[i - 1] * 256 + h[i]
  <2> SUFFICES ASSUME NEW i \in 1..9 PROVE w[i] = IF i = 1 THEN 0 ELSE w[i - 1] * 256 + h[i]
    OBVIOUS
  <2>1. CASE i = 1 BY <1>2, <2>1
  <2>2. CASE i = 2 BY <1>2, <2>2
  <2>3. CASE i = 3 BY <1>2, <2>3
  <2>4. CASE i = 4 BY <1>2, <2>4
  <2>5. CASE i = 5 BY <1>2, <2>5
  <2>6. CASE i = 6 BY <1>2, <2>6
  <2>7. CASE i = 7 BY <1>1, <1>2, <2>7
  <2>8. CASE i = 8 BY <1>1, <1>2, <2>8
  <2>9. CASE i = 9 BY <1>1, <1>2, <2>9
  <2> QED BY <2>1, <2>2, <2>3, <2>4, <2>5, <2>6, <2>7, <2>8, <2>9
<1>5. w = step(w)
  BY <1>3, <1>4
<1>6. Long(h) = CHOOSE v : v = step(v)
  BY DEF Long
<1> DEFINE l == Long(h)
<1>7. l = step(l)
  <2>1. \E v : v = step(v)
    BY <1>5
  <2> HIDE DEF step
  <2> QED BY <1>6, <2>1
<1> HIDE DEF l
<1>8. l[1] = 0 /\ \A i \in 2..9 : l[i] = l[i - 1] * 256 + h[i]
  BY <1>7
<1>9. l[2] = 0 /\ l[3] = 0 /\ l[4] = 0 /\ l[5] = 0
  BY <1>8
<1>10. l[6] = h[6] /\ l[7] = v7
  BY <1>1, <1>8, <1>9
<1>11. l[8] = v8
  BY <1>1, <1>8, <1>10
<1>12. l[9] = v9
  BY <1>1, <1>8, <1>11
<1> QED BY <1>12 DEF l, v7, v8, v9

LEMMA LengthBound == MaxLength \in Nat /\ MaxLength < 128 * 16777216
  BY SMT DEF MaxLength

LEMMA Bytes ==
  ASSUME NEW n \in 0..MaxLength
  PROVE  /\ \A k \in 0..7 : Byte(n, k) \in 0..255
         /\ \A k \in 4..7 : Byte(n, k) = 0
         /\ ((Byte(n, 3) * 256 + Byte(n, 2)) * 256 + Byte(n, 1)) * 256 + Byte(n, 0) = n
         /\ n <= 65535 => Byte(n, 1) * 256 + Byte(n, 0) = n
<1>0. n \in Nat /\ n < 128 * 16777216
  BY LengthBound, SMT
<1>1. /\ Byte(n, 0) = n % 256 /\ Byte(n, 1) = (n \div 256) % 256
      /\ Byte(n, 2) = (n \div 65536) % 256 /\ Byte(n, 3) = (n \div 16777216) % 256
  <2>1. n \div 1 = n
    BY <1>0
  <2> QED BY <2>1, SMT DEF Byte, Weight
<1>2. \A k \in 4..7 : Byte(n, k) = 0
  BY DEF Byte
<1> DEFINE d1 == n \div 256  d2 == n \div 65536  d3 == n \div 16777216
<1>3. /\ d1 \in Nat /\ d2 \in Nat /\ d3 \in 0..127
      /\ n = d1 * 256 + (n % 256) /\ d1 = d2 * 256 + (d1 % 256) /\ d2 = d3 * 256 + (d2 % 256)
      /\ n % 256 \in 0..255 /\ d1 % 256 \in 0..255 /\ d2 % 256 \in 0..255 /\ (d3 % 256) = d3
      /\ n <= 65535 => d1 <= 255
  <2>1. /\ d1 \in Nat /\ n = d1 * 256 + (n % 256) /\ n % 256 \in 0..255
        /\ n <= 65535 => d1 <= 255
    BY <1>0, SMT
  <2>2. d2 \in Nat /\ d1 = d2 * 256 + (d1 % 256) /\ d1 % 256 \in 0..255
    BY <1>0, SMT
  <2>3. d3 \in Nat /\ d3 < 128 /\ d2 = d3 * 256 + (d2 % 256) /\ d2 % 256 \in 0..255
    BY <1>0, SMT
  <2> HIDE DEF d1, d2, d3
  <2> QED BY <2>1, <2>2, <2>3, SMT
<1> HIDE DEF d1, d2, d3
<1>4. /\ Byte(n, 0) \in 0..255 /\ Byte(n, 1) \in 0..255 /\ Byte(n, 2) \in 0..255
      /\ Byte(n, 3) \in 0..255
  BY <1>1, <1>3, SMT DEF d1, d2, d3
<1>5. \A k \in 0..7 : Byte(n, k) \in 0..255
  <2> SUFFICES ASSUME NEW k \in 0..7 PROVE Byte(n, k) \in 0..255
    OBVIOUS
  <2>1. k = 0 \/ k = 1 \/ k = 2 \/ k = 3 \/ k \in 4..7
    OBVIOUS
  <2> QED BY <1>2, <1>4, <2>1
<1>6. ((Byte(n, 3) * 256 + Byte(n, 2)) * 256 + Byte(n, 1)) * 256 + Byte(n, 0) = n
  BY <1>1, <1>3, SMT DEF d1, d2, d3
<1>7. n <= 65535 => Byte(n, 1) * 256 + Byte(n, 0) = n
  BY <1>1, <1>3, SMT DEF d1
<1> QED BY <1>2, <1>5, <1>6, <1>7

\* A function on 1..k is a sequence of k elements.
LEMMA FunctionIsSeq ==
  ASSUME NEW S, NEW k \in Nat, NEW f \in [1..k -> S]
  PROVE  f \in Seq(S) /\ Len(f) = k
OBVIOUS

\* The header of a frame gives back the length and the mask bit it was made
\* from, in each of the three length forms (websocketx.go writeFrame, ReadFrame).
THEOREM FrameRoundTrip ==
  ASSUME NEW size \in 0..MaxLength, NEW masked \in BOOLEAN, NEW op, NEW n
  PROVE  Message(Written(op, n, size, masked)) = [op |-> op, n |-> n, size |-> size, plain |-> TRUE]
<1> DEFINE h == Header(size, masked)
           bit == IF masked THEN 128 ELSE 0
<1>1. (masked /\ bit = 128) \/ (~masked /\ bit = 0)
  OBVIOUS
<1>2. size \in Nat
  BY LengthBound, SMT
<1> HIDE DEF bit
<1>3. PayloadLength(h) = size /\ (Masked(h) <=> masked)
  <2>1. CASE size < 126
    <3>1. h = <<bit + size>>
      BY <1>2, <2>1, SMT DEF Header, bit
    <3>2. h[1] = bit + size
      BY <3>1
    <3> HIDE DEF h
    <3>3. h[1] % 128 = size /\ (h[1] >= 128 <=> bit = 128)
      BY <1>1, <1>2, <2>1, <3>2
    <3> QED BY <1>1, <2>1, <3>3 DEF PayloadLength, Masked
  <2>2. CASE size >= 126 /\ size <= 65535
    <3>1. h = <<bit + 126, Byte(size, 1), Byte(size, 0)>>
      BY <1>2, <2>2, SMT DEF Header, bit
    <3>2. h[1] = bit + 126 /\ h[2] = Byte(size, 1) /\ h[3] = Byte(size, 0)
      BY <3>1
    <3> HIDE DEF h
    <3>3. h[1] % 128 = 126 /\ (h[1] >= 128 <=> bit = 128)
      BY <1>1, <3>2
    <3>4. h[2] * 256 + h[3] = size
      BY <2>2, <3>2, Bytes
    <3> QED BY <1>1, <3>3, <3>4 DEF PayloadLength, Masked
  <2>3. CASE size > 65535
    <3> DEFINE tail == [i \in 1..8 |-> Byte(size, 8 - i)]
    <3>1. h = <<bit + 127>> \o tail
      BY <1>2, <2>3, SMT DEF Header, bit
    <3>2. tail \in Seq(Nat) /\ Len(tail) = 8
      <4> DEFINE b(i) == Byte(size, 8 - i)
      <4>1. \A i \in 1..8 : b(i) \in 0..255
        BY Bytes
      <4>2. tail = [i \in 1..8 |-> b(i)]
        OBVIOUS
      <4> HIDE DEF b, tail
      <4>3. \A i \in 1..8 : b(i) \in Nat
        BY <4>1
      <4>5. tail \in [1..8 -> Nat]
        BY <4>2, <4>3
      <4>4. 8 \in Nat
        OBVIOUS
      <4> QED BY <4>4, <4>5, FunctionIsSeq
    <3>3. h[1] = bit + 127 /\ \A i \in 1..8 : h[i + 1] = Byte(size, 8 - i)
      <4>1. \A i \in 1..8 : tail[i] = Byte(size, 8 - i)
        OBVIOUS
      <4> HIDE DEF tail
      <4>2. <<bit + 127>> \in Seq(Nat) /\ Len(<<bit + 127>>) = 1
        BY <1>1
      <4> DEFINE first == <<bit + 127>>
      <4>3. first[1] = bit + 127
        OBVIOUS
      <4> HIDE DEF first
      <4>4. \A i \in 1..9 : (first \o tail)[i] = IF i <= 1 THEN first[i] ELSE tail[i - 1]
        <5>1. first \in Seq(Nat) /\ Len(first) = 1
          BY <4>2 DEF first
        <5>2. \A i \in 1..Len(first) + Len(tail) :
                (first \o tail)[i] = IF i <= Len(first) THEN first[i] ELSE tail[i - Len(first)]
          <6> HIDE DEF h, tail
          <6> QED BY <3>2, <5>1, ConcatProperties, Zenon
        <5>3. Len(first) + Len(tail) = 9
          BY <3>2, <5>1
        <5> QED BY <5>1, <5>2, <5>3
      <4>5. h = first \o tail
        BY <3>1 DEF first
      <4> HIDE DEF h
      <4>6. h[1] = bit + 127
        <5>1. 1 \in 1..9 /\ 1 <= 1
          OBVIOUS
        <5> QED BY <4>3, <4>4, <4>5, <5>1
      <4>7. ASSUME NEW i \in 1..8 PROVE h[i + 1] = Byte(size, 8 - i)
        <5>1. i + 1 \in 1..9 /\ ~(i + 1 <= 1) /\ (i + 1) - 1 = i
          OBVIOUS
        <5>2. h[i + 1] = tail[i]
          BY <4>4, <4>5, <5>1
        <5> QED BY <4>1, <5>2
      <4> QED BY <4>6, <4>7
    <3> HIDE DEF h
    <3>4. h[1] % 128 = 127 /\ (h[1] >= 128 <=> bit = 128)
      BY <1>1, <3>3
    <3>5. /\ h[2] = Byte(size, 7) /\ h[3] = Byte(size, 6) /\ h[4] = Byte(size, 5)
          /\ h[5] = Byte(size, 4) /\ h[6] = Byte(size, 3) /\ h[7] = Byte(size, 2)
          /\ h[8] = Byte(size, 1) /\ h[9] = Byte(size, 0)
      <4>1. /\ h[1 + 1] = Byte(size, 8 - 1) /\ h[2 + 1] = Byte(size, 8 - 2)
            /\ h[3 + 1] = Byte(size, 8 - 3) /\ h[4 + 1] = Byte(size, 8 - 4)
            /\ h[5 + 1] = Byte(size, 8 - 5) /\ h[6 + 1] = Byte(size, 8 - 6)
            /\ h[7 + 1] = Byte(size, 8 - 7) /\ h[8 + 1] = Byte(size, 8 - 8)
        BY <3>3
      <4> QED BY <4>1
    <3>6. /\ h[2] = 0 /\ h[3] = 0 /\ h[4] = 0 /\ h[5] = 0
          /\ h[6] \in Nat /\ h[7] \in Nat /\ h[8] \in Nat /\ h[9] \in Nat
      <4>1. /\ Byte(size, 7) = 0 /\ Byte(size, 6) = 0 /\ Byte(size, 5) = 0 /\ Byte(size, 4) = 0
        BY Bytes
      <4>2. /\ Byte(size, 0) \in 0..255 /\ Byte(size, 1) \in 0..255
            /\ Byte(size, 2) \in 0..255 /\ Byte(size, 3) \in 0..255
        BY Bytes
      <4> QED BY <3>5, <4>1, <4>2
    <3>7. Long(h)[9] = ((h[6] * 256 + h[7]) * 256 + h[8]) * 256 + h[9]
      BY <3>6, LongDef
    <3>8. Long(h)[9] = size
      BY <3>5, <3>7, Bytes
    <3> QED BY <1>1, <3>4, <3>8 DEF PayloadLength, Masked
  <2> QED BY <1>2, <2>1, <2>2, <2>3
<1> HIDE DEF h
<1> DEFINE f == Written(op, n, size, masked)
<1>4. f.op = op /\ f.n = n /\ f.header = h /\ f.plain = ~masked
  BY DEF Written, h
<1> HIDE DEF f
<1>5. ((~masked) # Masked(h)) = TRUE
  BY <1>3 DEF Masked
<1>6. (f.plain # Masked(f.header)) = TRUE
  BY <1>4, <1>5
<1>7. Message(f) = [op |-> op, n |-> n, size |-> size, plain |-> TRUE]
  BY <1>3, <1>4, <1>6 DEF Message
<1> QED BY <1>7 DEF f

-----------------------------------------------------------------------------
(* Queues.  A queue holds pieces: first what opens the conversation, then  *)
(* the data, and no piece after the one that closes it.  At(q, base, h, s):*)
(* the first h pieces of q open it, and those of the data among the rest   *)
(* are the pieces of s from base + 1 on, each in its place.                *)

Ops    == {"start", "end", "switch", "refusal", "data", "close", "last"}
Opens  == {"start", "end", "switch", "refusal"}
Pieces == [op : Ops, n : Nat, size : 0..MaxLength, plain : {TRUE}]

At(q, base, h, s) ==
  /\ h \in 0..Len(q)
  /\ \A j \in 1..Len(q) :
       /\ q[j].op \in Opens <=> j <= h
       /\ q[j].op = "data" => base + j - h \in 1..Len(s) /\ q[j] = s[base + j - h]

LEMMA TailIs ==
  ASSUME NEW S, NEW q \in Seq(S), q # <<>>
  PROVE  /\ Tail(q) \in Seq(S) /\ Len(Tail(q)) = Len(q) - 1 /\ Len(q) \in Nat \ {0}
         /\ Head(q) = q[1] /\ q[1] \in S
         /\ \A j \in 1..Len(q) - 1 : Tail(q)[j] = q[j + 1]
OBVIOUS

LEMMA AppendIs ==
  ASSUME NEW S, NEW q \in Seq(S), NEW m \in S
  PROVE  /\ Append(q, m) \in Seq(S) /\ Len(Append(q, m)) = Len(q) + 1 /\ Len(q) \in Nat
         /\ Append(q, m)[Len(q) + 1] = m
         /\ \A j \in 1..Len(q) : Append(q, m)[j] = q[j]
OBVIOUS

LEMMA PrefixIs ==
  ASSUME NEW S, NEW q \in Seq(S), NEW n \in 0..Len(q)
  PROVE  /\ SubSeq(q, 1, n) \in Seq(S) /\ Len(SubSeq(q, 1, n)) = n
         /\ \A j \in 1..n : SubSeq(q, 1, n)[j] = q[j]
OBVIOUS

LEMMA AtPopData ==
  ASSUME NEW S, NEW q \in Seq(S), q # <<>>, NEW base \in Int, NEW h, NEW s, Len(s) \in Nat,
         At(q, base, h, s), q[1].op \notin Opens
  PROVE  h = 0 /\ At(Tail(q), base + 1, 0, s)
<1>1. h = 0
  BY TailIs DEF At
<1> DEFINE t == Tail(q)
<1>2. Len(t) = Len(q) - 1 /\ Len(q) \in Nat /\ \A j \in 1..Len(t) : t[j] = q[j + 1] /\ j + 1 \in 1..Len(q)
  BY TailIs
<1> HIDE DEF t
<1>3. \A j \in 1..Len(q) :
        /\ q[j].op \notin Opens
        /\ q[j].op = "data" => base + j \in 1..Len(s) /\ q[j] = s[base + j]
  BY <1>1, <1>2 DEF At
<1>4. ASSUME NEW j \in 1..Len(t)
      PROVE  /\ t[j].op \notin Opens
             /\ t[j].op = "data" => (base + 1) + j \in 1..Len(s) /\ t[j] = s[(base + 1) + j]
  <2>1. j + 1 \in 1..Len(q) /\ t[j] = q[j + 1] /\ base + (j + 1) = (base + 1) + j
    BY <1>2
  <2> QED BY <1>3, <2>1
<1>5. At(t, base + 1, 0, s)
  BY <1>2, <1>4 DEF At
<1> QED BY <1>1, <1>5 DEF t

LEMMA AtPopOpens ==
  ASSUME NEW S, NEW q \in Seq(S), q # <<>>, NEW base \in Int, NEW h, NEW s, Len(s) \in Nat,
         At(q, base, h, s), q[1].op \in Opens
  PROVE  h \in Nat \ {0} /\ At(Tail(q), base, h - 1, s)
<1>1. h \in 1..Len(q)
  BY TailIs DEF At
<1> DEFINE t == Tail(q)
<1>2. Len(t) = Len(q) - 1 /\ Len(q) \in Nat /\ \A j \in 1..Len(t) : t[j] = q[j + 1] /\ j + 1 \in 1..Len(q)
  BY TailIs
<1> HIDE DEF t
<1>3. ASSUME NEW j \in 1..Len(t)
      PROVE  /\ t[j].op \in Opens <=> j <= h - 1
             /\ t[j].op = "data" => base + j - (h - 1) \in 1..Len(s) /\ t[j] = s[base + j - (h - 1)]
  <2>1. j + 1 \in 1..Len(q) /\ t[j] = q[j + 1] /\ base + (j + 1) - h = base + j - (h - 1)
    BY <1>1, <1>2
  <2>2. /\ q[j + 1].op \in Opens <=> j + 1 <= h
        /\ q[j + 1].op = "data" => base + (j + 1) - h \in 1..Len(s) /\ q[j + 1] = s[base + (j + 1) - h]
    BY <2>1 DEF At
  <2>3. (j + 1 <= h) <=> (j <= h - 1)
    BY <1>1
  <2> QED BY <2>1, <2>2, <2>3
<1>4. At(t, base, h - 1, s)
  BY <1>1, <1>2, <1>3 DEF At
<1> QED BY <1>1, <1>4 DEF t

LEMMA AtAppend ==
  ASSUME NEW S, NEW q \in Seq(S), NEW base \in Int, NEW h, NEW s, Len(s) \in Nat,
         At(q, base, h, s), NEW m \in S, m.op \notin Opens,
         m.op = "data" => base + Len(q) + 1 - h \in 1..Len(s) /\ m = s[base + Len(q) + 1 - h]
  PROVE  At(Append(q, m), base, h, s)
<1> DEFINE a == Append(q, m)
<1>1. /\ Len(q) \in Nat /\ Len(a) = Len(q) + 1 /\ a[Len(q) + 1] = m
      /\ \A j \in 1..Len(q) : a[j] = q[j]
  BY AppendIs
<1> HIDE DEF a
<1>2. h \in 0..Len(q) /\ h \in 0..Len(a)
  BY <1>1 DEF At
<1>3. ASSUME NEW j \in 1..Len(a)
      PROVE  /\ a[j].op \in Opens <=> j <= h
             /\ a[j].op = "data" => base + j - h \in 1..Len(s) /\ a[j] = s[base + j - h]
  <2>1. CASE j = Len(q) + 1
    <3>1. base + Len(q) + 1 - h = base + j - h /\ ~(j <= h)
      BY <1>1, <1>2, <2>1
    <3> QED BY <1>1, <2>1, <3>1
  <2>2. CASE j \in 1..Len(q)
    BY <1>1, <2>2 DEF At
  <2> QED BY <1>1, <2>1, <2>2
<1>4. At(a, base, h, s)
  BY <1>2, <1>3 DEF At
<1> QED BY <1>4 DEF a

LEMMA AtEmpty ==
  ASSUME NEW base, NEW s
  PROVE  At(<<>>, base, 0, s)
BY DEF At

LEMMA AtOpens ==
  ASSUME NEW base \in Int, NEW s, NEW m, m.op \in Opens
  PROVE  At(<<m>>, base, 1, s)
<1>1. Len(<<m>>) = 1 /\ <<m>>[1] = m /\ m.op # "data"
  BY DEF Opens
<1> QED BY <1>1 DEF At

LEMMA AtPrefix ==
  ASSUME NEW S, NEW q \in Seq(S), NEW base \in Int, NEW h, NEW s, Len(s) \in Nat,
         At(q, base, h, s), NEW n \in 0..Len(q)
  PROVE  \E g \in Nat : At(SubSeq(q, 1, n), base, g, s)
<1> DEFINE p == SubSeq(q, 1, n)
<1>1. Len(p) = n /\ Len(q) \in Nat /\ \A j \in 1..n : p[j] = q[j] /\ j \in 1..Len(q)
  BY PrefixIs
<1> HIDE DEF p
<1>2. h \in 0..Len(q)
  BY DEF At
<1>3. \A j \in 1..n :
        /\ p[j].op \in Opens <=> j <= h
        /\ p[j].op = "data" => base + j - h \in 1..Len(s) /\ p[j] = s[base + j - h]
  BY <1>1 DEF At
<1>4. CASE h <= n
  <2>1. At(p, base, h, s)
    BY <1>1, <1>2, <1>3, <1>4 DEF At
  <2> QED BY <1>2, <2>1 DEF p
<1>5. CASE h > n
  <2>1. \A j \in 1..n : p[j].op \in Opens /\ p[j].op # "data" /\ j <= n
    BY <1>2, <1>3, <1>5 DEF Opens
  <2>2. At(p, base, n, s)
    BY <1>1, <2>1 DEF At
  <2> QED BY <2>2 DEF p
<1> QED BY <1>2, <1>4, <1>5

LEMMA AtGrows ==
  ASSUME NEW S, NEW q, NEW base \in Int, NEW h, Len(q) \in Nat,
         NEW s \in Seq(S), NEW m \in S, At(q, base, h, s)
  PROVE  At(q, base, h, Append(s, m))
<1>1. \A i \in 1..Len(s) : i \in 1..Len(Append(s, m)) /\ Append(s, m)[i] = s[i]
  BY AppendIs
<1> QED BY <1>1 DEF At

-----------------------------------------------------------------------------
(* One direction: what was said travels through three queues, the third the *)
(* nearest to who said it, and is heard.  cut: the links over which nothing *)
(* will be passed any more, 3 into the third queue, 2 into the second and 1 *)
(* into the first; what is behind a cut link has lost its place.            *)

Placed(said, heard, q1, q2, q3, cut, h1, h2, h3) ==
  /\ At(q1, Len(heard), h1, said)
  /\ 1 \notin cut => At(q2, Len(heard) + Len(q1) - h1, h2, said)
  /\ cut \cap {1, 2} = {} => At(q3, Len(heard) + Len(q1) - h1 + Len(q2) - h2, h3, said)
  /\ cut \cap {1, 2, 3} = {} =>
       Len(said) = Len(heard) + Len(q1) - h1 + Len(q2) - h2 + Len(q3) - h3

Flow(said, heard, q1, q2, q3, cut) ==
  /\ Len(heard) <= Len(said)
  /\ \A j \in 1..Len(heard) : heard[j] = said[j]
  /\ \E h1, h2, h3 \in Nat : Placed(said, heard, q1, q2, q3, cut, h1, h2, h3)

\* The five are sequences of pieces.
Carries(said, heard, q1, q2, q3) ==
  /\ said \in Seq(Pieces) /\ heard \in Seq(Pieces)
  /\ q1 \in Seq(Pieces) /\ q2 \in Seq(Pieces) /\ q3 \in Seq(Pieces)

LEMMA FlowCut ==
  ASSUME NEW said, NEW heard, NEW q1, NEW q2, NEW q3, NEW cut, NEW more,
         Flow(said, heard, q1, q2, q3, cut), cut \subseteq more
  PROVE  Flow(said, heard, q1, q2, q3, more)
<1>1. PICK h1, h2, h3 \in Nat : Placed(said, heard, q1, q2, q3, cut, h1, h2, h3)
  BY DEF Flow
<1>2. Placed(said, heard, q1, q2, q3, more, h1, h2, h3)
  BY <1>1 DEF Placed
<1> QED BY <1>2 DEF Flow

\* The first queue's next piece is heard.
LEMMA FlowHear ==
  ASSUME NEW said, NEW heard, NEW q1, NEW q2, NEW q3, NEW cut,
         Carries(said, heard, q1, q2, q3),
         Flow(said, heard, q1, q2, q3, cut), q1 # <<>>, q1[1].op = "data"
  PROVE  /\ Flow(said, Append(heard, q1[1]), Tail(q1), q2, q3, cut)
         /\ Len(heard) < Len(said) /\ q1[1] = said[Len(heard) + 1]
<1>1. PICK h1, h2, h3 \in Nat : Placed(said, heard, q1, q2, q3, cut, h1, h2, h3)
  BY DEF Flow
<1> DEFINE a == Append(heard, q1[1])
           t == Tail(q1)
<1>2. /\ Len(said) \in Nat /\ Len(heard) \in Nat /\ Len(q1) \in Nat /\ Len(q2) \in Nat
      /\ Len(t) = Len(q1) - 1 /\ Len(a) = Len(heard) + 1
      /\ a[Len(heard) + 1] = q1[1] /\ \A j \in 1..Len(heard) : a[j] = heard[j]
  BY TailIs, AppendIs DEF Carries
<1>3. h1 = 0 /\ At(t, Len(heard) + 1, 0, said)
  <2>1. At(q1, Len(heard), h1, said) /\ q1 \in Seq(Pieces) /\ q1[1].op \notin Opens
    BY <1>1 DEF Placed, Carries, Opens
  <2> HIDE DEF t
  <2>2. Len(heard) \in Int
    BY <1>2
  <2> QED BY <1>2, <2>1, <2>2, AtPopData DEF t
<1>4. Len(heard) + 1 \in 1..Len(said) /\ q1[1] = said[Len(heard) + 1]
  <2>1. 1 \in 1..Len(q1)
    BY <1>2, TailIs DEF Carries
  <2>2. Len(heard) + 1 - h1 \in 1..Len(said) /\ q1[1] = said[Len(heard) + 1 - h1]
    BY <1>1, <2>1 DEF Placed, At
  <2> QED BY <1>2, <1>3, <2>2
<1> HIDE DEF a, t
<1>5. Len(a) + Len(t) - 0 = Len(heard) + Len(q1) - h1
  BY <1>2, <1>3
<1>6. Placed(said, a, t, q2, q3, cut, 0, h2, h3)
  BY <1>1, <1>2, <1>3, <1>5 DEF Placed
<1>7. Len(a) <= Len(said) /\ \A j \in 1..Len(a) : a[j] = said[j]
  BY <1>2, <1>4 DEF Flow
<1>8. Flow(said, a, t, q2, q3, cut)
  BY <1>6, <1>7 DEF Flow
<1> QED BY <1>2, <1>4, <1>8 DEF a, t

\* Something that is not data is taken from the first queue.
LEMMA FlowDropOpens1 ==
  ASSUME NEW said, NEW heard, NEW q1, NEW q2, NEW q3, NEW cut,
         Carries(said, heard, q1, q2, q3),
         Flow(said, heard, q1, q2, q3, cut), q1 # <<>>, q1[1].op \in Opens
  PROVE  Flow(said, heard, Tail(q1), q2, q3, cut)
<1>1. PICK h1, h2, h3 \in Nat : Placed(said, heard, q1, q2, q3, cut, h1, h2, h3)
  BY DEF Flow
<1>2. /\ Len(said) \in Nat /\ Len(heard) \in Nat /\ Len(q1) \in Nat
      /\ Len(Tail(q1)) = Len(q1) - 1
  BY TailIs DEF Carries
<1>3. h1 - 1 \in Nat /\ At(Tail(q1), Len(heard), h1 - 1, said)
  BY <1>1, <1>2, AtPopOpens DEF Placed, Carries
<1>4. Len(heard) + Len(Tail(q1)) - (h1 - 1) = Len(heard) + Len(q1) - h1
  BY <1>2
<1>5. Placed(said, heard, Tail(q1), q2, q3, cut, h1 - 1, h2, h3)
  BY <1>1, <1>3, <1>4 DEF Placed
<1> QED BY <1>3, <1>5 DEF Flow

\* The first piece of the second queue opens the conversation: it is taken, and
\* either dropped or put into the first queue.
LEMMA FlowDropOpens2 ==
  ASSUME NEW said, NEW heard, NEW q1, NEW q2, NEW q3, NEW cut,
         Carries(said, heard, q1, q2, q3),
         Flow(said, heard, q1, q2, q3, cut), q2 # <<>>, q2[1].op \in Opens
  PROVE  Flow(said, heard, q1, Tail(q2), q3, cut)
<1>1. PICK h1, h2, h3 \in Nat : Placed(said, heard, q1, q2, q3, cut, h1, h2, h3)
  BY DEF Flow
<1>2. /\ Len(said) \in Nat /\ Len(heard) \in Nat /\ Len(q1) \in Nat /\ Len(q2) \in Nat
      /\ Len(Tail(q2)) = Len(q2) - 1
  BY TailIs DEF Carries
<1>3. CASE 1 \in cut
  <2>1. Placed(said, heard, q1, Tail(q2), q3, cut, h1, h2, h3)
    BY <1>1, <1>3 DEF Placed
  <2> QED BY <2>1 DEF Flow
<1>4. CASE 1 \notin cut
  <2> DEFINE base == Len(heard) + Len(q1) - h1
  <2>1. base \in Int
    BY <1>2
  <2>2. At(q2, base, h2, said)
    BY <1>1, <1>4 DEF Placed
  <2> HIDE DEF base
  <2>3. h2 - 1 \in Nat /\ At(Tail(q2), base, h2 - 1, said)
    <3>1. q2 \in Seq(Pieces) /\ h2 \in Int
      BY DEF Carries
    <3>2. h2 \in Nat \ {0} /\ At(Tail(q2), base, h2 - 1, said)
      BY <1>2, <2>1, <2>2, <3>1, AtPopOpens
    <3> QED BY <3>2
  <2>4. base + Len(Tail(q2)) - (h2 - 1) = base + Len(q2) - h2
    BY <1>2, <2>1
  <2>5. Placed(said, heard, q1, Tail(q2), q3, cut, h1, h2 - 1, h3)
    BY <1>1, <2>3, <2>4 DEF Placed, base
  <2> QED BY <2>3, <2>5 DEF Flow
<1> QED BY <1>3, <1>4

LEMMA FlowMoveOpens ==
  ASSUME NEW said, NEW heard, NEW q1, NEW q2, NEW q3, NEW cut, NEW m,
         Carries(said, heard, q1, q2, q3),
         Flow(said, heard, q1, q2, q3, cut), q1 = <<>>, m.op \in Opens
  PROVE  Flow(said, heard, <<m>>, q2, q3, cut)
<1>1. PICK h1, h2, h3 \in Nat : Placed(said, heard, q1, q2, q3, cut, h1, h2, h3)
  BY DEF Flow
<1>2. Len(heard) \in Nat /\ Len(q1) = 0 /\ Len(<<m>>) = 1
  BY DEF Carries
<1>3. h1 = 0
  BY <1>1, <1>2 DEF Placed, At
<1>4. At(<<m>>, Len(heard), 1, said)
  BY <1>2, AtOpens
<1>5. Len(heard) + Len(<<m>>) - 1 = Len(heard) + Len(q1) - h1
  BY <1>2, <1>3
<1>6. Placed(said, heard, <<m>>, q2, q3, cut, 1, h2, h3)
  BY <1>1, <1>4, <1>5 DEF Placed
<1> QED BY <1>6 DEF Flow

LEMMA FlowDropOpens3 ==
  ASSUME NEW said, NEW heard, NEW q1, NEW q2, NEW q3, NEW cut,
         Carries(said, heard, q1, q2, q3),
         Flow(said, heard, q1, q2, q3, cut), q3 # <<>>, q3[1].op \in Opens
  PROVE  Flow(said, heard, q1, q2, Tail(q3), cut)
<1>1. PICK h1, h2, h3 \in Nat : Placed(said, heard, q1, q2, q3, cut, h1, h2, h3)
  BY DEF Flow
<1>2. /\ Len(said) \in Nat /\ Len(heard) \in Nat /\ Len(q1) \in Nat /\ Len(q2) \in Nat
      /\ Len(q3) \in Nat /\ Len(Tail(q3)) = Len(q3) - 1 /\ q3 \in Seq(Pieces)
  BY TailIs DEF Carries
<1>3. CASE cut \cap {1, 2} # {}
  <2>1. Placed(said, heard, q1, q2, Tail(q3), cut, h1, h2, h3)
    BY <1>1, <1>3 DEF Placed
  <2> QED BY <2>1 DEF Flow
<1>4. CASE cut \cap {1, 2} = {}
  <2> DEFINE base == Len(heard) + Len(q1) - h1 + Len(q2) - h2
  <2>1. base \in Int
    BY <1>2
  <2>2. At(q3, base, h3, said)
    BY <1>1, <1>4 DEF Placed
  <2> HIDE DEF base
  <2>3. h3 - 1 \in Nat /\ At(Tail(q3), base, h3 - 1, said)
    <3>1. h3 \in Nat \ {0} /\ At(Tail(q3), base, h3 - 1, said)
      BY <1>2, <2>1, <2>2, AtPopOpens
    <3> QED BY <3>1
  <2>4. base + Len(Tail(q3)) - (h3 - 1) = base + Len(q3) - h3
    BY <1>2, <2>1
  <2>5. Placed(said, heard, q1, q2, Tail(q3), cut, h1, h2, h3 - 1)
    BY <1>1, <2>3, <2>4 DEF Placed, base
  <2> QED BY <2>3, <2>5 DEF Flow
<1> QED BY <1>3, <1>4

\* What is behind a cut link has no place to keep.
LEMMA FlowFree2 ==
  ASSUME NEW said, NEW heard, NEW q1, NEW q2, NEW q3, NEW r2, NEW r3, NEW cut,
         Flow(said, heard, q1, q2, q3, cut), 1 \in cut
  PROVE  Flow(said, heard, q1, r2, r3, cut)
<1>1. PICK h1, h2, h3 \in Nat : Placed(said, heard, q1, q2, q3, cut, h1, h2, h3)
  BY DEF Flow
<1>2. Placed(said, heard, q1, r2, r3, cut, h1, h2, h3)
  BY <1>1 DEF Placed
<1> QED BY <1>2 DEF Flow

LEMMA FlowFree3 ==
  ASSUME NEW said, NEW heard, NEW q1, NEW q2, NEW q3, NEW r3, NEW cut,
         Flow(said, heard, q1, q2, q3, cut), cut \cap {1, 2} # {}
  PROVE  Flow(said, heard, q1, q2, r3, cut)
<1>1. PICK h1, h2, h3 \in Nat : Placed(said, heard, q1, q2, q3, cut, h1, h2, h3)
  BY DEF Flow
<1>2. Placed(said, heard, q1, q2, r3, cut, h1, h2, h3)
  BY <1>1 DEF Placed
<1> QED BY <1>2 DEF Flow

\* A piece of data is said.
LEMMA FlowSay ==
  ASSUME NEW said, NEW heard, NEW q1, NEW q2, NEW q3, NEW cut, NEW m \in Pieces,
         Carries(said, heard, q1, q2, q3),
         Flow(said, heard, q1, q2, q3, cut), 3 \notin cut, m.op = "data"
  PROVE  Flow(Append(said, m), heard, q1, q2, Append(q3, m), cut)
<1>1. PICK h1, h2, h3 \in Nat : Placed(said, heard, q1, q2, q3, cut, h1, h2, h3)
  BY DEF Flow
<1> DEFINE s == Append(said, m)
           a == Append(q3, m)
<1>2. /\ Len(said) \in Nat /\ Len(heard) \in Nat /\ Len(q1) \in Nat /\ Len(q2) \in Nat
      /\ Len(q3) \in Nat /\ Len(s) = Len(said) + 1 /\ Len(a) = Len(q3) + 1
      /\ said \in Seq(Pieces) /\ q1 \in Seq(Pieces) /\ q2 \in Seq(Pieces) /\ q3 \in Seq(Pieces)
      /\ s[Len(said) + 1] = m /\ \A j \in 1..Len(said) : s[j] = said[j]
  BY AppendIs DEF Carries
<1>3. Len(heard) <= Len(s) /\ \A j \in 1..Len(heard) : heard[j] = s[j]
  BY <1>2 DEF Flow
<1>4. At(q1, Len(heard), h1, s)
  <2>1. At(q1, Len(heard), h1, said)
    BY <1>1 DEF Placed
  <2> QED BY <1>2, <2>1, AtGrows
<1>5. 1 \notin cut => At(q2, Len(heard) + Len(q1) - h1, h2, s)
  <2> HAVE 1 \notin cut
  <2>1. At(q2, Len(heard) + Len(q1) - h1, h2, said) /\ Len(heard) + Len(q1) - h1 \in Int
    BY <1>1, <1>2 DEF Placed
  <2> QED BY <1>2, <2>1, AtGrows
<1>6. CASE cut \cap {1, 2} # {}
  <2>1. Placed(s, heard, q1, q2, a, cut, h1, h2, h3)
    BY <1>4, <1>5, <1>6 DEF Placed
  <2> QED BY <1>3, <2>1 DEF Flow
<1>7. CASE cut \cap {1, 2} = {}
  <2> DEFINE base == Len(heard) + Len(q1) - h1 + Len(q2) - h2
  <2>1. base \in Int
    BY <1>2
  <2>2. At(q3, base, h3, said) /\ Len(said) = base + Len(q3) - h3
    BY <1>1, <1>7 DEF Placed
  <2> HIDE DEF base
  <2>3. At(q3, base, h3, s)
    <3> HIDE DEF s
    <3> QED BY <1>2, <2>1, <2>2, AtGrows DEF s
  <2>4. base + Len(q3) + 1 - h3 = Len(said) + 1 /\ Len(said) + 1 \in 1..Len(s)
    BY <1>2, <2>1, <2>2
  <2>5. At(a, base, h3, s)
    <3>1. base + Len(q3) + 1 - h3 \in 1..Len(s) /\ m = s[base + Len(q3) + 1 - h3] /\ Len(s) \in Nat
      BY <1>2, <2>4
    <3>2. m.op \notin Opens
      BY DEF Opens
    <3> HIDE DEF s
    <3> QED BY <1>2, <2>1, <2>3, <3>1, <3>2, AtAppend
  <2>6. Len(s) = base + Len(a) - h3
    BY <1>2, <2>1, <2>2
  <2>7. Placed(s, heard, q1, q2, a, cut, h1, h2, h3)
    BY <1>4, <1>5, <2>5, <2>6 DEF Placed, base
  <2> QED BY <1>3, <2>7 DEF Flow
<1> QED BY <1>6, <1>7

\* A piece of data is passed on, from the second queue to the first ...
LEMMA FlowPass21 ==
  ASSUME NEW said, NEW heard, NEW q1, NEW q2, NEW q3, NEW cut,
         Carries(said, heard, q1, q2, q3),
         Flow(said, heard, q1, q2, q3, cut), 1 \notin cut, q2 # <<>>, q2[1].op = "data"
  PROVE  Flow(said, heard, Append(q1, q2[1]), Tail(q2), q3, cut)
<1>1. PICK h1, h2, h3 \in Nat : Placed(said, heard, q1, q2, q3, cut, h1, h2, h3)
  BY DEF Flow
<1> DEFINE m == q2[1]
           a == Append(q1, m)
           t == Tail(q2)
           base == Len(heard) + Len(q1) - h1
<1>2. /\ Len(said) \in Nat /\ Len(heard) \in Nat /\ Len(q1) \in Nat /\ Len(q2) \in Nat
      /\ Len(t) = Len(q2) - 1 /\ Len(a) = Len(q1) + 1 /\ m \in Pieces
      /\ q1 \in Seq(Pieces) /\ q2 \in Seq(Pieces) /\ m.op \notin Opens
  BY TailIs, AppendIs DEF Carries, Opens
<1>3. base \in Int /\ At(q1, Len(heard), h1, said) /\ At(q2, base, h2, said)
  BY <1>1, <1>2 DEF Placed
<1> HIDE DEF base
<1>4. h2 = 0 /\ At(t, base + 1, 0, said)
  BY <1>2, <1>3, AtPopData
<1>5. base + 1 \in 1..Len(said) /\ m = said[base + 1]
  <2>1. 1 \in 1..Len(q2)
    BY <1>2, TailIs
  <2>2. base + 1 - h2 \in 1..Len(said) /\ m = said[base + 1 - h2]
    BY <1>3, <2>1 DEF At
  <2> QED BY <1>3, <1>4, <2>2
<1>6. base + 1 = Len(heard) + Len(q1) + 1 - h1
  BY <1>2 DEF base
<1> HIDE DEF m, t
<1>7. At(a, Len(heard), h1, said)
  <2>1. /\ Len(heard) + Len(q1) + 1 - h1 \in 1..Len(said)
        /\ m = said[Len(heard) + Len(q1) + 1 - h1] /\ Len(heard) \in Int
    BY <1>2, <1>5, <1>6
  <2> QED BY <1>2, <1>3, <2>1, AtAppend
<1> HIDE DEF a
<1>8. Len(heard) + Len(a) - h1 = base + 1 /\ (base + 1) + Len(t) - 0 = base + Len(q2) - h2
  BY <1>2, <1>3, <1>4, <1>6
<1>9. Placed(said, heard, a, t, q3, cut, h1, 0, h3)
  BY <1>1, <1>4, <1>7, <1>8 DEF Placed, base
<1>10. Flow(said, heard, a, t, q3, cut)
  BY <1>9 DEF Flow
<1> QED BY <1>10 DEF a, t, m

\* ... and from the third to the second.
LEMMA FlowPass32 ==
  ASSUME NEW said, NEW heard, NEW q1, NEW q2, NEW q3, NEW cut,
         Carries(said, heard, q1, q2, q3),
         Flow(said, heard, q1, q2, q3, cut), 2 \notin cut, q3 # <<>>, q3[1].op = "data"
  PROVE  Flow(said, heard, q1, Append(q2, q3[1]), Tail(q3), cut)
<1>1. PICK h1, h2, h3 \in Nat : Placed(said, heard, q1, q2, q3, cut, h1, h2, h3)
  BY DEF Flow
<1>2. CASE 1 \in cut
  <2>1. Placed(said, heard, q1, Append(q2, q3[1]), Tail(q3), cut, h1, h2, h3)
    BY <1>1, <1>2 DEF Placed
  <2> QED BY <2>1 DEF Flow
<1>3. CASE 1 \notin cut
  <2> DEFINE m == q3[1]
             a == Append(q2, m)
             t == Tail(q3)
             first == Len(heard) + Len(q1) - h1
             base == first + Len(q2) - h2
  <2>1. /\ Len(said) \in Nat /\ Len(heard) \in Nat /\ Len(q1) \in Nat /\ Len(q2) \in Nat
        /\ Len(q3) \in Nat /\ Len(t) = Len(q3) - 1 /\ Len(a) = Len(q2) + 1 /\ m \in Pieces
        /\ q2 \in Seq(Pieces) /\ q3 \in Seq(Pieces) /\ m.op \notin Opens
    BY TailIs, AppendIs DEF Carries, Opens
  <2>2. cut \cap {1, 2} = {}
    BY <1>3
  <2>3. first \in Int /\ At(q2, first, h2, said)
    BY <1>1, <1>3, <2>1 DEF Placed
  <2>4. base \in Int /\ At(q3, base, h3, said)
    BY <1>1, <2>1, <2>2 DEF Placed
  <2> HIDE DEF base, first
  <2>5. h3 = 0 /\ At(t, base + 1, 0, said)
    BY <2>1, <2>4, AtPopData
  <2>6. base + 1 \in 1..Len(said) /\ m = said[base + 1]
    <3>1. 1 \in 1..Len(q3)
      BY <2>1, TailIs
    <3>2. base + 1 - h3 \in 1..Len(said) /\ m = said[base + 1 - h3]
      BY <2>4, <3>1 DEF At
    <3> QED BY <2>4, <2>5, <3>2
  <2>7. base + 1 = first + Len(q2) + 1 - h2
    BY <2>1, <2>3 DEF base
  <2> HIDE DEF m, t
  <2>8. At(a, first, h2, said)
    <3> HIDE DEF a
    <3> QED BY <2>1, <2>3, <2>6, <2>7, AtAppend DEF a
  <2> HIDE DEF a
  <2>9. first + Len(a) - h2 = base + 1 /\ (base + 1) + Len(t) - 0 = base + Len(q3) - h3
    BY <2>1, <2>3, <2>4, <2>5, <2>7
  <2>10. Placed(said, heard, q1, a, t, cut, h1, h2, 0)
    BY <1>1, <2>5, <2>8, <2>9 DEF Placed, base, first
  <2>11. Flow(said, heard, q1, a, t, cut)
    BY <2>10 DEF Flow
  <2> QED BY <2>11 DEF a, t, m
<1> QED BY <1>2, <1>3

\* The second queue, empty, gets what opens the conversation.
LEMMA FlowOpen2 ==
  ASSUME NEW said, NEW heard, NEW q1, NEW q2, NEW q3, NEW cut, NEW r \in Seq(Pieces),
         Carries(said, heard, q1, q2, q3),
         Flow(said, heard, q1, q2, q3, cut), q2 = <<>>, \A j \in 1..Len(r) : r[j].op \in Opens
  PROVE  Flow(said, heard, q1, r, q3, cut)
<1>1. PICK h1, h2, h3 \in Nat : Placed(said, heard, q1, q2, q3, cut, h1, h2, h3)
  BY DEF Flow
<1>2. Len(heard) \in Nat /\ Len(q1) \in Nat /\ Len(q2) = 0 /\ Len(r) \in Nat
  BY DEF Carries
<1> DEFINE base == Len(heard) + Len(q1) - h1
<1>3. At(r, base, Len(r), said)
  BY <1>2 DEF At, Opens
<1>4. CASE 1 \in cut
  <2>1. Placed(said, heard, q1, r, q3, cut, h1, h2, h3)
    BY <1>1, <1>4 DEF Placed
  <2> QED BY <2>1 DEF Flow
<1>5. CASE 1 \notin cut
  <2>1. h2 = 0
    <3>1. At(q2, base, h2, said)
      BY <1>1, <1>5 DEF Placed
    <3> QED BY <1>2, <3>1 DEF At
  <2>2. base + Len(r) - Len(r) = base + Len(q2) - h2
    BY <1>2, <2>1
  <2>3. Placed(said, heard, q1, r, q3, cut, h1, Len(r), h3)
    BY <1>1, <1>3, <2>2 DEF Placed
  <2> QED BY <1>2, <2>3 DEF Flow
<1> QED BY <1>4, <1>5

\* The second queue gets its last piece.
LEMMA FlowClose2 ==
  ASSUME NEW said, NEW heard, NEW q1, NEW q2, NEW q3, NEW cut, NEW m \in Pieces,
         Carries(said, heard, q1, q2, q3),
         Flow(said, heard, q1, q2, q3, cut), 2 \in cut, m.op \notin Opens, m.op # "data"
  PROVE  Flow(said, heard, q1, Append(q2, m), q3, cut)
<1>1. PICK h1, h2, h3 \in Nat : Placed(said, heard, q1, q2, q3, cut, h1, h2, h3)
  BY DEF Flow
<1> DEFINE base == Len(heard) + Len(q1) - h1
<1>2. base \in Int /\ q2 \in Seq(Pieces) /\ Len(said) \in Nat
  BY DEF Carries
<1> HIDE DEF base
<1>3. ASSUME 1 \notin cut PROVE At(Append(q2, m), base, h2, said)
  <2>1. At(q2, base, h2, said)
    BY <1>1, <1>3 DEF Placed, base
  <2> QED BY <1>2, <2>1, AtAppend
<1>4. Placed(said, heard, q1, Append(q2, m), q3, cut, h1, h2, h3)
  BY <1>1, <1>3 DEF Placed, base
<1> QED BY <1>4 DEF Flow

\* The only piece of data is said straight into the second queue, between what
\* opens and what ends the conversation.
LEMMA FlowRefused ==
  ASSUME NEW o, NEW m, NEW e, NEW q3, NEW cut,
         2 \in cut, o.op \in Opens, m.op = "data", e.op \notin Opens, e.op # "data"
  PROVE  Flow(<<m>>, <<>>, <<>>, <<o, m, e>>, q3, cut)
<1> DEFINE s == <<m>>  r == <<o, m, e>>
<1>1. Len(s) = 1 /\ s[1] = m /\ Len(r) = 3 /\ r[1] = o /\ r[2] = m /\ r[3] = e
  OBVIOUS
<1> HIDE DEF s, r
<1>2. At(<<>>, Len(<<>>), 0, s)
  BY AtEmpty
<1>3. At(r, 0, 1, s)
  <2>1. ASSUME NEW j \in 1..Len(r)
        PROVE  /\ r[j].op \in Opens <=> j <= 1
               /\ r[j].op = "data" => 0 + j - 1 \in 1..Len(s) /\ r[j] = s[0 + j - 1]
    <3>1. CASE j = 1 BY <1>1, <3>1 DEF Opens
    <3>2. CASE j = 2 BY <1>1, <3>2 DEF Opens
    <3>3. CASE j = 3 BY <1>1, <3>3 DEF Opens
    <3> QED BY <1>1, <3>1, <3>2, <3>3
  <2> QED BY <1>1, <2>1 DEF At
<1>4. Len(<<>>) + Len(<<>>) - 0 = 0
  OBVIOUS
<1>5. Placed(s, <<>>, <<>>, r, q3, cut, 0, 1, 0)
  BY <1>2, <1>3, <1>4 DEF Placed
<1>6. Len(<<>>) <= Len(s) /\ \A j \in 1..Len(<<>>) : <<>>[j] = s[j]
  BY <1>1
<1>7. Flow(s, <<>>, <<>>, r, q3, cut)
  BY <1>5, <1>6 DEF Flow
<1> QED BY <1>7 DEF s, r

\* What is said behind a cut link gets nowhere.
LEMMA FlowUnsaid ==
  ASSUME NEW m, NEW q3, NEW cut, 2 \in cut
  PROVE  Flow(<<m>>, <<>>, <<>>, <<>>, q3, cut)
<1> DEFINE s == <<m>>
<1>1. Len(s) = 1
  OBVIOUS
<1> HIDE DEF s
<1>2. At(<<>>, Len(<<>>), 0, s) /\ At(<<>>, Len(<<>>) + Len(<<>>) - 0, 0, s)
  BY AtEmpty
<1>3. Placed(s, <<>>, <<>>, <<>>, q3, cut, 0, 0, 0)
  BY <1>2 DEF Placed
<1>4. Len(<<>>) <= Len(s) /\ \A j \in 1..Len(<<>>) : <<>>[j] = s[j]
  BY <1>1
<1>5. Flow(s, <<>>, <<>>, <<>>, q3, cut)
  BY <1>3, <1>4 DEF Flow
<1> QED BY <1>5 DEF s

\* The third queue gets its first piece, ...
LEMMA FlowOpen3 ==
  ASSUME NEW said, NEW heard, NEW q1, NEW q2, NEW q3, NEW cut, NEW m,
         Carries(said, heard, q1, q2, q3),
         Flow(said, heard, q1, q2, q3, cut), q3 = <<>>, m.op \in Opens
  PROVE  Flow(said, heard, q1, q2, <<m>>, cut)
<1>1. PICK h1, h2, h3 \in Nat : Placed(said, heard, q1, q2, q3, cut, h1, h2, h3)
  BY DEF Flow
<1> DEFINE base == Len(heard) + Len(q1) - h1 + Len(q2) - h2
<1>2. base \in Int /\ Len(q3) = 0 /\ Len(<<m>>) = 1
  BY DEF Carries
<1> HIDE DEF base
<1>3. At(<<m>>, base, 1, said)
  BY <1>2, AtOpens
<1>4. CASE cut \cap {1, 2} # {}
  <2>1. Placed(said, heard, q1, q2, <<m>>, cut, h1, h2, h3)
    BY <1>1, <1>4 DEF Placed
  <2> QED BY <2>1 DEF Flow
<1>5. CASE cut \cap {1, 2} = {}
  <2>1. h3 = 0
    <3>1. At(q3, base, h3, said)
      BY <1>1, <1>5 DEF Placed, base
    <3> QED BY <1>2, <3>1 DEF At
  <2>2. base + Len(<<m>>) - 1 = base + Len(q3) - h3
    BY <1>2, <2>1
  <2>3. Placed(said, heard, q1, q2, <<m>>, cut, h1, h2, 1)
    BY <1>1, <1>3, <2>2 DEF Placed, base
  <2> QED BY <2>3 DEF Flow
<1> QED BY <1>4, <1>5

\* ... and its last, after which nothing more is said.
LEMMA FlowClose3 ==
  ASSUME NEW said, NEW heard, NEW q1, NEW q2, NEW q3, NEW cut, NEW m \in Pieces,
         Carries(said, heard, q1, q2, q3),
         Flow(said, heard, q1, q2, q3, cut), 3 \in cut, m.op \notin Opens, m.op # "data"
  PROVE  Flow(said, heard, q1, q2, Append(q3, m), cut)
<1>1. PICK h1, h2, h3 \in Nat : Placed(said, heard, q1, q2, q3, cut, h1, h2, h3)
  BY DEF Flow
<1> DEFINE base == Len(heard) + Len(q1) - h1 + Len(q2) - h2
<1>2. base \in Int /\ q3 \in Seq(Pieces) /\ Len(said) \in Nat
  BY DEF Carries
<1> HIDE DEF base
<1>3. ASSUME cut \cap {1, 2} = {} PROVE At(Append(q3, m), base, h3, said)
  <2>1. At(q3, base, h3, said)
    BY <1>1, <1>3 DEF Placed, base
  <2> QED BY <1>2, <2>1, AtAppend
<1>4. Placed(said, heard, q1, q2, Append(q3, m), cut, h1, h2, h3)
  BY <1>1, <1>3 DEF Placed, base
<1> QED BY <1>4 DEF Flow

\* What a cut link was to bring may be lost from its end.
LEMMA FlowLose1 ==
  ASSUME NEW said, NEW heard, NEW q1, NEW q2, NEW q3, NEW cut, NEW n \in 0..Len(q1),
         Carries(said, heard, q1, q2, q3),
         Flow(said, heard, q1, q2, q3, cut), 1 \in cut
  PROVE  Flow(said, heard, SubSeq(q1, 1, n), q2, q3, cut)
<1>1. PICK h1, h2, h3 \in Nat : Placed(said, heard, q1, q2, q3, cut, h1, h2, h3)
  BY DEF Flow
<1>2. At(q1, Len(heard), h1, said) /\ q1 \in Seq(Pieces) /\ Len(heard) \in Int /\ Len(said) \in Nat
  BY <1>1 DEF Placed, Carries
<1>3. PICK g \in Nat : At(SubSeq(q1, 1, n), Len(heard), g, said)
  BY <1>2, AtPrefix
<1>4. Placed(said, heard, SubSeq(q1, 1, n), q2, q3, cut, g, h2, h3)
  BY <1>1, <1>3 DEF Placed
<1> QED BY <1>4 DEF Flow

LEMMA FlowLose2 ==
  ASSUME NEW said, NEW heard, NEW q1, NEW q2, NEW q3, NEW cut, NEW n \in 0..Len(q2),
         Carries(said, heard, q1, q2, q3),
         Flow(said, heard, q1, q2, q3, cut), 2 \in cut
  PROVE  Flow(said, heard, q1, SubSeq(q2, 1, n), q3, cut)
<1>1. PICK h1, h2, h3 \in Nat : Placed(said, heard, q1, q2, q3, cut, h1, h2, h3)
  BY DEF Flow
<1>2. CASE 1 \in cut
  BY <1>2, FlowFree2
<1>3. CASE 1 \notin cut
  <2> DEFINE base == Len(heard) + Len(q1) - h1
  <2>1. At(q2, base, h2, said) /\ q2 \in Seq(Pieces) /\ base \in Int /\ Len(said) \in Nat
    BY <1>1, <1>3 DEF Placed, Carries
  <2> HIDE DEF base
  <2>2. PICK g \in Nat : At(SubSeq(q2, 1, n), base, g, said)
    BY <2>1, AtPrefix
  <2>3. Placed(said, heard, q1, SubSeq(q2, 1, n), q3, cut, h1, g, h3)
    BY <1>1, <2>2 DEF Placed, base
  <2> QED BY <2>3 DEF Flow
<1> QED BY <1>2, <1>3

LEMMA FlowLose3 ==
  ASSUME NEW said, NEW heard, NEW q1, NEW q2, NEW q3, NEW cut, NEW n \in 0..Len(q3),
         Carries(said, heard, q1, q2, q3),
         Flow(said, heard, q1, q2, q3, cut), 3 \in cut
  PROVE  Flow(said, heard, q1, q2, SubSeq(q3, 1, n), cut)
<1>1. PICK h1, h2, h3 \in Nat : Placed(said, heard, q1, q2, q3, cut, h1, h2, h3)
  BY DEF Flow
<1>2. CASE cut \cap {1, 2} # {}
  BY <1>2, FlowFree3
<1>3. CASE cut \cap {1, 2} = {}
  <2> DEFINE base == Len(heard) + Len(q1) - h1 + Len(q2) - h2
  <2>1. At(q3, base, h3, said) /\ q3 \in Seq(Pieces) /\ base \in Int /\ Len(said) \in Nat
    BY <1>1, <1>3 DEF Placed, Carries
  <2> HIDE DEF base
  <2>2. PICK g \in Nat : At(SubSeq(q3, 1, n), base, g, said)
    BY <2>1, AtPrefix
  <2>3. Placed(said, heard, q1, q2, SubSeq(q3, 1, n), cut, h1, h2, g)
    BY <1>1, <2>2 DEF Placed, base
  <2> QED BY <2>3 DEF Flow
<1> QED BY <1>2, <1>3

LEMMA FlowInit ==
  ASSUME NEW cut
  PROVE  Flow(<<>>, <<>>, <<>>, <<>>, <<>>, cut)
<1>1. Len(<<>>) = 0 /\ \A s : At(<<>>, 0, 0, s)
  BY AtEmpty
<1>2. Placed(<<>>, <<>>, <<>>, <<>>, <<>>, cut, 0, 0, 0)
  BY <1>1 DEF Placed
<1> QED BY <1>1, <1>2 DEF Flow

-----------------------------------------------------------------------------
(* The tunnel's queues hold frames; Msgs(q) is what they are read as.       *)

Frames(masked) == {Written(p.op, p.n, p.size, masked) : p \in Pieces}
Msgs(q) == [j \in 1..Len(q) |-> Message(q[j])]

LEMMA FrameOf ==
  ASSUME NEW masked \in BOOLEAN, NEW p \in Pieces
  PROVE  /\ Written(p.op, p.n, p.size, masked) \in Frames(masked)
         /\ Message(Written(p.op, p.n, p.size, masked)) = p
<1>1. p.size \in 0..MaxLength /\ p = [op |-> p.op, n |-> p.n, size |-> p.size, plain |-> TRUE]
  BY DEF Pieces
<1>2. Message(Written(p.op, p.n, p.size, masked)) = [op |-> p.op, n |-> p.n, size |-> p.size, plain |-> TRUE]
  BY <1>1, FrameRoundTrip
<1>3. Message(Written(p.op, p.n, p.size, masked)) = p
  BY <1>1, <1>2, Zenon
<1> QED BY <1>3 DEF Frames

LEMMA MessageIs ==
  ASSUME NEW masked \in BOOLEAN, NEW f \in Frames(masked)
  PROVE  Message(f) \in Pieces /\ f.plain = ~masked /\ f.op = Message(f).op
<1>1. PICK p \in Pieces : f = Written(p.op, p.n, p.size, masked)
  BY DEF Frames
<1>2. Message(f) = p
  BY <1>1, FrameOf
<1>3. f.plain = ~masked /\ f.op = p.op
  BY <1>1 DEF Written
<1> QED BY <1>2, <1>3

LEMMA MsgsAre ==
  ASSUME NEW masked \in BOOLEAN, NEW q \in Seq(Frames(masked))
  PROVE  /\ Msgs(q) \in Seq(Pieces) /\ Len(Msgs(q)) = Len(q) /\ Len(q) \in Nat
         /\ \A j \in 1..Len(q) : Msgs(q)[j] = Message(q[j])
<1>1. Len(q) \in Nat /\ \A j \in 1..Len(q) : q[j] \in Frames(masked)
  OBVIOUS
<1>2. \A j \in 1..Len(q) : Message(q[j]) \in Pieces
  BY <1>1, MessageIs
<1>3. Msgs(q) \in [1..Len(q) -> Pieces] /\ \A j \in 1..Len(q) : Msgs(q)[j] = Message(q[j])
  BY <1>2 DEF Msgs
<1> QED BY <1>1, <1>3

LEMMA MsgsTail ==
  ASSUME NEW masked \in BOOLEAN, NEW q \in Seq(Frames(masked)), q # <<>>
  PROVE  /\ Msgs(Tail(q)) = Tail(Msgs(q)) /\ Msgs(q) # <<>>
         /\ Msgs(q)[1] = Message(Head(q)) /\ Message(Head(q)) \in Pieces
<1> DEFINE m == Msgs(q)  t == Tail(q)
<1>1. /\ m \in Seq(Pieces) /\ Len(m) = Len(q) /\ Len(q) \in Nat \ {0}
      /\ \A j \in 1..Len(q) : m[j] = Message(q[j])
  BY MsgsAre, TailIs
<1>2. t \in Seq(Frames(masked)) /\ Len(t) = Len(q) - 1 /\ \A j \in 1..Len(q) - 1 : t[j] = q[j + 1]
  <2> DEFINE F == Frames(masked)
  <2>1. q \in Seq(F)
    OBVIOUS
  <2> HIDE DEF F
  <2>2. t \in Seq(F) /\ Len(t) = Len(q) - 1 /\ \A j \in 1..Len(q) - 1 : t[j] = q[j + 1]
    <3>1. t = Tail(q)
      BY Zenon
    <3> HIDE DEF t
    <3> QED BY <2>1, <3>1, TailIs
  <2> QED BY <2>2 DEF F
<1>3. Msgs(t) \in Seq(Pieces) /\ Len(Msgs(t)) = Len(t) /\ \A j \in 1..Len(t) : Msgs(t)[j] = Message(t[j])
  BY <1>2, MsgsAre
<1> HIDE DEF m, t
<1>4. m # <<>> /\ Tail(m) \in Seq(Pieces) /\ Len(Tail(m)) = Len(m) - 1
      /\ \A j \in 1..Len(m) - 1 : Tail(m)[j] = m[j + 1]
  BY <1>1, TailIs
<1>5. \A j \in 1..Len(t) : Msgs(t)[j] = Tail(m)[j]
  <2> SUFFICES ASSUME NEW j \in 1..Len(t) PROVE Msgs(t)[j] = Tail(m)[j]
    OBVIOUS
  <2>1. j \in 1..Len(q) - 1 /\ j + 1 \in 1..Len(q)
    BY <1>1, <1>2
  <2> QED BY <1>1, <1>2, <1>3, <1>4, <2>1
<1>6. Msgs(t) = Tail(m)
  BY <1>1, <1>2, <1>3, <1>4, <1>5, SeqEqual
<1>7. m[1] = Message(Head(q)) /\ m[1] \in Pieces
  BY <1>1, TailIs
<1> QED BY <1>4, <1>6, <1>7 DEF m, t

LEMMA MsgsAppend ==
  ASSUME NEW masked \in BOOLEAN, NEW q \in Seq(Frames(masked)), NEW p \in Pieces,
         NEW f, f = Written(p.op, p.n, p.size, masked)
  PROVE  Append(q, f) \in Seq(Frames(masked)) /\ Msgs(Append(q, f)) = Append(Msgs(q), p)
<1> DEFINE m == Msgs(q)  a == Append(q, f)  b == Append(m, p)
<1>1. f \in Frames(masked) /\ Message(f) = p
  BY FrameOf
<1>2. /\ m \in Seq(Pieces) /\ Len(m) = Len(q) /\ Len(q) \in Nat
      /\ \A j \in 1..Len(q) : m[j] = Message(q[j])
  BY MsgsAre
<1>3. /\ a \in Seq(Frames(masked)) /\ Len(a) = Len(q) + 1 /\ a[Len(q) + 1] = f
      /\ \A j \in 1..Len(q) : a[j] = q[j]
  BY <1>1, AppendIs
<1> HIDE DEF m
<1>4. /\ b \in Seq(Pieces) /\ Len(b) = Len(m) + 1 /\ b[Len(m) + 1] = p
      /\ \A j \in 1..Len(m) : b[j] = m[j]
  BY <1>2, AppendIs
<1> HIDE DEF a, b
<1>5. Msgs(a) \in Seq(Pieces) /\ Len(Msgs(a)) = Len(a) /\ \A j \in 1..Len(a) : Msgs(a)[j] = Message(a[j])
  BY <1>3, MsgsAre
<1>6. ASSUME NEW j \in 1..Len(a) PROVE Msgs(a)[j] = b[j]
  <2>1. Msgs(a)[j] = Message(a[j])
    BY <1>5
  <2>2. CASE j \in 1..Len(q)
    BY <1>2, <1>3, <1>4, <2>1, <2>2
  <2>3. CASE j = Len(q) + 1
    BY <1>1, <1>2, <1>3, <1>4, <2>1, <2>3
  <2> QED BY <1>2, <1>3, <2>2, <2>3
<1>7. Msgs(a) = b
  BY <1>2, <1>3, <1>4, <1>5, <1>6, SeqEqual
<1> QED BY <1>3, <1>7 DEF a, b, m

LEMMA MsgsPrefix ==
  ASSUME NEW masked \in BOOLEAN, NEW q \in Seq(Frames(masked)), NEW n \in 0..Len(q)
  PROVE  SubSeq(q, 1, n) \in Seq(Frames(masked)) /\ Msgs(SubSeq(q, 1, n)) = SubSeq(Msgs(q), 1, n)
<1> DEFINE m == Msgs(q)  a == SubSeq(q, 1, n)  b == SubSeq(m, 1, n)
<1>1. /\ m \in Seq(Pieces) /\ Len(m) = Len(q) /\ Len(q) \in Nat
      /\ \A j \in 1..Len(q) : m[j] = Message(q[j])
  BY MsgsAre
<1>2. a \in Seq(Frames(masked)) /\ Len(a) = n /\ \A j \in 1..n : a[j] = q[j]
  BY PrefixIs
<1> HIDE DEF m
<1>3. b \in Seq(Pieces) /\ Len(b) = n /\ \A j \in 1..n : b[j] = m[j]
  BY <1>1, PrefixIs
<1> HIDE DEF a, b
<1>4. Msgs(a) \in Seq(Pieces) /\ Len(Msgs(a)) = Len(a) /\ \A j \in 1..Len(a) : Msgs(a)[j] = Message(a[j])
  BY <1>2, MsgsAre
<1>5. \A j \in 1..Len(a) : Msgs(a)[j] = b[j]
  BY <1>1, <1>2, <1>3, <1>4
<1>6. Msgs(a) = b
  BY <1>2, <1>3, <1>4, <1>5, SeqEqual
<1> QED BY <1>2, <1>6 DEF a, b, m

LEMMA MsgsEmpty == Msgs(<<>>) = <<>>
<1>1. <<>> \in Seq(Frames(TRUE)) /\ Len(<<>>) = 0
  OBVIOUS
<1>2. Msgs(<<>>) \in Seq(Pieces) /\ Len(Msgs(<<>>)) = 0
  BY <1>1, MsgsAre
<1> QED BY <1>2

\* The read-ahead and the connection it was read from.
LEMMA RestTail ==
  ASSUME NEW S, NEW b \in Seq(S), NEW a \in Seq(S)
  PROVE  /\ b # <<>> => Tail(b) \o a = Tail(b \o a) /\ Head(b) = (b \o a)[1] /\ b \o a # <<>>
         /\ b = <<>> => b \o a = a
         /\ \A n \in 0..Len(a) : b \o SubSeq(a, 1, n) = SubSeq(b \o a, 1, Len(b) + n)
                                 /\ Len(b) + n \in 0..Len(b \o a)
         /\ b \o a \in Seq(S)
         /\ \A j \in 1..Len(b \o a) : (b \o a)[j] = IF j <= Len(b) THEN b[j] ELSE a[j - Len(b)]
OBVIOUS

LEMMA RestAppend ==
  ASSUME NEW S, NEW b \in Seq(S), NEW a \in Seq(S), NEW m \in S
  PROVE  b \o Append(a, m) = Append(b \o a, m)
OBVIOUS

-----------------------------------------------------------------------------
(* The invariant.                                                           *)

StatesOK ==
  /\ client \in {"waiting", "open", "refused", "left", "dropped"}
  /\ stub \in {"dial", "await", "relay", "copy", "done"}
  /\ worker \in {"idle", "start", "dial", "await", "relay", "copy", "done"}
  /\ backend \in {"idle", "asked", "open", "refusing", "closed", "dropped"}
  /\ headers \subseteq HopByHop \cup {"Sec-WebSocket-Accept"}
  /\ broken \subseteq {"client", "tunnel", "backend", "cut"}

\* What each queue may hold.
Datas        == {p \in Pieces : p.op = "data"}
OutPieces    == {p \in Pieces : p.op \in {"switch", "refusal", "data"}}
AnswerPieces == {p \in Pieces : p.op \in {"switch", "refusal", "data", "last"}}
UpFrames     == {f \in Frames(TRUE) : f.op \in {"start", "end", "data"}}
DownFrames   == {f \in Frames(FALSE) : f.op \in {"switch", "refusal", "data", "close"}}

QueuesOK ==
  /\ cin \in Seq(Datas) /\ conn \in Seq(Datas) /\ cout \in Seq(OutPieces)
  /\ br \in Seq(AnswerPieces) /\ answer \in Seq(AnswerPieces)
  /\ up \in Seq(UpFrames) /\ down \in Seq(DownFrames)
WordsOK ==
  /\ upSaid \in Seq(Datas) /\ upHeard \in Seq(Datas)
  /\ downSaid \in Seq(Datas) /\ downHeard \in Seq(Datas)
BoundsOK ==
  /\ Len(cin) <= Capacity /\ Len(cout) <= Capacity /\ Len(conn) <= Capacity
  /\ Len(answer) <= Capacity /\ Len(up) <= Capacity /\ Len(down) <= Capacity
  /\ Len(upSaid) <= MaxSaid /\ Len(downSaid) <= MaxSaid

\* What each process has not been told of yet, and the place of the heads.
ControlOK ==
  /\ stub = "dial" => worker = "idle" /\ up = <<>>
  /\ stub \in {"dial", "await"} => cout = <<>> /\ (down # <<>> => Head(down).op \in Opens)
  /\ worker \in {"idle", "start", "dial", "await"} =>
       down = <<>> /\ cout = <<>> /\ downHeard = <<>>
  /\ worker \in {"idle", "start", "dial"} => backend = "idle" /\ downSaid = <<>>
  /\ backend \in {"idle", "asked"} =>
       worker \notin {"relay", "copy"} /\ br = <<>> /\ answer = <<>>
  /\ worker = "await" =>
       br = <<>> /\ \A j \in 1..Len(answer) : answer[j].op \in Opens <=> j = 1
  /\ worker \in {"relay", "copy"} =>
       /\ \A j \in 1..Len(br) : br[j].op \notin Opens
       /\ \A j \in 1..Len(answer) : answer[j].op \notin Opens
  /\ stub = "await" /\ worker \in {"relay", "copy"} /\ "tunnel" \notin broken => down # <<>>
  /\ worker = "await" /\ backend \in {"open", "refusing"} /\ "backend" \notin broken =>
       answer # <<>>

\* The links nothing will be passed over any more.
UpCut ==
  {i \in 1..3 : \/ i = 1 /\ (worker = "done" \/ "backend" \in broken)
                \/ i = 2 /\ (stub = "done" \/ "tunnel" \in broken)
                \/ i = 3 /\ (ClientGone \/ "client" \in broken)}
DownCut ==
  {i \in 1..3 : \/ i = 1 /\ (stub = "done" \/ "client" \in broken)
                \/ i = 2 /\ (worker = "done" \/ "tunnel" \in broken)
                \/ i = 3 /\ (BackendGone \/ "backend" \in broken)}

UpFlow   == Flow(upSaid, upHeard, conn, Msgs(up), cin, UpCut)
DownFlow == Flow(downSaid, downHeard, cout, Msgs(down), br \o answer, DownCut)

CarryInv == StatesOK /\ QueuesOK /\ WordsOK /\ BoundsOK /\ ControlOK /\ UpFlow /\ DownFlow

-----------------------------------------------------------------------------
(* What the actions write.                                                  *)

LEMMA SmallSize ==
  /\ ReadBuffer \in Nat /\ MaxLength \in Nat /\ ReadBuffer <= MaxLength
  /\ 0 \in 0..MaxLength /\ 22 \in 0..MaxLength
  /\ RequestHead \in 0..MaxLength /\ ResponseHead \in 0..MaxLength
<1>1. ReadBuffer \in Nat /\ MaxLength \in Nat /\ ReadBuffer <= MaxLength /\ 22 <= MaxLength
  BY SMT DEF MaxLength, ReadBuffer
<1> QED BY <1>1, SizesAssumption, SMT

LEMMA SaidSize ==
  ASSUME NEW size \in Sizes
  PROVE  size \in 0..MaxLength
BY SizesAssumption, SmallSize, SMT

LEMMA PieceIs ==
  ASSUME NEW op \in Ops, NEW n \in Nat, NEW size \in 0..MaxLength
  PROVE  /\ Piece(op, n, size) \in Pieces /\ Piece(op, n, size).op = op
         /\ Piece(op, n, size).n = n /\ Piece(op, n, size).size = size
BY DEF Piece, Pieces

LEMMA WrittenIs ==
  ASSUME NEW op \in Ops, NEW n \in Nat, NEW size \in 0..MaxLength, NEW masked \in BOOLEAN
  PROVE  /\ Written(op, n, size, masked) \in Frames(masked)
         /\ Written(op, n, size, masked).op = op
         /\ Message(Written(op, n, size, masked)) = Piece(op, n, size)
<1> DEFINE p == Piece(op, n, size)
<1>1. p \in Pieces /\ p.op = op /\ p.n = n /\ p.size = size
  BY PieceIs
<1> HIDE DEF p
<1>2. Written(op, n, size, masked) = Written(p.op, p.n, p.size, masked)
  BY <1>1
<1>3. Written(op, n, size, masked).op = op
  BY DEF Written
<1> QED BY <1>1, <1>2, <1>3, FrameOf DEF p

LEMMA Kinds ==
  /\ Datas \subseteq Pieces /\ OutPieces \subseteq Pieces /\ AnswerPieces \subseteq Pieces
  /\ Datas \subseteq OutPieces /\ Datas \subseteq AnswerPieces
  /\ UpFrames \subseteq Frames(TRUE) /\ DownFrames \subseteq Frames(FALSE)
BY DEF Datas, OutPieces, AnswerPieces, UpFrames, DownFrames

\* The heads and ends as they are written.
LEMMA Fixed ==
  /\ Written("start", 0, RequestHead, TRUE) \in UpFrames
  /\ Written("start", 0, RequestHead, TRUE).op = "start"
  /\ Written("end", 0, 22, TRUE) \in UpFrames
  /\ Written("end", 0, 22, TRUE).op = "end"
  /\ Written("refusal", 0, ResponseHead, FALSE) \in DownFrames
  /\ Written("refusal", 0, ResponseHead, FALSE).op = "refusal"
  /\ Written("switch", 0, ResponseHead, FALSE) \in DownFrames
  /\ Written("switch", 0, ResponseHead, FALSE).op = "switch"
  /\ Written("close", 0, 0, FALSE) \in DownFrames
  /\ Written("close", 0, 0, FALSE).op = "close"
  /\ Message(Written("close", 0, 0, FALSE)) = Piece("close", 0, 0)
  /\ Piece("switch", 0, ResponseHead) \in AnswerPieces
  /\ Piece("switch", 0, ResponseHead).op = "switch"
  /\ Piece("refusal", 0, ResponseHead) \in AnswerPieces
  /\ Piece("refusal", 0, ResponseHead).op = "refusal"
  /\ Piece("last", 0, 0) \in AnswerPieces /\ Piece("last", 0, 0).op = "last"
  /\ Piece("close", 0, 0) \in Pieces /\ Piece("close", 0, 0).op = "close"
<1>1. /\ "start" \in Ops /\ "end" \in Ops /\ "switch" \in Ops /\ "refusal" \in Ops
      /\ "close" \in Ops /\ "last" \in Ops /\ 0 \in Nat
  BY DEF Ops
<1>2. /\ Written("start", 0, RequestHead, TRUE) \in Frames(TRUE)
      /\ Written("start", 0, RequestHead, TRUE).op = "start"
  BY <1>1, SmallSize, WrittenIs
<1>3. Written("end", 0, 22, TRUE) \in Frames(TRUE) /\ Written("end", 0, 22, TRUE).op = "end"
  BY <1>1, SmallSize, WrittenIs
<1>4. /\ Written("refusal", 0, ResponseHead, FALSE) \in Frames(FALSE)
      /\ Written("refusal", 0, ResponseHead, FALSE).op = "refusal"
  BY <1>1, SmallSize, WrittenIs
<1>5. /\ Written("switch", 0, ResponseHead, FALSE) \in Frames(FALSE)
      /\ Written("switch", 0, ResponseHead, FALSE).op = "switch"
  BY <1>1, SmallSize, WrittenIs
<1>6. /\ Written("close", 0, 0, FALSE) \in Frames(FALSE) /\ Written("close", 0, 0, FALSE).op = "close"
      /\ Message(Written("close", 0, 0, FALSE)) = Piece("close", 0, 0)
  <2>1. "close" \in Ops /\ 0 \in Nat /\ 0 \in 0..MaxLength
    BY <1>1, SmallSize
  <2>2. \A op \in Ops, n \in Nat, size \in 0..MaxLength :
          /\ Written(op, n, size, FALSE) \in Frames(FALSE)
          /\ Written(op, n, size, FALSE).op = op
          /\ Message(Written(op, n, size, FALSE)) = Piece(op, n, size)
    BY WrittenIs
  <2> QED BY <2>1, <2>2, Zenon
<1>7. /\ Piece("switch", 0, ResponseHead) \in Pieces /\ Piece("switch", 0, ResponseHead).op = "switch"
      /\ Piece("refusal", 0, ResponseHead) \in Pieces /\ Piece("refusal", 0, ResponseHead).op = "refusal"
  BY <1>1, SmallSize, PieceIs
<1>8. /\ Piece("last", 0, 0) \in Pieces /\ Piece("last", 0, 0).op = "last"
      /\ Piece("close", 0, 0) \in Pieces /\ Piece("close", 0, 0).op = "close"
  BY <1>1, SmallSize, PieceIs
<1> QED BY <1>2, <1>3, <1>4, <1>5, <1>6, <1>7, <1>8 DEF UpFrames, DownFrames, AnswerPieces

\* A piece of data, newly said, ...
LEMMA SaidIs ==
  ASSUME NEW n \in Nat, NEW size \in Sizes
  PROVE  /\ Piece("data", n, size) \in Datas
         /\ Written("data", n, size, FALSE) \in DownFrames
         /\ Written("data", n, size, FALSE).op = "data"
         /\ Message(Written("data", n, size, FALSE)) = Piece("data", n, size)
<1>1. "data" \in Ops /\ size \in 0..MaxLength
  BY SaidSize DEF Ops
<1>2. Piece("data", n, size) \in Pieces /\ Piece("data", n, size).op = "data"
  BY <1>1, PieceIs
<1>3. /\ Written("data", n, size, FALSE) \in Frames(FALSE)
      /\ Written("data", n, size, FALSE).op = "data"
      /\ Message(Written("data", n, size, FALSE)) = Piece("data", n, size)
  BY <1>1, WrittenIs
<1> QED BY <1>2, <1>3 DEF Datas, DownFrames

\* ... and one that is passed on.
LEMMA PassedIs ==
  ASSUME NEW p \in Datas
  PROVE  /\ p \in Pieces /\ p.op = "data"
         /\ Written("data", p.n, p.size, TRUE) \in UpFrames
         /\ Written("data", p.n, p.size, FALSE) \in DownFrames
         /\ Written("data", p.n, p.size, TRUE) = Written(p.op, p.n, p.size, TRUE)
         /\ Written("data", p.n, p.size, FALSE) = Written(p.op, p.n, p.size, FALSE)
<1>1. p \in Pieces /\ p.op = "data"
  BY DEF Datas
<1>2. /\ Written(p.op, p.n, p.size, TRUE) \in Frames(TRUE)
      /\ Written(p.op, p.n, p.size, FALSE) \in Frames(FALSE)
  BY <1>1, FrameOf
<1>3. Written("data", p.n, p.size, TRUE).op = "data" /\ Written("data", p.n, p.size, FALSE).op = "data"
  BY DEF Written
<1> QED BY <1>1, <1>2, <1>3 DEF UpFrames, DownFrames

LEMMA ReadIs ==
  /\ \A f \in UpFrames :
       /\ Message(f) \in Pieces /\ Message(f).op = f.op /\ f.op \in {"start", "end", "data"}
       /\ f.op = "data" => Message(f) \in Datas
  /\ \A f \in DownFrames :
       /\ Message(f) \in Pieces /\ Message(f).op = f.op
       /\ f.op \in {"switch", "refusal", "data", "close"}
       /\ f.op = "data" => Message(f) \in Datas
<1>1. ASSUME NEW f \in UpFrames PROVE Message(f) \in Pieces /\ Message(f).op = f.op
  BY <1>1, MessageIs DEF UpFrames
<1>2. ASSUME NEW f \in DownFrames PROVE Message(f) \in Pieces /\ Message(f).op = f.op
  BY <1>2, MessageIs DEF DownFrames
<1> QED BY <1>1, <1>2 DEF UpFrames, DownFrames, Datas

LEMMA PrefixOf ==
  ASSUME NEW S, NEW q \in Seq(S), NEW p \in Prefixes(q)
  PROVE  p \in Seq(S) /\ \E n \in 0..Len(q) : p = SubSeq(q, 1, n) /\ Len(p) = n /\ Len(q) \in Nat
<1>1. PICK n \in 0..Len(q) : p = SubSeq(q, 1, n)
  BY DEF Prefixes
<1> QED BY <1>1, PrefixIs

\* One frame is written (Write with one frame).
LEMMA WriteOne ==
  ASSUME NEW m, NEW next, Write(<<m>>, next), NEW S, down \in Seq(S), m \in S
  PROVE  \/ /\ "tunnel" \notin broken /\ Len(down) + 1 <= Capacity
            /\ down' = Append(down, m) /\ worker' = next
         \/ "tunnel" \in broken /\ worker' = "done" /\ down' = down
<1>1. Len(<<m>>) = 1 /\ down \o <<m>> = Append(down, m)
  OBVIOUS
<1> QED BY <1>1 DEF Write

-----------------------------------------------------------------------------
(* Each step keeps the invariant.                                           *)

LEMMA StatesStep ==
  ASSUME StatesOK, Next
  PROVE  StatesOK'
<1> USE DEF StatesOK, words, wire
<1>1. CASE StubOpens
  BY <1>1 DEF StubOpens
<1>2. CASE StubAwaits
  BY <1>2 DEF StubAwaits
<1>3. CASE StubUp
  BY <1>3 DEF StubUp
<1>4. CASE StubDown
  BY <1>4 DEF StubDown
<1>5. CASE WorkerStarts
  BY <1>5 DEF WorkerStarts, Write
<1>6. CASE WorkerDials
  BY <1>6 DEF WorkerDials
<1>7. CASE WorkerAwaits
  BY <1>7 DEF WorkerAwaits, Write, HopByHop
<1>8. CASE WorkerUp
  BY <1>8 DEF WorkerUp
<1>9. CASE WorkerDown
  BY <1>9 DEF WorkerDown, Write
<1>10. CASE Reset
  BY <1>10 DEF Reset, ends, ResetOf
<1>11. CASE ClientSays
  BY <1>11 DEF ClientSays, ends
<1>12. CASE ClientHears
  BY <1>12 DEF ClientHears
<1>13. CASE ClientLeaves
  BY <1>13 DEF ClientLeaves
<1>14. CASE BackendSwitches
  BY <1>14 DEF BackendSwitches, HopByHop
<1>15. CASE BackendRefuses
  BY <1>15 DEF BackendRefuses
<1>16. CASE BackendSays
  BY <1>16 DEF BackendSays, ends
<1>17. CASE BackendHears
  BY <1>17 DEF BackendHears
<1>18. CASE BackendCloses
  BY <1>18 DEF BackendCloses
<1> QED
  BY <1>1, <1>2, <1>3, <1>4, <1>5, <1>6, <1>7, <1>8, <1>9,
     <1>10, <1>11, <1>12, <1>13, <1>14, <1>15, <1>16, <1>17, <1>18 DEF Next, Stub, Worker, Client, Container

\* No cut link is ever mended.
LEMMA CutGrows ==
  ASSUME ControlOK, Next
  PROVE  UpCut \subseteq UpCut' /\ DownCut \subseteq DownCut'
<1> USE DEF words, wire
<1> SUFFICES /\ broken \subseteq broken' /\ (worker = "done" => worker' = "done")
             /\ (stub = "done" => stub' = "done")
             /\ (ClientGone => ClientGone') /\ (BackendGone => BackendGone')
  BY DEF UpCut, DownCut
<1>1. CASE StubOpens
  BY <1>1 DEF StubOpens, ControlOK, ClientGone, BackendGone
<1>2. CASE StubAwaits
  BY <1>2 DEF StubAwaits, ClientGone, BackendGone
<1>3. CASE StubUp
  BY <1>3 DEF StubUp, ClientGone, BackendGone
<1>4. CASE StubDown
  BY <1>4 DEF StubDown, ClientGone, BackendGone
<1>5. CASE WorkerStarts
  BY <1>5 DEF WorkerStarts, Write, ClientGone, BackendGone
<1>6. CASE WorkerDials
  BY <1>6 DEF WorkerDials, ControlOK, ClientGone, BackendGone
<1>7. CASE WorkerAwaits
  BY <1>7 DEF WorkerAwaits, Write, HopByHop, ClientGone, BackendGone
<1>8. CASE WorkerUp
  BY <1>8 DEF WorkerUp, ClientGone, BackendGone
<1>9. CASE WorkerDown
  BY <1>9 DEF WorkerDown, Write, ClientGone, BackendGone
<1>10. CASE Reset
  BY <1>10 DEF Reset, ends, ResetOf, ClientGone, BackendGone
<1>11. CASE ClientSays
  BY <1>11 DEF ClientSays, ends, ClientGone, BackendGone
<1>12. CASE ClientHears
  BY <1>12 DEF ClientHears, ClientGone, BackendGone
<1>13. CASE ClientLeaves
  BY <1>13 DEF ClientLeaves, ClientGone, BackendGone
<1>14. CASE BackendSwitches
  BY <1>14 DEF BackendSwitches, HopByHop, ClientGone, BackendGone
<1>15. CASE BackendRefuses
  BY <1>15 DEF BackendRefuses, ClientGone, BackendGone
<1>16. CASE BackendSays
  BY <1>16 DEF BackendSays, ends, ClientGone, BackendGone
<1>17. CASE BackendHears
  BY <1>17 DEF BackendHears, ClientGone, BackendGone
<1>18. CASE BackendCloses
  BY <1>18 DEF BackendCloses, ClientGone, BackendGone
<1> QED
  BY <1>1, <1>2, <1>3, <1>4, <1>5, <1>6, <1>7, <1>8, <1>9,
     <1>10, <1>11, <1>12, <1>13, <1>14, <1>15, <1>16, <1>17, <1>18 DEF Next, Stub, Worker, Client, Container

LEMMA QueuesStep ==
  ASSUME QueuesOK, WordsOK, BoundsOK, ControlOK, Next
  PROVE  QueuesOK' /\ WordsOK' /\ BoundsOK'
<1> USE DEF QueuesOK, WordsOK, BoundsOK
<1>a. Capacity \in Nat /\ Capacity >= 3 /\ MaxSaid \in Nat /\ MaxSaid >= 1
  BY UpgradeBounds
<1>1. CASE StubOpens
  <2> DEFINE s == Written("start", 0, RequestHead, TRUE)
             e == Written("end", 0, 22, TRUE)
  <2>1. CASE up' = <<s, e>>
    <3>1. s \in UpFrames /\ e \in UpFrames
      BY Fixed
    <3> HIDE DEF s, e
    <3>2. <<s, e>> \in Seq(UpFrames) /\ Len(<<s, e>>) = 2
      BY <3>1
    <3> QED BY <1>1, <1>a, <2>1, <3>2 DEF StubOpens, words
  <2>2. CASE up' = up
    BY <1>1, <2>2 DEF StubOpens, words
  <2> QED BY <1>1, <2>1, <2>2 DEF StubOpens
<1>2. CASE StubAwaits
  <2>1. CASE down # <<>> /\ down' = Tail(down)
    <3> DEFINE m == Message(Head(down))
    <3>1. Tail(down) \in Seq(DownFrames) /\ Len(Tail(down)) <= Capacity /\ Head(down) \in DownFrames
      BY <1>a, <2>1
    <3>2. m \in Pieces /\ m.op \in {"switch", "refusal"}
      <4>1. Head(down).op \in Opens
        BY <1>2, <2>1 DEF StubAwaits, ControlOK
      <4> QED BY <3>1, <4>1, ReadIs DEF Opens
    <3> HIDE DEF m
    <3>3. CASE cout' = Append(cout, Piece(m.op, 0, m.size)) /\ Len(cout) < Capacity
      <4>1. m.op \in Ops /\ 0 \in Nat /\ m.size \in 0..MaxLength
        BY <3>2 DEF Pieces
      <4>2. Piece(m.op, 0, m.size) \in OutPieces
        BY <3>2, <4>1, PieceIs DEF OutPieces
      <4>3. cout' \in Seq(OutPieces) /\ Len(cout') <= Capacity
        BY <1>a, <3>3, <4>2
      <4> QED BY <1>2, <2>1, <3>1, <4>3 DEF StubAwaits, words
    <3>4. CASE cout' = cout
      BY <1>2, <2>1, <3>1, <3>4 DEF StubAwaits, words
    <3> QED BY <1>2, <2>1, <3>3, <3>4 DEF StubAwaits, Ok, DownEnds, m
  <2>2. CASE down' = down /\ cout' = cout
    BY <1>2, <2>2 DEF StubAwaits, words
  <2> QED BY <1>2, <2>1, <2>2 DEF StubAwaits
<1>3. CASE StubUp
  <2>1. CASE cin # <<>> /\ cin' = Tail(cin)
    <3> DEFINE p == Head(cin)
               f == Written("data", p.n, p.size, TRUE)
    <3>1. Tail(cin) \in Seq(Datas) /\ Len(Tail(cin)) <= Capacity /\ p \in Datas
      BY <1>a, <2>1
    <3>2. CASE up' = Append(up, f) /\ Len(up) < Capacity
      <4>1. f \in UpFrames
        <5> HIDE DEF p
        <5> QED BY <3>1, PassedIs
      <4> HIDE DEF f
      <4>2. up' \in Seq(UpFrames) /\ Len(up') <= Capacity
        BY <1>a, <3>2, <4>1
      <4> QED BY <1>3, <2>1, <3>1, <4>2 DEF StubUp, words
    <3>3. CASE up' = up
      BY <1>3, <2>1, <3>1, <3>3 DEF StubUp, words
    <3> QED BY <1>3, <2>1, <3>2, <3>3 DEF StubUp, Ok
  <2>2. CASE cin' = cin /\ up' = up
    BY <1>3, <2>2 DEF StubUp, words
  <2> QED BY <1>3, <2>1, <2>2 DEF StubUp
<1>4. CASE StubDown
  <2>1. CASE down # <<>> /\ down' = Tail(down)
    <3> DEFINE m == Message(Head(down))
    <3>1. Tail(down) \in Seq(DownFrames) /\ Len(Tail(down)) <= Capacity /\ Head(down) \in DownFrames
      BY <1>a, <2>1
    <3>2. m.op = "data" => m \in OutPieces
      BY <3>1, ReadIs, Kinds
    <3> HIDE DEF m
    <3>3. CASE cout' = Append(cout, m) /\ m.op = "data" /\ Len(cout) < Capacity
      <4>1. cout' \in Seq(OutPieces) /\ Len(cout') <= Capacity
        BY <1>a, <3>2, <3>3
      <4> QED BY <1>4, <2>1, <3>1, <4>1 DEF StubDown, words
    <3>4. CASE cout' = cout
      BY <1>4, <2>1, <3>1, <3>4 DEF StubDown, words
    <3> QED BY <1>4, <2>1, <3>3, <3>4 DEF StubDown, Ok, DownEnds, m
  <2>2. CASE down' = down /\ cout' = cout
    BY <1>4, <2>2 DEF StubDown, words
  <2> QED BY <1>4, <2>1, <2>2 DEF StubDown
<1>5. CASE WorkerStarts
  <2>1. up' = up \/ (up # <<>> /\ up' = Tail(up))
    BY <1>5 DEF WorkerStarts
  <2>2. /\ up' \in Seq(UpFrames) /\ Len(up') <= Capacity
        /\ UNCHANGED <<upSaid, upHeard, downHeard, cin, cout, br, conn, answer>>
    <3>1. CASE up' = up
      BY <1>5, <3>1 DEF WorkerStarts
    <3>2. CASE up # <<>> /\ up' = Tail(up)
      <4>1. up' \in Seq(UpFrames) /\ Len(up') <= Capacity
        BY <1>a, <3>2
      <4> QED BY <1>5, <4>1 DEF WorkerStarts
    <3> QED BY <2>1, <3>1, <3>2
  <2>3. CASE down' = down /\ downSaid' = downSaid
    BY <2>2, <2>3
  <2>4. CASE \E s \in Sizes :
               /\ Write(<<Written("refusal", 0, ResponseHead, FALSE), Written("data", 1, s, FALSE),
                          Written("close", 0, 0, FALSE)>>, "done")
               /\ downSaid' = <<Piece("data", 1, s)>>
    <3> PICK s \in Sizes :
               /\ Write(<<Written("refusal", 0, ResponseHead, FALSE), Written("data", 1, s, FALSE),
                          Written("close", 0, 0, FALSE)>>, "done")
               /\ downSaid' = <<Piece("data", 1, s)>>
      BY <2>4
    <3> DEFINE o == Written("refusal", 0, ResponseHead, FALSE)
               d == Written("data", 1, s, FALSE)
               e == Written("close", 0, 0, FALSE)
               m == Piece("data", 1, s)
    <3>1. o \in DownFrames /\ d \in DownFrames /\ e \in DownFrames /\ m \in Datas
      BY Fixed, SaidIs
    <3>2. Write(<<o, d, e>>, "done") /\ downSaid' = <<m>> /\ down = <<>>
      BY <1>5 DEF WorkerStarts, ControlOK
    <3> HIDE DEF o, d, e, m
    <3>3. down' = <<o, d, e>> \/ down' = down
      BY <3>2 DEF Write
    <3>4. <<o, d, e>> \in Seq(DownFrames) /\ Len(<<o, d, e>>) = 3
      BY <3>1
    <3>5. <<m>> \in Seq(Datas) /\ Len(<<m>>) = 1
      BY <3>1
    <3>6. down' \in Seq(DownFrames) /\ Len(down') <= Capacity
      BY <1>a, <3>3, <3>4
    <3> QED BY <1>a, <2>2, <3>2, <3>5, <3>6
  <2> QED BY <1>5, <2>3, <2>4 DEF WorkerStarts
<1>6. CASE WorkerDials
  BY <1>6 DEF WorkerDials, words, wire
<1>7. CASE WorkerAwaits
  <2>1. CASE answer # <<>>
    <3>1. PICK n \in 0..Len(Tail(answer)) :
            /\ br' = SubSeq(answer, 2, n + 1)
            /\ answer' = SubSeq(answer, n + 2, Len(answer))
      BY <1>7, <2>1, Zenon DEF WorkerAwaits, AnswerEnds
    <3>2. Head(answer) \in AnswerPieces /\ Head(answer).op \in {"switch", "refusal"}
      <4>1. Head(answer).op \in Opens /\ Head(answer) \in AnswerPieces
        BY <1>7, <2>1 DEF WorkerAwaits, ControlOK
      <4> QED BY <4>1 DEF Opens, AnswerPieces
    <3>3. Len(answer) \in Nat \ {0} /\ Len(Tail(answer)) = Len(answer) - 1
      BY <2>1
    <3>4. br' \in Seq(AnswerPieces) /\ answer' \in Seq(AnswerPieces) /\ Len(answer') <= Capacity
      BY <1>a, <3>1, <3>3
    <3> DEFINE f == Written(Head(answer).op, 0, ResponseHead, FALSE)
    <3>5. f \in DownFrames
      BY <3>2, Fixed
    <3>6. PICK next : Write(<<f>>, next)
      BY <1>7, <2>1 DEF WorkerAwaits, AnswerEnds
    <3> HIDE DEF f
    <3>7. (Len(down) + 1 <= Capacity /\ down' = Append(down, f)) \/ down' = down
      BY <3>5, <3>6, WriteOne
    <3>8. down' \in Seq(DownFrames) /\ Len(down') <= Capacity
      <4>1. CASE Len(down) + 1 <= Capacity /\ down' = Append(down, f)
        BY <1>a, <3>5, <4>1, AppendIs
      <4>2. CASE down' = down
        BY <4>2
      <4> QED BY <3>7, <4>1, <4>2
    <3> QED BY <1>7, <3>4, <3>8 DEF WorkerAwaits, words
  <2>2. CASE answer = <<>>
    BY <1>7, <2>2 DEF WorkerAwaits, words
  <2> QED BY <2>1, <2>2
<1>8. CASE WorkerUp
  <2>1. CASE up # <<>> /\ up' = Tail(up)
    <3> DEFINE m == Message(Head(up))
    <3>1. Tail(up) \in Seq(UpFrames) /\ Len(Tail(up)) <= Capacity /\ Head(up) \in UpFrames
      BY <1>a, <2>1
    <3>2. m.op = "data" => m \in Datas
      BY <3>1, ReadIs
    <3> HIDE DEF m
    <3>3. CASE conn' = Append(conn, m) /\ m.op = "data" /\ Len(conn) < Capacity
      <4>1. conn' \in Seq(Datas) /\ Len(conn') <= Capacity
        BY <1>a, <3>2, <3>3
      <4> QED BY <1>8, <2>1, <3>1, <4>1 DEF WorkerUp, words
    <3>4. CASE conn' = conn
      BY <1>8, <2>1, <3>1, <3>4 DEF WorkerUp, words
    <3> QED BY <1>8, <2>1, <3>3, <3>4 DEF WorkerUp, Ok, UpEnds, m
  <2>2. CASE up' = up /\ conn' = conn
    BY <1>8, <2>2 DEF WorkerUp, words
  <2> QED BY <1>8, <2>1, <2>2 DEF WorkerUp
<1>9. CASE WorkerDown
  <2>1. CASE Rest # <<>>
    <3> DEFINE p == Head(Rest)
               c == Written("close", 0, 0, FALSE)
               d == Written("data", p.n, p.size, FALSE)
    <3>1. Rest \in Seq(AnswerPieces) /\ p \in AnswerPieces /\ (Rest = br \/ Rest = answer)
      BY <2>1 DEF Rest
    <3>2. /\ IF p.op = "last" THEN Write(<<c>>, "done") ELSE Write(<<d>>, worker)
          /\ IF Rest = br THEN br' = Tail(br) /\ UNCHANGED answer
             ELSE answer' = Tail(answer) /\ UNCHANGED br
      BY <1>9, <2>1 DEF WorkerDown, Rest, AnswerEnds
    <3>3. br' \in Seq(AnswerPieces) /\ answer' \in Seq(AnswerPieces) /\ Len(answer') <= Capacity
      <4>1. CASE Rest = br
        <5>1. br # <<>> /\ br' = Tail(br) /\ answer' = answer
          BY <2>1, <3>2, <4>1
        <5> QED BY <5>1
      <4>2. CASE Rest # br
        <5>1. answer # <<>> /\ answer' = Tail(answer) /\ br' = br
          BY <2>1, <3>1, <3>2, <4>2
        <5>2. Len(answer') = Len(answer) - 1 /\ Len(answer) \in Nat
          BY <5>1
        <5> QED BY <1>a, <5>1, <5>2
      <4> QED BY <4>1, <4>2
    <3>4. c \in DownFrames
      BY Fixed
    <3>5. p.op # "last" => d \in DownFrames
      <4>1. p.op \notin Opens
        BY <1>9, <2>1 DEF WorkerDown, Rest, ControlOK
      <4> HIDE DEF p
      <4>2. p.op # "last" => p \in Datas
        BY <3>1, <4>1 DEF AnswerPieces, Datas, Opens
      <4> QED BY <4>2, PassedIs
    <3> HIDE DEF c, d, p
    <3>6. \E f \in DownFrames : (Len(down) + 1 <= Capacity /\ down' = Append(down, f)) \/ down' = down
      BY <3>2, <3>4, <3>5, WriteOne
    <3>7. down' \in Seq(DownFrames) /\ Len(down') <= Capacity
      <4> PICK f \in DownFrames : (Len(down) + 1 <= Capacity /\ down' = Append(down, f)) \/ down' = down
        BY <3>6
      <4>1. CASE Len(down) + 1 <= Capacity /\ down' = Append(down, f)
        BY <1>a, <4>1, AppendIs
      <4>2. CASE down' = down
        BY <4>2
      <4> QED BY <4>1, <4>2
    <3> QED BY <1>9, <3>3, <3>7 DEF WorkerDown, words
  <2>2. CASE Rest = <<>>
    BY <1>9, <2>2 DEF WorkerDown, words
  <2> QED BY <2>1, <2>2
<1>10. CASE Reset
  <2>1. CASE cin' \in Prefixes(cin) /\ cout' \in Prefixes(cout) /\ UNCHANGED <<up, down, conn, answer>>
    <3>1. cin' \in Seq(Datas) /\ Len(cin') <= Capacity
      BY <1>a, <2>1, PrefixOf
    <3>2. cout' \in Seq(OutPieces) /\ Len(cout') <= Capacity
      BY <1>a, <2>1, PrefixOf
    <3> QED BY <1>10, <2>1, <3>1, <3>2 DEF Reset, words, ends
  <2>2. CASE up' \in Prefixes(up) /\ down' \in Prefixes(down) /\ UNCHANGED <<cin, cout, conn, answer>>
    <3>1. up' \in Seq(UpFrames) /\ Len(up') <= Capacity
      BY <1>a, <2>2, PrefixOf
    <3>2. down' \in Seq(DownFrames) /\ Len(down') <= Capacity
      BY <1>a, <2>2, PrefixOf
    <3> QED BY <1>10, <2>2, <3>1, <3>2 DEF Reset, words, ends
  <2>3. CASE conn' \in Prefixes(conn) /\ answer' \in Prefixes(answer) /\ UNCHANGED <<cin, cout, up, down>>
    <3>1. conn' \in Seq(Datas) /\ Len(conn') <= Capacity
      BY <1>a, <2>3, PrefixOf
    <3>2. answer' \in Seq(AnswerPieces) /\ Len(answer') <= Capacity
      BY <1>a, <2>3, PrefixOf
    <3> QED BY <1>10, <2>3, <3>1, <3>2 DEF Reset, words, ends
  <2> QED BY <1>10, <2>1, <2>2, <2>3 DEF Reset
<1>11. CASE ClientSays
  <2>1. PICK s \in Sizes : /\ cin' = Append(cin, Piece("data", Len(upSaid) + 1, s))
                           /\ upSaid' = Append(upSaid, Piece("data", Len(upSaid) + 1, s))
    BY <1>11 DEF ClientSays
  <2> DEFINE m == Piece("data", Len(upSaid) + 1, s)
  <2>2. m \in Datas
    <3>1. Len(upSaid) + 1 \in Nat
      OBVIOUS
    <3> QED BY <3>1, SaidIs
  <2> HIDE DEF m
  <2>3. cin' = Append(cin, m) /\ upSaid' = Append(upSaid, m)
    BY <2>1 DEF m
  <2>4. cin' \in Seq(Datas) /\ Len(cin') <= Capacity /\ upSaid' \in Seq(Datas) /\ Len(upSaid') <= MaxSaid
    BY <1>11, <1>a, <2>2, <2>3 DEF ClientSays, Ok
  <2> QED BY <1>11, <2>4 DEF ClientSays, ends
<1>12. CASE ClientHears
  <2>1. CASE cout # <<>>
    <3>1. Tail(cout) \in Seq(OutPieces) /\ Len(Tail(cout)) <= Capacity /\ Head(cout) \in OutPieces
      BY <1>a, <2>1
    <3>2. cout' = Tail(cout) /\ UNCHANGED <<upSaid, upHeard, downSaid, cin, up, down, br, conn, answer>>
      BY <1>12, <2>1 DEF ClientHears
    <3>3. CASE downHeard' = downHeard
      BY <3>1, <3>2, <3>3
    <3>4. CASE downHeard' = Append(downHeard, Head(cout)) /\ Head(cout).op \notin {"switch", "refusal"}
      <4>1. Head(cout) \in Datas
        BY <3>1, <3>4 DEF OutPieces, Datas
      <4>2. downHeard' \in Seq(Datas)
        BY <3>4, <4>1
      <4> QED BY <3>1, <3>2, <4>2
    <3> QED BY <1>12, <2>1, <3>3, <3>4 DEF ClientHears
  <2>2. CASE cout = <<>>
    BY <1>12, <2>2 DEF ClientHears
  <2> QED BY <2>1, <2>2
<1>13. CASE ClientLeaves
  BY <1>13 DEF ClientLeaves, words, wire
<1>14. CASE BackendSwitches
  <2> DEFINE m == Piece("switch", 0, ResponseHead)
  <2>1. m \in AnswerPieces
    BY Fixed
  <2>2. answer' = <<m>>
    BY <1>14 DEF BackendSwitches
  <2> HIDE DEF m
  <2>3. answer' \in Seq(AnswerPieces) /\ Len(answer') <= Capacity
    BY <1>a, <2>1, <2>2
  <2> QED BY <1>14, <2>3 DEF BackendSwitches, words
<1>15. CASE BackendRefuses
  <2> DEFINE m == Piece("refusal", 0, ResponseHead)
             e == Piece("last", 0, 0)
  <2>1. m \in AnswerPieces /\ e \in AnswerPieces
    BY Fixed
  <2>2. answer' = <<m>> \/ (answer' = Append(answer, e) /\ Len(answer) < Capacity)
    BY <1>15 DEF BackendRefuses, Ok
  <2> HIDE DEF m, e
  <2>3. answer' \in Seq(AnswerPieces) /\ Len(answer') <= Capacity
    <3>1. CASE answer' = <<m>>
      BY <1>a, <2>1, <3>1
    <3>2. CASE answer' = Append(answer, e) /\ Len(answer) < Capacity
      BY <1>a, <2>1, <3>2, AppendIs
    <3> QED BY <2>2, <3>1, <3>2
  <2> QED BY <1>15, <2>3 DEF BackendRefuses, words
<1>16. CASE BackendSays
  <2>1. PICK s \in Sizes : /\ answer' = Append(answer, Piece("data", Len(downSaid) + 1, s))
                           /\ downSaid' = Append(downSaid, Piece("data", Len(downSaid) + 1, s))
    BY <1>16 DEF BackendSays
  <2> DEFINE m == Piece("data", Len(downSaid) + 1, s)
  <2>2. m \in Datas /\ m \in AnswerPieces
    <3>1. Len(downSaid) + 1 \in Nat
      OBVIOUS
    <3> QED BY <3>1, SaidIs, Kinds
  <2> HIDE DEF m
  <2>3. answer' = Append(answer, m) /\ downSaid' = Append(downSaid, m)
    BY <2>1 DEF m
  <2>4. answer' \in Seq(AnswerPieces) /\ Len(answer') <= Capacity
    BY <1>16, <1>a, <2>2, <2>3 DEF BackendSays, Ok
  <2>5. downSaid' \in Seq(Datas) /\ Len(downSaid') <= MaxSaid
    BY <1>16, <1>a, <2>2, <2>3 DEF BackendSays
  <2> QED BY <1>16, <2>4, <2>5 DEF BackendSays, ends
<1>17. CASE BackendHears
  <2>1. CASE conn # <<>> /\ conn' = Tail(conn) /\ upHeard' = Append(upHeard, Head(conn))
    <3>1. /\ conn' \in Seq(Datas) /\ Len(conn') <= Capacity
          /\ upHeard' \in Seq(Datas)
      BY <1>a, <2>1
    <3> QED BY <1>17, <3>1 DEF BackendHears
  <2>2. CASE UNCHANGED <<conn, upHeard>>
    BY <1>17, <2>2 DEF BackendHears
  <2> QED BY <1>17, <2>1, <2>2 DEF BackendHears
<1>18. CASE BackendCloses
  BY <1>18 DEF BackendCloses, words, wire
<1> QED
  BY <1>1, <1>2, <1>3, <1>4, <1>5, <1>6, <1>7, <1>8, <1>9,
     <1>10, <1>11, <1>12, <1>13, <1>14, <1>15, <1>16, <1>17, <1>18
     DEF Next, Stub, Worker, Client, Container

\* What ReadResponse reads past the head, and what it leaves.
LEMMA SplitIs ==
  ASSUME NEW S, NEW q \in Seq(S), Len(q) \in Nat \ {0}, NEW n \in 0..Len(q) - 1
  PROVE  /\ Len(SubSeq(q, 2, n + 1)) = n
         /\ \A j \in 1..n : SubSeq(q, 2, n + 1)[j] = q[j + 1]
         /\ Len(SubSeq(q, n + 2, Len(q))) = Len(q) - 1 - n
         /\ \A j \in 1..Len(q) - 1 - n : SubSeq(q, n + 2, Len(q))[j] = q[j + n + 1]
<1> DEFINE b == SubSeq(q, 2, n + 1)  a == SubSeq(q, n + 2, Len(q))
<1>1. Len(b) = n /\ \A j \in 1..n : b[j] = q[j + 1]
  OBVIOUS
<1>2. Len(a) = Len(q) - 1 - n
  OBVIOUS
<1>3. ASSUME NEW j \in 1..Len(q) - 1 - n PROVE a[j] = q[j + n + 1]
  <2>1. a[j] = q[(n + 2) + j - 1] /\ (n + 2) + j - 1 = j + n + 1
    OBVIOUS
  <2> QED BY <2>1
<1> QED BY <1>1, <1>2, <1>3

LEMMA ControlStep ==
  ASSUME StatesOK, QueuesOK, WordsOK, ControlOK, Next
  PROVE  ControlOK'
<1> USE DEF ControlOK
<1>1. CASE StubOpens
  BY <1>1 DEF StubOpens, words
<1>2. CASE StubAwaits
  BY <1>2 DEF StubAwaits, words
<1>3. CASE StubUp
  BY <1>3 DEF StubUp, words
<1>4. CASE StubDown
  BY <1>4 DEF StubDown, words
<1>5. CASE WorkerStarts
  <2>1. worker' \in {"dial", "done"} /\ stub' = stub /\ backend' = backend /\ stub # "dial"
        /\ UNCHANGED <<downHeard, cout, br, answer>>
    BY <1>5 DEF WorkerStarts, Write
  <2>2. CASE down' = down /\ (worker' = "dial" => downSaid' = downSaid)
    BY <1>5, <2>1, <2>2 DEF WorkerStarts
  <2>3. CASE worker' = "done" /\ down' # down
    <3>1. PICK s \in Sizes :
            Write(<<Written("refusal", 0, ResponseHead, FALSE), Written("data", 1, s, FALSE),
                    Written("close", 0, 0, FALSE)>>, "done")
      BY <1>5, <2>3 DEF WorkerStarts
    <3> DEFINE o == Written("refusal", 0, ResponseHead, FALSE)
               d == Written("data", 1, s, FALSE)
               e == Written("close", 0, 0, FALSE)
    <3>2. Write(<<o, d, e>>, "done") /\ o.op \in Opens
      BY <3>1, Fixed DEF Opens
    <3> HIDE DEF o, d, e
    <3>3. down' = <<o, d, e>>
      BY <1>5, <2>3, <3>2 DEF Write, WorkerStarts
    <3>4. Head(down') = o
      BY <3>3
    <3> QED BY <1>5, <2>1, <2>3, <3>2, <3>4 DEF WorkerStarts
  <2>4. \/ down' = down /\ downSaid' = downSaid
        \/ worker' = "done" /\ down' = down
        \/ worker' = "done" /\ down' # down
    BY <1>5 DEF WorkerStarts, Write
  <2> QED BY <2>2, <2>3, <2>4
<1>6. CASE WorkerDials
  BY <1>6 DEF WorkerDials, words, wire
<1>7. CASE WorkerAwaits
  <2>1. CASE answer # <<>>
    <3>1. PICK n \in 0..Len(Tail(answer)) :
            /\ br' = SubSeq(answer, 2, n + 1)
            /\ answer' = SubSeq(answer, n + 2, Len(answer))
      BY <1>7, <2>1, Zenon DEF WorkerAwaits, AnswerEnds
    <3>2. /\ \A j \in 1..Len(answer) : answer[j].op \in Opens <=> j = 1
          /\ Head(answer).op \in Opens /\ down = <<>>
      BY <1>7, <2>1 DEF WorkerAwaits, QueuesOK
    <3>3. Len(answer) \in Nat \ {0} /\ Len(Tail(answer)) = Len(answer) - 1
      BY <2>1 DEF QueuesOK
    <3>4. /\ Len(br') = n /\ \A j \in 1..n : br'[j] = answer[j + 1]
          /\ Len(answer') = Len(answer) - 1 - n
          /\ \A j \in 1..Len(answer) - 1 - n : answer'[j] = answer[j + n + 1]
      <4>1. answer \in Seq(AnswerPieces) /\ n \in 0..Len(answer) - 1
        BY <3>3 DEF QueuesOK
      <4>2. /\ Len(SubSeq(answer, 2, n + 1)) = n
            /\ \A j \in 1..n : SubSeq(answer, 2, n + 1)[j] = answer[j + 1]
            /\ Len(SubSeq(answer, n + 2, Len(answer))) = Len(answer) - 1 - n
            /\ \A j \in 1..Len(answer) - 1 - n :
                 SubSeq(answer, n + 2, Len(answer))[j] = answer[j + n + 1]
        BY <3>3, <4>1, SplitIs
      <4> QED BY <3>1, <4>2
    <3>5. /\ \A j \in 1..Len(br') : br'[j].op \notin Opens
          /\ \A j \in 1..Len(answer') : answer'[j].op \notin Opens
      <4>1. \A j \in 1..n : j + 1 \in 1..Len(answer) /\ j + 1 # 1
        BY <3>3
      <4>2. \A j \in 1..Len(answer) - 1 - n : j + n + 1 \in 1..Len(answer) /\ j + n + 1 # 1
        BY <3>3
      <4>3. ASSUME NEW j \in 1..Len(br') PROVE br'[j].op \notin Opens
        BY <3>2, <3>4, <4>1
      <4>4. ASSUME NEW j \in 1..Len(answer') PROVE answer'[j].op \notin Opens
        <5>1. j \in 1..Len(answer) - 1 - n
          BY <3>4
        <5>2. answer'[j] = answer[j + n + 1]
          BY <3>4, <5>1
        <5> QED BY <3>2, <4>2, <5>1, <5>2
      <4> QED BY <4>3, <4>4
    <3> DEFINE f == Written(Head(answer).op, 0, ResponseHead, FALSE)
               next == IF Head(answer).op = "switch" THEN "relay" ELSE "copy"
    <3>6. Write(<<f>>, next)
      BY <1>7, <2>1 DEF WorkerAwaits, AnswerEnds
    <3>7. f.op \in Opens /\ next \in {"relay", "copy"}
      BY <3>2 DEF Written
    <3> HIDE DEF f, next
    <3>8. \/ worker' \in {"relay", "copy"} /\ down' = <<f>>
          \/ worker' = "done" /\ down' = down
      BY <3>2, <3>6, <3>7 DEF Write
    <3>9. Head(<<f>>).op \in Opens /\ <<f>> # <<>>
      BY <3>7
    <3>10. UNCHANGED <<stub, backend, up, cout, downHeard, downSaid>> /\ stub # "dial"
           /\ backend \notin {"idle", "asked"}
      BY <1>7, <2>1 DEF WorkerAwaits, words
    <3> QED BY <3>5, <3>8, <3>9, <3>10
  <2>2. CASE answer = <<>>
    <3>1. AnswerEnds /\ worker' = "done" /\ UNCHANGED <<br, answer, down>>
      BY <1>7, <2>2 DEF WorkerAwaits
    <3> QED BY <1>7, <3>1 DEF WorkerAwaits, words, AnswerEnds, BackendGone
  <2> QED BY <2>1, <2>2
<1>8. CASE WorkerUp
  BY <1>8 DEF WorkerUp, words
<1>9. CASE WorkerDown
  <2>1. /\ UNCHANGED <<stub, backend, up, cout, downHeard, downSaid, broken>> /\ stub # "dial"
        /\ worker \in {"relay", "copy"} /\ worker' \in {worker, "done"}
        /\ backend \notin {"idle", "asked"}
    BY <1>9 DEF WorkerDown, words, Write
  <2>2. /\ \A j \in 1..Len(br') : br'[j].op \notin Opens
        /\ \A j \in 1..Len(answer') : answer'[j].op \notin Opens
    <3>1. CASE UNCHANGED <<br, answer>>
      BY <2>1, <3>1
    <3>2. CASE br # <<>> /\ br' = Tail(br) /\ answer' = answer
      <4>1. \A j \in 1..Len(br') : br'[j] = br[j + 1] /\ j + 1 \in 1..Len(br)
        BY <3>2 DEF QueuesOK
      <4> QED BY <2>1, <3>2, <4>1
    <3>3. CASE answer # <<>> /\ answer' = Tail(answer) /\ br' = br
      <4>1. \A j \in 1..Len(answer') : answer'[j] = answer[j + 1] /\ j + 1 \in 1..Len(answer)
        BY <3>3 DEF QueuesOK
      <4> QED BY <2>1, <3>3, <4>1
    <3> QED BY <1>9, <3>1, <3>2, <3>3 DEF WorkerDown, Rest
  <2>3. CASE down' = down
    BY <1>9, <2>1, <2>2, <2>3 DEF WorkerDown, Write, Rest, AnswerEnds
  <2>4. CASE \E f : down' = down \o <<f>> /\ "tunnel" \notin broken
    <3> PICK f : down' = down \o <<f>> /\ "tunnel" \notin broken
      BY <2>4
    <3>1. down' # <<>> /\ (down # <<>> => Head(down') = Head(down))
      BY DEF QueuesOK
    <3> QED BY <2>1, <2>2, <3>1
  <2>5. \/ down' = down
        \/ \E f : down' = down \o <<f>> /\ "tunnel" \notin broken
    BY <1>9 DEF WorkerDown, Write
  <2> QED BY <2>3, <2>4, <2>5
<1>10. CASE Reset
  <2>1. UNCHANGED <<stub, worker, backend, br, downSaid, downHeard>> /\ broken \subseteq broken'
    BY <1>10 DEF Reset, ends, words, ResetOf
  <2>2. CASE cout' \in Prefixes(cout) /\ UNCHANGED <<up, down, answer>>
    <3>1. cout = <<>> => cout' = <<>>
      <4>1. \E n \in 0..Len(cout) : Len(cout') = n
        BY <2>2, PrefixOf DEF QueuesOK
      <4>2. cout' \in Seq(OutPieces)
        BY <2>2, PrefixOf DEF QueuesOK
      <4> QED BY <4>1, <4>2
    <3> QED BY <2>1, <2>2, <3>1
  <2>3. CASE /\ up' \in Prefixes(up) /\ down' \in Prefixes(down) /\ UNCHANGED <<cout, answer>>
             /\ "tunnel" \in broken'
    <3>1. up = <<>> => up' = <<>>
      <4>1. (\E n \in 0..Len(up) : Len(up') = n) /\ up' \in Seq(UpFrames)
        BY <2>3, PrefixOf DEF QueuesOK
      <4> QED BY <4>1
    <3>2. (down = <<>> => down' = <<>>) /\ (down' # <<>> => down # <<>> /\ Head(down') = Head(down))
      <4>1. PICK n \in 0..Len(down) : down' = SubSeq(down, 1, n) /\ Len(down') = n
        BY <2>3, PrefixOf DEF QueuesOK
      <4>2. down' \in Seq(DownFrames) /\ Len(down) \in Nat
        BY <2>3, PrefixOf DEF QueuesOK
      <4>3. ASSUME n > 0 PROVE down # <<>> /\ Head(down') = Head(down)
        BY <4>1, <4>2, <4>3 DEF QueuesOK
      <4> QED BY <4>1, <4>2, <4>3
    <3> QED BY <2>1, <2>3, <3>1, <3>2
  <2>4. CASE answer' \in Prefixes(answer) /\ UNCHANGED <<up, down, cout>> /\ "backend" \in broken'
    <3>1. PICK n \in 0..Len(answer) : answer' = SubSeq(answer, 1, n) /\ Len(answer') = n
      BY <2>4, PrefixOf DEF QueuesOK
    <3>2. /\ answer' \in Seq(AnswerPieces) /\ Len(answer) \in Nat
          /\ \A j \in 1..Len(answer') : answer'[j] = answer[j] /\ j \in 1..Len(answer)
      BY <2>4, <3>1, PrefixOf, PrefixIs DEF QueuesOK
    <3>3. answer = <<>> => answer' = <<>>
      BY <3>1, <3>2
    <3> QED BY <2>1, <2>4, <3>2, <3>3
  <2> QED BY <1>10, <2>2, <2>3, <2>4 DEF Reset, ResetOf
<1>11. CASE ClientSays
  BY <1>11 DEF ClientSays, ends
<1>12. CASE ClientHears
  BY <1>12 DEF ClientHears
<1>13. CASE ClientLeaves
  BY <1>13 DEF ClientLeaves, words, wire
<1>14. CASE BackendSwitches
  <2> DEFINE m == Piece("switch", 0, ResponseHead)
  <2>1. m.op \in Opens
    BY Fixed DEF Opens
  <2>2. answer' = <<m>>
    BY <1>14 DEF BackendSwitches
  <2> HIDE DEF m
  <2>3. \A j \in 1..Len(answer') : answer'[j].op \in Opens <=> j = 1
    BY <2>1, <2>2
  <2> QED BY <1>14, <2>3 DEF BackendSwitches, words
<1>15. CASE BackendRefuses
  <2> DEFINE m == Piece("refusal", 0, ResponseHead)
             e == Piece("last", 0, 0)
  <2>1. m.op \in Opens /\ e \in AnswerPieces /\ e.op \notin Opens
    BY Fixed DEF Opens
  <2>2. CASE backend = "asked" /\ answer' = <<m>>
    <3> HIDE DEF m, e
    <3>1. \A j \in 1..Len(answer') : answer'[j].op \in Opens <=> j = 1
      BY <2>1, <2>2
    <3> QED BY <1>15, <2>2, <3>1 DEF BackendRefuses, words
  <2>3. CASE backend = "refusing" /\ answer' = Append(answer, e)
    <3> HIDE DEF m, e
    <3>1. /\ Len(answer) \in Nat /\ Len(answer') = Len(answer) + 1 /\ answer'[Len(answer) + 1] = e
          /\ \A j \in 1..Len(answer) : answer'[j] = answer[j]
      BY <2>1, <2>3, AppendIs DEF QueuesOK
    <3>2. "backend" \notin broken /\ backend' = "closed" /\ UNCHANGED <<stub, worker, br, up, down, cout, downSaid, downHeard, broken>>
      BY <1>15, <2>3 DEF BackendRefuses, Ok, words
    <3>3. worker = "await" => Len(answer) # 0
      BY <2>3, <3>2 DEF QueuesOK
    <3>4. worker = "await" => \A j \in 1..Len(answer') : answer'[j].op \in Opens <=> j = 1
      BY <2>1, <3>1, <3>3
    <3>5. worker \in {"relay", "copy"} => \A j \in 1..Len(answer') : answer'[j].op \notin Opens
      BY <2>1, <3>1
    <3> QED BY <2>3, <3>2, <3>4, <3>5
  <2> QED BY <1>15, <2>2, <2>3 DEF BackendRefuses
<1>16. CASE BackendSays
  <2>1. PICK s \in Sizes : answer' = Append(answer, Piece("data", Len(downSaid) + 1, s))
    BY <1>16 DEF BackendSays
  <2> DEFINE m == Piece("data", Len(downSaid) + 1, s)
  <2>2. m \in AnswerPieces /\ m.op \notin Opens
    <3>1. Len(downSaid) + 1 \in Nat
      BY DEF WordsOK
    <3>2. m \in Datas
      BY <3>1, SaidIs
    <3> QED BY <3>2, Kinds DEF Datas, Opens
  <2> HIDE DEF m
  <2>3. /\ Len(answer) \in Nat /\ Len(answer') = Len(answer) + 1 /\ answer'[Len(answer) + 1] = m
        /\ \A j \in 1..Len(answer) : answer'[j] = answer[j]
    BY <2>1, <2>2, AppendIs DEF QueuesOK, m
  <2>4. /\ "backend" \notin broken /\ backend \in {"open", "refusing"} /\ answer' # <<>>
        /\ UNCHANGED <<stub, worker, backend, br, up, down, cout, downHeard, broken>>
    BY <1>16, <2>3 DEF BackendSays, Ok, ends
  <2>5. worker = "await" => Len(answer) # 0
    BY <2>4 DEF QueuesOK
  <2>6. worker = "await" => \A j \in 1..Len(answer') : answer'[j].op \in Opens <=> j = 1
    BY <2>2, <2>3, <2>5
  <2>7. worker \in {"relay", "copy"} => \A j \in 1..Len(answer') : answer'[j].op \notin Opens
    BY <2>2, <2>3
  <2> QED BY <2>4, <2>6, <2>7
<1>17. CASE BackendHears
  BY <1>17 DEF BackendHears
<1>18. CASE BackendCloses
  BY <1>18 DEF BackendCloses, words, wire
<1> QED
  BY <1>1, <1>2, <1>3, <1>4, <1>5, <1>6, <1>7, <1>8, <1>9,
     <1>10, <1>11, <1>12, <1>13, <1>14, <1>15, <1>16, <1>17, <1>18
     DEF Next, Stub, Worker, Client, Container

-----------------------------------------------------------------------------
(* What the client says.                                                    *)

LEMMA UpCarries ==
  ASSUME QueuesOK, WordsOK
  PROVE  Carries(upSaid, upHeard, conn, Msgs(up), cin) /\ up \in Seq(Frames(TRUE))
<1>1. Datas \subseteq Pieces /\ UpFrames \subseteq Frames(TRUE)
  BY Kinds
<1>2. up \in Seq(Frames(TRUE))
  <2> DEFINE F == Frames(TRUE)
  <2>1. UpFrames \subseteq F
    BY <1>1
  <2> HIDE DEF F
  <2>2. up \in Seq(F)
    BY <2>1 DEF QueuesOK
  <2> QED BY <2>2 DEF F
<1>3. Msgs(up) \in Seq(Pieces)
  BY <1>2, MsgsAre
<1>4. /\ upSaid \in Seq(Pieces) /\ upHeard \in Seq(Pieces)
      /\ conn \in Seq(Pieces) /\ cin \in Seq(Pieces)
  BY <1>1 DEF QueuesOK, WordsOK
<1> QED BY <1>2, <1>3, <1>4 DEF Carries

\* The frame at the head of the tunnel, and what it is read as.
LEMMA UpHead ==
  ASSUME QueuesOK, WordsOK, up # <<>>
  PROVE  /\ Msgs(Tail(up)) = Tail(Msgs(up)) /\ Msgs(up) # <<>> /\ Msgs(up)[1] = Message(Head(up))
         /\ Message(Head(up)).op \in {"start", "end", "data"}
         /\ Message(Head(up)).op = "data" => Message(Head(up)) \in Datas
<1>1. up \in Seq(Frames(TRUE))
  BY UpCarries
<1>2. Msgs(Tail(up)) = Tail(Msgs(up)) /\ Msgs(up) # <<>> /\ Msgs(up)[1] = Message(Head(up))
  BY <1>1, MsgsTail
<1>3. Head(up) \in UpFrames
  BY DEF QueuesOK
<1> QED BY <1>2, <1>3, ReadIs

LEMMA UpStep ==
  ASSUME QueuesOK, WordsOK, BoundsOK, ControlOK, UpFlow, Next
  PROVE  UpFlow'
<1>a. Carries(upSaid, upHeard, conn, Msgs(up), cin) /\ up \in Seq(Frames(TRUE))
  BY UpCarries
<1>b. Flow(upSaid, upHeard, conn, Msgs(up), cin, UpCut')
  BY CutGrows, FlowCut DEF UpFlow
<1> SUFFICES Flow(upSaid', upHeard', conn', Msgs(up'), cin', UpCut')
  BY DEF UpFlow
<1>c. CASE UNCHANGED <<upSaid, upHeard, conn, up, cin>>
  BY <1>b, <1>c
<1>1. CASE StubOpens
  <2> DEFINE s == Written("start", 0, RequestHead, TRUE)
             e == Written("end", 0, 22, TRUE)
  <2>1. CASE up' = <<s, e>>
    <3>1. s \in UpFrames /\ s.op \in Opens /\ e \in UpFrames /\ e.op \in Opens
      BY Fixed DEF Opens
    <3>2. Message(s).op \in Opens /\ Message(e).op \in Opens
      BY <3>1, ReadIs
    <3> HIDE DEF s, e
    <3>3. up' \in Seq(Frames(TRUE)) /\ Len(up') = 2 /\ up'[1] = s /\ up'[2] = e
      <4> DEFINE F == Frames(TRUE)
      <4>1. s \in F /\ e \in F
        BY <3>1, Kinds
      <4> HIDE DEF F
      <4>2. up' \in Seq(F) /\ Len(up') = 2 /\ up'[1] = s /\ up'[2] = e
        BY <2>1, <4>1
      <4> QED BY <4>2 DEF F
    <3>4. Msgs(up') \in Seq(Pieces) /\ Len(Msgs(up')) = 2
          /\ Msgs(up')[1] = Message(s) /\ Msgs(up')[2] = Message(e)
      <4>1. /\ Msgs(up') \in Seq(Pieces) /\ Len(Msgs(up')) = Len(up')
            /\ \A j \in 1..Len(up') : Msgs(up')[j] = Message(up'[j])
        BY <3>3, MsgsAre
      <4>2. 1 \in 1..Len(up') /\ 2 \in 1..Len(up')
        BY <3>3
      <4> QED BY <3>3, <4>1, <4>2
    <3>5. \A j \in 1..Len(Msgs(up')) : Msgs(up')[j].op \in Opens
      BY <3>2, <3>4
    <3>6. up = <<>> /\ UNCHANGED <<upSaid, upHeard, conn, cin>>
      BY <1>1 DEF StubOpens, ControlOK, words
    <3>7. Msgs(up) = <<>>
      BY <3>6, MsgsEmpty
    <3> QED BY <1>a, <1>b, <3>4, <3>5, <3>6, <3>7, FlowOpen2
  <2>2. CASE up' = up
    BY <1>1, <1>c, <2>2 DEF StubOpens, words
  <2> QED BY <1>1, <2>1, <2>2 DEF StubOpens
<1>2. CASE StubAwaits
  BY <1>2, <1>c DEF StubAwaits, words
<1>3. CASE StubUp
  <2>1. UNCHANGED <<upSaid, upHeard, conn>>
    BY <1>3 DEF StubUp, words
  <2>2. CASE cin # <<>> /\ cin' = Tail(cin) /\ Ok("tunnel", up) /\ UNCHANGED stub
             /\ up' = Append(up, Written("data", Head(cin).n, Head(cin).size, TRUE))
    <3> DEFINE p == Head(cin)
               f == Written("data", p.n, p.size, TRUE)
    <3>1. p \in Datas /\ p = cin[1]
      BY <2>2 DEF QueuesOK
    <3>2. p \in Pieces /\ p.op = "data" /\ f = Written(p.op, p.n, p.size, TRUE)
      BY <3>1, PassedIs
    <3>3. up' = Append(up, f)
      BY <2>2
    <3> HIDE DEF p, f
    <3>4. Msgs(up') = Append(Msgs(up), p)
      BY <1>a, <3>2, <3>3, MsgsAppend
    <3>5. 2 \notin UpCut'
      BY <1>3, <2>2 DEF StubUp, Ok, UpCut
    <3> QED BY <1>a, <1>b, <2>1, <2>2, <3>1, <3>2, <3>4, <3>5, FlowPass32
  <2>3. CASE "tunnel" \in broken /\ up' = up
    <3>1. UpCut' \cap {1, 2} # {}
      <4>1. 2 \in UpCut'
        BY <1>3, <2>3 DEF StubUp, UpCut
      <4> QED BY <4>1
    <3> QED BY <1>b, <2>1, <2>3, <3>1, FlowFree3
  <2>4. CASE UNCHANGED <<cin, up>>
    BY <1>c, <2>1, <2>4
  <2> QED BY <1>3, <2>2, <2>3, <2>4 DEF StubUp
<1>4. CASE StubDown
  BY <1>4, <1>c DEF StubDown, words
<1>5. CASE WorkerStarts
  <2>1. UNCHANGED <<upSaid, upHeard, conn, cin>> /\ worker' \in {"dial", "done"}
    BY <1>5 DEF WorkerStarts, Write
  <2>2. CASE up # <<>> /\ up' = Tail(up)
    <3>1. Msgs(up') = Tail(Msgs(up)) /\ Msgs(up) # <<>> /\ Msgs(up)[1] = Message(Head(up))
      BY <2>2, UpHead
    <3>2. CASE worker' = "done"
      <4>1. 1 \in UpCut'
        BY <3>2 DEF UpCut
      <4> QED BY <1>b, <2>1, <4>1, FlowFree2
    <3>3. CASE worker' = "dial"
      <4>1. Message(Head(up)).op \in Opens
        BY <1>5, <2>2, <3>3 DEF WorkerStarts, Write, UpEnds, Opens
      <4> QED BY <1>a, <1>b, <2>1, <3>1, <4>1, FlowDropOpens2
    <3> QED BY <2>1, <3>2, <3>3
  <2>3. CASE up' = up
    BY <1>c, <2>1, <2>3
  <2> QED BY <1>5, <2>2, <2>3 DEF WorkerStarts
<1>6. CASE WorkerDials
  BY <1>6, <1>c DEF WorkerDials, words, wire
<1>7. CASE WorkerAwaits
  BY <1>7, <1>c DEF WorkerAwaits, words
<1>8. CASE WorkerUp
  <2>1. UNCHANGED <<upSaid, upHeard, cin>>
    BY <1>8 DEF WorkerUp, words
  <2>2. CASE up # <<>> /\ up' = Tail(up)
    <3>1. Msgs(up') = Tail(Msgs(up)) /\ Msgs(up) # <<>> /\ Msgs(up)[1] = Message(Head(up))
      BY <2>2, UpHead
    <3>2. CASE Message(Head(up)).op = "end" /\ conn' = conn
      <4>1. Msgs(up)[1].op \in Opens
        BY <3>1, <3>2 DEF Opens
      <4> QED BY <1>a, <1>b, <2>1, <3>1, <3>2, <4>1, FlowDropOpens2
    <3>3. CASE /\ Message(Head(up)).op = "data" /\ Ok("backend", conn)
               /\ conn' = Append(conn, Message(Head(up))) /\ UNCHANGED worker
      <4>1. 1 \notin UpCut'
        BY <1>8, <3>3 DEF WorkerUp, Ok, UpCut
      <4> QED BY <1>a, <1>b, <2>1, <3>1, <3>3, <4>1, FlowPass21
    <3>4. CASE worker' = "done" /\ conn' = conn
      <4>1. 1 \in UpCut'
        BY <3>4 DEF UpCut
      <4> QED BY <1>b, <2>1, <3>4, <4>1, FlowFree2
    <3> QED BY <1>8, <2>2, <3>2, <3>3, <3>4 DEF WorkerUp
  <2>3. CASE UNCHANGED <<up, conn>>
    BY <1>c, <2>1, <2>3
  <2> QED BY <1>8, <2>2, <2>3 DEF WorkerUp
<1>9. CASE WorkerDown
  BY <1>9, <1>c DEF WorkerDown, words
<1>10. CASE Reset
  <2>1. UNCHANGED <<upSaid, upHeard>>
    BY <1>10 DEF Reset, words
  <2>2. CASE cin' \in Prefixes(cin) /\ "client" \in broken' /\ UNCHANGED <<up, conn>>
    <3>1. 3 \in UpCut'
      BY <2>2 DEF UpCut
    <3>2. PICK n \in 0..Len(cin) : cin' = SubSeq(cin, 1, n)
      BY <2>2 DEF Prefixes
    <3> QED BY <1>a, <1>b, <2>1, <2>2, <3>1, <3>2, FlowLose3
  <2>3. CASE up' \in Prefixes(up) /\ "tunnel" \in broken' /\ UNCHANGED <<cin, conn>>
    <3>1. 2 \in UpCut'
      BY <2>3 DEF UpCut
    <3>2. PICK n \in 0..Len(up) : up' = SubSeq(up, 1, n)
      BY <2>3 DEF Prefixes
    <3>3. Msgs(up') = SubSeq(Msgs(up), 1, n) /\ n \in 0..Len(Msgs(up))
      BY <1>a, <3>2, MsgsPrefix, MsgsAre
    <3> QED BY <1>a, <1>b, <2>1, <2>3, <3>1, <3>3, FlowLose2
  <2>4. CASE conn' \in Prefixes(conn) /\ "backend" \in broken' /\ UNCHANGED <<cin, up>>
    <3>1. 1 \in UpCut'
      BY <2>4 DEF UpCut
    <3>2. PICK n \in 0..Len(conn) : conn' = SubSeq(conn, 1, n)
      BY <2>4 DEF Prefixes
    <3> QED BY <1>a, <1>b, <2>1, <2>4, <3>1, <3>2, FlowLose1
  <2> QED BY <1>10, <2>2, <2>3, <2>4 DEF Reset, ResetOf
<1>11. CASE ClientSays
  <2>1. PICK s \in Sizes :
          /\ cin' = Append(cin, Piece("data", Len(upSaid) + 1, s))
          /\ upSaid' = Append(upSaid, Piece("data", Len(upSaid) + 1, s))
    BY <1>11 DEF ClientSays
  <2> DEFINE m == Piece("data", Len(upSaid) + 1, s)
  <2>2. m \in Pieces /\ m.op = "data"
    <3>1. Len(upSaid) + 1 \in Nat
      BY DEF WordsOK
    <3>2. m \in Datas
      BY <3>1, SaidIs
    <3> QED BY <3>2, PassedIs
  <2>3. cin' = Append(cin, m) /\ upSaid' = Append(upSaid, m)
    BY <2>1
  <2> HIDE DEF m
  <2>4. UNCHANGED <<upHeard, conn, up>> /\ 3 \notin UpCut'
    BY <1>11 DEF ClientSays, ends, UpCut, ClientGone, Ok
  <2> QED BY <1>a, <1>b, <2>2, <2>3, <2>4, FlowSay
<1>12. CASE ClientHears
  BY <1>12, <1>c DEF ClientHears
<1>13. CASE ClientLeaves
  BY <1>13, <1>c DEF ClientLeaves, words, wire
<1>14. CASE BackendSwitches
  BY <1>14, <1>c DEF BackendSwitches, words
<1>15. CASE BackendRefuses
  BY <1>15, <1>c DEF BackendRefuses, words
<1>16. CASE BackendSays
  BY <1>16, <1>c DEF BackendSays
<1>17. CASE BackendHears
  <2>1. UNCHANGED <<upSaid, up, cin>>
    BY <1>17 DEF BackendHears
  <2>2. CASE conn # <<>> /\ conn' = Tail(conn) /\ upHeard' = Append(upHeard, Head(conn))
    <3>1. Head(conn) = conn[1] /\ conn[1].op = "data"
      BY <2>2 DEF QueuesOK, Datas
    <3> QED BY <1>a, <1>b, <2>1, <2>2, <3>1, FlowHear
  <2>3. CASE UNCHANGED <<conn, upHeard>>
    BY <1>c, <2>1, <2>3
  <2> QED BY <1>17, <2>2, <2>3 DEF BackendHears
<1>18. CASE BackendCloses
  BY <1>18, <1>c DEF BackendCloses, words, wire
<1> QED
  BY <1>1, <1>2, <1>3, <1>4, <1>5, <1>6, <1>7, <1>8, <1>9,
     <1>10, <1>11, <1>12, <1>13, <1>14, <1>15, <1>16, <1>17, <1>18
     DEF Next, Stub, Worker, Client, Container

-----------------------------------------------------------------------------
(* What the container, or the worker in its place, says.                    *)

LEMMA DownCarries ==
  ASSUME QueuesOK, WordsOK
  PROVE  /\ Carries(downSaid, downHeard, cout, Msgs(down), br \o answer)
         /\ down \in Seq(Frames(FALSE)) /\ br \o answer \in Seq(AnswerPieces)
<1>1. down \in Seq(Frames(FALSE))
  <2> DEFINE F == Frames(FALSE)
  <2>1. DownFrames \subseteq F
    BY Kinds
  <2> HIDE DEF F
  <2>2. down \in Seq(F)
    BY <2>1 DEF QueuesOK
  <2> QED BY <2>2 DEF F
<1>2. Msgs(down) \in Seq(Pieces)
  BY <1>1, MsgsAre
<1>3. br \o answer \in Seq(AnswerPieces)
  BY DEF QueuesOK
<1>4. Datas \subseteq Pieces /\ OutPieces \subseteq Pieces /\ AnswerPieces \subseteq Pieces
  BY Kinds
<1>5. /\ downSaid \in Seq(Pieces) /\ downHeard \in Seq(Pieces) /\ cout \in Seq(Pieces)
  BY <1>4 DEF QueuesOK, WordsOK
<1> DEFINE rest == br \o answer
<1>6. rest \in Seq(AnswerPieces)
  BY <1>3
<1> HIDE DEF rest
<1>7. rest \in Seq(Pieces)
  BY <1>4, <1>6
<1> QED BY <1>1, <1>2, <1>3, <1>5, <1>7 DEF Carries, rest

LEMMA DownHead ==
  ASSUME QueuesOK, WordsOK, down # <<>>
  PROVE  /\ Msgs(Tail(down)) = Tail(Msgs(down)) /\ Msgs(down) # <<>>
         /\ Msgs(down)[1] = Message(Head(down))
         /\ Message(Head(down)) \in Pieces /\ Message(Head(down)).op = Head(down).op
         /\ Message(Head(down)).op \in {"switch", "refusal", "data", "close"}
<1>1. down \in Seq(Frames(FALSE))
  BY DownCarries
<1>2. Msgs(Tail(down)) = Tail(Msgs(down)) /\ Msgs(down) # <<>> /\ Msgs(down)[1] = Message(Head(down))
  BY <1>1, MsgsTail
<1>3. Head(down) \in DownFrames
  BY DEF QueuesOK
<1> QED BY <1>2, <1>3, ReadIs

\* Cutting what follows the head in two loses nothing.
LEMMA SplitJoin ==
  ASSUME NEW S, NEW q \in Seq(S), Len(q) \in Nat \ {0}, NEW n \in 0..Len(q) - 1
  PROVE  SubSeq(q, 2, n + 1) \o SubSeq(q, n + 2, Len(q)) = Tail(q)
<1> DEFINE b == SubSeq(q, 2, n + 1)  a == SubSeq(q, n + 2, Len(q))  t == Tail(q)
<1>1. b \in Seq(S) /\ a \in Seq(S) /\ t \in Seq(S) /\ Len(t) = Len(q) - 1
      /\ \A j \in 1..Len(q) - 1 : t[j] = q[j + 1]
  OBVIOUS
<1>2. /\ Len(b) = n /\ \A j \in 1..n : b[j] = q[j + 1]
      /\ Len(a) = Len(q) - 1 - n /\ \A j \in 1..Len(q) - 1 - n : a[j] = q[j + n + 1]
  BY SplitIs
<1> HIDE DEF a, b, t
<1>3. b \o a \in Seq(S) /\ Len(b \o a) = Len(q) - 1
  BY <1>1, <1>2
<1>4. ASSUME NEW j \in 1..Len(q) - 1 PROVE (b \o a)[j] = t[j]
  <2>1. (b \o a)[j] = IF j <= Len(b) THEN b[j] ELSE a[j - Len(b)]
    BY <1>1, <1>2
  <2>2. CASE j <= n
    BY <1>1, <1>2, <2>1, <2>2
  <2>3. CASE j > n
    <3>1. j - n \in 1..Len(q) - 1 - n /\ (j - n) + n + 1 = j + 1
      BY <2>3
    <3>2. a[j - n] = q[j + 1]
      BY <1>2, <3>1
    <3> QED BY <1>1, <1>2, <2>1, <2>3, <3>2
  <2>4. j <= n \/ j > n
    OBVIOUS
  <2> QED BY <2>2, <2>3, <2>4
<1> DEFINE c == b \o a
<1>5. c = t
  <2>1. c \in Seq(S) /\ Len(c) = Len(t) /\ \A j \in 1..Len(c) : c[j] = t[j]
    BY <1>1, <1>3, <1>4
  <2> HIDE DEF c
  <2> QED BY <1>1, <2>1, SeqEqual
<1> QED BY <1>5 DEF a, b, c, t

LEMMA DownStep ==
  ASSUME QueuesOK, WordsOK, BoundsOK, ControlOK, DownFlow, Next
  PROVE  DownFlow'
<1> DEFINE rest == br \o answer
<1>a. /\ Carries(downSaid, downHeard, cout, Msgs(down), rest)
      /\ down \in Seq(Frames(FALSE)) /\ rest \in Seq(AnswerPieces)
  BY DownCarries
<1>b. Flow(downSaid, downHeard, cout, Msgs(down), rest, DownCut')
  BY CutGrows, FlowCut DEF DownFlow
<1> SUFFICES Flow(downSaid', downHeard', cout', Msgs(down'), rest', DownCut')
  BY DEF DownFlow
<1>d. UNCHANGED <<br, answer>> => rest' = rest
  OBVIOUS
<1> HIDE DEF rest
<1>c. CASE UNCHANGED <<downSaid, downHeard, cout, down, br, answer>>
  BY <1>b, <1>c, <1>d
<1>1. CASE StubOpens
  BY <1>1, <1>c DEF StubOpens, words
<1>2. CASE StubAwaits
  <2>1. UNCHANGED <<downSaid, downHeard, br, answer>>
    BY <1>2 DEF StubAwaits, words
  <2>2. CASE down # <<>> /\ down' = Tail(down)
    <3> DEFINE m == Message(Head(down))
               p == Piece(m.op, 0, m.size)
    <3>1. /\ Msgs(down') = Tail(Msgs(down)) /\ Msgs(down) # <<>> /\ Msgs(down)[1] = m
          /\ m \in Pieces /\ m.op = Head(down).op
      BY <2>2, DownHead
    <3>2. cout = <<>> /\ Head(down).op \in Opens
      BY <1>2, <2>2 DEF StubAwaits, ControlOK
    <3>3. p.op \in Opens
      BY <3>1, <3>2 DEF Piece
    <3>4. cout' = Append(cout, p) \/ cout' = cout
      BY <1>2, <2>2 DEF StubAwaits, DownEnds
    <3> HIDE DEF m, p
    <3>5. Flow(downSaid, downHeard, cout, Msgs(down'), rest, DownCut')
      BY <1>a, <1>b, <3>1, <3>2, FlowDropOpens2
    <3>6. Carries(downSaid, downHeard, cout, Msgs(down'), rest)
      <4>1. Tail(Msgs(down)) \in Seq(Pieces)
        BY <1>a, <3>1, TailIs DEF Carries
      <4> QED BY <1>a, <3>1, <4>1 DEF Carries
    <3>7. CASE cout' = Append(cout, p)
      <4>1. cout' = <<p>>
        BY <3>2, <3>7
      <4>2. Flow(downSaid, downHeard, <<p>>, Msgs(down'), rest, DownCut')
        BY <3>2, <3>3, <3>5, <3>6, FlowMoveOpens
      <4> QED BY <1>d, <2>1, <4>1, <4>2
    <3>8. CASE cout' = cout
      BY <1>d, <2>1, <3>5, <3>8
    <3> QED BY <3>4, <3>7, <3>8
  <2>3. CASE UNCHANGED <<down, cout>>
    BY <1>c, <2>1, <2>3
  <2> QED BY <1>2, <2>2, <2>3 DEF StubAwaits
<1>3. CASE StubUp
  BY <1>3, <1>c DEF StubUp, words
<1>4. CASE StubDown
  <2>1. UNCHANGED <<downSaid, downHeard, br, answer>>
    BY <1>4 DEF StubDown, words
  <2>2. CASE down # <<>> /\ down' = Tail(down)
    <3> DEFINE m == Message(Head(down))
    <3>1. Msgs(down') = Tail(Msgs(down)) /\ Msgs(down) # <<>> /\ Msgs(down)[1] = m
      BY <2>2, DownHead
    <3>2. CASE m.op = "data" /\ Ok("client", cout) /\ cout' = Append(cout, m) /\ UNCHANGED stub
      <4>1. 1 \notin DownCut'
        BY <1>4, <3>2 DEF StubDown, Ok, DownCut
      <4> HIDE DEF m
      <4>2. Flow(downSaid, downHeard, Append(cout, m), Tail(Msgs(down)), rest, DownCut')
        BY <1>a, <1>b, <3>1, <3>2, <4>1, FlowPass21
      <4> QED BY <1>d, <2>1, <3>1, <3>2, <4>2
    <3>3. CASE stub' = "done" /\ cout' = cout
      <4>1. 1 \in DownCut'
        BY <3>3 DEF DownCut
      <4> QED BY <1>b, <2>1, <3>3, <4>1, FlowFree2
    <3> QED BY <1>4, <2>2, <3>2, <3>3 DEF StubDown, DownEnds
  <2>3. CASE UNCHANGED <<down, cout>>
    BY <1>c, <2>1, <2>3
  <2> QED BY <1>4, <2>2, <2>3 DEF StubDown
<1>5. CASE WorkerStarts
  <2>1. /\ UNCHANGED <<downHeard, cout, br, answer>>
        /\ cout = <<>> /\ downHeard = <<>> /\ down = <<>> /\ downSaid = <<>>
    BY <1>5 DEF WorkerStarts, ControlOK
  <2>2. CASE UNCHANGED <<down, downSaid>>
    BY <1>c, <2>1, <2>2
  <2>3. ASSUME NEW s \in Sizes,
               Write(<<Written("refusal", 0, ResponseHead, FALSE), Written("data", 1, s, FALSE),
                       Written("close", 0, 0, FALSE)>>, "done"),
               downSaid' = <<Piece("data", 1, s)>>
        PROVE  Flow(downSaid', downHeard', cout', Msgs(down'), rest', DownCut')
    <3> DEFINE o == Written("refusal", 0, ResponseHead, FALSE)
               d == Written("data", 1, s, FALSE)
               e == Written("close", 0, 0, FALSE)
               m == Piece("data", 1, s)
    <3>1. worker' = "done" /\ (down' = <<o, d, e>> \/ down' = <<>>)
      <4>1. Write(<<o, d, e>>, "done")
        BY <2>3
      <4> HIDE DEF o, d, e
      <4> QED BY <2>1, <4>1 DEF Write
    <3>2. 2 \in DownCut'
      BY <3>1 DEF DownCut
    <3>3. /\ o \in DownFrames /\ o.op \in Opens /\ d \in DownFrames /\ Message(d) = m /\ m.op = "data"
          /\ e \in DownFrames /\ Message(e).op = "close"
      <4>1. 1 \in Nat
        OBVIOUS
      <4>2. m \in Datas /\ d \in DownFrames /\ Message(d) = m
        BY <2>3, <4>1, SaidIs
      <4>3. m.op = "data"
        BY <4>2 DEF Datas
      <4>4. o \in DownFrames /\ o.op \in Opens /\ e \in DownFrames /\ Message(e).op = "close"
        BY Fixed DEF Opens
      <4> QED BY <4>2, <4>3, <4>4
    <3>4. downSaid' = <<m>>
      BY <2>3
    <3>5. Message(o).op \in Opens
      BY <3>3, ReadIs
    <3> HIDE DEF o, d, e, m
    <3>6. CASE down' = <<o, d, e>>
      <4> DEFINE F == Frames(FALSE)
      <4>1. o \in F /\ d \in F /\ e \in F
        BY <3>3, Kinds
      <4>2. down' \in Seq(F) /\ Len(down') = 3 /\ down'[1] = o /\ down'[2] = d /\ down'[3] = e
        <5> HIDE DEF F
        <5> QED BY <3>6, <4>1
      <4>3. /\ Msgs(down') \in Seq(Pieces) /\ Len(Msgs(down')) = Len(down')
            /\ \A j \in 1..Len(down') : Msgs(down')[j] = Message(down'[j])
        BY <4>2, MsgsAre
      <4> HIDE DEF F
      <4> DEFINE q == Msgs(down')
      <4>4. /\ q \in Seq(Pieces) /\ Len(q) = 3
            /\ q[1] = Message(o) /\ q[2] = m /\ q[3] = Message(e)
        <5>1. 1 \in 1..Len(down') /\ 2 \in 1..Len(down') /\ 3 \in 1..Len(down')
          BY <4>2
        <5> QED BY <3>3, <4>2, <4>3, <5>1
      <4> HIDE DEF q
      <4>5. q = <<Message(o), m, Message(e)>>
        BY <4>4
      <4>6. Message(e).op \notin Opens /\ Message(e).op # "data"
        BY <3>3 DEF Opens
      <4>7. Flow(<<m>>, <<>>, <<>>, <<Message(o), m, Message(e)>>, rest', DownCut')
        BY <3>2, <3>3, <3>5, <4>6, FlowRefused
      <4>8. Flow(<<m>>, <<>>, <<>>, q, rest', DownCut')
        BY <4>5, <4>7
      <4> QED BY <2>1, <3>4, <4>8 DEF q
    <3>7. CASE down' = <<>>
      <4>1. Msgs(down') = <<>>
        BY <3>7, MsgsEmpty
      <4>2. Flow(<<m>>, <<>>, <<>>, <<>>, rest', DownCut')
        BY <3>2, FlowUnsaid
      <4> QED BY <2>1, <3>4, <4>1, <4>2
    <3> QED BY <3>1, <3>6, <3>7
  <2> QED BY <1>5, <2>2, <2>3 DEF WorkerStarts
<1>6. CASE WorkerDials
  BY <1>6, <1>c DEF WorkerDials, words, wire
<1>7. CASE WorkerAwaits
  <2>1. UNCHANGED <<downSaid, downHeard, cout>>
    BY <1>7 DEF WorkerAwaits, words
  <2>2. CASE answer # <<>>
    <3>1. PICK n \in 0..Len(Tail(answer)) :
            /\ br' = SubSeq(answer, 2, n + 1)
            /\ answer' = SubSeq(answer, n + 2, Len(answer))
      BY <1>7, <2>2, Zenon DEF WorkerAwaits, AnswerEnds
    <3>2. br = <<>> /\ down = <<>> /\ answer[1].op \in Opens /\ Head(answer) = answer[1]
      BY <1>7, <2>2 DEF WorkerAwaits, ControlOK, QueuesOK
    <3>3. rest = answer /\ Len(answer) \in Nat \ {0} /\ Len(Tail(answer)) = Len(answer) - 1
      BY <2>2, <3>2 DEF QueuesOK, rest
    <3>4. rest' = Tail(rest)
      <4>1. answer \in Seq(AnswerPieces) /\ n \in 0..Len(answer) - 1
        BY <3>3 DEF QueuesOK
      <4>2. SubSeq(answer, 2, n + 1) \o SubSeq(answer, n + 2, Len(answer)) = Tail(answer)
        BY <3>3, <4>1, SplitJoin
      <4> QED BY <3>1, <3>3, <4>2 DEF rest
    <3> DEFINE f == Written(answer[1].op, 0, ResponseHead, FALSE)
               next == IF Head(answer).op = "switch" THEN "relay" ELSE "copy"
    <3>5. Write(<<f>>, next)
      BY <1>7, <2>2, <3>2 DEF WorkerAwaits, AnswerEnds
    <3>6. f \in DownFrames /\ Message(f).op \in Opens
      <4>1. answer[1].op \in {"switch", "refusal"}
        <5>1. answer[1] \in AnswerPieces
          BY <2>2, TailIs DEF QueuesOK
        <5> QED BY <3>2, <5>1 DEF AnswerPieces, Opens
      <4>2. f \in DownFrames /\ f.op \in Opens
        BY <4>1, Fixed DEF Opens
      <4> QED BY <4>2, ReadIs
    <3> HIDE DEF f, next
    <3>7. \/ down' = <<f>>
          \/ worker' = "done" /\ down' = down
      BY <3>2, <3>5 DEF Write
    <3>8. CASE down' = <<f>>
      <4> DEFINE F == Frames(FALSE)
                 r == Msgs(down')
      <4>1. f \in F
        BY <3>6, Kinds
      <4>2. down' \in Seq(F) /\ Len(down') = 1 /\ down'[1] = f
        <5> HIDE DEF F
        <5> QED BY <3>8, <4>1
      <4>3. /\ r \in Seq(Pieces) /\ Len(r) = Len(down')
            /\ \A j \in 1..Len(down') : r[j] = Message(down'[j])
        BY <4>2, MsgsAre
      <4> HIDE DEF F, r
      <4>4. \A j \in 1..Len(r) : r[j].op \in Opens
        BY <3>6, <4>2, <4>3
      <4>5. Flow(downSaid, downHeard, cout, Msgs(down), Tail(rest), DownCut')
        <5>1. rest # <<>> /\ rest[1].op \in Opens
          BY <2>2, <3>2, <3>3
        <5> QED BY <1>a, <1>b, <5>1, FlowDropOpens3
      <4>6. Carries(downSaid, downHeard, cout, Msgs(down), Tail(rest)) /\ Msgs(down) = <<>>
        <5>1. Tail(rest) \in Seq(Pieces)
          BY <1>a, <2>2, <3>3, TailIs DEF Carries
        <5> QED BY <1>a, <3>2, <5>1, MsgsEmpty DEF Carries
      <4>7. Flow(downSaid, downHeard, cout, r, Tail(rest), DownCut')
        BY <4>3, <4>4, <4>5, <4>6, FlowOpen2
      <4> QED BY <2>1, <3>4, <4>7 DEF r
    <3>9. CASE worker' = "done" /\ down' = down
      <4>1. DownCut' \cap {1, 2} # {}
        <5>1. 2 \in DownCut'
          BY <3>9 DEF DownCut
        <5> QED BY <5>1
      <4> QED BY <1>b, <2>1, <3>9, <4>1, FlowFree3
    <3> QED BY <3>7, <3>8, <3>9
  <2>3. CASE UNCHANGED <<br, answer, down>>
    BY <1>c, <2>1, <2>3
  <2> QED BY <1>7, <2>2, <2>3 DEF WorkerAwaits
<1>8. CASE WorkerUp
  BY <1>8, <1>c DEF WorkerUp, words
<1>9. CASE WorkerDown
  <2>1. UNCHANGED <<downSaid, downHeard, cout>> /\ worker \in {"relay", "copy"}
    BY <1>9 DEF WorkerDown, words
  <2>2. CASE Rest # <<>>
    <3> DEFINE m == Head(Rest)
    <3>1. rest' = Tail(rest) /\ rest # <<>> /\ rest[1] = m
      <4>1. CASE br # <<>>
        <5>1. br' = Tail(br) /\ answer' = answer /\ Rest = br
          BY <1>9, <2>2, <4>1 DEF WorkerDown, Rest, AnswerEnds
        <5>2. Tail(br) \o answer = Tail(br \o answer) /\ Head(br) = (br \o answer)[1] /\ br \o answer # <<>>
          BY <4>1, RestTail DEF QueuesOK
        <5> QED BY <5>1, <5>2 DEF rest
      <4>2. CASE br = <<>>
        <5>1. answer' = Tail(answer) /\ br' = br /\ Rest = answer /\ answer # <<>>
          BY <1>9, <2>2, <4>2 DEF WorkerDown, Rest, AnswerEnds
        <5>2. rest = answer /\ rest' = Tail(answer)
          <6>1. \A a \in Seq(AnswerPieces) : <<>> \o a = a
            OBVIOUS
          <6>2. answer \in Seq(AnswerPieces) /\ Tail(answer) \in Seq(AnswerPieces)
            BY <5>1 DEF QueuesOK
          <6> QED BY <4>2, <5>1, <6>1, <6>2 DEF rest
        <5>3. Head(answer) = answer[1]
          BY <5>1 DEF QueuesOK
        <5> QED BY <5>1, <5>2, <5>3
      <4> QED BY <4>1, <4>2
    <3>2. m \in AnswerPieces /\ m.op \notin Opens
      <4>1. rest[1] \in AnswerPieces
        BY <1>a, <3>1
      <4>2. \A q \in Seq(AnswerPieces) : q # <<>> => Head(q) = q[1] /\ 1 \in 1..Len(q)
        OBVIOUS
      <4>3. Rest \in Seq(AnswerPieces) /\ \A j \in 1..Len(Rest) : Rest[j].op \notin Opens
        BY <2>1 DEF QueuesOK, ControlOK, Rest
      <4> QED BY <2>2, <3>1, <4>1, <4>2, <4>3
    <3>3. IF m.op = "last" THEN Write(<<Written("close", 0, 0, FALSE)>>, "done")
          ELSE Write(<<Written("data", m.n, m.size, FALSE)>>, worker)
      BY <1>9, <2>2 DEF WorkerDown, AnswerEnds, Rest
    <3> HIDE DEF m
    <3>4. m.op = "last" \/ m \in Datas
      BY <3>2 DEF AnswerPieces, Opens, Datas
    <3>5. CASE m.op = "last"
      <4> DEFINE f == Written("close", 0, 0, FALSE)
                 e == Piece("close", 0, 0)
      <4>1. Write(<<f>>, "done") /\ f \in DownFrames
        BY <3>3, <3>5, Fixed
      <4>2. e \in Pieces /\ e.op \notin Opens /\ e.op # "data" /\ f = Written(e.op, e.n, e.size, FALSE)
        BY Fixed DEF Opens, Piece
      <4> HIDE DEF f, e
      <4>3. worker' = "done" /\ (down' = Append(down, f) \/ down' = down)
        BY <4>1, WriteOne DEF QueuesOK
      <4>4. 2 \in DownCut' /\ DownCut' \cap {1, 2} # {}
        <5>1. 2 \in DownCut'
          BY <4>3 DEF DownCut
        <5> QED BY <5>1
      <4>5. Flow(downSaid, downHeard, cout, Msgs(down), rest', DownCut')
        BY <1>b, <4>4, FlowFree3
      <4>6. CASE down' = down
        BY <2>1, <4>5, <4>6
      <4>7. CASE down' = Append(down, f)
        <5>1. Msgs(down') = Append(Msgs(down), e)
          BY <1>a, <4>2, <4>7, MsgsAppend
        <5>2. Flow(downSaid, downHeard, cout, Append(Msgs(down), e), rest, DownCut')
          BY <1>a, <1>b, <4>2, <4>4, FlowClose2
        <5> QED BY <2>1, <4>4, <5>1, <5>2, FlowFree3
      <4> QED BY <4>3, <4>6, <4>7
    <3>6. CASE m \in Datas
      <4> DEFINE f == Written("data", m.n, m.size, FALSE)
      <4>1. m.op = "data" /\ m \in Pieces /\ f \in DownFrames /\ f = Written(m.op, m.n, m.size, FALSE)
        BY <3>6, PassedIs
      <4>2. Write(<<f>>, worker)
        BY <3>3, <4>1
      <4> HIDE DEF f
      <4>3. \/ "tunnel" \notin broken /\ down' = Append(down, f) /\ worker' = worker
            \/ worker' = "done" /\ down' = down
        BY <4>1, <4>2, WriteOne DEF QueuesOK
      <4>4. CASE "tunnel" \notin broken /\ down' = Append(down, f) /\ worker' = worker
        <5>1. Msgs(down') = Append(Msgs(down), m)
          BY <1>a, <4>1, <4>4, MsgsAppend
        <5>2. 2 \notin DownCut'
          BY <1>9, <2>1, <4>4 DEF WorkerDown, DownCut
        <5>3. Flow(downSaid, downHeard, cout, Append(Msgs(down), m), Tail(rest), DownCut')
          BY <1>a, <1>b, <3>1, <4>1, <5>2, FlowPass32
        <5> QED BY <2>1, <3>1, <5>1, <5>3
      <4>5. CASE worker' = "done" /\ down' = down
        <5>1. DownCut' \cap {1, 2} # {}
          <6>1. 2 \in DownCut'
            BY <4>5 DEF DownCut
          <6> QED BY <6>1
        <5> QED BY <1>b, <2>1, <4>5, <5>1, FlowFree3
      <4> QED BY <4>3, <4>4, <4>5
    <3> QED BY <3>4, <3>5, <3>6
  <2>3. CASE UNCHANGED <<br, answer, down>>
    BY <1>c, <2>1, <2>3
  <2> QED BY <1>9, <2>2, <2>3 DEF WorkerDown
<1>10. CASE Reset
  <2>1. UNCHANGED <<downSaid, downHeard, br>>
    BY <1>10 DEF Reset, words
  <2>2. CASE cout' \in Prefixes(cout) /\ "client" \in broken' /\ UNCHANGED <<down, answer>>
    <3>1. 1 \in DownCut'
      BY <2>2 DEF DownCut
    <3>2. PICK n \in 0..Len(cout) : cout' = SubSeq(cout, 1, n)
      BY <2>2 DEF Prefixes
    <3> QED BY <1>a, <1>b, <1>d, <2>1, <2>2, <3>1, <3>2, FlowLose1
  <2>3. CASE down' \in Prefixes(down) /\ "tunnel" \in broken' /\ UNCHANGED <<cout, answer>>
    <3>1. 2 \in DownCut'
      BY <2>3 DEF DownCut
    <3>2. PICK n \in 0..Len(down) : down' = SubSeq(down, 1, n)
      BY <2>3 DEF Prefixes
    <3>3. Msgs(down') = SubSeq(Msgs(down), 1, n) /\ n \in 0..Len(Msgs(down))
      BY <1>a, <3>2, MsgsPrefix, MsgsAre
    <3> QED BY <1>a, <1>b, <1>d, <2>1, <2>3, <3>1, <3>3, FlowLose2
  <2>4. CASE answer' \in Prefixes(answer) /\ "backend" \in broken' /\ UNCHANGED <<cout, down>>
    <3>1. 3 \in DownCut'
      BY <2>4 DEF DownCut
    <3>2. PICK n \in 0..Len(answer) : answer' = SubSeq(answer, 1, n)
      BY <2>4 DEF Prefixes
    <3>3. rest' = SubSeq(rest, 1, Len(br) + n) /\ Len(br) + n \in 0..Len(rest)
      <4>1. /\ br \o SubSeq(answer, 1, n) = SubSeq(br \o answer, 1, Len(br) + n)
            /\ Len(br) + n \in 0..Len(br \o answer)
        BY <3>2, RestTail DEF QueuesOK
      <4> QED BY <2>1, <3>2, <4>1 DEF rest
    <3> QED BY <1>a, <1>b, <2>1, <2>4, <3>1, <3>3, FlowLose3
  <2> QED BY <1>10, <2>2, <2>3, <2>4 DEF Reset, ResetOf
<1>11. CASE ClientSays
  BY <1>11, <1>c DEF ClientSays
<1>12. CASE ClientHears
  <2>1. UNCHANGED <<downSaid, down, br, answer>>
    BY <1>12 DEF ClientHears
  <2>2. CASE cout # <<>> /\ cout' = Tail(cout)
    <3>1. Head(cout) = cout[1] /\ cout[1].op \in {"switch", "refusal", "data"}
      BY <2>2 DEF QueuesOK, OutPieces
    <3>2. CASE cout[1].op = "data"
      <4>1. downHeard' = Append(downHeard, cout[1])
        BY <1>12, <2>2, <3>1, <3>2 DEF ClientHears
      <4> QED BY <1>a, <1>b, <1>d, <2>1, <2>2, <3>2, <4>1, FlowHear
    <3>3. CASE cout[1].op \in {"switch", "refusal"}
      <4>1. downHeard' = downHeard
        BY <1>12, <2>2, <3>1, <3>3 DEF ClientHears
      <4>2. cout[1].op \in Opens
        BY <3>3 DEF Opens
      <4> QED BY <1>a, <1>b, <1>d, <2>1, <2>2, <4>1, <4>2, FlowDropOpens1
    <3> QED BY <3>1, <3>2, <3>3
  <2>3. CASE UNCHANGED <<cout, downHeard>>
    BY <1>c, <2>1, <2>3
  <2> QED BY <1>12, <2>2, <2>3 DEF ClientHears
<1>13. CASE ClientLeaves
  BY <1>13, <1>c DEF ClientLeaves, words, wire
<1>14. CASE BackendSwitches
  <2> DEFINE m == Piece("switch", 0, ResponseHead)
  <2>1. m.op \in Opens /\ m \in AnswerPieces
    BY Fixed DEF Opens
  <2>2. answer' = <<m>> /\ UNCHANGED <<downSaid, downHeard, cout, down, br>> /\ br = <<>> /\ answer = <<>>
    BY <1>14 DEF BackendSwitches, words, ControlOK
  <2> HIDE DEF m
  <2>3. rest' = <<m>> /\ rest = <<>>
    BY <2>1, <2>2 DEF rest
  <2> QED BY <1>a, <1>b, <2>1, <2>2, <2>3, FlowOpen3
<1>15. CASE BackendRefuses
  <2>1. UNCHANGED <<downSaid, downHeard, cout, down, br>>
    BY <1>15 DEF BackendRefuses, words
  <2> DEFINE m == Piece("refusal", 0, ResponseHead)
             e == Piece("last", 0, 0)
  <2>2. m.op \in Opens /\ m \in AnswerPieces /\ e \in AnswerPieces /\ e.op \notin Opens /\ e.op # "data"
    BY Fixed DEF Opens
  <2>3. CASE backend = "asked" /\ answer' = <<m>>
    <3> HIDE DEF m
    <3>1. br = <<>> /\ answer = <<>>
      BY <2>3 DEF ControlOK
    <3>2. rest' = <<m>> /\ rest = <<>>
      BY <2>1, <2>2, <2>3, <3>1 DEF rest
    <3> QED BY <1>a, <1>b, <2>1, <2>2, <3>2, FlowOpen3
  <2>4. CASE backend' = "closed" /\ answer' = Append(answer, e)
    <3> HIDE DEF e
    <3>1. rest' = Append(rest, e)
      <4>1. br \o Append(answer, e) = Append(br \o answer, e)
        BY <2>2, RestAppend DEF QueuesOK
      <4> QED BY <2>1, <2>4, <4>1 DEF rest
    <3>2. 3 \in DownCut' /\ e \in Pieces
      BY <2>2, <2>4, Kinds DEF DownCut, BackendGone
    <3> QED BY <1>a, <1>b, <2>1, <2>2, <3>1, <3>2, FlowClose3
  <2> QED BY <1>15, <2>3, <2>4 DEF BackendRefuses
<1>16. CASE BackendSays
  <2>1. PICK s \in Sizes :
          /\ answer' = Append(answer, Piece("data", Len(downSaid) + 1, s))
          /\ downSaid' = Append(downSaid, Piece("data", Len(downSaid) + 1, s))
    BY <1>16 DEF BackendSays
  <2> DEFINE m == Piece("data", Len(downSaid) + 1, s)
  <2>2. m \in AnswerPieces /\ m \in Pieces /\ m.op = "data"
    <3>1. Len(downSaid) + 1 \in Nat
      BY DEF WordsOK
    <3>2. m \in Datas
      BY <3>1, SaidIs
    <3> QED BY <3>2, PassedIs, Kinds
  <2>3. answer' = Append(answer, m) /\ downSaid' = Append(downSaid, m)
    BY <2>1
  <2> HIDE DEF m
  <2>4. UNCHANGED <<downHeard, cout, down, br>> /\ 3 \notin DownCut'
    BY <1>16 DEF BackendSays, ends, DownCut, BackendGone, Ok
  <2>5. rest' = Append(rest, m)
    <3>1. br \o Append(answer, m) = Append(br \o answer, m)
      BY <2>2, RestAppend DEF QueuesOK
    <3> QED BY <2>3, <2>4, <3>1 DEF rest
  <2> QED BY <1>a, <1>b, <2>2, <2>3, <2>4, <2>5, FlowSay
<1>17. CASE BackendHears
  BY <1>17, <1>c DEF BackendHears
<1>18. CASE BackendCloses
  BY <1>18, <1>c DEF BackendCloses, words, wire
<1> QED
  BY <1>1, <1>2, <1>3, <1>4, <1>5, <1>6, <1>7, <1>8, <1>9,
     <1>10, <1>11, <1>12, <1>13, <1>14, <1>15, <1>16, <1>17, <1>18
     DEF Next, Stub, Worker, Client, Container

-----------------------------------------------------------------------------
(* The theorems.                                                            *)

LEMMA CarryInit == Init => CarryInv
<1> SUFFICES ASSUME Init PROVE CarryInv
  OBVIOUS
<1> USE DEF Init
<1>1. StatesOK
  BY DEF StatesOK
<1>2. QueuesOK /\ WordsOK
  BY DEF QueuesOK, WordsOK
<1>3. BoundsOK
  BY UpgradeBounds DEF BoundsOK
<1>4. ControlOK
  BY DEF ControlOK
<1>5. Msgs(up) = <<>> /\ Msgs(down) = <<>> /\ br \o answer = <<>>
  BY MsgsEmpty
<1>6. UpFlow /\ DownFlow
  BY <1>5, FlowInit DEF UpFlow, DownFlow
<1> QED BY <1>1, <1>2, <1>3, <1>4, <1>6 DEF CarryInv

LEMMA CarryStep == CarryInv /\ [Next]_vars => CarryInv'
<1> SUFFICES ASSUME CarryInv, [Next]_vars PROVE CarryInv'
  OBVIOUS
<1>1. CASE Next
  BY <1>1, StatesStep, QueuesStep, ControlStep, UpStep, DownStep DEF CarryInv
<1>2. CASE UNCHANGED vars
  <2>1. UNCHANGED <<client, stub, worker, backend, headers, broken, cin, cout, up, down, br,
                    conn, answer, upSaid, upHeard, downSaid, downHeard>>
    BY <1>2 DEF vars, ends, words, wire
  <2>2. StatesOK' /\ QueuesOK' /\ WordsOK' /\ BoundsOK' /\ ControlOK'
    BY <2>1 DEF CarryInv, StatesOK, QueuesOK, WordsOK, BoundsOK, ControlOK
  <2>3. UpCut' = UpCut /\ DownCut' = DownCut
    BY <2>1 DEF UpCut, DownCut, ClientGone, BackendGone
  <2>4. UpFlow' /\ DownFlow'
    BY <2>1, <2>3 DEF CarryInv, UpFlow, DownFlow
  <2> QED BY <2>2, <2>4 DEF CarryInv
<1> QED BY <1>1, <1>2

\* The invariant of the conversation: what each process is still to be told of,
\* and where in what was said each piece on the wire belongs.
THEOREM CarryInvariant == Spec => []CarryInv
BY CarryInit, CarryStep, PTL DEF Spec

\* Every state of the two handlers, the three connections and both ends is one
\* the code can name: no connection holds more than it can take, what the stub
\* and the worker exchange is framed with the mask of its side, and neither
\* writes a message of the other's.
THEOREM TypeCorrect == Spec => []TypeOK
<1>1. CarryInv => TypeOK
  <2> SUFFICES ASSUME CarryInv PROVE TypeOK
    OBVIOUS
  <2> USE DEF CarryInv
  <2>1. /\ \A p \in Pieces : p.plain
        /\ Datas \subseteq Pieces /\ OutPieces \subseteq Pieces /\ AnswerPieces \subseteq Pieces
    BY Kinds DEF Pieces
  <2>2. /\ \A i \in DOMAIN cin : cin[i].plain /\ cin[i].op = "data"
        /\ \A i \in DOMAIN conn : conn[i].plain /\ conn[i].op = "data"
    BY <2>1 DEF QueuesOK, Datas
  <2>3. /\ \A i \in DOMAIN cout : cout[i].plain
        /\ \A i \in DOMAIN answer : answer[i].plain
    <3>1. cout \in Seq(OutPieces) /\ answer \in Seq(AnswerPieces)
      BY DEF QueuesOK
    <3> QED BY <2>1, <3>1
  <2>4. \A i \in DOMAIN up : up[i].op \in {"start", "end", "data"} /\ ~up[i].plain
    <3>1. \A f \in UpFrames : f.op \in {"start", "end", "data"} /\ ~f.plain
      <4>1. ASSUME NEW f \in UpFrames PROVE f.plain = ~TRUE
        BY MessageIs DEF UpFrames
      <4> QED BY <4>1 DEF UpFrames
    <3> QED BY <3>1 DEF QueuesOK
  <2>5. \A i \in DOMAIN down :
          down[i].op \in {"switch", "refusal", "data", "close"} /\ down[i].plain
    <3>1. \A f \in DownFrames : f.op \in {"switch", "refusal", "data", "close"} /\ f.plain
      <4>1. ASSUME NEW f \in DownFrames PROVE f.plain = ~FALSE
        BY MessageIs DEF DownFrames
      <4> QED BY <4>1 DEF DownFrames
    <3> QED BY <3>1 DEF QueuesOK
  <2>6. Len(upHeard) <= MaxSaid /\ Len(downHeard) <= MaxSaid
    <3>1. Len(upHeard) <= Len(upSaid) /\ Len(downHeard) <= Len(downSaid)
      BY DEF UpFlow, DownFlow, Flow
    <3>2. /\ Len(upHeard) \in Nat /\ Len(upSaid) \in Nat
          /\ Len(downHeard) \in Nat /\ Len(downSaid) \in Nat /\ MaxSaid \in Nat
      BY UpgradeBounds DEF WordsOK
    <3> QED BY <3>1, <3>2 DEF BoundsOK
  <2>7. /\ \A q \in {cin, cout, conn, answer} : Len(q) <= Capacity /\ \A i \in DOMAIN q : q[i].plain
        /\ \A q \in {cin, conn} : \A i \in DOMAIN q : q[i].op = "data"
    BY <2>2, <2>3 DEF BoundsOK
  <2>8. \A s \in {upSaid, upHeard, downSaid, downHeard} : Len(s) <= MaxSaid
    BY <2>6 DEF BoundsOK
  <2> QED BY <2>4, <2>5, <2>7, <2>8 DEF TypeOK, StatesOK, BoundsOK
<1> QED BY <1>1, CarryInvariant, PTL
-----------------------------------------------------------------------------
(* Both directions are pipes.                                               *)

LEMMA Sayable ==
  ASSUME NEW n \in 1..MaxSaid, NEW s \in Sizes
  PROVE  Piece("data", n, s) \in [op : {"data"}, n : 1..MaxSaid, size : Sizes, plain : {TRUE}]
BY DEF Piece

LEMMA UpPipe ==
  ASSUME CarryInv, Next
  PROVE  Up!Say \/ Up!Hear \/ UNCHANGED <<upSaid, upHeard>>
<1>1. CASE ClientSays
  <2>1. PICK s \in Sizes : upSaid' = Append(upSaid, Piece("data", Len(upSaid) + 1, s))
    BY <1>1 DEF ClientSays
  <2>2. Len(upSaid) + 1 \in 1..MaxSaid
    BY <1>1, UpgradeBounds DEF ClientSays, CarryInv, WordsOK
  <2>3. UNCHANGED upHeard
    BY <1>1 DEF ClientSays
  <2> DEFINE M == [op : {"data"}, n : 1..MaxSaid, size : Sizes, plain : {TRUE}]
             m == Piece("data", Len(upSaid) + 1, s)
  <2>4. m \in M /\ upSaid' = Append(upSaid, m)
    BY <2>1, <2>2, Sayable
  <2>5. Up!Say <=> upSaid' \in {Append(upSaid, w) : w \in M} /\ UNCHANGED upHeard
    BY DEF Up!Say
  <2> HIDE DEF M, m
  <2> QED BY <2>3, <2>4, <2>5
<1>2. CASE BackendHears
  <2>1. UNCHANGED upSaid
    BY <1>2 DEF BackendHears
  <2>2. CASE conn # <<>> /\ upHeard' = Append(upHeard, Head(conn))
    <3>1. Carries(upSaid, upHeard, conn, Msgs(up), cin)
      BY UpCarries DEF CarryInv
    <3>2. Head(conn) = conn[1] /\ conn[1].op = "data"
      BY <2>2 DEF CarryInv, QueuesOK, Datas
    <3>3. Len(upHeard) < Len(upSaid) /\ conn[1] = upSaid[Len(upHeard) + 1]
      BY <2>2, <3>1, <3>2, FlowHear DEF CarryInv, UpFlow
    <3> QED BY <2>1, <2>2, <3>2, <3>3 DEF Up!Hear
  <2>3. CASE UNCHANGED upHeard
    BY <2>1, <2>3
  <2> QED BY <1>2, <2>2, <2>3 DEF BackendHears
<1>3. CASE UNCHANGED <<upSaid, upHeard>>
  BY <1>3
<1>4. ClientSays \/ BackendHears \/ UNCHANGED <<upSaid, upHeard>>
  BY DEF Next, Stub, Worker, Client, Container, StubOpens, StubAwaits, StubUp, StubDown,
         WorkerStarts, WorkerDials, WorkerAwaits, WorkerUp, WorkerDown, Reset, ClientHears,
         ClientLeaves, BackendSwitches, BackendRefuses, BackendSays, BackendCloses, words
<1> QED BY <1>1, <1>2, <1>3, <1>4

LEMMA DownPipe ==
  ASSUME CarryInv, Next
  PROVE  Down!Say \/ Down!Hear \/ UNCHANGED <<downSaid, downHeard>>
<1> DEFINE M == [op : {"data"}, n : 1..MaxSaid, size : Sizes, plain : {TRUE}]
<1>a. Down!Say <=> downSaid' \in {Append(downSaid, w) : w \in M} /\ UNCHANGED downHeard
  BY DEF Down!Say
<1>b. \A n \in 1..MaxSaid, s \in Sizes : Piece("data", n, s) \in M
  BY Sayable
<1> HIDE DEF M
<1>1. CASE BackendSays
  <2>1. PICK s \in Sizes : downSaid' = Append(downSaid, Piece("data", Len(downSaid) + 1, s))
    BY <1>1 DEF BackendSays
  <2>2. Len(downSaid) + 1 \in 1..MaxSaid
    BY <1>1, UpgradeBounds DEF BackendSays, CarryInv, WordsOK
  <2>3. UNCHANGED downHeard
    BY <1>1 DEF BackendSays
  <2> DEFINE m == Piece("data", Len(downSaid) + 1, s)
  <2>4. m \in M /\ downSaid' = Append(downSaid, m)
    BY <1>b, <2>1, <2>2
  <2> HIDE DEF m
  <2> QED BY <1>a, <2>3, <2>4
<1>2. CASE ClientHears
  <2>1. UNCHANGED downSaid
    BY <1>2 DEF ClientHears
  <2>2. CASE cout # <<>>
    <3>1. Head(cout) = cout[1] /\ cout[1].op \in {"switch", "refusal", "data"}
      BY <2>2 DEF CarryInv, QueuesOK, OutPieces
    <3>2. CASE cout[1].op = "data"
      <4>1. downHeard' = Append(downHeard, cout[1])
        BY <1>2, <2>2, <3>1, <3>2 DEF ClientHears
      <4>2. Carries(downSaid, downHeard, cout, Msgs(down), br \o answer)
        BY DownCarries DEF CarryInv
      <4>3. Len(downHeard) < Len(downSaid) /\ cout[1] = downSaid[Len(downHeard) + 1]
        BY <2>2, <3>2, <4>2, FlowHear DEF CarryInv, DownFlow
      <4> QED BY <2>1, <4>1, <4>3 DEF Down!Hear
    <3>3. CASE cout[1].op \in {"switch", "refusal"}
      BY <1>2, <2>1, <2>2, <3>1, <3>3 DEF ClientHears
    <3> QED BY <3>1, <3>2, <3>3
  <2>3. CASE UNCHANGED downHeard
    BY <2>1, <2>3
  <2> QED BY <1>2, <2>2, <2>3 DEF ClientHears
<1>3. CASE WorkerStarts
  <2>1. UNCHANGED downHeard /\ downSaid = <<>>
    BY <1>3 DEF WorkerStarts, CarryInv, ControlOK
  <2>2. CASE UNCHANGED downSaid
    BY <2>1, <2>2
  <2>3. ASSUME NEW s \in Sizes, downSaid' = <<Piece("data", 1, s)>> PROVE Down!Say
    <3>1. 1 \in 1..MaxSaid
      BY UpgradeBounds
    <3> DEFINE m == Piece("data", 1, s)
    <3>2. m \in M /\ downSaid' = <<m>>
      BY <1>b, <2>3, <3>1
    <3> HIDE DEF m
    <3>3. downSaid' = Append(downSaid, m)
      BY <2>1, <3>2
    <3> QED BY <1>a, <2>1, <3>2, <3>3
  <2> QED BY <1>3, <2>2, <2>3 DEF WorkerStarts
<1>4. CASE UNCHANGED <<downSaid, downHeard>>
  BY <1>4
<1>5. BackendSays \/ ClientHears \/ WorkerStarts \/ UNCHANGED <<downSaid, downHeard>>
  BY DEF Next, Stub, Worker, Client, Container, StubOpens, StubAwaits, StubUp, StubDown,
         WorkerDials, WorkerAwaits, WorkerUp, WorkerDown, Reset, ClientSays,
         ClientLeaves, BackendSwitches, BackendRefuses, BackendHears, BackendCloses, words
<1> QED BY <1>1, <1>2, <1>3, <1>4, <1>5

\* What the container reads is what the client wrote, in order and once: the
\* two relays, the codec and the buffers of three connections, any of which may
\* be reset at any moment, implement a pipe.
THEOREM UploadIsPipe == Spec => CarriesUp
<1>1. Init => Up!Init
  BY DEF Init, Up!Init
<1>2. CarryInv /\ [Next]_vars => [Up!Say \/ Up!Hear]_<<upSaid, upHeard>>
  <2>1. UNCHANGED vars => UNCHANGED <<upSaid, upHeard>>
    BY DEF vars, words
  <2> QED BY <2>1, UpPipe
<1> QED BY <1>1, <1>2, CarryInvariant, PTL DEF Spec, CarriesUp, Up!Spec

\* And the client reads what the container wrote, or the worker when it knows of
\* none, whatever ReadResponse took of it along with the head.
THEOREM DownloadIsPipe == Spec => CarriesDown
<1>1. Init => Down!Init
  BY DEF Init, Down!Init
<1>2. CarryInv /\ [Next]_vars => [Down!Say \/ Down!Hear]_<<downSaid, downHeard>>
  <2>1. UNCHANGED vars => UNCHANGED <<downSaid, downHeard>>
    BY DEF vars, words
  <2> QED BY <2>1, DownPipe
<1> QED BY <1>1, <1>2, CarryInvariant, PTL DEF Spec, CarriesDown, Down!Spec
=============================================================================
