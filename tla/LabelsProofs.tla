---------------------------- MODULE LabelsProofs ----------------------------
(***************************************************************************)
(* What the label parser and the receiver's label writer do, for every set *)
(* of labels and every address, network and port of a container.           *)
(***************************************************************************)
EXTENDS Labels, FiniteSetTheorems, TLAPS

(* Labels.                                                                  *)

LEMMA LabelIs ==
  ASSUME NEW key, NEW values
  PROVE  /\ DOMAIN Label(key, values) \subseteq {key}
         /\ \A v : values = {v} => Has(Label(key, values), key) /\ Label(key, values)[key] = v
BY DEF Label, Has

LEMMA MergeIs ==
  ASSUME NEW sets
  PROVE  /\ DOMAIN Merge(sets) = UNION {DOMAIN l : l \in sets}
         /\ \A k \in DOMAIN Merge(sets) :
              \E l \in sets : k \in DOMAIN l /\ Merge(sets)[k] = l[k]
<1>1. DOMAIN Merge(sets) = UNION {DOMAIN l : l \in sets}
  BY DEF Merge
<1>2. ASSUME NEW k \in DOMAIN Merge(sets)
      PROVE  \E l \in sets : k \in DOMAIN l /\ Merge(sets)[k] = l[k]
  <2> DEFINE f == CHOOSE l \in sets : Has(l, k)
  <2>1. \E l \in sets : Has(l, k)
    BY <1>1 DEF Has
  <2>2. f \in sets /\ Has(f, k)
    BY <2>1
  <2>3. Merge(sets)[k] = f[k]
    BY <1>1 DEF Merge
  <2> QED BY <2>2, <2>3 DEF Has
<1> QED BY <1>1, <1>2

\* What a router or its middlewares put on a stub is about routers and
\* middlewares.
Kinds == {"routers", "tcp routers", "middlewares"}
About(l) == \A k \in DOMAIN l : k[1] \in Kinds

LEMMA AboutLabel ==
  ASSUME NEW kind \in Kinds, NEW r, NEW option, NEW values
  PROVE  About(Label(<<kind, r, option>>, values))
<1>1. <<kind, r, option>>[1] = kind
  OBVIOUS
<1> QED BY <1>1, LabelIs DEF About

LEMMA AboutMerge ==
  ASSUME NEW sets, \A l \in sets : About(l)
  PROVE  About(Merge(sets))
BY MergeIs DEF About

LEMMA AboutCommon ==
  ASSUME NEW kind \in {"routers", "tcp routers"}, NEW r, NEW router
  PROVE  \A l \in commonLabels(kind, r, router) : About(l)
<1>1. kind \in Kinds
  BY DEF Kinds
<1>2. /\ About(Label(<<kind, r, "entrypoints">>, NonEmpty(router.entrypoints, <<>>)))
      /\ About(Label(<<kind, r, "service">>, {router.service}))
      /\ About(Label(<<kind, r, "priority">>, {Itoa(n) : n \in router.priority}))
  BY <1>1, AboutLabel
<1> QED BY <1>2 DEF commonLabels

LEMMA AboutRouted ==
  ASSUME NEW r, NEW router, NEW middlewares
  PROVE  About(tcpLabels(r, router)) /\ About(httpLabels(r, router, middlewares))
<1>1. About(tcpLabels(r, router))
  <2>1. "tcp routers" \in Kinds /\ "tcp routers" \in {"routers", "tcp routers"}
    BY DEF Kinds
  <2>2. /\ About(Label(<<"tcp routers", r, "rule">>, {tcpRuleFromHTTPRule(router.rule)}))
        /\ About(Label(<<"tcp routers", r, "tls">>, {"true"}))
        /\ About(Label(<<"tcp routers", r, "certresolver">>, router.tls \ {""}))
    BY <2>1, AboutLabel
  <2>3. \A l \in commonLabels("tcp routers", r, router) : About(l)
    BY <2>1, AboutCommon
  <2> QED BY <2>2, <2>3, AboutMerge DEF tcpLabels
<1>2. About(httpLabels(r, router, middlewares))
  <2>1. "routers" \in Kinds /\ "routers" \in {"routers", "tcp routers"} /\ "middlewares" \in Kinds
    BY DEF Kinds
  <2>2. /\ About(Label(<<"routers", r, "rule">>, {router.rule}))
        /\ About(Label(<<"routers", r, "middlewares">>, NonEmpty(router.middlewares, <<>>)))
    BY <2>1, AboutLabel
  <2>3. \A l \in commonLabels("routers", r, router) : About(l)
    BY <2>1, AboutCommon
  <2>4. ASSUME NEW m, NEW mw PROVE About(middlewareLabels(m, mw))
    <3>1. \A k \in DOMAIN middlewareLabels(m, mw) : \E o : k = <<"middlewares", m, o>>
      BY DEF middlewareLabels
    <3> QED BY <2>1, <3>1 DEF About
  <2> QED BY <2>2, <2>3, <2>4, AboutMerge DEF httpLabels
<1> QED BY <1>1, <1>2

-----------------------------------------------------------------------------
(* The stubs.                                                               *)

LEMMA StubIs ==
  ASSUME NEW c, NEW st \in buildDesiredStubs(c)
  PROVE  /\ st.service \in DOMAIN c.services
         /\ Has(st.labels, <<"connect", "managed">>)
         /\ st.labels[<<"connect", "managed">>] = "true"
<1> DEFINE routersOf(s) == {r \in DOMAIN c.routers : c.routers[r].service = s}
           routed(r) == IF c.routers[r].tls # {} THEN tcpLabels(r, c.routers[r])
                        ELSE httpLabels(r, c.routers[r], c.middlewares)
           sets(s) == serviceLabels(s, c.services[s].parsed) \cup {routed(r) : r \in routersOf(s)}
<1>1. PICK s \in DOMAIN c.services : st.service = s /\ st.labels = Merge(sets(s))
  <2>1. buildDesiredStubs(c) =
          {[service |-> s, labels |-> Merge(sets(s))] :
             s \in {s \in DOMAIN c.services : routersOf(s) # {}}}
    BY DEF buildDesiredStubs
  <2> HIDE DEF sets, routersOf
  <2>2. PICK s \in DOMAIN c.services : st = [service |-> s, labels |-> Merge(sets(s))]
    BY <2>1
  <2> QED BY <2>2
<1> DEFINE key == <<"connect", "managed">>
           own == serviceLabels(s, c.services[s].parsed)
           mark == Label(key, {"true"})
<1>2. mark \in own /\ Has(mark, key) /\ mark[key] = "true"
  BY LabelIs DEF serviceLabels
<1>3. \A l \in own : Has(l, key) => l = mark
  <2>1. /\ key # <<"traefik", "enable">> /\ key # <<"docker", "network">>
        /\ key # <<"services", s, "port">> /\ key # <<"tcp services", s, "port">>
        /\ key # <<"services", s, "passhostheader">> /\ key # <<"services", s, "sticky">>
    OBVIOUS
  <2>2. ASSUME NEW k, NEW values, Has(Label(k, values), key) PROVE k = key
    BY <2>2, LabelIs DEF Has
  <2> HIDE DEF key
  <2> QED BY <2>1, <2>2 DEF serviceLabels, mark, key
<1>4. \A r : ~Has(routed(r), key)
  <2>1. \A r : About(routed(r))
    BY AboutRouted
  <2>2. key[1] \notin Kinds
    BY DEF Kinds
  <2> HIDE DEF key, routed
  <2> QED BY <2>1, <2>2 DEF About, Has
<1> HIDE DEF key, mark, own, routed, routersOf
<1>5. mark \in sets(s) /\ \A l \in sets(s) : Has(l, key) => l = mark
  BY <1>2, <1>3, <1>4 DEF own
<1> HIDE DEF sets
<1>6. Has(st.labels, key) /\ st.labels[key] = "true"
  <2> DEFINE all == sets(s)
  <2>1. st.labels = Merge(all) /\ mark \in all /\ \A l \in all : Has(l, key) => l = mark
    BY <1>1, <1>5
  <2> HIDE DEF all
  <2>2. key \in DOMAIN Merge(all)
    <3>1. DOMAIN Merge(all) = UNION {DOMAIN l : l \in all}
      BY MergeIs
    <3> QED BY <1>2, <2>1, <3>1 DEF Has
  <2>3. \E l \in all : key \in DOMAIN l /\ Merge(all)[key] = l[key]
    BY <2>2, MergeIs
  <2> QED BY <1>2, <2>1, <2>2, <2>3 DEF Has
<1> QED BY <1>1, <1>6 DEF key

-----------------------------------------------------------------------------
(* The addresses.                                                           *)

LEMMA NumbersAre ==
  /\ \A v \in DOMAIN Numbers : Numbers[v] \in Nat
  /\ \A v : \A n \in Positive(v) : n \in Nat /\ n > 0 /\ v \in DOMAIN Numbers /\ n = Numbers[v]
<1>1. \A v \in DOMAIN Numbers : Numbers[v] \in Nat
  BY DEF Numbers
<1>2. ASSUME NEW v, NEW n \in Positive(v)
      PROVE  n \in Nat /\ n > 0 /\ v \in DOMAIN Numbers /\ n = Numbers[v]
  <2>1. n \in Atoi(v) /\ n > 0
    BY DEF Positive
  <2>2. v \in DOMAIN Numbers /\ n = Numbers[v]
    BY <2>1 DEF Atoi
  <2> QED BY <1>1, <2>1, <2>2
<1> QED BY <1>1, <1>2

LEMMA ServicePort ==
  ASSUME NEW labels, NEW s
  PROVE  parseService(labels, s).port \in Nat
<1> DEFINE v == labels[<<"services", s, "port">>]
           p == parseService(labels, s).port
<1>1. p = IF Has(labels, <<"services", s, "port">>) /\ Positive(v) # {} THEN Numbers[v] ELSE 0
  BY DEF parseService
<1> HIDE DEF v, p
<1>2. Positive(v) # {} => Numbers[v] \in Nat
  BY NumbersAre
<1>3. p \in Nat
  BY <1>1, <1>2
<1> QED BY <1>3 DEF p

LEMMA InferredPort ==
  ASSUME NEW i
  PROVE  \A n \in inferPort(i) : n \in Nat /\ n > 0
<1> DEFINE parsed(keys) == UNION {Positive(k[1]) : k \in keys}
<1>1. \A keys : \A n \in parsed(keys) : n \in Nat /\ n > 0
  BY NumbersAre
<1>2. \A n \in inferPort(i) : n \in parsed(i.exposed) \/ n \in parsed(i.published)
  BY DEF inferPort
<1> HIDE DEF parsed
<1> QED BY <1>1, <1>2

LEMMA PreferredAddress ==
  ASSUME NEW i
  PROVE  \A a \in preferredContainerAddr(i) : a # ""
BY DEF preferredContainerAddr

LEMMA HostOverrideIs ==
  ASSUME NEW i, NEW port \in Nat, NEW b \in HostOverride(i, port)
  PROVE  /\ b.source = "override-host-port"
         /\ b.host = Text(i.labels, <<"connect", "host">>) /\ b.port \in Nat /\ b.port > 0
<1> DEFINE given == Text(i.labels, <<"connect", "port">>)
           host  == Text(i.labels, <<"connect", "host">>)
           ps    == IF given # "" THEN Positive(given) ELSE {port} \ {0}
<1>1. PICK p \in ps : b = Backend("override-host-port", host, p)
  BY DEF HostOverride, Backend
<1>2. p \in Nat /\ p > 0
  <2>1. CASE p \in Positive(given)
    BY <2>1, NumbersAre
  <2>2. CASE p \in {port} \ {0}
    <3>1. p = port /\ port # 0
      BY <2>2
    <3> HIDE DEF ps
    <3> QED BY <3>1
  <2>3. p \in Positive(given) \/ p \in {port} \ {0}
    BY <1>1
  <2> QED BY <2>1, <2>2, <2>3
<1> HIDE DEF host, ps
<1> QED BY <1>1, <1>2 DEF Backend, host

LEMMA ReachIs ==
  ASSUME NEW i
  PROVE  \A h \in Reach(i).hosts : h # ""
<1>1. CASE i.hostMode
  BY <1>1 DEF Reach, NonEmpty
<1>2. CASE ~i.hostMode
  BY <1>2, PreferredAddress DEF Reach
<1> QED BY <1>1, <1>2

LEMMA PortsAre ==
  ASSUME NEW i, NEW port \in Nat
  PROVE  \A n \in Ports(i, port) : n \in Nat /\ n > 0
<1>1. CASE port > 0
  BY <1>1 DEF Ports
<1>2. CASE ~(port > 0)
  BY <1>2, InferredPort DEF Ports
<1> QED BY <1>1, <1>2

\* A given URL is one that parses, any other backend has a host and a port.
LEMMA BackendIs ==
  ASSUME NEW i, NEW port \in Nat, NEW b \in resolveBackendURL(i, port)
  PROVE  IF b.source = "override-url" THEN b.host \notin Unparsable \cup {""}
         ELSE b.host # "" /\ b.port \in Nat /\ b.port > 0
<1> DEFINE host == Text(i.labels, <<"connect", "host">>)
           url  == Text(i.labels, <<"connect", "url">>)
<1>1. ASSUME b \in LocalBackend(i, port)
      PROVE  \E h \in Reach(i).hosts, p \in Ports(i, port) :
               b.source = Reach(i).source /\ b.host = h /\ b.port = p
  BY <1>1 DEF LocalBackend, Backend
<1>2. \/ url \notin Unparsable \cup {""} /\ b = Backend("override-url", url, port)
      \/ host # "" /\ b \in HostOverride(i, port)
      \/ b \in LocalBackend(i, port)
  BY DEF resolveBackendURL
<1>3. CASE url \notin Unparsable \cup {""} /\ b = Backend("override-url", url, port)
  BY <1>3 DEF Backend
<1>4. CASE host # "" /\ b \in HostOverride(i, port)
  <2>1. b.source = "override-host-port" /\ b.host = host /\ b.port \in Nat /\ b.port > 0
    BY <1>4, HostOverrideIs
  <2> HIDE DEF host
  <2> QED BY <1>4, <2>1
<1>5. CASE b \in LocalBackend(i, port)
  <2>1. Reach(i).source # "override-url"
    BY DEF Reach
  <2> QED BY <1>1, <1>5, <2>1, ReachIs, PortsAre
<1> QED BY <1>2, <1>3, <1>4, <1>5

-----------------------------------------------------------------------------
(* Words, and how they read once written.                                   *)

LEMMA Trim ==
  \A v : /\ TrimSpace(v) # " " /\ TrimSpace(TrimSpace(v)) = TrimSpace(v)
         /\ TrimSpace(v) # "" => TrimSpace(v) = v
BY DEF TrimSpace

\* The ranks of some positions count them.
LEMMA RankIs ==
  ASSUME NEW n \in Nat, NEW kept \in SUBSET (1..n)
  PROVE  /\ IsFiniteSet(kept) /\ Cardinality(kept) \in Nat
         /\ \A m \in 1..Cardinality(kept) : \E j \in kept : Rank(j, kept) = m
<1> DEFINE upTo(j) == {k \in kept : k <= j}
           C == Cardinality(kept)
           f == [j \in kept |-> Rank(j, kept)]
<1>1. IsFiniteSet(kept) /\ C \in Nat
  <2>1. IsFiniteSet(1..n)
    BY FS_Interval
  <2>2. IsFiniteSet(kept)
    BY <2>1, FS_Subset
  <2> QED BY <2>2, FS_CardinalityType
<1>2. \A j \in kept : /\ IsFiniteSet(upTo(j)) /\ Cardinality(upTo(j)) \in Nat
                      /\ Cardinality(upTo(j)) <= C
  <2> TAKE j \in kept
  <2>1. upTo(j) \in SUBSET kept
    OBVIOUS
  <2> HIDE DEF upTo
  <2> QED BY <1>1, <2>1, FS_Subset, FS_CardinalityType
<1>3. \A j \in kept : Cardinality(upTo(j)) > 0
  <2> TAKE j \in kept
  <2>1. j \in upTo(j)
    OBVIOUS
  <2> HIDE DEF upTo
  <2> QED BY <1>2, <2>1, FS_EmptySet
<1>4. \A j, k \in kept : j < k => Cardinality(upTo(j)) < Cardinality(upTo(k))
  <2> SUFFICES ASSUME NEW j \in kept, NEW k \in kept, j < k
               PROVE  Cardinality(upTo(j)) < Cardinality(upTo(k))
    OBVIOUS
  <2>1. upTo(j) \in SUBSET upTo(k) /\ k \in upTo(k) /\ k \notin upTo(j)
    <3>1. \A x \in kept : x \in Int
      OBVIOUS
    <3>2. \A x \in kept : x <= j => x <= k
      BY <3>1
    <3>3. k <= k /\ ~(k <= j)
      BY <3>1
    <3> QED BY <3>2, <3>3
  <2> HIDE DEF upTo
  <2>2. /\ Cardinality(upTo(j)) <= Cardinality(upTo(k))
        /\ Cardinality(upTo(k)) = Cardinality(upTo(j)) => upTo(k) = upTo(j)
    BY <1>2, <2>1, FS_Subset
  <2> QED BY <1>2, <2>1, <2>2
<1>5. f \in Injection(kept, 1..C)
  <2>1. \A j \in kept : f[j] = Cardinality(upTo(j))
    BY DEF Rank
  <2> HIDE DEF f, upTo, C
  <2>2. \A j \in kept : f[j] \in 1..C
    BY <1>1, <1>2, <1>3, <2>1
  <2>3. \A j, k \in kept : f[j] = f[k] => j = k
    <3> SUFFICES ASSUME NEW j \in kept, NEW k \in kept, j # k PROVE f[j] # f[k]
      OBVIOUS
    <3>1. j < k \/ k < j
      OBVIOUS
    <3> QED BY <1>2, <1>4, <2>1, <3>1
  <2>4. f \in [kept -> 1..C]
    BY <2>2 DEF f
  <2> QED BY <2>3, <2>4 DEF Injection, IsInjective
<1>6. f \in Surjection(kept, 1..C)
  <2>1. IsFiniteSet(1..C) /\ Cardinality(1..C) = C
    BY <1>1, FS_Interval
  <2> HIDE DEF f, C
  <2>2. Cardinality(kept) = Cardinality(1..C)
    BY <2>1 DEF C
  <2> QED BY <1>5, <2>1, <2>2, FS_Injection
<1>7. \A m \in 1..C : \E j \in kept : f[j] = m
  <2> HIDE DEF f, C
  <2> QED BY <1>6 DEF Surjection
<1> QED BY <1>1, <1>7

\* Splitting drops the blank words: what is split again stays as it is.
LEMMA CsvOnce ==
  ASSUME NEW S, NEW items \in Seq(S)
  PROVE  csv(csv(items)) = csv(items)
<1> DEFINE kept == {j \in DOMAIN items : TrimSpace(items[j]) # ""}
           C == Cardinality(kept)
           words == csv(items)
<1>1. /\ C \in Nat /\ \A m \in 1..C : \E j \in kept : Rank(j, kept) = m
  <2>1. Len(items) \in Nat /\ kept \in SUBSET (1..Len(items))
    <3>1. DOMAIN items = 1..Len(items) /\ Len(items) \in Nat
      OBVIOUS
    <3>2. kept \subseteq DOMAIN items
      OBVIOUS
    <3> QED BY <3>1, <3>2
  <2> HIDE DEF kept
  <2> QED BY <2>1, RankIs
<1>2. /\ DOMAIN words = 1..C /\ words = [n \in 1..C |-> words[n]]
      /\ \A n \in 1..C : words[n] = items[CHOOSE j \in kept : Rank(j, kept) = n]
  BY DEF csv
<1>3. \A n \in 1..C : TrimSpace(words[n]) # ""
  <2> TAKE n \in 1..C
  <2> DEFINE j == CHOOSE j \in kept : Rank(j, kept) = n
  <2>1. j \in kept
    <3> HIDE DEF kept, C
    <3> QED BY <1>1
  <2>2. TrimSpace(items[j]) # ""
    BY <2>1
  <2> HIDE DEF j, kept, C, words
  <2> QED BY <1>2, <2>2 DEF j
<1> DEFINE again == {j \in DOMAIN words : TrimSpace(words[j]) # ""}
<1>4. again = 1..C /\ Cardinality(again) = C
  <2> HIDE DEF C, words
  <2>1. again = 1..C
    BY <1>2, <1>3
  <2>2. C \in Nat
    BY <1>1
  <2>3. Cardinality(1..C) = C
    BY <2>2, FS_Interval
  <2> QED BY <2>1, <2>3
<1>5. \A n \in 1..C : Rank(n, 1..C) = n
  <2> HIDE DEF C
  <2> TAKE n \in 1..C
  <2>1. n \in Nat /\ {k \in 1..C : k <= n} = 1..n
    <3>1. C \in Nat
      BY <1>1
    <3> QED BY <3>1
  <2>2. Cardinality(1..n) = n
    <3>1. n > 0
      OBVIOUS
    <3> QED BY <2>1, <3>1, FS_Interval
  <2> QED BY <2>1, <2>2 DEF Rank
<1>6. \A n \in 1..C : (CHOOSE j \in 1..C : Rank(j, 1..C) = n) = n
  <2> HIDE DEF C
  <2> QED BY <1>5
<1>7. csv(words) = [n \in 1..C |-> words[CHOOSE j \in 1..C : Rank(j, 1..C) = n]]
  <2>1. csv(words) = [n \in 1..Cardinality(again) |->
                        words[CHOOSE j \in again : Rank(j, again) = n]]
    BY DEF csv
  <2> HIDE DEF again, words, C
  <2> QED BY <1>4, <2>1
<1> HIDE DEF words, C
<1> QED BY <1>2, <1>6, <1>7 DEF words

LEMMA NumberOnce ==
  ASSUME NEW v
  PROVE  \/ Atoi(v) = {}
         \/ \E n : Atoi(v) = {n} /\ Atoi(Itoa(n)) = {n}
<1>1. CASE v \notin DOMAIN Numbers
  BY <1>1 DEF Atoi
<1>2. CASE v \in DOMAIN Numbers
  <2> DEFINE n == Numbers[v]
  <2>1. Atoi(v) = {n}
    BY <1>2 DEF Atoi
  <2>2. Itoa(n) \in DOMAIN Numbers /\ Numbers[Itoa(n)] = n
    BY <1>2 DEF Itoa
  <2> QED BY <2>1, <2>2 DEF Atoi
<1> QED BY <1>1, <1>2

LEMMA FlagOnce ==
  /\ \A v, default : default \in BOOLEAN => parseBool(v, default) \in BOOLEAN
  /\ \A b \in BOOLEAN : \A default : parseBool(FormatBool(b), default) = b
BY DEF parseBool, FormatBool

\* An option that is kept reads the same once it is written.
LEMMA OptionOnce ==
  ASSUME NEW o, NEW v, parseOption(o, v) # {}, o = "basicauth.users" => v \in Seq(STRING)
  PROVE  parseOption(o, formatOption(o, CHOOSE x \in parseOption(o, v) : TRUE)) = parseOption(o, v)
<1> DEFINE x == CHOOSE x \in parseOption(o, v) : TRUE
<1>1. CASE o = "redirectscheme.scheme"
  <2>1. parseOption(o, v) = {TrimSpace(v)} /\ TrimSpace(v) # ""
    BY <1>1 DEF parseOption, NonEmpty
  <2>2. x = TrimSpace(v) /\ formatOption(o, x) = TrimSpace(v)
    BY <1>1, <2>1 DEF formatOption
  <2> QED BY <1>1, <2>1, <2>2, Trim DEF parseOption, NonEmpty
<1>2. CASE o = "redirectscheme.permanent"
  <2>1. parseOption(o, v) = {parseBool(v, FALSE)}
    BY <1>2 DEF parseOption
  <2>2. x = parseBool(v, FALSE) /\ formatOption(o, x) = FormatBool(parseBool(v, FALSE))
    BY <1>2, <2>1 DEF formatOption
  <2>3. parseOption(o, formatOption(o, x)) = {parseBool(FormatBool(parseBool(v, FALSE)), FALSE)}
    BY <1>2, <2>2 DEF parseOption
  <2> QED BY <2>1, <2>3, FlagOnce
<1>3. CASE o = "basicauth.users"
  <2>1. parseOption(o, v) = {csv(v)} /\ csv(v) # <<>>
    BY <1>3 DEF parseOption, NonEmpty
  <2>2. x = csv(v) /\ formatOption(o, x) = csv(v)
    BY <1>3, <2>1 DEF formatOption
  <2>3. csv(csv(v)) = csv(v)
    BY <1>3, CsvOnce
  <2> QED BY <1>3, <2>1, <2>2, <2>3 DEF parseOption, NonEmpty
<1>4. CASE o = "headers.stsseconds"
  <2>1. parseOption(o, v) = Atoi(v)
    BY <1>4 DEF parseOption
  <2>2. formatOption(o, x) = Itoa(x)
    BY <1>4 DEF formatOption
  <2>3. Atoi(Itoa(x)) = Atoi(v)
    <3>1. PICK n : Atoi(v) = {n} /\ Atoi(Itoa(n)) = {n}
      BY <2>1, NumberOnce
    <3>2. x = n
      BY <2>1, <3>1
    <3> QED BY <3>1, <3>2
  <2>4. parseOption(o, formatOption(o, x)) = Atoi(formatOption(o, x))
    BY <1>4 DEF parseOption
  <2> QED BY <2>1, <2>2, <2>3, <2>4
<1> QED BY <1>1, <1>2, <1>3, <1>4 DEF parseOption

\* The writer knows every option that the parser keeps.
LEMMA OptionWritten ==
  ASSUME NEW o, NEW v, parseOption(o, v) # {}
  PROVE  o \in Written
BY DEF parseOption, Written

-----------------------------------------------------------------------------
(* What is written on a stub.                                               *)

\* Under key, labels have the one value in values, or nothing.
Says(labels, key, values) ==
  /\ Has(labels, key) <=> values # {}
  /\ \A v : values = {v} => labels[key] = v

LEMMA LabelSays ==
  ASSUME NEW key, NEW values
  PROVE  Says(Label(key, values), key, values)
BY DEF Says, Label, Has

LEMMA MergeSays ==
  ASSUME NEW sets, NEW key, NEW values,
         \A l \in sets : Has(l, key) => Says(l, key, values),
         values # {} => \E l \in sets : Has(l, key)
  PROVE  Says(Merge(sets), key, values)
<1>1. ASSUME Has(Merge(sets), key)
      PROVE  \E l \in sets : Has(l, key) /\ Merge(sets)[key] = l[key]
  BY <1>1, MergeIs DEF Has
<1>2. ASSUME NEW l \in sets, Has(l, key) PROVE Has(Merge(sets), key)
  <2>1. key \in UNION {DOMAIN x : x \in sets}
    BY <1>2 DEF Has
  <2>2. DOMAIN Merge(sets) = UNION {DOMAIN x : x \in sets}
    BY MergeIs
  <2> QED BY <2>1, <2>2 DEF Has
<1>3. Has(Merge(sets), key) <=> values # {}
  BY <1>1, <1>2 DEF Says
<1>4. ASSUME NEW v, values = {v} PROVE Merge(sets)[key] = v
  <2>1. PICK l \in sets : Has(l, key) /\ Merge(sets)[key] = l[key]
    BY <1>1, <1>3, <1>4
  <2> QED BY <1>4, <2>1 DEF Says
<1> QED BY <1>3, <1>4 DEF Says

\* Numbers, flags and a middleware's option as they are written.
NumberWords(numbers) == {Itoa(n) : n \in numbers}
FlagWords(flags) == {FormatBool(b) : b \in flags}
OptionWords(o, values) == {formatOption(o, CHOOSE v \in values : TRUE)}

\* The options of a router, written one label each, beside labels that are not
\* the router's.
LEMMA OptionsSay ==
  ASSUME NEW kind, NEW r, NEW values, NEW others, NEW option,
         \A l \in others : ~Has(l, <<kind, r, option>>)
  PROVE  Says(Merge({Label(<<kind, r, o>>, values[o]) : o \in DOMAIN values} \cup others),
              <<kind, r, option>>, IF option \in DOMAIN values THEN values[option] ELSE {})
<1> DEFINE key == <<kind, r, option>>
           own == {Label(<<kind, r, o>>, values[o]) : o \in DOMAIN values}
           said == IF option \in DOMAIN values THEN values[option] ELSE {}
<1>1. ASSUME NEW l \in own, Has(l, key)
      PROVE  option \in DOMAIN values /\ Says(l, key, values[option])
  <2>1. PICK o \in DOMAIN values : l = Label(<<kind, r, o>>, values[o])
    OBVIOUS
  <2>2. key = <<kind, r, o>>
    BY <1>1, <2>1, LabelIs DEF Has
  <2>3. o = option
    BY <2>2
  <2> QED BY <2>1, <2>3, LabelSays
<1>2. ASSUME said # {} PROVE \E l \in own : Has(l, key)
  <2>1. option \in DOMAIN values /\ values[option] # {}
    BY <1>2
  <2>2. Label(key, values[option]) \in own
    BY <2>1
  <2>3. Has(Label(key, values[option]), key)
    BY <2>1, LabelSays DEF Says
  <2> QED BY <2>2, <2>3
<1> HIDE DEF key, own
<1>3. \A l \in own \cup others : Has(l, key) => Says(l, key, said)
  BY <1>1 DEF key
<1>4. said # {} => \E l \in own \cup others : Has(l, key)
  BY <1>2
<1> HIDE DEF said
<1>5. Says(Merge(own \cup others), key, said)
  BY <1>3, <1>4, MergeSays
<1> QED BY <1>5 DEF key, own, said

\* The values of a stub's routers by option.
TcpValues(router) ==
  [entrypoints |-> NonEmpty(router.entrypoints, <<>>), service |-> {router.service},
   priority |-> NumberWords(router.priority),
   rule |-> {tcpRuleFromHTTPRule(router.rule)}, tls |-> {"true"},
   certresolver |-> router.tls \ {""}]
HttpValues(router) ==
  [entrypoints |-> NonEmpty(router.entrypoints, <<>>), service |-> {router.service},
   priority |-> NumberWords(router.priority),
   rule |-> {router.rule}, middlewares |-> NonEmpty(router.middlewares, <<>>)]
TcpOptions == {"entrypoints", "service", "priority", "rule", "tls", "certresolver"}
HttpOptions == {"entrypoints", "service", "priority", "rule", "middlewares"}

LEMMA TcpSays ==
  ASSUME NEW r, NEW router
  PROVE  /\ \A option : Says(tcpLabels(r, router), <<"tcp routers", r, option>>,
                             IF option \in TcpOptions THEN TcpValues(router)[option] ELSE {})
         /\ \A k \in DOMAIN tcpLabels(r, router) : k[1] = "tcp routers" /\ k[2] = r
<1> DEFINE values == TcpValues(router)
           own == {Label(<<"tcp routers", r, o>>, values[o]) : o \in DOMAIN values}
<1>1. DOMAIN values = TcpOptions
  BY DEF TcpValues, TcpOptions
<1>2. tcpLabels(r, router) = Merge(own \cup {})
  <2>1. \A o : values[o] = TcpValues(router)[o]
    OBVIOUS
  <2>2. own = {Label(<<"tcp routers", r, "entrypoints">>, values["entrypoints"]),
               Label(<<"tcp routers", r, "service">>, values["service"]),
               Label(<<"tcp routers", r, "priority">>, values["priority"]),
               Label(<<"tcp routers", r, "rule">>, values["rule"]),
               Label(<<"tcp routers", r, "tls">>, values["tls"]),
               Label(<<"tcp routers", r, "certresolver">>, values["certresolver"])}
    <3> HIDE DEF values
    <3> QED BY <1>1 DEF TcpOptions
  <2>3. /\ values["entrypoints"] = NonEmpty(router.entrypoints, <<>>)
        /\ values["service"] = {router.service}
        /\ values["priority"] = NumberWords(router.priority)
        /\ values["rule"] = {tcpRuleFromHTTPRule(router.rule)}
        /\ values["tls"] = {"true"} /\ values["certresolver"] = router.tls \ {""}
    BY DEF TcpValues
  <2> HIDE DEF values, own
  <2>4. own = commonLabels("tcp routers", r, router)
                \cup {Label(<<"tcp routers", r, "rule">>, {tcpRuleFromHTTPRule(router.rule)}),
                      Label(<<"tcp routers", r, "tls">>, {"true"}),
                      Label(<<"tcp routers", r, "certresolver">>, router.tls \ {""})}
    BY <2>2, <2>3 DEF commonLabels, NumberWords
  <2> QED BY <2>4 DEF tcpLabels
<1>3. \A k \in DOMAIN Merge(own \cup {}) : k[1] = "tcp routers" /\ k[2] = r
  <2>1. \A l \in own : \A k \in DOMAIN l : \E o : k = <<"tcp routers", r, o>>
    <3> SUFFICES ASSUME NEW l \in own, NEW k \in DOMAIN l
                 PROVE  \E o : k = <<"tcp routers", r, o>>
      OBVIOUS
    <3>1. PICK o : l = Label(<<"tcp routers", r, o>>, values[o])
      <4> HIDE DEF values
      <4> QED OBVIOUS
    <3> HIDE DEF values, own
    <3>2. DOMAIN l \subseteq {<<"tcp routers", r, o>>}
      BY <3>1, LabelIs
    <3> QED BY <3>2
  <2>2. \A o : <<"tcp routers", r, o>>[1] = "tcp routers" /\ <<"tcp routers", r, o>>[2] = r
    OBVIOUS
  <2> DEFINE all == own \cup {}
  <2>3. \A l \in all : \A k \in DOMAIN l : \E o : k = <<"tcp routers", r, o>>
    BY <2>1
  <2> HIDE DEF all, own
  <2>4. ASSUME NEW k \in DOMAIN Merge(all) PROVE \E l \in all : k \in DOMAIN l
    BY MergeIs
  <2>5. \A k \in DOMAIN Merge(all) : k[1] = "tcp routers" /\ k[2] = r
    BY <2>2, <2>3, <2>4
  <2> QED BY <2>5 DEF all
<1>4. ASSUME NEW option
      PROVE  Says(Merge(own \cup {}), <<"tcp routers", r, option>>,
                  IF option \in DOMAIN values THEN values[option] ELSE {})
  <2> HIDE DEF values
  <2> QED BY OptionsSay
<1> HIDE DEF own
<1> QED BY <1>1, <1>2, <1>3, <1>4

LEMMA HttpSays ==
  ASSUME NEW r, NEW router, NEW mws
  PROVE  /\ \A option : Says(httpLabels(r, router, mws), <<"routers", r, option>>,
                             IF option \in HttpOptions THEN HttpValues(router)[option] ELSE {})
         /\ \A k \in DOMAIN httpLabels(r, router, mws) :
              \/ k[1] = "routers" /\ k[2] = r
              \/ \E m \in Elements(router.middlewares) : k \in DOMAIN middlewareLabels(m, mws[m])
         /\ \A m \in Elements(router.middlewares) : \A o \in DOMAIN mws[m] \cap Written :
              Says(httpLabels(r, router, mws), <<"middlewares", m, o>>,
                   OptionWords(o, mws[m][o]))
<1> DEFINE values == HttpValues(router)
           own == {Label(<<"routers", r, o>>, values[o]) : o \in DOMAIN values}
           others == {middlewareLabels(m, mws[m]) : m \in Elements(router.middlewares)}
<1>1. DOMAIN values = HttpOptions
  BY DEF HttpValues, HttpOptions
<1>2. httpLabels(r, router, mws) = Merge(own \cup others)
  <2>2. own = {Label(<<"routers", r, "entrypoints">>, values["entrypoints"]),
               Label(<<"routers", r, "service">>, values["service"]),
               Label(<<"routers", r, "priority">>, values["priority"]),
               Label(<<"routers", r, "rule">>, values["rule"]),
               Label(<<"routers", r, "middlewares">>, values["middlewares"])}
    <3> HIDE DEF values
    <3> QED BY <1>1 DEF HttpOptions
  <2>3. /\ values["entrypoints"] = NonEmpty(router.entrypoints, <<>>)
        /\ values["service"] = {router.service}
        /\ values["priority"] = NumberWords(router.priority)
        /\ values["rule"] = {router.rule}
        /\ values["middlewares"] = NonEmpty(router.middlewares, <<>>)
    BY DEF HttpValues
  <2> HIDE DEF values, own
  <2>4. own = commonLabels("routers", r, router)
                \cup {Label(<<"routers", r, "rule">>, {router.rule}),
                      Label(<<"routers", r, "middlewares">>, NonEmpty(router.middlewares, <<>>))}
    BY <2>2, <2>3 DEF commonLabels, NumberWords
  <2> QED BY <2>4 DEF httpLabels
<1>3. \A l \in own : \A k \in DOMAIN l : \E o : k = <<"routers", r, o>>
  <2> SUFFICES ASSUME NEW l \in own, NEW k \in DOMAIN l
               PROVE  \E o : k = <<"routers", r, o>>
    OBVIOUS
  <2>1. PICK o : l = Label(<<"routers", r, o>>, values[o])
    <3> HIDE DEF values
    <3> QED OBVIOUS
  <2> HIDE DEF values, own, others
  <2>2. DOMAIN l \subseteq {<<"routers", r, o>>}
    BY <2>1, LabelIs
  <2> QED BY <2>2
<1>4. \A l \in others : \A k \in DOMAIN l :
        \E m \in Elements(router.middlewares) :
          k \in DOMAIN middlewareLabels(m, mws[m]) /\ \E o : k = <<"middlewares", m, o>>
  <2> SUFFICES ASSUME NEW m \in Elements(router.middlewares),
                      NEW k \in DOMAIN middlewareLabels(m, mws[m])
               PROVE  \E o : k = <<"middlewares", m, o>>
    OBVIOUS
  <2> QED BY DEF middlewareLabels
<1>5. \A m, o : /\ <<"routers", m, o>>[1] = "routers" /\ <<"routers", m, o>>[2] = m
                /\ <<"middlewares", m, o>>[1] = "middlewares"
                /\ <<"middlewares", m, o>>[2] = m /\ <<"middlewares", m, o>>[3] = o
  OBVIOUS
<1>6. ASSUME NEW option
      PROVE  Says(Merge(own \cup others), <<"routers", r, option>>,
                  IF option \in DOMAIN values THEN values[option] ELSE {})
  <2>1. \A l \in others : ~Has(l, <<"routers", r, option>>)
    <3> HIDE DEF others
    <3> QED BY <1>4, <1>5 DEF Has
  <2> HIDE DEF values, others
  <2> QED BY <2>1, OptionsSay
<1>7. \A k \in DOMAIN Merge(own \cup others) :
        \/ k[1] = "routers" /\ k[2] = r
        \/ \E m \in Elements(router.middlewares) : k \in DOMAIN middlewareLabels(m, mws[m])
  <2> DEFINE all == own \cup others
  <2> HIDE DEF own, others
  <2> SUFFICES ASSUME NEW k \in DOMAIN Merge(all)
               PROVE  \/ k[1] = "routers" /\ k[2] = r
                      \/ \E m \in Elements(router.middlewares) :
                           k \in DOMAIN middlewareLabels(m, mws[m])
    OBVIOUS
  <2>1. PICK l \in all : k \in DOMAIN l
    <3> HIDE DEF all
    <3> QED BY MergeIs
  <2>2. CASE l \in own
    BY <1>3, <1>5, <2>1, <2>2
  <2>3. CASE l \in others
    BY <1>4, <2>1, <2>3
  <2> QED BY <2>2, <2>3
<1>8. ASSUME NEW m \in Elements(router.middlewares), NEW o \in DOMAIN mws[m] \cap Written
      PROVE  Says(Merge(own \cup others), <<"middlewares", m, o>>,
                  OptionWords(o, mws[m][o]))
  <2> DEFINE key == <<"middlewares", m, o>>
             v == formatOption(o, CHOOSE v \in mws[m][o] : TRUE)
  <2>1. ASSUME NEW n, key \in DOMAIN middlewareLabels(n, mws[n])
        PROVE  n = m
    <3>1. PICK p : key = <<"middlewares", n, p>>
      BY <2>1 DEF middlewareLabels
    <3> QED BY <3>1
  <2>2. Has(middlewareLabels(m, mws[m]), key) /\ middlewareLabels(m, mws[m])[key] = v
    BY DEF middlewareLabels, Has
  <2>3. \A l \in own : ~Has(l, key)
    <3> HIDE DEF own
    <3> QED BY <1>3, <1>5 DEF Has
  <2>4. middlewareLabels(m, mws[m]) \in others
    OBVIOUS
  <2>5. \A l \in others : Has(l, key) => l = middlewareLabels(m, mws[m])
    BY <2>1 DEF Has
  <2> HIDE DEF own, others, key, v
  <2>6. Says(middlewareLabels(m, mws[m]), key, {v})
    BY <2>2 DEF Says
  <2>7. Says(Merge(own \cup others), key, {v})
    BY <2>2, <2>3, <2>4, <2>5, <2>6, MergeSays
  <2> QED BY <2>7 DEF key, v, OptionWords
<1> HIDE DEF own, others
<1> QED BY <1>1, <1>2, <1>6, <1>7, <1>8

-----------------------------------------------------------------------------
(* The labels of a service's stub.                                          *)

routersOf(c, s) == {r \in DOMAIN c.routers : c.routers[r].service = s}
routed(c, r) == IF c.routers[r].tls # {} THEN tcpLabels(r, c.routers[r])
                ELSE httpLabels(r, c.routers[r], c.middlewares)
LabelSets(c, s) == serviceLabels(s, c.services[s].parsed) \cup {routed(c, r) : r \in routersOf(c, s)}
StubLabels(c, s) == Merge(LabelSets(c, s))

LEMMA StubsAre ==
  ASSUME NEW c
  PROVE  buildDesiredStubs(c) =
           {[service |-> s, labels |-> StubLabels(c, s)] :
              s \in {s \in DOMAIN c.services : routersOf(c, s) # {}}}
BY DEF buildDesiredStubs, StubLabels, LabelSets, routersOf, routed

LEMMA ServiceOnly ==
  ASSUME NEW s, NEW service, NEW l \in serviceLabels(s, service), NEW k \in DOMAIN l
  PROVE  k[1] \notin Kinds
<1>1. \E key, values :
        /\ l = Label(key, values)
        /\ \/ key = <<"connect", "managed">> \/ key = <<"traefik", "enable">>
           \/ key = <<"docker", "network">>
           \/ key = <<"services", s, "port">> \/ key = <<"tcp services", s, "port">>
           \/ key = <<"services", s, "passhostheader">> \/ key = <<"services", s, "sticky">>
  BY DEF serviceLabels
<1>2. PICK key, values : l = Label(key, values) /\ key[1] \notin Kinds
  <2>1. PICK key, values :
          /\ l = Label(key, values)
          /\ \/ key = <<"connect", "managed">> \/ key = <<"traefik", "enable">>
             \/ key = <<"docker", "network">>
             \/ key = <<"services", s, "port">> \/ key = <<"tcp services", s, "port">>
             \/ key = <<"services", s, "passhostheader">> \/ key = <<"services", s, "sticky">>
    BY <1>1
  <2>2. key[1] \in {"connect", "traefik", "docker", "services", "tcp services"}
    <3>1. /\ <<"connect", "managed">>[1] = "connect" /\ <<"traefik", "enable">>[1] = "traefik"
          /\ <<"docker", "network">>[1] = "docker"
          /\ <<"services", s, "port">>[1] = "services"
          /\ <<"services", s, "passhostheader">>[1] = "services"
          /\ <<"services", s, "sticky">>[1] = "services"
      OBVIOUS
    <3>2. <<"tcp services", s, "port">>[1] = "tcp services"
      OBVIOUS
    <3> QED BY <2>1, <3>1, <3>2
  <2> QED BY <2>1, <2>2 DEF Kinds
<1>3. DOMAIN l \subseteq {key}
  BY <1>2, LabelIs
<1> QED BY <1>2, <1>3

LEMMA ServiceSays ==
  ASSUME NEW c, NEW s
  PROVE  /\ Says(StubLabels(c, s), <<"services", s, "port">>, {"18181"})
         /\ Says(StubLabels(c, s), <<"services", s, "passhostheader">>,
                 FlagWords(c.services[s].parsed.passhost))
         /\ Says(StubLabels(c, s), <<"services", s, "sticky">>,
                 FlagWords(c.services[s].parsed.sticky))
<1> DEFINE own == serviceLabels(s, c.services[s].parsed)
           passhost == FlagWords(c.services[s].parsed.passhost)
           sticky == FlagWords(c.services[s].parsed.sticky)
<1>1. own = {Label(<<"connect", "managed">>, {"true"}), Label(<<"traefik", "enable">>, {"true"}),
             Label(<<"docker", "network">>, NonEmpty(Network, "")),
             Label(<<"services", s, "port">>, {"18181"}),
             Label(<<"tcp services", s, "port">>, {"18181"}),
             Label(<<"services", s, "passhostheader">>, passhost),
             Label(<<"services", s, "sticky">>, sticky)}
  BY DEF serviceLabels, FlagWords
<1> HIDE DEF passhost, sticky, own
<1>2. ASSUME NEW key, NEW values, Label(key, values) \in own, key[1] \notin Kinds,
             \A l \in own : Has(l, key) => l = Label(key, values)
      PROVE  Says(StubLabels(c, s), key, values)
  <2> DEFINE sets == LabelSets(c, s)
  <2>1. \A r : ~Has(routed(c, r), key)
    BY <1>2, AboutRouted DEF About, Has, routed
  <2>2. Label(key, values) \in sets /\ \A l \in sets : Has(l, key) => l = Label(key, values)
    BY <1>2, <2>1 DEF LabelSets, own
  <2> HIDE DEF sets
  <2>3. Says(Label(key, values), key, values)
    BY LabelSays
  <2>4. Says(Merge(sets), key, values)
    <3>1. \A l \in sets : Has(l, key) => Says(l, key, values)
      BY <2>2, <2>3
    <3>2. values # {} => \E l \in sets : Has(l, key)
      BY <2>2, <2>3 DEF Says
    <3> QED BY <3>1, <3>2, MergeSays
  <2> QED BY <2>4 DEF StubLabels, sets
<1>3. ASSUME NEW key, NEW k, NEW values, Has(Label(k, values), key) PROVE k = key
  BY <1>3, LabelIs DEF Has
<1>4. /\ <<"services", s, "port">>[1] \notin Kinds
      /\ <<"services", s, "passhostheader">>[1] \notin Kinds
      /\ <<"services", s, "sticky">>[1] \notin Kinds
  BY DEF Kinds
<1> DEFINE Sole(key, values) == /\ Label(key, values) \in own
                                /\ \A l \in own : Has(l, key) => l = Label(key, values)
<1>5. Sole(<<"services", s, "port">>, {"18181"})
  BY <1>1, <1>3
<1>6. Sole(<<"services", s, "passhostheader">>, passhost)
  BY <1>1, <1>3
<1>7. Sole(<<"services", s, "sticky">>, sticky)
  BY <1>1, <1>3
<1> QED BY <1>2, <1>4, <1>5, <1>6, <1>7 DEF passhost, sticky

\* A router's own options, whatever else is on its stub.
LEMMA RouterSays ==
  ASSUME NEW c, NEW s, NEW r \in routersOf(c, s), NEW option
  PROVE  /\ c.routers[r].tls # {} =>
              Says(StubLabels(c, s), <<"tcp routers", r, option>>,
                   IF option \in TcpOptions THEN TcpValues(c.routers[r])[option] ELSE {})
         /\ c.routers[r].tls = {} =>
              Says(StubLabels(c, s), <<"routers", r, option>>,
                   IF option \in HttpOptions THEN HttpValues(c.routers[r])[option] ELSE {})
<1> DEFINE sets == LabelSets(c, s)
           kind == IF c.routers[r].tls # {} THEN "tcp routers" ELSE "routers"
           key == <<kind, r, option>>
<1>1. ASSUME NEW q, NEW k \in DOMAIN routed(c, q), k[1] \in {"routers", "tcp routers"}
      PROVE  k[2] = q /\ (k[1] = "tcp routers" <=> c.routers[q].tls # {})
  <2>1. CASE c.routers[q].tls # {}
    <3>1. routed(c, q) = tcpLabels(q, c.routers[q])
      BY <2>1 DEF routed
    <3>2. k[1] = "tcp routers" /\ k[2] = q
      BY <3>1, TcpSays
    <3> QED BY <2>1, <3>2
  <2>2. CASE c.routers[q].tls = {}
    <3>1. routed(c, q) = httpLabels(q, c.routers[q], c.middlewares)
      BY <2>2 DEF routed
    <3>2. ASSUME NEW m, k \in DOMAIN middlewareLabels(m, c.middlewares[m]) PROVE k[1] = "middlewares"
      BY <3>2 DEF middlewareLabels
    <3>3. k[1] = "routers" /\ k[2] = q
      BY <1>1, <3>1, <3>2, HttpSays
    <3> QED BY <2>2, <3>3
  <2> QED BY <2>1, <2>2
<1>2. \A l \in sets : Has(l, key) => l = routed(c, r)
  <2> SUFFICES ASSUME NEW l \in sets, Has(l, key) PROVE l = routed(c, r)
    OBVIOUS
  <2>1. key[1] \in {"routers", "tcp routers"} /\ key[1] \in Kinds /\ key[2] = r
    BY DEF Kinds
  <2> HIDE DEF key
  <2>2. l \notin serviceLabels(s, c.services[s].parsed)
    BY <2>1, ServiceOnly DEF Has
  <2>3. PICK q \in routersOf(c, s) : l = routed(c, q)
    BY <2>2 DEF LabelSets
  <2> QED BY <1>1, <2>1, <2>3 DEF Has
<1>3. routed(c, r) \in sets
  BY DEF LabelSets
<1>4. ASSUME NEW values, Says(routed(c, r), key, values) PROVE Says(StubLabels(c, s), key, values)
  <2> HIDE DEF key, sets
  <2>1. \A l \in sets : Has(l, key) => Says(l, key, values)
    BY <1>2, <1>4
  <2>2. values # {} => \E l \in sets : Has(l, key)
    BY <1>3, <1>4 DEF Says
  <2>3. Says(Merge(sets), key, values)
    BY <2>1, <2>2, MergeSays
  <2> QED BY <2>3 DEF StubLabels, sets
<1>5. CASE c.routers[r].tls # {}
  <2>1. routed(c, r) = tcpLabels(r, c.routers[r]) /\ key = <<"tcp routers", r, option>>
    BY <1>5 DEF routed
  <2> DEFINE values == IF option \in TcpOptions THEN TcpValues(c.routers[r])[option] ELSE {}
  <2> HIDE DEF key
  <2>2. Says(routed(c, r), key, values)
    <3>1. Says(tcpLabels(r, c.routers[r]), <<"tcp routers", r, option>>, values)
      BY TcpSays
    <3> QED BY <2>1, <3>1
  <2> HIDE DEF values
  <2>3. Says(StubLabels(c, s), key, values)
    BY <1>4, <2>2
  <2> QED BY <1>5, <2>1, <2>3 DEF values
<1>6. CASE c.routers[r].tls = {}
  <2>1. routed(c, r) = httpLabels(r, c.routers[r], c.middlewares) /\ key = <<"routers", r, option>>
    BY <1>6 DEF routed
  <2> DEFINE values == IF option \in HttpOptions THEN HttpValues(c.routers[r])[option] ELSE {}
  <2> HIDE DEF key
  <2>2. Says(routed(c, r), key, values)
    <3>1. Says(httpLabels(r, c.routers[r], c.middlewares), <<"routers", r, option>>, values)
      BY HttpSays
    <3> QED BY <2>1, <3>1
  <2> HIDE DEF values
  <2>3. Says(StubLabels(c, s), key, values)
    BY <1>4, <2>2
  <2> QED BY <1>6, <2>1, <2>3 DEF values
<1> QED BY <1>5, <1>6

\* A stub has the routers of its service, and no other.
LEMMA RoutersOn ==
  ASSUME NEW c, NEW s, NEW r
  PROVE  r \in collectNames(StubLabels(c, s), "routers")
                 \cup collectNames(StubLabels(c, s), "tcp routers") <=> r \in routersOf(c, s)
<1> DEFINE L == StubLabels(c, s)
<1>1. r \in collectNames(L, "routers") \cup collectNames(L, "tcp routers") <=>
        \E k \in DOMAIN L : k[1] \in {"routers", "tcp routers"} /\ k[2] = r
  BY DEF collectNames
<1>2. ASSUME NEW k \in DOMAIN L, k[1] \in {"routers", "tcp routers"}, k[2] = r
      PROVE  r \in routersOf(c, s)
  <2>1. PICK l \in LabelSets(c, s) : k \in DOMAIN l
    BY <1>2, MergeIs DEF StubLabels
  <2>2. k[1] \in Kinds
    BY <1>2 DEF Kinds
  <2>3. l \notin serviceLabels(s, c.services[s].parsed)
    BY <2>1, <2>2, ServiceOnly
  <2>4. PICK q \in routersOf(c, s) : l = routed(c, q)
    BY <2>3 DEF LabelSets
  <2>5. k[2] = q
    <3>1. CASE c.routers[q].tls # {}
      BY <2>1, <2>4, <3>1, TcpSays DEF routed
    <3>2. CASE c.routers[q].tls = {}
      <4>1. l = httpLabels(q, c.routers[q], c.middlewares)
        BY <2>4, <3>2 DEF routed
      <4>2. ASSUME NEW m, k \in DOMAIN middlewareLabels(m, c.middlewares[m]) PROVE k[1] = "middlewares"
        BY <4>2 DEF middlewareLabels
      <4> QED BY <1>2, <2>1, <4>1, <4>2, HttpSays
    <3> QED BY <3>1, <3>2
  <2> QED BY <1>2, <2>4, <2>5
<1>3. ASSUME r \in routersOf(c, s)
      PROVE  \E k \in DOMAIN L : k[1] \in {"routers", "tcp routers"} /\ k[2] = r
  <2>1. /\ "service" \in TcpOptions /\ TcpValues(c.routers[r])["service"] # {}
        /\ "service" \in HttpOptions /\ HttpValues(c.routers[r])["service"] # {}
    BY DEF TcpOptions, TcpValues, HttpOptions, HttpValues
  <2>2. \/ Has(L, <<"tcp routers", r, "service">>)
        \/ Has(L, <<"routers", r, "service">>)
    BY <1>3, <2>1, RouterSays DEF Says
  <2>3. /\ <<"tcp routers", r, "service">>[1] = "tcp routers" /\ <<"tcp routers", r, "service">>[2] = r
        /\ <<"routers", r, "service">>[1] = "routers" /\ <<"routers", r, "service">>[2] = r
    OBVIOUS
  <2> QED BY <2>2, <2>3 DEF Has
<1> QED BY <1>1, <1>2, <1>3

\* A middleware that a plain router of the stub names is on it, option by option,
\* as far as it is written.
LEMMA MiddlewareSays ==
  ASSUME NEW c, NEW s, NEW r \in routersOf(c, s), c.routers[r].tls = {},
         NEW m \in Elements(c.routers[r].middlewares)
  PROVE  /\ \A k \in DOMAIN StubLabels(c, s) :
              k[1] = "middlewares" /\ k[2] = m => k[3] \in DOMAIN c.middlewares[m]
         /\ \A o \in DOMAIN c.middlewares[m] \cap Written :
              Says(StubLabels(c, s), <<"middlewares", m, o>>,
                   OptionWords(o, c.middlewares[m][o]))
<1> DEFINE sets == LabelSets(c, s)
<1>1. ASSUME NEW l \in sets, NEW k \in DOMAIN l, k[1] = "middlewares", k[2] = m
      PROVE  \E q \in routersOf(c, s) :
               /\ c.routers[q].tls = {} /\ l = httpLabels(q, c.routers[q], c.middlewares)
               /\ m \in Elements(c.routers[q].middlewares) /\ k[3] \in DOMAIN c.middlewares[m]
  <2>1. l \notin serviceLabels(s, c.services[s].parsed)
    BY <1>1, ServiceOnly DEF Kinds
  <2>2. PICK q \in routersOf(c, s) : l = routed(c, q)
    BY <2>1 DEF LabelSets
  <2>3. c.routers[q].tls = {}
    BY <1>1, <2>2, TcpSays DEF routed
  <2>4. l = httpLabels(q, c.routers[q], c.middlewares)
    BY <2>2, <2>3 DEF routed
  <2>5. PICK n \in Elements(c.routers[q].middlewares) : k \in DOMAIN middlewareLabels(n, c.middlewares[n])
    BY <1>1, <2>4, HttpSays
  <2>6. n = m /\ k[3] \in DOMAIN c.middlewares[m]
    <3>1. PICK o \in DOMAIN c.middlewares[n] : k = <<"middlewares", n, o>>
      BY <2>5 DEF middlewareLabels
    <3> QED BY <1>1, <3>1
  <2> QED BY <2>3, <2>4, <2>5, <2>6
<1>2. ASSUME NEW k \in DOMAIN StubLabels(c, s), k[1] = "middlewares", k[2] = m
      PROVE  k[3] \in DOMAIN c.middlewares[m]
  <2>1. PICK l \in sets : k \in DOMAIN l
    BY <1>2, MergeIs DEF StubLabels
  <2> QED BY <1>1, <1>2, <2>1
<1>3. ASSUME NEW o \in DOMAIN c.middlewares[m] \cap Written
      PROVE  Says(StubLabels(c, s), <<"middlewares", m, o>>,
                  OptionWords(o, c.middlewares[m][o]))
  <2> DEFINE key == <<"middlewares", m, o>>
             v == formatOption(o, CHOOSE v \in c.middlewares[m][o] : TRUE)
  <2>1. ASSUME NEW q, m \in Elements(c.routers[q].middlewares)
        PROVE  Says(httpLabels(q, c.routers[q], c.middlewares), key, {v})
    BY <2>1, HttpSays DEF OptionWords
  <2>2. key[1] = "middlewares" /\ key[2] = m
    OBVIOUS
  <2>3. httpLabels(r, c.routers[r], c.middlewares) \in sets
    BY DEF LabelSets, routed
  <2> HIDE DEF key, v, sets
  <2>4. \A l \in sets : Has(l, key) => Says(l, key, {v})
    BY <1>1, <2>1, <2>2 DEF Has
  <2>5. \E l \in sets : Has(l, key)
    BY <2>1, <2>3 DEF Says
  <2>6. Says(Merge(sets), key, {v})
    BY <2>4, <2>5, MergeSays
  <2> QED BY <2>6 DEF StubLabels, sets, key, v, OptionWords
<1> QED BY <1>2, <1>3

-----------------------------------------------------------------------------
(* What is read back from a stub.                                           *)

LEMMA TextReads ==
  ASSUME NEW labels, NEW key, NEW v, Says(labels, key, {v}), TrimSpace(v) = v
  PROVE  Text(labels, key) = v
BY DEF Says, Text

LEMMA TextTrimmed ==
  ASSUME NEW labels, NEW key
  PROVE  TrimSpace(Text(labels, key)) = Text(labels, key) /\ Text(labels, key) # " "
BY DEF Text, TrimSpace

LEMMA ListReads ==
  ASSUME NEW labels, NEW key, NEW w, Says(labels, key, NonEmpty(w, <<>>)),
         w = <<>> \/ csv(w) = w
  PROVE  List(labels, key) = w
<1>1. CASE w = <<>>
  BY <1>1 DEF Says, List, NonEmpty
<1>2. CASE w # <<>>
  <2>1. Has(labels, key) /\ labels[key] = w
    BY <1>2 DEF Says, NonEmpty
  <2> QED BY <1>2, <2>1 DEF List
<1> QED BY <1>1, <1>2

LEMMA ListOnce ==
  ASSUME NEW labels, NEW key, Has(labels, key) => labels[key] \in Seq(STRING)
  PROVE  List(labels, key) = <<>> \/ csv(List(labels, key)) = List(labels, key)
<1>1. CASE Has(labels, key)
  <2>1. csv(csv(labels[key])) = csv(labels[key])
    BY <1>1, CsvOnce
  <2> QED BY <1>1, <2>1 DEF List
<1>2. CASE ~Has(labels, key)
  BY <1>2 DEF List
<1> QED BY <1>1, <1>2

Number(labels, key) == IF Has(labels, key) THEN Atoi(labels[key]) ELSE {}

LEMMA NumberReads ==
  ASSUME NEW labels, NEW key, NEW from, NEW other,
         Says(labels, key, NumberWords(Number(from, other)))
  PROVE  Number(labels, key) = Number(from, other)
<1> DEFINE N == Number(from, other)
<1>1. N = {} \/ \E n : N = {n} /\ Atoi(Itoa(n)) = {n}
  BY NumberOnce DEF Number
<1> HIDE DEF N
<1>2. CASE N = {}
  BY <1>2 DEF Says, Number, N, NumberWords
<1>3. CASE N # {}
  <2>1. PICK n : N = {n} /\ Atoi(Itoa(n)) = {n}
    BY <1>1, <1>3
  <2>2. Says(labels, key, {Itoa(n)})
    <3>1. NumberWords(N) = {Itoa(n)}
      BY <2>1 DEF NumberWords
    <3> QED BY <3>1 DEF N
  <2>3. Number(labels, key) = {n}
    BY <2>1, <2>2 DEF Says, Number
  <2> QED BY <2>1, <2>3 DEF N
<1> QED BY <1>2, <1>3

LEMMA FlagReads ==
  ASSUME NEW labels, NEW key, NEW from, NEW other, NEW default \in BOOLEAN,
         Says(labels, key, FlagWords(Flag(from, other, default)))
  PROVE  Flag(labels, key, default) = Flag(from, other, default)
<1> DEFINE F == Flag(from, other, default)
<1>1. F = {} \/ \E b \in BOOLEAN : F = {b}
  BY FlagOnce DEF Flag
<1> HIDE DEF F
<1>2. CASE F = {}
  BY <1>2 DEF Says, Flag, F, FlagWords
<1>3. CASE F # {}
  <2>1. PICK b \in BOOLEAN : F = {b}
    BY <1>1, <1>3
  <2>2. Says(labels, key, {FormatBool(b)})
    <3>1. FlagWords(F) = {FormatBool(b)}
      BY <2>1 DEF FlagWords
    <3> QED BY <3>1 DEF F
  <2>3. Has(labels, key) /\ labels[key] = FormatBool(b)
    BY <2>2 DEF Says
  <2>4. parseBool(FormatBool(b), default) = b
    BY <2>1, FlagOnce
  <2>5. Flag(labels, key, default) = {b}
    BY <2>3, <2>4 DEF Flag
  <2> QED BY <2>1, <2>5 DEF F
<1> QED BY <1>2, <1>3

\* A router of these fields, and with another service.
Router(rule, entrypoints, service, middlewares, priority, tls) ==
  [rule |-> rule, entrypoints |-> entrypoints, service |-> service,
   middlewares |-> middlewares, priority |-> priority, tls |-> tls]
Named(router, name) == [router EXCEPT !.service = name]
\* A router whose fields read the same once they are written.
IsRouter(router, name) ==
  \E rule, entrypoints, middlewares, priority, resolver, tls :
    /\ router = Router(rule, entrypoints, name, middlewares, priority, tls)
    /\ TrimSpace(rule) = rule /\ rule # " " /\ TrimSpace(resolver) = resolver
    /\ entrypoints = <<>> \/ csv(entrypoints) = entrypoints
    /\ middlewares = <<>> \/ csv(middlewares) = middlewares
    /\ tls \in {{}, {""}, {resolver}}
    /\ \A L, K : Says(L, K, NumberWords(priority)) => Number(L, K) = priority

LEMMA RouterFields ==
  ASSUME NEW labels, NEW r, NEW name,
         \A o \in {"entrypoints", "middlewares"} :
           Has(labels, <<"routers", r, o>>) => labels[<<"routers", r, o>>] \in Seq(STRING)
  PROVE  IsRouter(Named(parseRouter(labels, "routers", r), name), name)
<1> DEFINE key(option) == <<"routers", r, option>>
           rule == Text(labels, key("rule"))
           entrypoints == List(labels, key("entrypoints"))
           middlewares == List(labels, key("middlewares"))
           priority == Number(labels, key("priority"))
           resolver == Text(labels, key("certresolver"))
           tls == IF Has(labels, key("certresolver")) THEN {resolver}
                  ELSE IF TRUE \in Flag(labels, key("tls"), FALSE) THEN {""} ELSE {}
<1>1. Named(parseRouter(labels, "routers", r), name) =
        Router(rule, entrypoints, name, middlewares, priority, tls)
  <2> DEFINE service == Text(labels, key("service"))
  <2>1. parseRouter(labels, "routers", r) =
          [rule |-> rule, entrypoints |-> entrypoints, service |-> service,
           middlewares |-> middlewares, priority |-> priority, tls |-> tls]
    BY DEF parseRouter, Number
  <2> HIDE DEF rule, entrypoints, middlewares, priority, tls, service
  <2> QED BY <2>1 DEF Named, Router
<1>2. TrimSpace(rule) = rule /\ rule # " " /\ TrimSpace(resolver) = resolver
  BY TextTrimmed
<1>3. /\ entrypoints = <<>> \/ csv(entrypoints) = entrypoints
      /\ middlewares = <<>> \/ csv(middlewares) = middlewares
  BY ListOnce
<1>4. tls \in {{}, {""}, {resolver}}
  OBVIOUS
<1>5. \A L, K : Says(L, K, NumberWords(priority)) => Number(L, K) = priority
  BY NumberReads
<1> HIDE DEF rule, entrypoints, middlewares, priority, resolver, tls
<1> SUFFICES \E rule_, entrypoints_, middlewares_, priority_, resolver_, tls_ :
               /\ Named(parseRouter(labels, "routers", r), name) =
                    Router(rule_, entrypoints_, name, middlewares_, priority_, tls_)
               /\ TrimSpace(rule_) = rule_ /\ rule_ # " " /\ TrimSpace(resolver_) = resolver_
               /\ entrypoints_ = <<>> \/ csv(entrypoints_) = entrypoints_
               /\ middlewares_ = <<>> \/ csv(middlewares_) = middlewares_
               /\ tls_ \in {{}, {""}, {resolver_}}
               /\ \A L, K : Says(L, K, NumberWords(priority_)) => Number(L, K) = priority_
  BY DEF IsRouter
<1> WITNESS rule, entrypoints, middlewares, priority, resolver, tls
<1> QED BY <1>1, <1>2, <1>3, <1>4, <1>5

LEMMA AsTcpIs ==
  ASSUME NEW router,
         router = [rule |-> router.rule, entrypoints |-> router.entrypoints,
                   service |-> router.service, middlewares |-> router.middlewares,
                   priority |-> router.priority, tls |-> router.tls]
  PROVE  AsTcp(router) =
           [rule |-> tcpRuleFromHTTPRule(router.rule), entrypoints |-> router.entrypoints,
            service |-> router.service, middlewares |-> <<>>,
            priority |-> router.priority, tls |-> router.tls]
<1>1. AsTcp(router) =
        [[router EXCEPT !.rule = tcpRuleFromHTTPRule(router.rule)] EXCEPT !.middlewares = <<>>]
  BY DEF AsTcp
<1> DEFINE x == tcpRuleFromHTTPRule(router.rule)
           changed == [rule |-> x, entrypoints |-> router.entrypoints,
                       service |-> router.service, middlewares |-> router.middlewares,
                       priority |-> router.priority, tls |-> router.tls]
<1>2. [router EXCEPT !.rule = tcpRuleFromHTTPRule(router.rule)] = changed
  OBVIOUS
<1>3. [changed EXCEPT !.middlewares = <<>>] =
        [rule |-> x, entrypoints |-> router.entrypoints, service |-> router.service,
         middlewares |-> <<>>, priority |-> router.priority, tls |-> router.tls]
  <2> HIDE DEF x
  <2> QED OBVIOUS
<1> HIDE DEF changed
<1>4. AsTcp(router) = [changed EXCEPT !.middlewares = <<>>]
  BY <1>1, <1>2
<1> QED BY <1>3, <1>4

LEMMA RouterIs ==
  ASSUME NEW rule, NEW entrypoints, NEW service, NEW middlewares, NEW priority, NEW tls
  PROVE  LET router == Router(rule, entrypoints, service, middlewares, priority, tls)
         IN  /\ router.rule = rule /\ router.entrypoints = entrypoints /\ router.service = service
             /\ router.middlewares = middlewares /\ router.priority = priority /\ router.tls = tls
BY DEF Router

\* A stub's labels have every option of a router.
TcpSaid(L, r, router) ==
  \A option : Says(L, <<"tcp routers", r, option>>,
                   IF option \in TcpOptions THEN TcpValues(router)[option] ELSE {})
HttpSaid(L, r, router) ==
  \A option : Says(L, <<"routers", r, option>>,
                   IF option \in HttpOptions THEN HttpValues(router)[option] ELSE {})

\* A router reads as it was parsed; a TLS router as a TCP router.
LEMMA RouterReads ==
  ASSUME NEW name, TrimSpace(name) = name, NEW router, IsRouter(router, name), NEW r, NEW L
  PROVE  /\ router.tls # {} /\ TcpSaid(L, r, router) =>
              parseRouter(L, "tcp routers", r) = AsTcp(router)
         /\ router.tls = {} /\ HttpSaid(L, r, router) => parseRouter(L, "routers", r) = router
<1>5. PICK rule, entrypoints, middlewares, priority, resolver, tls :
      /\ router = Router(rule, entrypoints, name, middlewares, priority, tls)
      /\ TrimSpace(rule) = rule /\ rule # " " /\ TrimSpace(resolver) = resolver
      /\ entrypoints = <<>> \/ csv(entrypoints) = entrypoints
      /\ middlewares = <<>> \/ csv(middlewares) = middlewares
      /\ tls \in {{}, {""}, {resolver}}
      /\ \A l, K : Says(l, K, NumberWords(priority)) => Number(l, K) = priority
  BY DEF IsRouter
<1>4. /\ router.rule = rule /\ router.entrypoints = entrypoints /\ router.service = name
      /\ router.middlewares = middlewares /\ router.priority = priority /\ router.tls = tls
  <2>1. router = Router(rule, entrypoints, name, middlewares, priority, tls)
    BY <1>5
  <2> QED BY <2>1, RouterIs
<1>1. router = [rule |-> rule, entrypoints |-> entrypoints, service |-> name,
                middlewares |-> middlewares, priority |-> priority, tls |-> tls]
  BY <1>5 DEF Router
<1>2. ASSUME tls # {}, TcpSaid(L, r, router)
      PROVE  parseRouter(L, "tcp routers", r) = AsTcp(router)
  <2> DEFINE at(option) == <<"tcp routers", r, option>>
  <2>1. /\ Says(L, at("rule"), {tcpRuleFromHTTPRule(rule)})
        /\ Says(L, at("entrypoints"), NonEmpty(entrypoints, <<>>))
        /\ Says(L, at("service"), {name})
        /\ Says(L, at("middlewares"), {})
        /\ Says(L, at("priority"), NumberWords(priority))
        /\ Says(L, at("tls"), {"true"})
        /\ Says(L, at("certresolver"), tls \ {""})
    <3>1. /\ TcpValues(router)["rule"] = {tcpRuleFromHTTPRule(rule)}
          /\ TcpValues(router)["entrypoints"] = NonEmpty(entrypoints, <<>>)
          /\ TcpValues(router)["service"] = {name}
          /\ TcpValues(router)["priority"] = NumberWords(priority)
          /\ TcpValues(router)["tls"] = {"true"}
          /\ TcpValues(router)["certresolver"] = tls \ {""}
      BY <1>4 DEF TcpValues
    <3> QED BY <1>2, <3>1 DEF TcpOptions, TcpSaid
  <2> HIDE DEF at
  <2>2. Text(L, at("rule")) = tcpRuleFromHTTPRule(rule)
    <3>1. TrimSpace(tcpRuleFromHTTPRule(rule)) = tcpRuleFromHTTPRule(rule)
      BY <1>5 DEF tcpRuleFromHTTPRule, TrimSpace
    <3> QED BY <2>1, <3>1, TextReads
  <2>3. /\ List(L, at("entrypoints")) = entrypoints
        /\ List(L, at("middlewares")) = <<>>
    <3>1. List(L, at("entrypoints")) = entrypoints
      BY <1>5, <2>1, ListReads
    <3> QED BY <2>1, <3>1 DEF List, Says
  <2>4. Text(L, at("service")) = name
    BY <1>5, <2>1, TextReads
  <2>5. Number(L, at("priority")) = priority
    BY <1>5, <2>1
  <2>6. (IF Has(L, at("certresolver")) THEN {Text(L, at("certresolver"))}
         ELSE IF TRUE \in Flag(L, at("tls"), FALSE) THEN {""} ELSE {}) = tls
    <3>1. tls = {""} \/ (tls = {resolver} /\ resolver # "")
      BY <1>2, <1>5
    <3>2. CASE tls = {""}
      <4>1. ~Has(L, at("certresolver"))
        BY <2>1, <3>2 DEF Says
      <4>2. Has(L, at("tls")) /\ L[at("tls")] = "true"
        BY <2>1 DEF Says
      <4>3. Flag(L, at("tls"), FALSE) = {TRUE}
        <5>1. parseBool("true", FALSE) = TRUE
          BY DEF parseBool
        <5> QED BY <4>2, <5>1 DEF Flag
      <4> QED BY <3>2, <4>1, <4>3
    <3>3. CASE tls = {resolver} /\ resolver # ""
      <4>1. tls \ {""} = {resolver}
        BY <3>3
      <4>2. Has(L, at("certresolver")) /\ Text(L, at("certresolver")) = resolver
        <5>1. Says(L, at("certresolver"), {resolver})
          BY <2>1, <4>1
        <5> QED BY <1>5, <5>1, TextReads DEF Says
      <4> QED BY <3>3, <4>2
    <3> QED BY <3>1, <3>2, <3>3
  <2>7. parseRouter(L, "tcp routers", r) =
          [rule |-> tcpRuleFromHTTPRule(rule), entrypoints |-> entrypoints, service |-> name,
           middlewares |-> <<>>, priority |-> priority, tls |-> tls]
    BY <2>2, <2>3, <2>4, <2>5, <2>6 DEF parseRouter, Number, at
  <2>8. AsTcp(router) =
          [rule |-> tcpRuleFromHTTPRule(rule), entrypoints |-> entrypoints, service |-> name,
           middlewares |-> <<>>, priority |-> priority, tls |-> tls]
    BY <1>1, AsTcpIs
  <2> QED BY <2>7, <2>8
<1>3. ASSUME tls = {}, HttpSaid(L, r, router)
      PROVE  parseRouter(L, "routers", r) = router
  <2> DEFINE key(option) == <<"routers", r, option>>
  <2>1. /\ Says(L, key("rule"), {rule})
        /\ Says(L, key("entrypoints"), NonEmpty(entrypoints, <<>>))
        /\ Says(L, key("service"), {name})
        /\ Says(L, key("middlewares"), NonEmpty(middlewares, <<>>))
        /\ Says(L, key("priority"), NumberWords(priority))
        /\ Says(L, key("tls"), {})
        /\ Says(L, key("certresolver"), {})
    <3>1. /\ HttpValues(router)["rule"] = {rule}
          /\ HttpValues(router)["entrypoints"] = NonEmpty(entrypoints, <<>>)
          /\ HttpValues(router)["service"] = {name}
          /\ HttpValues(router)["priority"] = NumberWords(priority)
          /\ HttpValues(router)["middlewares"] = NonEmpty(middlewares, <<>>)
      BY <1>4 DEF HttpValues
    <3> QED BY <1>3, <3>1 DEF HttpOptions, HttpSaid
  <2> HIDE DEF key
  <2>2. Text(L, key("rule")) = rule
    BY <1>5, <2>1, TextReads
  <2>3. /\ List(L, key("entrypoints")) = entrypoints
        /\ List(L, key("middlewares")) = middlewares
    BY <1>5, <2>1, ListReads
  <2>4. Text(L, key("service")) = name
    BY <1>5, <2>1, TextReads
  <2>5. Number(L, key("priority")) = priority
    BY <1>5, <2>1
  <2>6. (IF Has(L, key("certresolver")) THEN {Text(L, key("certresolver"))}
         ELSE IF TRUE \in Flag(L, key("tls"), FALSE) THEN {""} ELSE {}) = {}
    BY <2>1 DEF Says, Flag
  <2>7. parseRouter(L, "routers", r) =
          [rule |-> rule, entrypoints |-> entrypoints, service |-> name,
           middlewares |-> middlewares, priority |-> priority, tls |-> tls]
    BY <1>3, <2>2, <2>3, <2>4, <2>5, <2>6 DEF parseRouter, Number, key
  <2> QED BY <1>1, <2>7
<1> QED BY <1>2, <1>3, <1>4

\* A service reads as it was parsed, at the stub's own port.
LEMMA ServiceReads ==
  ASSUME NEW labels, NEW s, NEW L,
         Says(L, <<"services", s, "port">>, {"18181"}),
         Says(L, <<"services", s, "passhostheader">>,
              FlagWords(Flag(labels, <<"services", s, "passhostheader">>, TRUE))),
         Says(L, <<"services", s, "sticky">>,
              FlagWords(Flag(labels, <<"services", s, "sticky">>, FALSE)))
  PROVE  parseService(L, s) = AtStub(parseService(labels, s))
<1> DEFINE passhost(l) == Flag(l, <<"services", s, "passhostheader">>, TRUE)
           sticky(l) == Flag(l, <<"services", s, "sticky">>, FALSE)
           port(l) == IF Has(l, <<"services", s, "port">>)
                         /\ Positive(l[<<"services", s, "port">>]) # {}
                      THEN Numbers[l[<<"services", s, "port">>]] ELSE 0
<1>1. \A l : parseService(l, s) = [port |-> port(l), passhost |-> passhost(l), sticky |-> sticky(l)]
  BY DEF parseService
<1>2. port(L) = 18181
  <2>1. "18181" \in DOMAIN Numbers /\ Numbers["18181"] = 18181
    BY DEF Numbers
  <2>2. Has(L, <<"services", s, "port">>) /\ L[<<"services", s, "port">>] = "18181"
    BY DEF Says
  <2>3. 18181 \in Positive("18181")
    <3>1. Atoi("18181") = {18181}
      BY <2>1 DEF Atoi
    <3> QED BY <3>1 DEF Positive
  <2> QED BY <2>1, <2>2, <2>3
<1>3. passhost(L) = passhost(labels)
  <2>1. ASSUME NEW d \in BOOLEAN, NEW k, Says(L, k, FlagWords(Flag(labels, k, d)))
        PROVE  Flag(L, k, d) = Flag(labels, k, d)
    BY <2>1, FlagReads
  <2> QED BY <2>1
<1>4. sticky(L) = sticky(labels)
  <2>1. ASSUME NEW d \in BOOLEAN, NEW k, Says(L, k, FlagWords(Flag(labels, k, d)))
        PROVE  Flag(L, k, d) = Flag(labels, k, d)
    BY <2>1, FlagReads
  <2> QED BY <2>1
<1> HIDE DEF port, passhost, sticky
<1> QED BY <1>1, <1>2, <1>3, <1>4 DEF AtStub

\* A middleware is read from some labels; a stub's labels have all of it.
Mapping(f) == f = [x \in DOMAIN f |-> f[x]]
ReadFrom(labels, m, mw) ==
  /\ Mapping(mw)
  /\ \A o \in DOMAIN mw :
       /\ mw[o] = parseOption(o, labels[<<"middlewares", m, o>>]) /\ mw[o] # {}
       /\ \E k \in DOMAIN labels : k[1] = "middlewares" /\ k[2] = m /\ k[3] = o
MiddlewareSaid(L, m, mw) ==
  /\ \A k \in DOMAIN L : k[1] = "middlewares" /\ k[2] = m => k[3] \in DOMAIN mw
  /\ \A o \in DOMAIN mw : Says(L, <<"middlewares", m, o>>, OptionWords(o, mw[o]))
Triples(labels) == \A k \in DOMAIN labels : k[1] = "middlewares" => k = <<k[1], k[2], k[3]>>

LEMMA MiddlewareIs ==
  ASSUME NEW labels, NEW m
  PROVE  ReadFrom(labels, m, parseMiddleware(labels, m))
<1> DEFINE options == {k[3] : k \in {k \in DOMAIN labels : k[1] = "middlewares" /\ k[2] = m}}
           value(x) == parseOption(x, labels[<<"middlewares", m, x>>])
<1>1. parseMiddleware(labels, m) = [x \in {x \in options : value(x) # {}} |-> value(x)]
  BY DEF parseMiddleware
<1>2. \A x \in options : \E k \in DOMAIN labels : k[1] = "middlewares" /\ k[2] = m /\ k[3] = x
  OBVIOUS
<1> HIDE DEF options
<1>3. Mapping(parseMiddleware(labels, m))
  BY <1>1 DEF Mapping
<1>4. \A o \in DOMAIN parseMiddleware(labels, m) :
        /\ o \in options /\ value(o) # {} /\ parseMiddleware(labels, m)[o] = value(o)
  BY <1>1
<1> QED BY <1>2, <1>3, <1>4 DEF ReadFrom

\* So does a middleware whose every option is written.
LEMMA MiddlewareReads ==
  ASSUME NEW labels, NEW m, NEW mw, NEW L,
         ReadFrom(labels, m, mw), MiddlewareSaid(L, m, mw), Triples(labels),
         Has(labels, <<"middlewares", m, "basicauth.users">>) =>
           labels[<<"middlewares", m, "basicauth.users">>] \in Seq(STRING)
  PROVE  /\ parseMiddleware(L, m) = mw
         /\ m \in collectNames(L, "middlewares") <=> DOMAIN mw # {}
<1> DEFINE key(o) == <<"middlewares", m, o>>
           options(l) == {k[3] : k \in {k \in DOMAIN l : k[1] = "middlewares" /\ k[2] = m}}
           value(l, o) == parseOption(o, l[key(o)])
<1>1. \A l : parseMiddleware(l, m) =
               [o \in {o \in options(l) : value(l, o) # {}} |-> value(l, o)]
  BY DEF parseMiddleware
<1>2. ASSUME NEW o \in DOMAIN mw
      PROVE  mw[o] = value(labels, o) /\ value(labels, o) # {} /\ Has(labels, key(o))
  <2>1. value(labels, o) # {} /\ mw[o] = value(labels, o)
    BY DEF ReadFrom
  <2>2. PICK k \in DOMAIN labels : k[1] = "middlewares" /\ k[2] = m /\ k[3] = o
    BY DEF ReadFrom
  <2>3. k = key(o)
    BY <2>2 DEF Triples
  <2> QED BY <2>1, <2>2, <2>3 DEF Has
<1>3. ASSUME NEW o \in DOMAIN mw
      PROVE  o \in options(L) /\ value(L, o) = mw[o]
  <2> DEFINE x == CHOOSE v \in mw[o] : TRUE
  <2>1. Has(L, key(o)) /\ L[key(o)] = formatOption(o, x)
    BY DEF MiddlewareSaid, Says, OptionWords
  <2>2. o \in options(L)
    <3>1. key(o)[1] = "middlewares" /\ key(o)[2] = m /\ key(o)[3] = o
      OBVIOUS
    <3> HIDE DEF key
    <3> QED BY <2>1, <3>1 DEF Has
  <2>3. parseOption(o, formatOption(o, CHOOSE v \in parseOption(o, labels[key(o)]) : TRUE))
          = parseOption(o, labels[key(o)])
    <3>1. parseOption(o, labels[key(o)]) # {}
      BY <1>2
    <3>2. o = "basicauth.users" => labels[key(o)] \in Seq(STRING)
      BY <1>2
    <3> HIDE DEF key
    <3> QED BY <3>1, <3>2, OptionOnce
  <2>4. mw[o] = parseOption(o, labels[key(o)])
    BY <1>2
  <2> HIDE DEF key
  <2> QED BY <2>1, <2>2, <2>3, <2>4
<1>4. {o \in options(L) : value(L, o) # {}} = DOMAIN mw
  <2>1. \A o \in options(L) : o \in DOMAIN mw
    BY DEF MiddlewareSaid
  <2> HIDE DEF options, value
  <2>2. \A o \in DOMAIN mw : o \in options(L) /\ value(L, o) # {}
    BY <1>2, <1>3
  <2> QED BY <2>1, <2>2
<1>8. m \in collectNames(L, "middlewares") <=> DOMAIN mw # {}
  <2>1. m \in collectNames(L, "middlewares")
          <=> \E k \in DOMAIN L : k[1] = "middlewares" /\ k[2] = m
    BY DEF collectNames
  <2>2. \A k \in DOMAIN L : k[1] = "middlewares" /\ k[2] = m => k[3] \in DOMAIN mw
    BY DEF MiddlewareSaid
  <2>3. \A o \in DOMAIN mw : \E k \in DOMAIN L : k[1] = "middlewares" /\ k[2] = m
    BY <1>3
  <2> QED BY <2>1, <2>2, <2>3
<1> HIDE DEF options, value
<1> DEFINE S == {o \in options(L) : value(L, o) # {}}
<1>5. parseMiddleware(L, m) = [o \in S |-> value(L, o)]
  BY <1>1
<1>6. S = DOMAIN mw
  BY <1>4
<1> HIDE DEF S
<1>7. /\ DOMAIN parseMiddleware(L, m) = DOMAIN mw
      /\ \A o \in DOMAIN mw : parseMiddleware(L, m)[o] = mw[o]
  BY <1>3, <1>5, <1>6
<1> QED BY <1>5, <1>6, <1>7, <1>8 DEF ReadFrom, Mapping

-----------------------------------------------------------------------------
(* The specification of a container.                                        *)

LEMMA ContainerIs ==
  ASSUME NEW i
  PROVE  \/ BuildContainer(i) = {}
         \/ /\ Exportable(i.labels)
            /\ \E c : /\ BuildContainer(i) = {c}
                      /\ \A s \in DOMAIN c.services :
                           \E port \in Nat : c.services[s].backend \in resolveBackendURL(i, port)
                      /\ \A r \in DOMAIN c.routers :
                           /\ c.routers[r].service \in DOMAIN c.services
                           /\ Elements(c.routers[r].middlewares) \subseteq DOMAIN c.middlewares
<1> DEFINE routers     == collectNames(i.labels, "routers")
           services    == IF collectNames(i.labels, "services") = {} THEN {"default"}
                          ELSE collectNames(i.labels, "services")
           middlewares == collectNames(i.labels, "middlewares")
           router(r)   == parseRouter(i.labels, "routers", r)
           backend(s)  == resolveBackendURL(i, parseService(i.labels, s).port)
           bad == \/ ~Exportable(i.labels) \/ routers = {}
                  \/ \E s \in services : backend(s) = {}
                  \/ \E r \in routers : BadRouter(router(r), services, middlewares)
           withService(r) == IF router(r).service # "" THEN router(r)
                             ELSE [router(r) EXCEPT !.service = CHOOSE s \in defaultService(services) : TRUE]
           served(s) == [parsed |-> parseService(i.labels, s), backend |-> CHOOSE b \in backend(s) : TRUE]
           c == [routers |-> [r \in routers |-> withService(r)],
                 services |-> [s \in services |-> served(s)],
                 middlewares |-> [m \in middlewares |-> parseMiddleware(i.labels, m)]]
<1>1. BuildContainer(i) = IF bad THEN {} ELSE {c}
  BY DEF BuildContainer
<1>2. /\ DOMAIN c.services = services /\ DOMAIN c.routers = routers /\ DOMAIN c.middlewares = middlewares
      /\ \A s \in services : c.services[s].backend = CHOOSE b \in backend(s) : TRUE
      /\ \A r \in routers : c.routers[r] = withService(r)
  OBVIOUS
<1>3. ASSUME ~bad, NEW s \in services
      PROVE  \E port \in Nat : c.services[s].backend \in resolveBackendURL(i, port)
  <2>1. parseService(i.labels, s).port \in Nat
    BY ServicePort
  <2>2. (CHOOSE b \in backend(s) : TRUE) \in backend(s)
    BY <1>3
  <2> QED BY <1>2, <2>1, <2>2
<1>4. ASSUME ~bad, NEW r \in routers
      PROVE  /\ c.routers[r].service \in services
             /\ Elements(c.routers[r].middlewares) \subseteq middlewares
  <2>1. ~BadRouter(router(r), services, middlewares)
    BY <1>4
  <2>2. c.routers[r] = withService(r)
    BY <1>2, <1>4
  <2> HIDE DEF c, bad, services, middlewares
  <2>3. CASE router(r).service # ""
    <3>1. withService(r) = router(r)
      BY <2>3
    <3> HIDE DEF router, withService
    <3> QED BY <2>1, <2>2, <2>3, <3>1 DEF BadRouter
  <2>4. CASE router(r).service = ""
    <3> DEFINE d == CHOOSE s \in defaultService(services) : TRUE
    <3>1. d \in defaultService(services)
      <4> HIDE DEF router
      <4> QED BY <2>1, <2>4 DEF BadRouter
    <3>2. d \in services
      BY <3>1 DEF defaultService
    <3>3. withService(r).service = d /\ withService(r).middlewares = router(r).middlewares
      <4> HIDE DEF d
      <4>1. withService(r) = [router(r) EXCEPT !.service = d]
        BY <2>4 DEF d
      <4> QED BY <4>1 DEF parseRouter
    <3>4. Elements(router(r).middlewares) \subseteq middlewares
      <4> HIDE DEF router
      <4> QED BY <2>1 DEF BadRouter
    <3> HIDE DEF router, routed, d
    <3> QED BY <2>2, <3>2, <3>3, <3>4
  <2> QED BY <2>3, <2>4
<1>5. CASE bad
  BY <1>1, <1>5
<1>6. CASE ~bad
  <2>1. Exportable(i.labels) /\ BuildContainer(i) = {c}
    BY <1>1, <1>6
  <2>2. \A s \in services : \E port \in Nat : c.services[s].backend \in resolveBackendURL(i, port)
    BY <1>3, <1>6
  <2>3. \A r \in routers : /\ c.routers[r].service \in services
                           /\ Elements(c.routers[r].middlewares) \subseteq middlewares
    BY <1>4, <1>6
  <2> HIDE DEF c, services, routers, middlewares
  <2> QED BY <1>2, <2>1, <2>2, <2>3
<1> QED BY <1>5, <1>6

\* The parts of a container's specification are read from its labels.
LEMMA ContainerReads ==
  ASSUME NEW i \in Inputs, NEW c \in BuildContainer(i)
  PROVE  /\ \A r \in DOMAIN c.routers :
              \E name : /\ TrimSpace(name) = name
                        /\ c.routers[r] = Named(parseRouter(i.labels, "routers", r), name)
         /\ \A s \in DOMAIN c.services : c.services[s].parsed = parseService(i.labels, s)
         /\ \A m \in DOMAIN c.middlewares : c.middlewares[m] = parseMiddleware(i.labels, m)
<1> DEFINE routers     == collectNames(i.labels, "routers")
           services    == IF collectNames(i.labels, "services") = {} THEN {"default"}
                          ELSE collectNames(i.labels, "services")
           middlewares == collectNames(i.labels, "middlewares")
           router(r)   == parseRouter(i.labels, "routers", r)
           backend(s)  == resolveBackendURL(i, parseService(i.labels, s).port)
           bad == \/ ~Exportable(i.labels) \/ routers = {}
                  \/ \E s \in services : backend(s) = {}
                  \/ \E r \in routers : BadRouter(router(r), services, middlewares)
           default == CHOOSE s \in defaultService(services) : TRUE
           part(r) == IF router(r).service # "" THEN router(r)
                      ELSE [router(r) EXCEPT !.service = default]
           served(s) == [parsed |-> parseService(i.labels, s), backend |-> CHOOSE b \in backend(s) : TRUE]
           whole == [routers |-> [r \in routers |-> part(r)],
                     services |-> [s \in services |-> served(s)],
                     middlewares |-> [m \in middlewares |-> parseMiddleware(i.labels, m)]]
<1>1. BuildContainer(i) = IF bad THEN {} ELSE {whole}
  BY DEF BuildContainer
<1> HIDE DEF bad, whole
<1>2. ~bad /\ c = whole
  BY <1>1
<1>3. ASSUME NEW r \in routers
      PROVE  \E name : TrimSpace(name) = name /\ part(r) = Named(router(r), name)
  <2>1. ~BadRouter(router(r), services, middlewares)
    BY <1>2 DEF bad
  <2>2. CASE router(r).service # ""
    <3> DEFINE name == Text(i.labels, <<"routers", r, "service">>)
    <3>1. router(r).service = name
      BY DEF parseRouter
    <3>2. router(r) = Named(router(r), router(r).service)
      BY DEF parseRouter, Named
    <3>3. TrimSpace(name) = name
      BY TextTrimmed
    <3>4. part(r) = router(r)
      BY <2>2
    <3> HIDE DEF name, router, part
    <3> QED BY <3>1, <3>2, <3>3, <3>4
  <2>3. CASE router(r).service = ""
    <3>1. part(r) = Named(router(r), default)
      BY <2>3 DEF Named
    <3>2. default \in defaultService(services)
      <4> HIDE DEF router, services
      <4> QED BY <2>1, <2>3 DEF BadRouter
    <3>3. default \in services
      <4> HIDE DEF services, default
      <4> QED BY <3>2 DEF defaultService
    <3>4. default \notin {"", " "}
      <4>1. CASE default = "default"
        BY <4>1
      <4>2. CASE default \in collectNames(i.labels, "services")
        <5>1. \E k \in DOMAIN i.labels : k[1] = "services" /\ k[2] = default
          <6> HIDE DEF default
          <6> QED BY <4>2 DEF collectNames
        <5>2. \A k \in DOMAIN i.labels : k[1] = "services" => k[2] \notin {"", " "}
          BY InputsAssumption DEF Shape
        <5> HIDE DEF default
        <5> QED BY <5>1, <5>2
      <4> HIDE DEF default
      <4> QED BY <3>3, <4>1, <4>2
    <3> HIDE DEF default, router, part
    <3>5. TrimSpace(default) = default
      BY <3>4 DEF TrimSpace
    <3> QED BY <3>1, <3>5
  <2> QED BY <2>2, <2>3
<1>4. /\ DOMAIN c.routers = routers /\ \A r \in routers : c.routers[r] = part(r)
      /\ DOMAIN c.services = services /\ \A s \in services : c.services[s].parsed = parseService(i.labels, s)
      /\ DOMAIN c.middlewares = middlewares
      /\ \A m \in middlewares : c.middlewares[m] = parseMiddleware(i.labels, m)
  <2>1. DOMAIN c.routers = routers /\ \A r \in routers : c.routers[r] = part(r)
    <3> HIDE DEF part, routers, services, middlewares
    <3> QED BY <1>2 DEF whole
  <2>2. DOMAIN c.services = services /\ \A s \in services : c.services[s] = served(s)
    <3> HIDE DEF part, routers, services, middlewares, served
    <3> QED BY <1>2 DEF whole
  <2>3. /\ DOMAIN c.middlewares = middlewares
        /\ \A m \in middlewares : c.middlewares[m] = parseMiddleware(i.labels, m)
    <3> HIDE DEF part, routers, services, middlewares, served
    <3> QED BY <1>2 DEF whole
  <2>4. \A s : served(s).parsed = parseService(i.labels, s)
    OBVIOUS
  <2> HIDE DEF part, routers, services, middlewares, served
  <2> QED BY <2>1, <2>2, <2>3, <2>4
<1> HIDE DEF part, routers, services, middlewares, router
<1>5. \A r \in DOMAIN c.routers :
        \E name : TrimSpace(name) = name /\ c.routers[r] = Named(router(r), name)
  BY <1>3, <1>4
<1> QED BY <1>4, <1>5 DEF router

\* A plain router with its middlewares, a TLS router without, and the service read
\* on the service's stub as they were parsed.
ReadsBack(c, r, s) ==
  LET router == c.routers[r]
      L      == StubLabels(c, s)
  IN  /\ router.tls = {} =>
           /\ parseRouter(L, "routers", r) = router
           /\ \A m \in Elements(router.middlewares) :
                /\ parseMiddleware(L, m) = c.middlewares[m]
                /\ m \in collectNames(L, "middlewares") <=> DOMAIN c.middlewares[m] # {}
      /\ router.tls # {} => parseRouter(L, "tcp routers", r) = AsTcp(router)
      /\ parseService(L, s) = AtStub(c.services[s].parsed)

LEMMA StubReads ==
  ASSUME NEW i \in Inputs, NEW c \in BuildContainer(i), NEW r \in DOMAIN c.routers,
         NEW s, s = c.routers[r].service
  PROVE  s \in DOMAIN c.services /\ ReadsBack(c, r, s)
<1> DEFINE router == c.routers[r]
           L == StubLabels(c, s)
<1>1. /\ s \in DOMAIN c.services
      /\ Elements(router.middlewares) \subseteq DOMAIN c.middlewares
  BY ContainerIs
<1>2. r \in routersOf(c, s)
  BY DEF routersOf
<1>3. \A k \in DOMAIN i.labels :
        /\ k \in Keys
        /\ Len(k) = 3 /\ k[3] \in ListOptions => i.labels[k] \in Seq(STRING)
  BY InputsAssumption DEF Shape
<1>4. ASSUME NEW kind, NEW name, NEW o \in ListOptions, Has(i.labels, <<kind, name, o>>)
      PROVE  i.labels[<<kind, name, o>>] \in Seq(STRING)
  <2>1. Len(<<kind, name, o>>) = 3 /\ <<kind, name, o>>[3] = o
    OBVIOUS
  <2> QED BY <1>3, <1>4, <2>1 DEF Has
<1>5. /\ router.tls = {} => parseRouter(L, "routers", r) = router
      /\ router.tls # {} => parseRouter(L, "tcp routers", r) = AsTcp(router)
  <2>1. PICK name : /\ TrimSpace(name) = name
                    /\ router = Named(parseRouter(i.labels, "routers", r), name)
    BY ContainerReads
  <2>2. IsRouter(router, name)
    <3>1. \A o \in {"entrypoints", "middlewares"} :
            Has(i.labels, <<"routers", r, o>>) => i.labels[<<"routers", r, o>>] \in Seq(STRING)
      BY <1>4 DEF ListOptions
    <3>2. IsRouter(Named(parseRouter(i.labels, "routers", r), name), name)
      BY <3>1, RouterFields
    <3> HIDE DEF router
    <3> QED BY <2>1, <3>2
  <2>3. /\ router.tls # {} => TcpSaid(L, r, router)
        /\ router.tls = {} => HttpSaid(L, r, router)
    BY <1>2, RouterSays DEF TcpSaid, HttpSaid
  <2> HIDE DEF router, L
  <2> QED BY <2>1, <2>2, <2>3, RouterReads
<1>6. ASSUME router.tls = {}, NEW m \in Elements(router.middlewares)
      PROVE  /\ parseMiddleware(L, m) = c.middlewares[m]
             /\ m \in collectNames(L, "middlewares") <=> DOMAIN c.middlewares[m] # {}
  <2> DEFINE mw == c.middlewares[m]
  <2>1. mw = parseMiddleware(i.labels, m)
    BY <1>1, ContainerReads
  <2>2. ReadFrom(i.labels, m, mw)
    <3> HIDE DEF mw
    <3>1. ReadFrom(i.labels, m, parseMiddleware(i.labels, m))
      BY MiddlewareIs
    <3> QED BY <2>1, <3>1
  <2>3. Triples(i.labels)
    BY <1>3 DEF Keys, Triples
  <2>4. Has(i.labels, <<"middlewares", m, "basicauth.users">>) =>
          i.labels[<<"middlewares", m, "basicauth.users">>] \in Seq(STRING)
    BY <1>4 DEF ListOptions
  <2>5. MiddlewareSaid(L, m, mw)
    <3>1. \A o \in DOMAIN mw : o \in Written
      <4> HIDE DEF mw
      <4> QED BY <2>2, OptionWritten DEF ReadFrom
    <3> QED BY <1>2, <1>6, <3>1, MiddlewareSays DEF MiddlewareSaid
  <2> HIDE DEF mw, L
  <2>6. /\ parseMiddleware(L, m) = mw
        /\ m \in collectNames(L, "middlewares") <=> DOMAIN mw # {}
    BY <2>2, <2>3, <2>4, <2>5, MiddlewareReads
  <2> QED BY <2>6 DEF mw
<1>7. parseService(L, s) = AtStub(c.services[s].parsed)
  <2> DEFINE parsed == parseService(i.labels, s)
  <2>1. c.services[s].parsed = parsed
    BY <1>1, ContainerReads
  <2>2. /\ parsed.passhost = Flag(i.labels, <<"services", s, "passhostheader">>, TRUE)
        /\ parsed.sticky = Flag(i.labels, <<"services", s, "sticky">>, FALSE)
    BY DEF parseService
  <2>3. /\ Says(L, <<"services", s, "port">>, {"18181"})
        /\ Says(L, <<"services", s, "passhostheader">>, FlagWords(parsed.passhost))
        /\ Says(L, <<"services", s, "sticky">>, FlagWords(parsed.sticky))
    BY <2>1, ServiceSays
  <2> HIDE DEF L
  <2>4. parseService(L, s) = AtStub(parsed)
    <3>1. /\ Says(L, <<"services", s, "passhostheader">>,
                  FlagWords(Flag(i.labels, <<"services", s, "passhostheader">>, TRUE)))
          /\ Says(L, <<"services", s, "sticky">>,
                  FlagWords(Flag(i.labels, <<"services", s, "sticky">>, FALSE)))
      BY <2>2, <2>3
    <3> QED BY <2>3, <3>1, ServiceReads
  <2> QED BY <2>1, <2>4
<1> HIDE DEF router, L
<1>8. /\ router.tls = {} =>
           /\ parseRouter(L, "routers", r) = router
           /\ \A m \in Elements(router.middlewares) :
                /\ parseMiddleware(L, m) = c.middlewares[m]
                /\ m \in collectNames(L, "middlewares") <=> DOMAIN c.middlewares[m] # {}
      /\ router.tls # {} => parseRouter(L, "tcp routers", r) = AsTcp(router)
      /\ parseService(L, s) = AtStub(c.services[s].parsed)
  BY <1>5, <1>6, <1>7
<1> QED BY <1>1, <1>8 DEF ReadsBack, router, L

-----------------------------------------------------------------------------
(* The run.                                                                 *)

\* What the two steps keep: the specification is the container's, the stubs are
\* the specification's.
Inv ==
  /\ ins \in Inputs
  /\ phase \in {"inspected", "exported", "desired"}
  /\ phase = "inspected" => stubs = {}
  /\ spec \in {{}, BuildContainer(ins)}
  /\ \A st \in stubs : \E c \in spec : st \in buildDesiredStubs(c)
  /\ phase = "desired" => stubs = UNION {buildDesiredStubs(c) : c \in spec}

LEMMA Invariant == Spec => []Inv
<1>1. Init => Inv
  BY DEF Init, Inv
<1>2. ASSUME Inv, Next PROVE Inv'
  <2>1. CASE Export
    BY <1>2, <2>1 DEF Inv, Export
  <2>2. CASE Desire
    BY <1>2, <2>2 DEF Inv, Desire
  <2> QED BY <1>2, <2>1, <2>2 DEF Next
<1>3. ASSUME Inv, UNCHANGED vars PROVE Inv'
  BY <1>3 DEF Inv, vars
<1> QED BY <1>1, <1>2, <1>3, PTL DEF Spec

\* For any labels, an exported specification is closed: its routers lead to its
\* own services through its own middlewares, and every stub stands for one of
\* its services (labels.go:108-131, store.go:386-398).
THEOREM TypeCorrect == Spec => []TypeOK
<1>1. Inv => TypeOK
  <2> SUFFICES ASSUME Inv PROVE TypeOK
    OBVIOUS
  <2>1. spec = {} \/ \E c : /\ spec = {c}
                            /\ \A r \in DOMAIN c.routers :
                                 /\ c.routers[r].service \in DOMAIN c.services
                                 /\ Elements(c.routers[r].middlewares) \subseteq DOMAIN c.middlewares
    <3>1. spec = {} \/ spec = BuildContainer(ins)
      BY DEF Inv
    <3> QED BY <3>1, ContainerIs
  <2>2. Cardinality(spec) <= 1
    <3>1. Cardinality({}) = 0
      BY FS_EmptySet
    <3>2. \A c : Cardinality({c}) = 1
      BY FS_Singleton
    <3> QED BY <2>1, <3>1, <3>2
  <2>3. \A st \in stubs : \A c \in spec : st.service \in DOMAIN c.services
    <3>1. \A st \in stubs : \E c \in spec : st \in buildDesiredStubs(c)
      BY DEF Inv
    <3> QED BY <2>1, <3>1, StubIs
  <2> QED BY <2>1, <2>2, <2>3 DEF Inv, TypeOK
<1> QED BY <1>1, Invariant, PTL

\* For any labels, a stub that a worker inspects is refused: it carries the mark
\* of the receiver, whatever the container's labels asked for, and no label of a
\* router or a middleware writes over it (store.go:399-405, labels.go:53-55).
THEOREM StubsNeverReexported == Spec => []NeverReexported
<1>1. Inv => NeverReexported
  <2> SUFFICES ASSUME Inv, NEW st \in stubs
               PROVE  BuildContainer([ins EXCEPT !.labels = st.labels, !.address = "172.18.0.9"]) = {}
    BY DEF NeverReexported
  <2> DEFINE stub == [ins EXCEPT !.labels = st.labels, !.address = "172.18.0.9"]
  <2>1. stub.labels = st.labels
    BY InputsAssumption DEF Inv, Shape
  <2>2. /\ Has(st.labels, <<"connect", "managed">>)
        /\ st.labels[<<"connect", "managed">>] = "true"
    BY StubIs DEF Inv
  <2>3. ~Exportable(st.labels)
    <3>1. parseBool("true", FALSE) = TRUE
      BY DEF parseBool
    <3> QED BY <2>2, <3>1 DEF Exportable, Flag
  <2> HIDE DEF stub
  <2>4. BuildContainer(stub) = {}
    BY <2>1, <2>3, ContainerIs
  <2> QED BY <2>4 DEF stub
<1> QED BY <1>1, Invariant, PTL

\* For any labels, networks, ports and modes, a service that is exported has a
\* host and a port to dial or an override URL that parses (labels.go:355-400).
THEOREM AlwaysDialable == Spec => []Dialable
<1>1. Inv => Dialable
  <2> SUFFICES ASSUME Inv, NEW c \in spec, NEW s \in DOMAIN c.services, NEW b,
                      b = c.services[s].backend
               PROVE  IF b.source = "override-url" THEN b.host \notin Unparsable \cup {""}
                      ELSE b.host # "" /\ b.port > 0
    BY DEF Dialable
  <2>1. spec = BuildContainer(ins) /\ spec # {}
    BY DEF Inv
  <2>2. PICK port \in Nat : c.services[s].backend \in resolveBackendURL(ins, port)
    BY <2>1, ContainerIs
  <2> QED BY <2>2, BackendIs
<1> QED BY <1>1, Invariant, PTL

\* For any labels, every router of an exported container is on the one stub of its
\* service and on no other.  A plain router, the options of its middlewares that
\* the worker kept, and its service read there as they were parsed, whatever else
\* the stub carries; a middleware with none of them is named and not defined.  A
\* TLS router is there as a TCP router, its rule's Host made a HostSNI and its
\* middlewares dropped (labels.go:181-216 and 333-342, store.go:386-470).
THEOREM RoutesAlwaysKept == Spec => []RoutesKept
<1>1. Inv => RoutesKept
  <2> SUFFICES ASSUME Inv, phase = "desired", NEW c \in spec, NEW r \in DOMAIN c.routers
               PROVE  RouteKept(c, r)
    BY DEF RoutesKept
  <2> DEFINE s == c.routers[r].service
             stub == [service |-> s, labels |-> StubLabels(c, s)]
             on == {st \in stubs : r \in collectNames(st.labels, "routers")
                                           \cup collectNames(st.labels, "tcp routers")}
  <2>1. ins \in Inputs /\ c \in BuildContainer(ins)
    BY DEF Inv
  <2>2. spec = {c}
    BY <2>1, ContainerIs DEF Inv
  <2>3. stubs = buildDesiredStubs(c)
    BY <2>2 DEF Inv
  <2>4. s \in DOMAIN c.services /\ r \in routersOf(c, s)
    BY <2>1, StubReads DEF routersOf
  <2> DEFINE L == StubLabels(c, s)
  <2>7. s = c.routers[r].service
    OBVIOUS
  <2> HIDE DEF s
  <2>8. ReadsBack(c, r, s)
    BY <2>1, <2>7, StubReads
  <2>5. on = {stub}
    <3>1. stub \in stubs
      BY <2>3, <2>4, StubsAre
    <3>2. stub \in on
      <4>1. r \in collectNames(StubLabels(c, s), "routers")
                    \cup collectNames(StubLabels(c, s), "tcp routers")
        BY <2>4, RoutersOn
      <4> QED BY <3>1, <4>1
    <3>3. ASSUME NEW st \in on PROVE st = stub
      <4>1. PICK t : st = [service |-> t, labels |-> StubLabels(c, t)]
        BY <2>3, StubsAre
      <4>2. r \in routersOf(c, t)
        <5>1. st.labels = StubLabels(c, t)
          BY <4>1
        <5>2. r \in collectNames(StubLabels(c, t), "routers")
                      \cup collectNames(StubLabels(c, t), "tcp routers")
          BY <5>1
        <5> QED BY <5>2, RoutersOn
      <4>3. t = s
        BY <2>7, <4>2 DEF routersOf
      <4> QED BY <4>1, <4>3 DEF stub
    <3> HIDE DEF on, stub
    <3> QED BY <3>2, <3>3
  <2>6. stub.service = s /\ stub.labels = StubLabels(c, s)
    OBVIOUS
  <2>10. {st.service : st \in on} = {s} /\ Cardinality(on) = 1
    <3>1. Cardinality({stub}) = 1
      BY FS_Singleton
    <3> HIDE DEF stub, on
    <3> QED BY <2>5, <2>6, <3>1
  <2>9. \A st \in on : st.service = s /\ st.labels = StubLabels(c, s)
    BY <2>5, <2>6
  <2>11. s = c.routers[r].service /\ on = {st \in stubs : r \in collectNames(st.labels, "routers")
                                           \cup collectNames(st.labels, "tcp routers")}
    BY <2>7
  <2> HIDE DEF on, stub
  <2> QED BY <2>8, <2>9, <2>10, <2>11 DEF ReadsBack, RouteKept
<1> QED BY <1>1, Invariant, PTL
=============================================================================
