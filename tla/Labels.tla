------------------------------- MODULE Labels -------------------------------
(***************************************************************************)
(* From the Traefik labels of an application container to those of the     *)
(* stubs that stand for it: BuildContainer on the worker                   *)
(* (internal/parse/labels.go) and buildDesiredStubs on the receiver        *)
(* (internal/receiver/store.go).  The snapshot between them is JSON, which *)
(* keeps every field.                                                      *)
(*                                                                         *)
(* A label's key is a tuple, its value a word or, where the code splits it *)
(* at the commas, a sequence of words; a blank word is " ".  A pointer is  *)
(* a set of at most one value.                                             *)
(***************************************************************************)
EXTENDS Integers, Sequences, FiniteSets

CONSTANTS Inputs,        \* the containers as inspected, see Shape
          Network        \* the receiver's docker network, or ""

VARIABLES ins,    \* the container's inspection and the worker's address
          spec,   \* {}, or its exported specification
          stubs,  \* the stubs desired for it
          phase   \* inspected, exported, desired
vars == <<ins, spec, stubs, phase>>

Keys == ({"connect", "traefik", "docker"} \X STRING)
          \cup ({"routers", "services", "middlewares"} \X STRING \X STRING)
ListOptions == {"entrypoints", "middlewares", "basicauth.users"}
\* A service's name is a word: the code drops the empty one and no user of
\* Traefik writes a blank one.
Shape(i) ==
  /\ DOMAIN i = {"labels", "exposed", "published", "hostMode", "address", "networks", "advertise"}
  /\ \A k \in DOMAIN i.labels :
       /\ k \in Keys
       /\ Len(k) = 3 /\ k[3] \in ListOptions => i.labels[k] \in Seq(STRING)
       /\ k[1] = "services" => k[2] \notin {"", " "}
  /\ i.hostMode \in BOOLEAN
  /\ i.networks \in Seq([name : STRING, address : STRING])
ASSUME InputsAssumption == \A i \in Inputs : Shape(i)

-----------------------------------------------------------------------------
(* Words.                                                                   *)
TrimSpace(v) == IF v = " " THEN "" ELSE v
Rank(j, positions) == Cardinality({k \in positions : k <= j})
\* The words that are not blank, in their order.
csv(items) ==
  LET kept == {j \in DOMAIN items : TrimSpace(items[j]) # ""}
  IN  [n \in 1..Cardinality(kept) |-> items[CHOOSE j \in kept : Rank(j, kept) = n]]
parseBool(v, default) ==
  CASE v \in {"true", "yes", "1"} -> TRUE
    [] v \in {"false", "no", "0"} -> FALSE
    [] OTHER -> default
FormatBool(b) == IF b THEN "true" ELSE "false"
Numbers == [v \in {"0", "7", "80", "443", "18181"} |->
              CASE v = "0" -> 0 [] v = "7" -> 7 [] v = "80" -> 80
                [] v = "443" -> 443 [] v = "18181" -> 18181]
Atoi(v) == IF v \in DOMAIN Numbers THEN {Numbers[v]} ELSE {}
Itoa(n) == CHOOSE v \in DOMAIN Numbers : Numbers[v] = n
Positive(v) == {n \in Atoi(v) : n > 0}

Has(labels, key)  == key \in DOMAIN labels
Text(labels, key) == IF Has(labels, key) THEN TrimSpace(labels[key]) ELSE ""
List(labels, key) == IF Has(labels, key) THEN csv(labels[key]) ELSE <<>>
Flag(labels, key, default) ==
  IF Has(labels, key) THEN {parseBool(labels[key], default)} ELSE {}
\* The label key with value v, if there is one.
Label(key, values) == [k \in {key : v \in values} |-> CHOOSE v \in values : TRUE]
\* Labels from several places, which agree where they overlap.
Merge(labelSets) ==
  [k \in UNION {DOMAIN l : l \in labelSets} |-> (CHOOSE l \in labelSets : Has(l, k))[k]]
Elements(seq) == {seq[i] : i \in DOMAIN seq}
NonEmpty(v, empty) == IF v = empty THEN {} ELSE {v}

-----------------------------------------------------------------------------
(* The worker reads labels.                                                 *)

collectNames(labels, kind) == {k[2] : k \in {k \in DOMAIN labels : k[1] = kind}}

IsEnabled(labels) ==
  IF Has(labels, <<"connect", "enable">>) THEN parseBool(labels[<<"connect", "enable">>], FALSE)
  ELSE Has(labels, <<"traefik", "enable">>) /\ parseBool(labels[<<"traefik", "enable">>], FALSE)

\* Slip: a stub is known by nothing but the opt-in it lacks (NeverReexported).
SlipExportable(labels) == IsEnabled(labels)
Exportable(labels) == TRUE \notin Flag(labels, <<"connect", "managed">>, FALSE) /\ IsEnabled(labels)

parseService(labels, s) ==
  [port |-> IF Has(labels, <<"services", s, "port">>)
               /\ Positive(labels[<<"services", s, "port">>]) # {}
            THEN Numbers[labels[<<"services", s, "port">>]] ELSE 0,
   passhost |-> Flag(labels, <<"services", s, "passhostheader">>, TRUE),
   sticky   |-> Flag(labels, <<"services", s, "sticky">>, FALSE)]

\* kind is "routers"; the stub's TCP routers have the same options.
parseRouter(labels, kind, r) ==
  LET key(option) == <<kind, r, option>>
  IN  [rule        |-> Text(labels, key("rule")),
       entrypoints |-> List(labels, key("entrypoints")),
       service     |-> Text(labels, key("service")),
       middlewares |-> List(labels, key("middlewares")),
       priority    |-> IF Has(labels, key("priority")) THEN Atoi(labels[key("priority")]) ELSE {},
       tls |-> IF Has(labels, key("certresolver")) THEN {Text(labels, key("certresolver"))}
               ELSE IF TRUE \in Flag(labels, key("tls"), FALSE) THEN {""} ELSE {}]

\* One option of each kind; of the others nothing is kept.
parseOption(option, v) ==
  CASE option = "redirectscheme.scheme"    -> NonEmpty(TrimSpace(v), "")
    [] option = "redirectscheme.permanent" -> {parseBool(v, FALSE)}
    [] option = "basicauth.users"          -> NonEmpty(csv(v), <<>>)
    [] option = "headers.stsseconds"       -> Atoi(v)
    [] OTHER -> {}
parseMiddleware(labels, m) ==
  LET options == {k[3] : k \in {k \in DOMAIN labels : k[1] = "middlewares" /\ k[2] = m}}
      value(o) == parseOption(o, labels[<<"middlewares", m, o>>])
  IN  [o \in {o \in options : value(o) # {}} |-> value(o)]

\* networks: names and addresses, in the names' order.
preferredContainerAddr(i) ==
  LET given  == {j \in DOMAIN i.networks : i.networks[j].address # ""}
      wanted == {j \in given : i.networks[j].name = Text(i.labels, <<"docker", "network">>)}
      among  == IF wanted # {} THEN wanted ELSE given
  IN  IF i.address # "" THEN {i.address}
      ELSE {i.networks[j].address : j \in {j \in among : \A k \in among : j <= k}}

inferPort(i) ==
  LET parsed(keys) == UNION {Positive(k[1]) : k \in keys}
  IN  IF Cardinality(i.exposed) = 1 /\ parsed(i.exposed) # {} THEN parsed(i.exposed)
      ELSE IF Cardinality(parsed(i.published)) = 1 THEN parsed(i.published) ELSE {}

Backend(source, host, port) == [source |-> source, host |-> host, port |-> port]
\* Slip: an invalid backend port is taken for none (Dialable).
SlipHostOverride(i, servicePort) ==
  {Backend("override-host-port", Text(i.labels, <<"connect", "host">>),
           IF Positive(Text(i.labels, <<"connect", "port">>)) # {}
           THEN Numbers[i.labels[<<"connect", "port">>]] ELSE servicePort)}
HostOverride(i, servicePort) ==
  LET given == Text(i.labels, <<"connect", "port">>)
  IN  {Backend("override-host-port", Text(i.labels, <<"connect", "host">>), p) :
         p \in IF given # "" THEN Positive(given) ELSE {servicePort} \ {0}}

\* Where the container itself is reached, and from which ports.
Reach(i) == IF i.hostMode THEN [source |-> "host-network", hosts |-> NonEmpty(i.advertise, "")]
            ELSE [source |-> "container-ip", hosts |-> preferredContainerAddr(i)]
Ports(i, servicePort) == IF servicePort > 0 THEN {servicePort} ELSE inferPort(i)
LocalBackend(i, servicePort) ==
  {Backend(Reach(i).source, h, p) : h \in Reach(i).hosts, p \in Ports(i, servicePort)}

\* The values net/url does not parse.
Unparsable == {"://"}
\* {} is an error.
resolveBackendURL(i, servicePort) ==
  IF Text(i.labels, <<"connect", "url">>) # ""
  THEN {Backend("override-url", u, servicePort) :
          u \in {Text(i.labels, <<"connect", "url">>)} \ Unparsable}
  ELSE IF Text(i.labels, <<"connect", "host">>) # "" THEN HostOverride(i, servicePort)
  ELSE LocalBackend(i, servicePort)

\* A router's service when it names none.
defaultService(services) ==
  IF Cardinality(services) = 1 THEN services ELSE {"default"} \cap services

\* Slip: a reference to a service is not followed up (TypeOK).
SlipBadRouter(router, services, middlewares) ==
  router.rule = "" \/ (router.service = "" /\ defaultService(services) = {})
BadRouter(router, services, middlewares) ==
  \/ router.rule = ""
  \/ router.service = "" /\ defaultService(services) = {}
  \/ router.service \notin services \cup {""}
  \/ ~(Elements(router.middlewares) \subseteq middlewares)

\* {} is an error: whichever of the container's parts has it, all are refused.
BuildContainer(i) ==
  LET routers     == collectNames(i.labels, "routers")
      services    == IF collectNames(i.labels, "services") = {} THEN {"default"}
                     ELSE collectNames(i.labels, "services")
      middlewares == collectNames(i.labels, "middlewares")
      router(r)   == parseRouter(i.labels, "routers", r)
      backend(s)  == resolveBackendURL(i, parseService(i.labels, s).port)
  IN  IF \/ ~Exportable(i.labels) \/ routers = {}
         \/ \E s \in services : backend(s) = {}
         \/ \E r \in routers : BadRouter(router(r), services, middlewares)
      THEN {}
      ELSE {[routers |-> [r \in routers |->
                IF router(r).service # "" THEN router(r)
                ELSE [router(r) EXCEPT !.service = CHOOSE s \in defaultService(services) : TRUE]],
             services |-> [s \in services |->   \* its port is the backend's from here on
                [parsed |-> parseService(i.labels, s), backend |-> CHOOSE b \in backend(s) : TRUE]],
             middlewares |-> [m \in middlewares |-> parseMiddleware(i.labels, m)]]}

-----------------------------------------------------------------------------
(* The receiver writes labels.                                              *)

\* A rule is its matcher and the rest: Host(...) becomes HostSNI(...).
tcpRuleFromHTTPRule(rule) == IF rule = "Host(a)" THEN "HostSNI(a)" ELSE rule

formatOption(option, v) ==
  CASE option = "redirectscheme.permanent" -> FormatBool(v)
    [] option = "headers.stsseconds" -> Itoa(v)
    [] OTHER -> v
\* Slip: an option that the parser knows is not written (RoutesKept).
SlipWritten == {"redirectscheme.scheme", "redirectscheme.permanent", "headers.stsseconds"}
\* The options the writer knows, a list of its own beside parseOption's.
Written == {"redirectscheme.scheme", "redirectscheme.permanent",
            "headers.stsseconds", "basicauth.users"}
middlewareLabels(m, mw) ==
  [k \in {<<"middlewares", m, o>> : o \in DOMAIN mw \cap Written} |->
     formatOption(k[3], CHOOSE v \in mw[k[3]] : TRUE)]

commonLabels(kind, r, router) ==
  {Label(<<kind, r, "entrypoints">>, NonEmpty(router.entrypoints, <<>>)),
   Label(<<kind, r, "service">>, {router.service}),
   Label(<<kind, r, "priority">>, {Itoa(n) : n \in router.priority})}

tcpLabels(r, router) ==
  Merge(commonLabels("tcp routers", r, router)
          \cup {Label(<<"tcp routers", r, "rule">>, {tcpRuleFromHTTPRule(router.rule)}),
                Label(<<"tcp routers", r, "tls">>, {"true"}),
                Label(<<"tcp routers", r, "certresolver">>, router.tls \ {""})})

httpLabels(r, router, middlewares) ==
  Merge(commonLabels("routers", r, router)
          \cup {Label(<<"routers", r, "rule">>, {router.rule}),
                Label(<<"routers", r, "middlewares">>, NonEmpty(router.middlewares, <<>>))}
          \cup {middlewareLabels(m, middlewares[m]) : m \in Elements(router.middlewares)})

serviceLabels(s, service) ==
  {Label(<<"connect", "managed">>, {"true"}),
   Label(<<"traefik", "enable">>, {"true"}),
   Label(<<"docker", "network">>, NonEmpty(Network, "")),
   Label(<<"services", s, "port">>, {"18181"}),
   Label(<<"tcp services", s, "port">>, {"18181"}),
   Label(<<"services", s, "passhostheader">>, {FormatBool(b) : b \in service.passhost}),
   Label(<<"services", s, "sticky">>, {FormatBool(b) : b \in service.sticky})}

\* One stub for each service that some router leads to.
buildDesiredStubs(c) ==
  LET routersOf(s) == {r \in DOMAIN c.routers : c.routers[r].service = s}
      routed(r) == IF c.routers[r].tls # {} THEN tcpLabels(r, c.routers[r])
                   ELSE httpLabels(r, c.routers[r], c.middlewares)
  IN  {[service |-> s,
        labels  |-> Merge(serviceLabels(s, c.services[s].parsed) \cup {routed(r) : r \in routersOf(s)})]
         : s \in {s \in DOMAIN c.services : routersOf(s) # {}}}

-----------------------------------------------------------------------------
Init == ins \in Inputs /\ spec = {} /\ stubs = {} /\ phase = "inspected"

Export ==
  /\ phase = "inspected" /\ phase' = "exported"
  /\ spec' = BuildContainer(ins)
  /\ UNCHANGED <<ins, stubs>>

\* A snapshot without an address of the worker has no stubs.
Desire ==
  /\ phase = "exported" /\ spec # {} /\ ins.advertise # ""
  /\ phase' = "desired"
  /\ stubs' = UNION {buildDesiredStubs(c) : c \in spec}
  /\ UNCHANGED <<ins, spec>>

Next == Export \/ Desire
Spec == Init /\ [][Next]_vars

-----------------------------------------------------------------------------
(* Properties.                                                              *)

TypeOK ==
  /\ phase \in {"inspected", "exported", "desired"} /\ Cardinality(spec) <= 1
  /\ \A c \in spec : \A r \in DOMAIN c.routers :
       /\ c.routers[r].service \in DOMAIN c.services
       /\ Elements(c.routers[r].middlewares) \subseteq DOMAIN c.middlewares
  /\ \A st \in stubs : \A c \in spec : st.service \in DOMAIN c.services

\* A TLS router and a service as a stub has them.
AsTcp(router)   == [router EXCEPT !.rule = tcpRuleFromHTTPRule(@), !.middlewares = <<>>]
AtStub(service) == [service EXCEPT !.port = 18181]
RouteKept(c, r) ==
  LET router == c.routers[r]
      kind   == IF router.tls = {} THEN "routers" ELSE "tcp routers"
      on     == {st \in stubs : r \in collectNames(st.labels, "routers")
                                      \cup collectNames(st.labels, "tcp routers")}
  IN  /\ {st.service : st \in on} = {router.service} /\ Cardinality(on) = 1
      /\ \A st \in on :
           /\ parseRouter(st.labels, kind, r) = IF kind = "routers" THEN router ELSE AsTcp(router)
           /\ kind = "routers" =>
                \A m \in Elements(router.middlewares) :
                  /\ parseMiddleware(st.labels, m) = c.middlewares[m]
                  /\ m \in collectNames(st.labels, "middlewares")
                       <=> DOMAIN c.middlewares[m] # {}
           /\ parseService(st.labels, st.service) = AtStub(c.services[st.service].parsed)

\* README.md:23-26: what a container asks of Traefik, its stubs ask, as far as the
\* receiver writes it.  Every router is on one stub, the one of its service, and
\* there the labels that the receiver wrote (store.go:428-470) read as the worker
\* read the container's (labels.go:181-216).  A plain router reads as it was, with
\* each option of its middlewares that the worker kept; but one it kept no option
\* of is named on the stub and not defined there.  A TLS router reads as the
\* TCP router of the same entrypoints, service, priority and resolver, with its
\* Host made a HostSNI; its middlewares are dropped (store.go:432-445).
RoutesKept ==
  phase = "desired" => \A c \in spec : \A r \in DOMAIN c.routers : RouteKept(c, r)

\* A stub opts in to Traefik with the label that opts a container in to the
\* export (labels.go:37): a worker on the receiver's host must refuse it all the
\* same, or every stub would get a stub (labels.go:53-55, store.go:399-405).
NeverReexported ==
  \A st \in stubs :
    BuildContainer([ins EXCEPT !.labels = st.labels, !.address = "172.18.0.9"]) = {}

\* README.md:23, "a backend URL the worker can actually reach": an exported
\* service has a host and a port to dial, whichever of the container's labels,
\* modes, networks and ports they come from; an override URL is taken as it is,
\* but it is one that parses.
Dialable ==
  \A c \in spec : \A s \in DOMAIN c.services :
    LET b == c.services[s].backend
    IN  IF b.source = "override-url" THEN b.host \notin Unparsable \cup {""}
        ELSE b.host # "" /\ b.port > 0
=============================================================================
