------------------------------ MODULE MCLabels ------------------------------
(***************************************************************************)
(* Containers for Labels, in three sets: what they route, whether they opt *)
(* in, and where they can be reached.  In each the rest is one fixed case. *)
(***************************************************************************)
EXTENDS Labels, TLC

Absent == "-"
\* The labels with these keys and values, a key with Absent left out.
With(keys, values) == [k \in {keys[j] : j \in {j \in DOMAIN keys : values[j] # Absent}} |->
                         values[CHOOSE j \in DOMAIN keys : keys[j] = k]]

Container(labels) ==
  [labels |-> labels, exposed |-> {}, published |-> {<<"80", "tcp">>}, hostMode |-> FALSE,
   address |-> "172.17.0.2", networks |-> <<>>, advertise |-> "10.0.0.1"]
Enabled  == With(<< <<"connect", "enable">> >>, <<"yes">>)
OneRoute == With(<< <<"routers", "r1", "rule">>, <<"services", "s1", "port">> >>, <<"Host(a)", "80">>)

\* Two routers, two services, two middlewares.
Router1 ==
  {With(<< <<"routers", "r1", "rule">>, <<"routers", "r1", "service">>,
           <<"routers", "r1", "priority">>, <<"routers", "r1", "tls">>,
           <<"routers", "r1", "certresolver">> >>, <<rule, s, p, tls, resolver>>)
     : rule \in {"Host(a)", "Path(b)", " "}, s \in {Absent, "s1", "s2"},
       p \in {Absent, "7"}, tls \in {Absent, "yes", "false"}, resolver \in {Absent, "le"}}
Router2 ==
  {With(<< <<"routers", "r2", "rule">>, <<"routers", "r2", "service">> >>, <<rule, s>>)
     : rule \in {"Path(c)"}, s \in {Absent, "s1"}} \cup {<<>>}
Lists ==
  {Label(<<"routers", "r1", "middlewares">>, v) @@ Label(<<"routers", "r1", "entrypoints">>, {<<"web", " ">>})
     : v \in {{<<"m1", " ">>}, {<<"m1", "m2">>}}}
Services ==
  {With(<< <<"services", "s1", "port">>, <<"services", "s1", "passhostheader">>,
           <<"services", "s2", "sticky">> >>, <<p, h, y>>)
     : p \in {"443"}, h \in {Absent, "no"}, y \in {Absent, "true"}} \cup {<<>>}
Middlewares ==
  {With(<< <<"middlewares", "m1", "redirectscheme.permanent">>,
           <<"middlewares", "m1", "headers.stsseconds">>,
           <<"middlewares", "m1", "compress">> >>, <<p, n, "true">>)
     @@ Label(<<"middlewares", "m2", "basicauth.users">>, {<<"u", " ", "v">>})
     : p \in {Absent, "yes"}, n \in {"443", "many"}}
Routing ==
  {Container(Enabled @@ r1 @@ r2 @@ lists @@ s @@ m)
     : r1 \in Router1, r2 \in Router2, lists \in Lists, s \in Services, m \in Middlewares}

OptIn ==
  {Container(OneRoute @@ With(<< <<"connect", "enable">>, <<"traefik", "enable">>,
                                 <<"connect", "managed">> >>, <<c, t, m>>))
     : c \in {Absent, "true", "no", "?"}, t \in {Absent, "true", "false"},
       m \in {Absent, "true", "?"}}

Addresses ==
  {[labels |-> Enabled @@ With(<< <<"routers", "r1", "rule">>, <<"services", "s1", "port">>,
                                  <<"connect", "url">>, <<"connect", "host">>,
                                  <<"connect", "port">>, <<"docker", "network">> >>,
                               <<"Host(a)", p, url, host, hp, "n2">>),
    exposed |-> e, published |-> pub, hostMode |-> mode, address |-> a,
    networks |-> <<[name |-> "n1", address |-> a1], [name |-> "n2", address |-> a2]>>,
    advertise |-> adv]
     : p \in {Absent, "80", "0"}, url \in {Absent, "http://b", "://"}, host \in {Absent, "h"},
       hp \in {Absent, "443", "0"},
       e \in {{}, {<<"80", "tcp">>}, {<<"80", "tcp">>, <<"80", "udp">>}},
       pub \in {{}, {<<"80", "tcp">>, <<"80", "udp">>}, {<<"80", "tcp">>, <<"443", "tcp">>}},
       mode \in BOOLEAN, a \in {"", "172.17.0.2"}, a1 \in {"", "172.18.0.2"},
       a2 \in {"", "172.19.0.2"}, adv \in {"", "10.0.0.1"}}

MCInputs == Routing \cup OptIn \cup Addresses
=============================================================================
