----------------------------- MODULE MCProfiles -----------------------------
(***************************************************************************)
(* Small profiles and settings for TLC.  A profile is built with the        *)
(* settings that its own part of the configuration depends on.              *)
(***************************************************************************)
EXTENDS ProfileProps

(***************************************************************************)
(* Share links: every scheme alone, whole and with what it needs missing,   *)
(* and texts of several lines and hops                                      *)
(***************************************************************************)
NoBody == [kind |-> "none", fields |-> <<>>]
Link(scheme, name) ==
  [scheme |-> scheme, user |-> "", pass |-> "", inner |-> <<>>, host |-> name, port |-> NoPort,
   name |-> name, params |-> <<>>, body |-> NoBody, inis |-> <<>>, sound |-> TRUE]
With(link, params) == [link EXCEPT !.params = params]
User(link, user, pass) == [link EXCEPT !.user = user, !.pass = pass]
Keys == "pk" :> "k" @@ "peer_public_key" :> "p"

Schemes == {"vmess", "vless", "trojan", "xvless", "ss", "ssconf", "tuic", "hysteria", "hysteria2",
            "ssh", "naive", "mieru", "mierus", "carrier", "derp", "shadowquic", "sudoku",
            "trusttunnel", "anytls", "shadowtls", "snell", "direct", "socks", "http", "https",
            "wg", "awg", "vpn", "[Interface]", "pathologywg", "nothing"}
Params == {<<>>, Keys, "detour" :> "relay # 0", "downmbps" :> 5, "version" :> 5, "key" :> "k",
           Keys @@ "pathologywg_key" :> "k" @@ "mtu" :> 1420, Keys @@ "jc" :> 4 @@ "mtu" :> 1420,
           Keys @@ "local_address" :> Unreadable, "room" :> "r" @@ "provider" :> "jitsi",
           "pub" :> "p" @@ "header protection key" :> "h", "obfs" :> "o" @@ "obfs-password" :> "s",
           "server_ports" :> "1-2", "port" :> <<1, 2>> @@ "protocol" :> <<"TCP", "UDP">>,
           "port" :> <<1>>, "port" :> <<0>>}
PortParams == {p \in Params : "port" \in DOMAIN p}
Users == {<<"", "">>, <<"u", "">>, <<"u", "p">>}
Named == {"", "relay", "relay # 1"}
Singles ==
  {[User(With(Link(s, n), p), u[1], u[2]) EXCEPT !.port = port, !.host = "h"] :
     s \in Schemes \ {"mieru", "mierus", "ssconf", "[Interface]"}, n \in {"relay"},
     p \in Params \ PortParams, u \in Users, port \in {NoPort, 70000}}
  \cup {[User(With(Link("[Interface]", ""), p), k, "") EXCEPT !.port = port] :
          p \in Params \ PortParams, k \in {"", "k"}, port \in {0, 9}}
  \cup {User(With(Link(s, n), p), u[1], u[2]) :
          s \in {"mieru", "mierus"}, n \in Named, p \in Params, u \in Users}
  \cup {[User(Link("ss", "relay"), "x", "") EXCEPT !.inner = i, !.sound = snd] :
          i \in {<<>>, <<"m", "p">>}, snd \in BOOLEAN}
  \cup {[Link(s, n) EXCEPT !.body = b, !.host = h] :
          s \in {"carrier", "pathologywg"}, n \in Named, h \in {"", "h", "jitsi"},
          b \in {[kind |-> "garbled", fields |-> <<>>], [kind |-> "json", fields |-> <<>>],
                 [kind |-> "json", fields |-> "room" :> "r"],
                 [kind |-> "json", fields |-> "private_key" :> "k" @@ "peer_public_key" :> "p" @@ "key" :> "s"]}}
  \cup {[Link("ssconf", "relay") EXCEPT !.body = b] :
          b \in {[kind |-> "garbled", fields |-> <<>>],
                 [kind |-> "json", fields |-> [server |-> "s", port |-> 1, name |-> "relay"]],
                 [kind |-> "link", fields |-> User(Link("ss", "relay"), "m", "p")]}}
V2Rays ==
  {With(Link(s, "relay"), ("type" :> t) @@ ("alpn" :> "h3") @@ ("fp" :> "firefox") @@ ("security" :> sec)) :
     s \in {"vmess", "vless", "trojan"}, sec \in {"", "tls", "reality"},
     t \in {"", "raw", "http", "ws", "grpc", "quic", "httpupgrade", "xhttp", "kcp"}}

(* Several lines: chains, repeated names, marks and unreadable hops.        *)
Ini(host) == [User(Link("[Interface]", ""), "k", "") EXCEPT !.host = host, !.port = 1]
Hop == {User(Link("ss", "a"), "m", "p"), Link("socks", "b"),
        With(Link("wg", "c"), Keys), [Link("vless", "d") EXCEPT !.sound = FALSE],
        With(Link("socks", "e"), "detour" :> "a")}
SameName == {Link("socks", "a"), Link("socks", "a-1"), With(Link("wg", "a"), Keys), Link("socks", "relay # 1"),
             With(Link("socks", "b"), "detour" :> "relay # 0"), Link("socks", ""),
             [Link("vpn", "") EXCEPT !.inis = <<Ini("one"), Ini("two")>>]}
Lines(hops) == {<<h>> : h \in hops} \cup {<<g, h>> : g, h \in hops}
LinkTexts == {<<<<l>>>> : l \in Singles \cup V2Rays} \cup {<<l>> : l \in Lines(Hop)}
               \cup {<<l, m>> : l, m \in Lines(Hop)}
               \cup {<<<<f>>, <<g>>, <<h>>>> : f, g, h \in SameName}
               \cup {<<<<f, g>>, <<h>>>> : f, g, h \in SameName}
               \cup {<<>>, <<<<>>>>}
LinkBodies == {[Body("links", <<>>, <<>>) EXCEPT !.lines = text] : text \in LinkTexts}

(***************************************************************************)
(* Nodes                                                                    *)
(***************************************************************************)
MCHidden  == {"hidden-node"}
MCDefault == {"best-node"}
MCV6      == {"c-ipv6", "gone-ipv6"}
MCRegistered ==
  {"vless", "vmess", "trojan", "shadowsocks", "hysteria", "hysteria2", "tuic", "ssh", "naive",
   "mieru", "carrier", "shadowquic", "sudoku", "trusttunnel", "anytls", "shadowtls", "snell",
   "socks", "http", "punnel", "direct", "selector", "wireguard"}
MCSectioned == "relay # 0" :> "relay" @@ "relay # 1" :> "relay" @@ "# 2" :> ""

A      == Node("a", "vless", "")
B      == [Node("b", "vless", "a") EXCEPT !.tls = "reality"]
C      == Node("c-ipv6", "shadowsocks", "")
Six    == [Node("six", "vless", "proxy") EXCEPT !.host6 = TRUE]
H      == Node("hidden-node", "vless", "")
D      == Node("best-node", "hysteria2", "direct")
Stub   == Node("direct", "direct", "")
Group  == [Node("group", "selector", "") EXCEPT !.members = <<"a">>]
Punnel == Node("punnel-in", "punnel", "c-ipv6")
Wg     == Node("wg", "wireguard", "")
Taken  == Node("balance", "vless", "")
Pool   == {A, B, C, Six, H, D, Stub, Group, Punnel, Taken}

Orders(pool, n) == UNION {{s \in [1..k -> pool] : IsInjective(s)} : k \in 0..n}

NoChain == [detours |-> [m \in {} |-> ""], target |-> "", members |-> {}]
Via(m, exit) == [NoChain EXCEPT !.detours = [x \in {m} |-> exit]]
Chains == {NoChain, Via("a", "b"), Via("a", "a"), Via("b", "c-ipv6"), Via("a", "gone"),
           Via("a", "group"), Via("a", "lowest"), Via("a", "balance"),
           [NoChain EXCEPT !.target = "a", !.members = {"a", "b", "hidden-node"}]}

(***************************************************************************)
(* Routes and DNS                                                           *)
(***************************************************************************)
Item(kind, val) == [kind |-> kind, val |-> val, local |-> TRUE, known |-> TRUE]
NoBucket == [items |-> <<>>, packages |-> {}, processes |-> {}]
Profile  == [enabled |-> TRUE, global |-> TRUE, order |-> <<>>,
             block |-> NoBucket, direct |-> NoBucket, proxy |-> NoBucket]
App(proc) == [name |-> proc, path |-> "", regex |-> ""]
AppBucket == [NoBucket EXCEPT !.processes = {App("app")}]
SiteBucket == [NoBucket EXCEPT !.items = <<Item("set", "site"), Item("domain", "d.example")>>]
Buckets == {NoBucket, SiteBucket,
            [NoBucket EXCEPT !.packages = {"app"}, !.items = <<Item("cidr", "10.0.0.0")>>],
            AppBucket,
            [NoBucket EXCEPT !.items = <<[Item("set", "site") EXCEPT !.local = FALSE]>>],
            [NoBucket EXCEPT !.items =
              <<[Item("set", "missing") EXCEPT !.local = FALSE, !.known = FALSE]>>]}
OrdersOf3 == {<<>>, <<"proxy", "direct", "block">>, <<"direct", "direct", "other">>}
RouteProfiles == {[Profile EXCEPT !.order = o, !.block = b1, !.direct = b2, !.proxy = b3] :
                    o \in OrdersOf3, b1 \in Buckets, b2 \in Buckets, b3 \in {NoBucket, AppBucket}}

SubRule(match, out) == [RouteTo(match, out) EXCEPT !.action = "route"]
SubRules == {Rule({<<"path", "/app">>}, "hijack-dns", ""), SubRule({<<"set", "more">>}, "group"),
             SubRule({<<"domain", "d.example">>}, "direct"),
             SubRule({<<"package", "app">>}, "proxy"),
             SubRule({<<"domain", "d.example">>}, "block"),
             [SubRule({<<"cidr", "10.0.0.0">>}, "") EXCEPT !.action = "bypass"],
             Rule({}, "sniff", ""),
             [Rule({}, "", "") EXCEPT !.type = "logical",
                !.sub = <<SubRule({<<"domain", "d.example">>}, "a")>>]}
SubRoutes == {[rulesets |-> sets, rules |-> <<r>>] :
                sets \in {<<>>, <<[tags |-> <<"site">>, local |-> FALSE, known |-> TRUE]>>,
                         <<[tags |-> <<"more">>, local |-> FALSE, known |-> TRUE]>>,
                         <<[tags |-> <<"site", "more">>, local |-> FALSE, known |-> TRUE]>>},
                r \in SubRules} \cup {[rulesets |-> <<>>, rules |-> <<>>]}

Pair == {[Profile EXCEPT !.direct = b] : b \in Buckets}
          \cup {[Profile EXCEPT !.block = b, !.enabled = e] : b \in {AppBucket, SiteBucket}, e \in BOOLEAN}

DnsGroup == [mode |-> "", errorTTL |-> 0, winTTL |-> 0]
Url(host, named) == [host |-> host, port |-> 0, named |-> named]
BaseDns == [direct |-> <<>>, remote |-> <<Addr("https", "dns.google", TRUE)>>,
            directGroup |-> DnsGroup, remoteGroup |-> [DnsGroup EXCEPT !.mode = "fastest"],
            fake |-> FALSE, urls |-> {}, url |-> {Url("cp.example", TRUE)},
            directStrategy |-> "ipv4_only", remoteStrategy |-> "prefer_ipv6",
            ignoreSub |-> FALSE]
Addrs == {BlankAddr, Addr("", "local", TRUE), Addr("", "1.1.1.1", FALSE),
          Addr("tls", "dns.example", TRUE), Addr("dhcp", "auto", TRUE),
          Addr("rcode", "refused", TRUE),
          [Addr("tcp", "", TRUE) EXCEPT !.valid = FALSE],
          [Addr("udp", "9.9.9.9", TRUE) EXCEPT !.port = 53]}
AddrLists == {<<>>} \cup {<<a>> : a \in Addrs}
               \cup {<<a, Addr("tls", "dns.example", TRUE)>> : a \in Addrs}
SubServer == Server(Tag("sub"), "udp", "", "a")
SubDnses == {[servers |-> <<>>, rules |-> <<>>, final |-> Tag("")],
             [servers |-> <<SubServer>>, rules |-> <<>>, final |-> Tag("")],
             [servers |-> <<SubServer, Server(Tag("sub2"), "local", "", "")>>,
              rules |-> <<DnsRule({<<"domain", "cp.example", 0>>}, Tag("sub"), "")>>,
              final |-> Tag("sub2")]}

(***************************************************************************)
(* Settings: a base, and what varies together                               *)
(***************************************************************************)
Opt == [test |-> FALSE, testTag |-> "", os6 |-> TRUE, sub6 |-> TRUE, disabled |-> {},
        fragment |-> TRUE, chain |-> NoChain, profiles |-> <<>>, legacy |-> <<>>,
        hijack |-> TRUE, bypassLan |-> TRUE, ads |-> TRUE, blockQuic |-> TRUE,
        globalProxy |-> "unset", ipv6Mode |-> "as-is", mobile |-> FALSE, tun |-> TRUE,
        tunService |-> FALSE, ignoreRoute |-> FALSE, dns |-> BaseDns, fullConfig |-> FALSE,
        os |-> "linux", admin |-> TRUE, lan |-> FALSE, v6 |-> TRUE, systemProxy |-> FALSE,
        password |-> TRUE,
        ports |-> [mixed |-> 12334, tproxy |-> 0, redirect |-> 12336, direct |-> 12337],
        enabled |-> [mixed |-> TRUE, tproxy |-> TRUE, redirect |-> TRUE, direct |-> TRUE],
        cache |-> TRUE, cachePath |-> "", storeFakeIP |-> TRUE, storeDNS |-> FALSE,
        logFile |-> "box.log"]

NodeSettings ==
  {[Opt EXCEPT !.test = t, !.sub6 = k[1], !.disabled = k[2], !.chain = ch] :
     t \in BOOLEAN, k \in {<<TRUE, {}>>, <<FALSE, {}>>, <<TRUE, {"a"}>>}, ch \in Chains}
RouteSettings ==
  {[Opt EXCEPT !.profiles = <<p>>, !.globalProxy = "no"] : p \in RouteProfiles}
    \cup {[Opt EXCEPT !.profiles = <<p, q>>, !.globalProxy = "no"] : p, q \in Pair}
DnsSettings ==
  {[Opt EXCEPT !.dns = [BaseDns EXCEPT !.direct = d, !.remote = r, !.fake = f, !.urls = u]] :
     d \in AddrLists, r \in {<<a>> : a \in Addrs} \cup {<<>>}, f \in BOOLEAN,
     u \in {{}, {Url("t.example", TRUE), [Url("p.example", TRUE) EXCEPT !.port = 8080]}}}
HostSettings ==
  {[Opt EXCEPT !.test = t, !.os = os, !.mobile = os = "android", !.ipv6Mode = m,
               !.tun = tun, !.v6 = v6, !.lan = ~v6, !.cache = tun] :
     t \in BOOLEAN, os \in {"linux", "windows", "android"}, tun \in BOOLEAN,
     m \in {"as-is", "ipv4_only", "ipv6_only", "prefer_ipv6"}, v6 \in BOOLEAN}

(***************************************************************************)
(* Bodies                                                                   *)
(***************************************************************************)
NodeBodies ==
  {Body("object", s, <<>>) : s \in Orders(Pool, 2)}
    \cup {Body("object", s, <<Wg>>) : s \in Orders(Pool, 1)}
RouteBodies == {[Body("object", <<A>>, <<>>) EXCEPT !.route = sub] : sub \in SubRoutes}
                 \cup {[Body("object", <<A, Group>>, <<>>) EXCEPT !.route =
                         [rulesets |-> <<>>, rules |-> <<SubRule({}, "group")>>]]}
DnsBodies   == {[Body("object", <<A>>, <<>>) EXCEPT !.dns = sub] : sub \in SubDnses}

Faulty(tag, fault) == [Node(tag, "vless", "") EXCEPT !.fault = fault]
GroupOf(tag, members) == [Group EXCEPT !.tag = tag, !.members = members]
SoftPool == {Node("x", "vless", ""), Faulty("y", "decode"), Faulty("z", "check"),
             Node("odd", "odd-type", ""), Stub, Faulty("direct", "check"),
             GroupOf("g1", <<"x", "z">>), GroupOf("g2", <<"x">>), GroupOf("g3", <<"g2", "x">>),
             GroupOf("empty", <<>>)}
SoftBodies ==
  {Body("object", s, <<>>) : s \in Orders(SoftPool, 3)}
    \cup {Body(k, s, e) : k \in {"array", "clash", "single", "empty", "number", "text"},
                          s \in Orders(SoftPool, 1), e \in {<<>>, <<Wg>>}}
    \cup {Body("object", <<A>>, <<[Wg EXCEPT !.fault = f]>>) : f \in {"decode", "check"}}
    \cup {Body("object", <<Faulty("x", f), Node("x", "socks", "")>>, <<>>) :
            f \in {"none", "decode", "check"}}
    \cup {[Body("object", <<A>>, <<>>) EXCEPT !.sound = FALSE]}

FullBody == [Body("object", <<A>>, <<>>) EXCEPT
               !.inbounds = <<Node("in", "socks", ""), Faulty("in2", "check"), Node("in3", "odd-type", "")>>]
MCBodies    == {FullBody} \cup NodeBodies \cup RouteBodies \cup DnsBodies \cup SoftBodies \cup LinkBodies
MCReimports(profile) ==
  {Body("object", <<Faulty("y", "decode")>>, <<>>)}
    \cup (IF profile \in NodeBodies THEN {Body("object", <<A>>, <<>>)} ELSE {})
MCSettingsFor(profile, refused) ==
  CASE refused -> {Opt}
    [] profile \in RouteBodies \cap DnsBodies -> RouteSettings \cup HostSettings \cup DnsSettings
    [] profile \in RouteBodies \ DnsBodies -> RouteSettings
    [] profile \in DnsBodies \ RouteBodies -> DnsSettings
    [] profile \in NodeBodies \ (DnsBodies \cup RouteBodies) -> NodeSettings
    [] OTHER -> {Opt} \cup (IF profile.inbounds = <<>> THEN {} ELSE {[Opt EXCEPT !.fullConfig = TRUE]})
MCAllowlists(profile) ==
  LET leaves == profile.outbounds \o profile.endpoints
      tags   == [i \in DOMAIN leaves |-> leaves[i].tag]
  IN  IF leaves # <<>> /\ (profile \in NodeBodies \/ profile.inbounds # <<>>)
      THEN {Reverse(tags), <<"gone", "", tags[1]>> \o tags, <<"gone">>}
      ELSE {}
MCFragments == {s.dns : s \in DnsSettings}
RuleSetFile == {[readable |-> TRUE, rules |-> <<"r">>], [readable |-> TRUE, rules |-> <<>>],
                [readable |-> FALSE, rules |-> <<>>]}
MCRuleSetInputs == {<<>>} \cup {<<f, g>> : f, g \in RuleSetFile}
=============================================================================
