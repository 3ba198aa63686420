----------------------------- MODULE LinkParsers ----------------------------
(***************************************************************************)
(* ray2sing: what each share link becomes (one parser per scheme).          *)
(*                                                                         *)
(* A link is a record: scheme, user, pass, host, port and name as net/url   *)
(* reads them; inner, the <<user, password>> that the user part decodes to, *)
(* or <<>>; params, its query, or the JSON object of a vmess link, whose    *)
(* ps, add, port and id are name, host, port and user; body, the JSON in    *)
(* its path: [kind, fields]; inis, the [Interface] texts in a vpn link.     *)
(* It is sound when net/url or the decoder of its scheme accepts it.  A     *)
(* value of the query is a number where the code reads a number, a sequence *)
(* where it may be repeated, else a string; a list after commas is one      *)
(* string.                                                                  *)
(***************************************************************************)
EXTENDS Integers, Sequences, FiniteSets, SequencesExt, TLC

(* A leaf of a profile.  link is what a share link says of it.              *)
NoTls == [on |-> FALSE, reality |-> FALSE, sni |-> "", utls |-> "", alpn |-> ""]
NoLink == [server |-> "", port |-> 0, user |-> "", pass |-> "", net |-> "tcp",
           tls |-> NoTls, obfs |-> "", awg |-> "none", mtu |-> 0]
Node(tag, type, detour) ==
  [tag |-> tag, type |-> type, host6 |-> FALSE, detour |-> detour, tls |-> "plain",
   fragment |-> FALSE, tfo |-> TRUE, members |-> <<>>, fault |-> "none", link |-> NoLink]

(***************************************************************************)
(* Reading a link                                                           *)
(***************************************************************************)
Unreadable == "unreadable"
Get(p, k) == IF k \in DOMAIN p THEN p[k] ELSE ""
Num(p, k) == IF k \in DOMAIN p THEN p[k] ELSE 0
GetOneOfN(p, default, keys) ==
  LET there == SelectSeq(keys, LAMBDA k : k \in DOMAIN p)
  IN  IF there = <<>> THEN default ELSE p[Head(there)]
FirstNonEmpty(vals) ==
  LET there == SelectSeq(vals, LAMBDA v : v # "")
  IN  IF there = <<>> THEN "" ELSE Head(there)
AnyOf(p, keys) == FirstNonEmpty([i \in DOMAIN keys |-> Get(p, keys[i])])
FirstPort(ports) ==
  LET there == SelectSeq(ports, LAMBDA n : n # 0)
  IN  IF there = <<>> THEN 0 ELSE Head(there)
Put(p, k, v) == (k :> v) @@ p

(* Lower case, and a space for each _ and - (the keys that need it here).   *)
Spelling ==
  "peer_public_key" :> "peer public key" @@ "obfs-password" :> "obfs password"
    @@ "obfsParam" :> "obfsparam" @@ "local_address" :> "local address"
    @@ "pathologywg_key" :> "pathologywg key" @@ "private_key" :> "private key"
    @@ "server_ports" :> "server ports"
NormalizeStr(k) == IF k \in DOMAIN Spelling THEN Spelling[k] ELSE k
Normalized(p) ==
  [k \in {NormalizeStr(r) : r \in DOMAIN p} |-> p[CHOOSE r \in DOMAIN p : NormalizeStr(r) = k]]

(* ParseInt with 17 bits: what does not fit gives the default.              *)
ToUInt16(n, default) == IF n \in 0..65535 THEN n ELSE default
NoPort == -1
ParseUrl(u, defaultPort) ==
  [u EXCEPT !.port = ToUInt16(@, defaultPort),
            !.user = IF u.inner = <<>> THEN @ ELSE u.inner[1],
            !.pass = IF u.inner = <<>> THEN @ ELSE u.inner[2],
            !.params = Normalized(@)]

(* Only the name of a node is a detour: a URL there is a chain.             *)
GetDialerOptions(p) == Get(p, "detour")

(* A transport sets the alpn that the TLS options read after it.            *)
TransportAlpn == "ws" :> "http/1.1" @@ "httpupgrade" :> "http/1.1" @@ "grpc" :> "h2" @@ "quic" :> "h3"
Transports == {"tcp", "http", "xhttp"} \cup DOMAIN TransportAlpn
Net(p) ==
  LET named == FirstNonEmpty(<<Get(p, "net"), Get(p, "type")>>)
      plain == named \in {"", "raw", "tcp"}
  IN  CASE plain /\ "http" \in {Get(p, "type"), Get(p, "headertype")} -> "http"
        [] plain /\ "http" \notin {Get(p, "type"), Get(p, "headertype")} -> "tcp"
        [] OTHER -> named
GetTransportOptions(p) ==
  [err |-> Net(p) \notin Transports, net |-> Net(p),
   params |-> IF Net(p) \in DOMAIN TransportAlpn THEN Put(p, "alpn", TransportAlpn[Net(p)]) ELSE p]

(* uTLS is left out for xhttp over h3, and on the "net" of a vmess link     *)
(* whatever its alpn; a fingerprint needs the SNI.                          *)
GetTLSOptions(p) ==
  LET utls == IF Get(p, "fp") = "" /\ Get(p, "security") = "reality" THEN "chrome" ELSE Get(p, "fp")
      quic == /\ Get(p, "alpn") # ""
              /\ \/ Get(p, "alpn") = "h3" /\ Get(p, "type") = "xhttp"
                 \/ Get(p, "net") = "xhttp"
  IN  IF Get(p, "tls") = "tls" \/ Get(p, "security") \in {"tls", "reality"}
      THEN [on |-> TRUE, reality |-> FALSE, sni |-> FirstNonEmpty(<<Get(p, "sni"), Get(p, "add")>>),
            utls |-> IF quic \/ Get(p, "nosni") # "" THEN "" ELSE utls, alpn |-> Get(p, "alpn")]
      ELSE NoTls
WithReality(p, tls) == [tls EXCEPT !.reality = tls.on /\ Get(p, "security") = "reality"]

(***************************************************************************)
(* What a parser answers                                                    *)
(***************************************************************************)
Bad == [err |-> TRUE, outs |-> <<>>, ends |-> <<>>]
Outs(leaves) == [err |-> FALSE, outs |-> leaves, ends |-> <<>>]
End(leaf)    == [err |-> FALSE, outs |-> <<>>, ends |-> <<leaf>>]
GetServerOption(u) ==
  [NoLink EXCEPT !.server = u.host, !.port = u.port, !.user = u.user, !.pass = u.pass]
TlsKind(tls) == CASE tls.reality -> "reality" [] tls.on /\ ~tls.reality -> "plain" [] OTHER -> "none"

(* An outbound of the link; a parser that drops the dialer's options passes *)
(* "" for the detour.                                                       *)
Leaf(u, type, detour, tls) ==
  [Node(u.name, type, detour) EXCEPT !.tls = TlsKind(tls), !.link = [GetServerOption(u) EXCEPT !.tls = tls]]
Out(u, type, detour, tls) == Outs(<<Leaf(u, type, detour, tls)>>)
Secret(u, keys) == FirstNonEmpty(<<u.pass, u.user, AnyOf(u.params, keys)>>)
TlsWith(sni) == [NoTls EXCEPT !.on = TRUE, !.sni = sni]

(***************************************************************************)
(* The V2Ray family                                                         *)
(***************************************************************************)
V2Ray(u, type, params, tls(_)) ==
  LET t == GetTransportOptions(params)
      l == Leaf(u, type, GetDialerOptions(params), tls(t.params))
  IN  IF t.err THEN Bad ELSE Outs(<<[l EXCEPT !.link.net = t.net]>>)
VmessSingbox(link) ==
  LET u == [link EXCEPT !.port = ToUInt16(@, 443)]
  IN  V2Ray(u, "vmess", Put(u.params, "add", u.host), GetTLSOptions)
VlessSingbox(link) ==
  LET u == ParseUrl(link, 443)
  IN  V2Ray(u, "vless", u.params, LAMBDA p : WithReality(p, GetTLSOptions(p)))
TrojanSingbox(link) ==
  LET u == ParseUrl(link, 443) IN V2Ray(u, "trojan", u.params, GetTLSOptions)

(* There is no xray in this engine: whatever the outbound that is put       *)
(* together, the link is refused.                                           *)
MakeXrayOptions(protocol) == Bad
VmessXray(link)  == MakeXrayOptions("vmess")
VlessXray(link)  == MakeXrayOptions("vless")
TrojanXray(link) == MakeXrayOptions("trojan")
DirectXray(link) == MakeXrayOptions("freedom")

(***************************************************************************)
(* One server, one secret                                                   *)
(***************************************************************************)
DirectSingbox(link) ==
  LET u == ParseUrl(link, 0)
  IN  Outs(<<[Leaf(u, "direct", GetDialerOptions(u.params), NoTls) EXCEPT !.link = NoLink]>>)
SocksSingbox(link) ==
  LET u == ParseUrl(link, 0) IN Out(u, "socks", GetDialerOptions(u.params), NoTls)
HttpSingbox(link) ==
  LET u == ParseUrl(link, 0)
  IN  Out(u, "http", "", IF {"tls", "sni", "insecure"} \cap DOMAIN u.params # {}
                         THEN TlsWith(Get(u.params, "sni")) ELSE NoTls)
HttpsSingbox(link) ==
  LET u == ParseUrl(link, 0) IN Out(u, "http", "", TlsWith(Get(u.params, "sni")))

(* A user part alone is the password, with the method "none".               *)
ShadowsocksSingbox(link) ==
  LET u == ParseUrl(link, 443)
  IN  Out(IF u.pass = "" THEN [u EXCEPT !.user = "none", !.pass = u.user] ELSE u,
          "shadowsocks", "", NoTls)
SSHSingbox(link) == Out(ParseUrl(link, 22), "ssh", "", NoTls)
TuicSingbox(link) ==
  LET u == ParseUrl(link, 443)
  IN  Out(u, "tuic", "", [TlsWith(Get(u.params, "sni")) EXCEPT !.alpn = "h3"])

(* The link needs its downmbps; obfs is looked up by a key that the query   *)
(* never has.                                                               *)
HysteriaSingbox(link) ==
  LET u == ParseUrl(link, 443)
      l == Leaf(u, "hysteria", "", TlsWith(Get(u.params, "peer")))
  IN  IF "downmbps" \notin DOMAIN u.params THEN Bad
      ELSE Outs(<<[l EXCEPT !.link.obfs = Get(u.params, "obfsParam")]>>)
Hysteria2Singbox(link) ==
  LET u == ParseUrl(link, 443)
      p == u.params
      l == Leaf(u, "hysteria2", "", TlsWith(FirstNonEmpty(<<Get(p, "sni"), Get(p, "hostname")>>)))
  IN  Outs(<<[l EXCEPT !.link.obfs = IF Get(p, "obfs") # "" THEN Get(p, "obfs-password") ELSE ""]>>)

NaiveSingbox(link) ==
  LET u == ParseUrl(link, 443)
      p == IF Get(u.params, "security") = "" THEN Put(u.params, "security", "tls") ELSE u.params
  IN  Out(u, "naive", GetDialerOptions(p), WithReality(p, GetTLSOptions(p)))
AnyTLSSingbox(link) ==
  LET u == ParseUrl(link, 443)
      p == IF Get(u.params, "security") = "" THEN Put(u.params, "security", "tls") ELSE u.params
      q == IF AnyOf(p, <<"sni", "server name", "servername">>) = "" THEN Put(p, "sni", u.host) ELSE p
      secret == Secret(u, <<"password", "pass">>)
  IN  IF u.host = "" \/ secret = "" \/ Get(p, "idle session timeout") = Unreadable THEN Bad
      ELSE Out([u EXCEPT !.pass = secret], "anytls", GetDialerOptions(q), GetTLSOptions(q))
ShadowTLSSingbox(link) ==
  LET u == ParseUrl(link, 443)
      p == IF Get(u.params, "security") = "" THEN Put(u.params, "security", "tls") ELSE u.params
      sni == FirstNonEmpty(<<AnyOf(p, <<"sni", "handshake server", "handshake", "peer">>), u.host>>)
      secret == Secret(u, <<"password", "pass">>)
  IN  IF u.host = "" \/ secret = "" THEN Bad
      ELSE Out([u EXCEPT !.pass = secret], "shadowtls", GetDialerOptions(p),
               GetTLSOptions(Put(p, "sni", sni)))
SnellSingbox(link) ==
  LET u   == ParseUrl(link, 440)
      psk == FirstNonEmpty(<<u.pass, AnyOf(u.params, <<"psk", "password", "pass">>), u.user>>)
  IN  IF u.host = "" \/ psk = "" \/ Num(u.params, "version") \notin {0, 4, 6} THEN Bad
      ELSE Out([u EXCEPT !.pass = psk], "snell", GetDialerOptions(u.params), NoTls)
SudokuSingbox(link) ==
  LET u   == ParseUrl(link, 443)
      key == FirstNonEmpty(<<u.user, Get(u.params, "key")>>)
  IN  IF u.host = "" \/ key = "" THEN Bad
      ELSE Out([u EXCEPT !.user = key], "sudoku", GetDialerOptions(u.params), NoTls)
ShadowQUICSingbox(link) ==
  LET u    == ParseUrl(link, 443)
      user == FirstNonEmpty(<<u.user, AnyOf(u.params, <<"username", "user">>)>>)
      pass == FirstNonEmpty(<<u.pass, AnyOf(u.params, <<"password", "pass">>)>>)
  IN  IF u.host = "" \/ user = "" \/ pass = "" THEN Bad
      ELSE Out([u EXCEPT !.user = user, !.pass = pass], "shadowquic",
               GetDialerOptions(u.params),
               [TlsWith(FirstNonEmpty(<<AnyOf(u.params, <<"server name", "servername", "sni">>), u.host>>))
                  EXCEPT !.alpn = Get(u.params, "alpn")])
TrustTunnelSingbox(link) ==
  LET u    == ParseUrl(link, 443)
      name == FirstNonEmpty(<<AnyOf(u.params, <<"hostname", "host", "sni">>), u.host>>)
  IN  IF u.host = "" THEN Bad
      ELSE Out([u EXCEPT !.user = FirstNonEmpty(<<@, AnyOf(u.params, <<"username", "user">>)>>),
                         !.pass = FirstNonEmpty(<<@, AnyOf(u.params, <<"password", "pass">>)>>)],
               "trusttunnel", GetDialerOptions(u.params),
               TlsWith(FirstNonEmpty(<<AnyOf(u.params, <<"sni", "server name">>), name>>)))
DerpSingbox(link) ==
  LET u    == ParseUrl(link, 443)
      p    == u.params
      peer == AnyOf(p, <<"peer", "peer public key", "peerpublickey", "public key">>)
      tls  == GetTLSOptions(p)
  IN  IF AnyOf(p, <<"pk", "private key", "privatekey">>) = "" \/ peer = "" THEN Bad
      ELSE Out(u, "derp", GetDialerOptions(p),
               IF tls.on \/ "none" \in {Get(p, "security"), Get(p, "tls")} THEN tls
               ELSE TlsWith(FirstNonEmpty(<<Get(p, "sni"), u.host>>)))

(* ssconf: the server answers JSON, a shadowsocks link (both in fields), or *)
(* not at all (garbled).                                                    *)
BeepassSingbox(link) ==
  CASE link.body.kind = "garbled" -> Bad
    [] link.body.kind = "json" ->
         Out([link EXCEPT !.host = link.body.fields.server,
                          !.port = ToUInt16(link.body.fields.port, 443),
                          !.name = FirstNonEmpty(<<Get(link.body.fields, "name"), @>>)],
             "shadowsocks", "", NoTls)
    [] OTHER -> ShadowsocksSingbox(link.body.fields)

(***************************************************************************)
(* mieru: one outbound for each pair of a port and a protocol               *)
(***************************************************************************)
ParseMierusSimple(u) ==
  LET ports  == IF "port" \in DOMAIN u.params THEN u.params.port ELSE <<>>
      protos == IF "protocol" \in DOMAIN u.params THEN u.params.protocol
                ELSE [i \in DOMAIN ports |-> "TCP"]
      name   == IF u.name = "" THEN "mieru" ELSE u.name
      One(i) == [Leaf(u, "mieru", "", NoTls) EXCEPT
                   !.tag = IF Len(ports) = 1 THEN name
                           ELSE name \o "-" \o protos[i] \o "-" \o ToString(ports[i]),
                   !.link.port = ToUInt16(ports[i], 0), !.link.net = protos[i]]
  IN  IF \/ ports = <<>> \/ Len(ports) # Len(protos) \/ u.host = ""
         \/ \E i \in DOMAIN ports : ToUInt16(ports[i], 0) = 0
      THEN Bad ELSE Outs([i \in DOMAIN ports |-> One(i)])
ParseMieruHiddifyStyle(link) ==
  LET u == ParseUrl(link, 0)
  IN  IF \/ u.port = 0 /\ AnyOf(u.params, <<"server ports", "serverports", "ports">>) = ""
         \/ "protocol" \in DOMAIN u.params /\ Len(u.params.protocol) > 1
      THEN Bad
      ELSE Out([u EXCEPT !.name = IF @ = "" THEN "mieru" ELSE @,
                         !.user = FirstNonEmpty(<<@, AnyOf(u.params, <<"username", "user">>)>>),
                         !.pass = FirstNonEmpty(<<@, AnyOf(u.params, <<"password", "pass">>)>>)],
               "mieru", GetDialerOptions(u.params), NoTls)
(* mieru:// with a user and a port= is written in the simple way; a whole   *)
(* client configuration (body) is not one outbound.                         *)
MieruSingboxAll(u) ==
  CASE u.scheme = "mierus" -> ParseMierusSimple(u)
    [] u.scheme = "mieru" /\ u.body.kind # "none" -> Bad
    [] u.scheme = "mieru" /\ u.body.kind = "none" /\ u.user # "" /\ "port" \in DOMAIN u.params ->
         ParseMierusSimple(u)
    [] OTHER -> ParseMieruHiddifyStyle(u)

(***************************************************************************)
(* carrier                                                                  *)
(***************************************************************************)
CarrierProviders == {"jitsi", "telemost", "wbstream", "vk", "peer"}
(* sing-box: vk and peer need an address, the others a room.                *)
ValidateCarrierOutbound(provider, server, room) ==
  provider \in CarrierProviders /\ (IF provider \in {"vk", "peer"} THEN server # "" ELSE room # "")

(* carrier://provider/<JSON>: no dialer options, and a tag of its own.      *)
TryCarrierCompact(link) ==
  LET f == link.body.fields
      provider == IF link.user # ""
                  THEN FirstNonEmpty(<<Get(f, "provider"), link.user>>)
                  ELSE IF link.host \in CarrierProviders THEN link.host ELSE Get(f, "provider")
      server == FirstNonEmpty(<<Get(f, "server"), IF link.host \in CarrierProviders THEN "" ELSE link.host>>)
  IN  IF link.body.kind = "garbled" \/ ~ValidateCarrierOutbound(provider, server, Get(f, "room")) THEN Bad
      ELSE Out([link EXCEPT !.name = IF @ = "" THEN "carrier" ELSE @, !.host = server,
                            !.port = FirstPort(<<Num(f, "server_port"), Num(f, "port"), ToUInt16(@, 0)>>),
                            !.user = provider],
               "carrier", "", NoTls)
CarrierSingbox(link) ==
  LET u == ParseUrl(link, 0)
      p == u.params
      named == FirstNonEmpty(<<u.user, AnyOf(p, <<"provider", "type">>)>>)
      byHost == named = "" /\ u.host \in CarrierProviders
      provider == IF byHost THEN u.host ELSE named
      server == FirstNonEmpty(<<IF byHost THEN "" ELSE u.host, Get(p, "server"), Get(p, "peer")>>)
  IN  IF link.body.kind # "none" THEN TryCarrierCompact(link)
      ELSE IF ~ValidateCarrierOutbound(provider, server, Get(p, "room")) THEN Bad
      ELSE Out([u EXCEPT !.host = server, !.user = provider,
                         !.port = FirstPort(<<@, Num(p, "server port"), Num(p, "port")>>)],
               "carrier", GetDialerOptions(p), NoTls)

(***************************************************************************)
(* WireGuard and its obfuscations are endpoints                             *)
(***************************************************************************)
Awg2Numbers == {"jc", "jmin", "jmax", "s1", "s2", "s3", "s4"}
Awg2Names   == {"h1", "h2", "h3", "h4", "i1", "i2", "i3", "i4", "i5", "id", "ip", "ib"}
Awg3Names   == {"header protection key", "content padding addition", "rekey after time",
                "rekey timeout", "reject after time", "keepalive timeout", "max handshake attempts"}
AmneziaFromParams(p) ==
  CASE \E k \in Awg3Names : Get(p, k) # "" -> "awg3"
    [] /\ \A k \in Awg3Names : Get(p, k) = ""
       /\ (\E k \in Awg2Numbers : Num(p, k) # 0) \/ (\E k \in Awg2Names : Get(p, k) # "") -> "awg2"
    [] OTHER -> "none"
ClampObfuscatedWGMTU(awg, mtu) ==
  IF awg = "none" THEN mtu ELSE IF mtu = 0 \/ mtu > 1280 THEN 1280 ELSE mtu
WgLeaf(u, tag, detour, awg, mtu) ==
  [Leaf([u EXCEPT !.name = tag], "wireguard", detour, NoTls) EXCEPT
     !.link.awg = awg, !.link.mtu = ClampObfuscatedWGMTU(awg, mtu)]
WgPrivate(p) == AnyOf(p, <<"pk", "private key", "privatekey">>)
WgPeer(p) == AnyOf(p, <<"peer public key", "peerpublickey", "public key", "pubkey">>)
WgUnreadable(p) ==
  Unreadable \in {AnyOf(p, <<"local address", "localaddress", "address">>), Get(p, "reserved")}

WireguardEndpoint(link) ==
  LET u == ParseUrl(link, 41641)
      p == u.params
  IN  IF WgPrivate(p) = "" \/ WgPeer(p) = "" \/ WgUnreadable(p) THEN Bad
      ELSE End(WgLeaf(u, u.name, GetDialerOptions(p), AmneziaFromParams(p), Num(p, "mtu")))

(* An [Interface] text: its MTU is set after the clamp.                     *)
AWGSingboxTxt(ini) ==
  LET awg  == AmneziaFromParams(ini.params)
      leaf == WgLeaf(ini, IF awg = "none" THEN "wireguard" ELSE "awg", "", awg, 0)
      mtu  == Num(ini.params, "mtu")
  IN  IF ini.user = "" \/ ini.host = "" \/ ini.port <= 0 \/ WgUnreadable(ini.params) THEN Bad
      ELSE End(IF mtu = 0 THEN leaf ELSE [leaf EXCEPT !.link.mtu = mtu])

(* awg:// holds a text, or the query of a wg link, or one of its own, where *)
(* ip is the address and also an obfuscation.                               *)
AWGSingbox(link) ==
  LET u   == ParseUrl(link, 0)
      p   == u.params
      awg == AmneziaFromParams(p)
      pk  == FirstNonEmpty(<<AnyOf(p, <<"privatekey", "pk", "private key">>), u.user>>)
      pub == AnyOf(p, <<"peerpublickey", "publickey", "pub", "peerpub", "peer public key">>)
      tag == FirstNonEmpty(<<u.name, IF awg = "none" THEN "WG" ELSE "AWG">>)
  IN  CASE link.inis # <<>> -> AWGSingboxTxt(link.inis[1])
        [] link.inis = <<>> /\ WgPrivate(p) # "" /\ WgPeer(p) # "" -> WireguardEndpoint(link)
        [] OTHER -> IF DOMAIN p = {} \/ pk = "" \/ pub = "" \/ WgUnreadable(p) THEN Bad
                    ELSE End(WgLeaf(u, tag, "", awg, Num(p, "mtu")))

DecodeAmneziaVpnINIs(link) == link.inis
AmneziaVpnEndpoint(link) ==
  IF DecodeAmneziaVpnINIs(link) = <<>> THEN Bad ELSE AWGSingboxTxt(DecodeAmneziaVpnINIs(link)[1])

(* pathologywg, from its query or from the JSON in its path: never a        *)
(* detour.                                                                  *)
PathologyFromParams(u, p, keyNames) ==
  IF WgPrivate(p) = "" \/ WgPeer(p) = "" \/ AnyOf(p, keyNames) = "" \/ WgUnreadable(p) THEN Bad
  ELSE End(WgLeaf(u, IF u.name = "" THEN "PathologyWG" ELSE u.name, "", "pathology", Num(p, "mtu")))
PathologySingbox(link) ==
  LET u == [link EXCEPT !.port = IF @ = NoPort THEN 51820 ELSE @]
  IN  CASE u.host = "" \/ u.port \notin 1..65535 \/ u.body.kind = "garbled" -> Bad
        [] u.host # "" /\ u.port \in 1..65535 /\ u.body.kind = "none" ->
             PathologyFromParams(u, [k \in DOMAIN Normalized(u.params) \ {"reserved"} |->
                                       Normalized(u.params)[k]],
                                 <<"pathologywg key", "pathology key", "key">>)
        [] OTHER ->
             PathologyFromParams(u, Normalized(u.body.fields), <<"key", "pathologywg key", "pathology key">>)
=============================================================================
