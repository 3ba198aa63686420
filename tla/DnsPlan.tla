------------------------------ MODULE DnsPlan -------------------------------
(***************************************************************************)
(* v2/config: the DNS servers and rules that a build makes when it does not *)
(* take those of the subscription (dns.go, lx_option_compat.go, and the DNS *)
(* part of setRoutingOptions in builder.go).                                *)
(*                                                                         *)
(* An address of the settings is [scheme, host, port, named, valid]: named  *)
(* says that the host, as the code reads it, is not an IP literal.          *)
(***************************************************************************)
EXTENDS Naturals, Sequences, FiniteSets, SequencesExt

Local      == "dns-local"
Bootstrap  == "dns-bootstrap"
Remote     == "dns-remote"
Fake       == "dns-fake"
Cloudflare == "api.cloudflareclient.com"

Addr(scheme, host, named) ==
  [scheme |-> scheme, host |-> host, port |-> 0, named |-> named, valid |-> TRUE]
BlankAddr == [scheme |-> "", host |-> "", port |-> 0, named |-> FALSE, valid |-> FALSE]

(***************************************************************************)
(* Servers                                                                  *)
(***************************************************************************)
(* "local" and "fakeip" are kept; an address without a scheme is UDP.       *)
GetDnsAddress(addr) ==
  CASE addr.host \in {"local", "fakeip"} /\ addr.scheme = "" ->
         [addr EXCEPT !.scheme = addr.host, !.named = TRUE]
    [] addr.host \notin {"local", "fakeip"} /\ addr.scheme = "" ->
         [addr EXCEPT !.scheme = "udp"]
    [] OTHER -> addr

HostTypes   == {"udp", "tcp", "tls", "quic", "https", "h3"}
DialTypes   == HostTypes \cup {"local"}
ServerTypes == DialTypes \cup {"dhcp", "fakeip"}
DefaultPort(type) == CASE type \in {"udp", "tcp"}    -> 53
                       [] type \in {"tls", "quic"}   -> 853
                       [] type \in {"https", "h3"}   -> 443
                       [] OTHER                      -> 0

Server(tag, type, resolver, detour) ==
  [tag |-> tag, type |-> type, resolver |-> resolver, detour |-> detour,
   port |-> 0, members |-> <<>>, mode |-> "", errorTTL |-> 0, winTTL |-> 0]

Undialable(addr) ==
  \/ addr.scheme \notin ServerTypes
  \/ addr.scheme \in HostTypes /\ ~addr.valid

(* A literal needs no resolver.                                             *)
GetDNSServerOptions(tag, addr, resolver, detour) ==
  IF addr.scheme \in DialTypes
  THEN [Server(tag, addr.scheme, IF addr.named THEN resolver ELSE "", detour)
          EXCEPT !.port = IF addr.port = DefaultPort(addr.scheme) THEN 0 ELSE addr.port]
  ELSE Server(tag, addr.scheme, "", "")

ResolveDnsServerList(addrs, fallback) ==
  LET given == SelectSeq(addrs, LAMBDA a : a # BlankAddr)
      once  == FoldLeft(LAMBDA acc, a : IF a \in ToSet(acc) THEN acc ELSE Append(acc, a),
                        <<>>, given)
  IN  IF once = <<>> THEN <<fallback>> ELSE once

(* Minutes; what cannot be read (0 here) gives the default.                 *)
ParseDnsGroupDuration(minutes, fallback) == IF minutes > 0 THEN minutes ELSE fallback

(* A group [mode, errorTTL, winTTL] of the settings over servers that share *)
(* a resolver and a detour; the tags are numbered.                          *)
MemberTag(group, i) == <<group, i>>
BuildDnsGroup(group, addrs, settings, resolver, detour) ==
  LET mode    == IF settings.mode = "" THEN "stable" ELSE settings.mode
      members == [i \in DOMAIN addrs |->
                    GetDNSServerOptions(MemberTag(group, i), GetDnsAddress(addrs[i]),
                                        resolver, detour)]
  IN  Append(members,
        [Server(<<group, 0>>, "group", "", "") EXCEPT
           !.members  = [i \in DOMAIN addrs |-> MemberTag(group, i)],
           !.mode     = mode,
           !.errorTTL = ParseDnsGroupDuration(settings.errorTTL, 2),
           !.winTTL   = IF mode = "fastest" THEN ParseDnsGroupDuration(settings.winTTL, 5)
                        ELSE 0])

DirectAddrs(dns) == ResolveDnsServerList(dns.direct, Addr("udp", "1.1.1.1", FALSE))
RemoteAddrs(dns) == ResolveDnsServerList(dns.remote, Addr("", "local", TRUE))

(* Tags are pairs <<name, number>>, 0 for a server without a number.        *)
Tag(name) == <<name, 0>>
BugSetDns(dns, detour) ==
  <<Server(Tag(Local), "local", "", "")>>
    \o BuildDnsGroup(Bootstrap, DirectAddrs(dns), dns.directGroup, Remote, detour)
    \o BuildDnsGroup(Remote, RemoteAddrs(dns), dns.remoteGroup, Bootstrap, detour)
SetDns(dns, detour) ==
  <<Server(Tag(Local), "local", "", "")>>
    \o BuildDnsGroup(Bootstrap, DirectAddrs(dns), dns.directGroup, Local, "")
    \o BuildDnsGroup(Remote, RemoteAddrs(dns), dns.remoteGroup, Bootstrap, detour)
    \o (IF dns.fake THEN <<Server(Tag(Fake), "fakeip", "", "")>> ELSE <<>>)

SetDnsFails(dns) ==
  \E a \in ToSet(DirectAddrs(dns) \o RemoteAddrs(dns)) : Undialable(GetDnsAddress(a))

(* The dns object that a control plane asks for: no select outbound there.  *)
BuildDnsFragment(dns, detour) ==
  [err |-> SetDnsFails(dns),
   servers |-> SetDns(dns, IF detour = "" THEN "direct" ELSE detour)]

(***************************************************************************)
(* Rules.  The host of a test URL keeps its port, if it has one.            *)
(***************************************************************************)
DnsRule(match, server, strategy) ==
  [match |-> match, server |-> server, strategy |-> strategy]
ConnectionTestURLsForDNS(dns) ==
  IF dns.urls # {} THEN dns.urls ELSE dns.url
ProbeHosts(dns) ==
  {<<"domain", u.host, u.port>> : u \in {x \in ConnectionTestURLsForDNS(dns) : x.named}}

(* With fake DNS the strategy is of the whole client, not of a rule.        *)
Strategy(dns, strategy) == IF dns.fake THEN "" ELSE strategy

AddForceDirect(dns) ==
  LET cloudflare == <<"domain", Cloudflare, 0>>
  IN  <<DnsRule({cloudflare}, Tag(Remote), Strategy(dns, dns.directStrategy)),
        DnsRule(ProbeHosts(dns) \cup {cloudflare}, Tag(Bootstrap),
                Strategy(dns, dns.directStrategy))>>

(* The rule for everything else has no condition and is left out as such:   *)
(* the final server is the remote group anyway.                             *)
DnsRules(dns) ==
  AddForceDirect(dns)
    \o (IF dns.fake
        THEN <<DnsRule({<<"query", "A", 0>>, <<"query", "AAAA", 0>>}, Tag(Fake), "")>>
        ELSE <<>>)

(***************************************************************************)
(* The dns of a build: the subscription's as it is, or the client's.        *)
(***************************************************************************)
UseSubDNS(input, dns) == input.dns.servers # <<>> /\ ~dns.ignoreSub
DnsOptions(input, dns) ==
  IF UseSubDNS(input, dns)
  THEN [err |-> FALSE, servers |-> input.dns.servers, rules |-> input.dns.rules,
        final |-> input.dns.final, strategy |-> "",
        resolver |-> IF input.dns.final # Tag("") THEN input.dns.final
                     ELSE input.dns.servers[1].tag]
  ELSE [err |-> SetDnsFails(dns), servers |-> SetDns(dns, "select"),
        rules |-> DnsRules(dns), final |-> Tag(Remote),
        strategy |-> IF dns.fake THEN dns.remoteStrategy ELSE "",
        resolver |-> Tag(Bootstrap)]
=============================================================================
