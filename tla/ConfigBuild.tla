----------------------------- MODULE ConfigBuild ----------------------------
(***************************************************************************)
(* v2/config: BuildConfig, the configuration that a profile and the client  *)
(* settings make, with its inbounds, its cache file and its log.            *)
(*                                                                         *)
(* The settings are one record: those of OutboundPlan and RoutePlan, and    *)
(* dns, those of DnsPlan.  v6 says that the host can listen on IPv6; os is  *)
(* "linux", "darwin", "windows", "android" or "ios".                        *)
(***************************************************************************)
EXTENDS RoutePlan, DnsPlan

(***************************************************************************)
(* Inbounds: one of each kind on every address that is bound                *)
(***************************************************************************)
TunAddresses(mode, v6) ==
  CASE mode = "ipv4_only"         -> {4}
    [] mode = "ipv6_only" /\ v6   -> {6}
    [] mode = "ipv6_only" /\ ~v6  -> {4}
    [] OTHER                      -> {4} \cup (IF v6 THEN {6} ELSE {})

Binds(opt) ==
  CASE opt.lan /\ opt.v6   -> <<"::">>
    [] opt.lan /\ ~opt.v6  -> <<"0.0.0.0">>
    [] ~opt.lan /\ opt.v6  -> <<"::1", "127.0.0.1">>
    [] OTHER               -> <<"127.0.0.1">>

(* The ports that are opened: the mixed one always when it has a number,    *)
(* and with the number 0 for the side box.                                  *)
PortKinds(opt) ==
  SelectSeq(<<"mixed", "tproxy", "redirect", "direct">>,
    LAMBDA k : CASE k = "mixed"    -> opt.ports[k] > 0 \/ (opt.enabled[k] /\ opt.test)
                 [] k = "tproxy"   -> /\ opt.ports[k] > 0 /\ opt.enabled[k]
                                      /\ opt.os = "linux" /\ opt.admin
                 [] k = "redirect" -> /\ opt.ports[k] > 0 /\ opt.enabled[k]
                                      /\ opt.os \in {"linux", "darwin"}
                 [] k = "direct"   -> opt.ports[k] > 0 /\ opt.enabled[k])

(* Local users of the mixed port need the password; the system proxy has no *)
(* place for one.                                                           *)
Inbound(kind, bind, opt) ==
  [type |-> kind, tag |-> <<kind, bind>>, port |-> opt.ports[kind], families |-> {},
   systemProxy |-> kind = "mixed" /\ opt.systemProxy,
   auth |-> kind = "mixed" /\ opt.password /\ ~opt.systemProxy]
TunInbound(opt) ==
  [type |-> "tun", tag |-> <<"tun-in", "">>, port |-> 0,
   families |-> TunAddresses(opt.ipv6Mode, opt.v6), systemProxy |-> FALSE, auth |-> FALSE]

SetInbound(opt) ==
  LET binds == Binds(opt)
      kinds == PortKinds(opt)
  IN  (IF opt.tun THEN <<TunInbound(opt)>> ELSE <<>>)
        \o FlattenSeq([i \in DOMAIN binds |->
             [j \in DOMAIN kinds |-> Inbound(kinds[j], binds[i], opt)]])

(***************************************************************************)
(* Cache file and log                                                       *)
(***************************************************************************)
SetExperimental(opt) ==
  LET on == opt.cache \/ opt.test
  IN  [enabled |-> on,
       path |-> IF opt.cachePath = "" THEN "data/clash.db" ELSE opt.cachePath,
       fakeIP |-> on /\ opt.storeFakeIP, dns |-> on /\ opt.storeDNS]
SetLog(opt) == [disabled |-> opt.logFile = "", output |-> opt.logFile]

(***************************************************************************)
(* BuildConfig                                                              *)
(***************************************************************************)
(* Of a full configuration only the inbounds are kept: the rest is built.   *)
Options(input, opt, nodes, dns, route) ==
  [err |-> nodes.err \/ dns.err \/ route.err,
   inbounds |-> (IF opt.fullConfig THEN input.inbounds ELSE <<>>) \o SetInbound(opt),
   nodes |-> nodes, dns |-> dns, route |-> route,
   cache |-> SetExperimental(opt), log |-> SetLog(opt)]
BuildConfig(input, opt) ==
  Options(input, opt, SetOutbounds(input, opt), DnsOptions(input, opt.dns),
          SetRoutingOptions(input, opt))
=============================================================================
