---------------------------- MODULE ProfileProps ----------------------------
(***************************************************************************)
(* What an import and a build promise.                                      *)
(***************************************************************************)
EXTENDS Profiles

Answered == reply.call \in {"build", "export"} /\ ~reply.err
Imported == reply.call = "import" /\ ~reply.err

(* The shape of the state.                                                  *)
PfTypeOK ==
  /\ source.kind \in {"none", "object", "single", "array", "clash", "links", "empty", "number", "text"}
  /\ file.kind \in {"none", "object"}
  /\ reply.call \in {"none", "import", "build", "export", "ensure", "unsaved", "fragment", "merge"} /\ reply.err \in BOOLEAN

(***************************************************************************)
(* Import                                                                   *)
(***************************************************************************)
Proxy(x) == x.type \notin {"direct", "block", "dns", "selector", "urltest", "balancer"}

(* An accepted body keeps every sound leaf in the order of the body, and    *)
(* nothing else: one bad leaf costs one leaf (filterValidLeavesJSON).       *)
Filtered == source.kind \in {"object", "array", "clash", "single"}
Sound(items) == SelectSeq(items, LAMBDA x :
  x.fault = "none" /\ x.type \in Registered /\ ~IsOutboundGroupType(x.type))
KeepsTheSoundLeaves ==
  Imported /\ Filtered =>
    /\ SelectSeq(reply.profile.outbounds, LAMBDA x : ~IsOutboundGroupType(x.type))
         = Sound(source.outbounds)
    /\ reply.profile.endpoints = Sound(source.endpoints)

(* It is refused only when no proxy of it is sound.  The exceptions, which  *)
(* go against "one bad leaf does not fail an entire subscription import"    *)
(* (parser_soft.go:14-15): two leaves of one tag, a WireGuard endpoint that *)
(* can be read and fails the check of the whole, and a dns or a route that  *)
(* sing-box refuses.                                                        *)
RefusedForAReason ==
  reply.call = "import" /\ reply.err /\ Filtered =>
    \/ \A x \in ToSet(Sound(source.outbounds \o source.endpoints)) : ~Proxy(x)
    \/ DuplicateTag(SelectSeq(source.outbounds \o source.endpoints,
                              LAMBDA x : x.fault # "decode"))
    \/ \E x \in ToSet(source.endpoints) : x.type = "wireguard" /\ x.fault = "check"
    \/ ~source.sound

(* A group that is kept lists only what is kept, or the stub "direct" that  *)
(* every configuration has.                                                 *)
GroupsResolve ==
  Imported => \A g \in ToSet(reply.profile.outbounds) :
    IsOutboundGroupType(g.type) =>
      ToSet(g.members) \subseteq TagsOf(reply.profile.outbounds) \cup {StubTag}

(* What Parse stores reads back as itself: an export, which parses the file *)
(* again, answers what a start builds.  The exception is a file with two    *)
(* leaves of one tag, which cannot be read: a text of links that are named  *)
(* like numbered ones makes it (a, a, a-1 become a, a-1, a-1:               *)
(* convert.go:237-255), and LinkTagsUnique says that nothing else does.     *)
ReparseIsStable ==
  (/\ reply.call = "import" /\ file # NoProfile
   /\ ~DuplicateTag(file.outbounds \o file.endpoints)) =>
    /\ ~ReadSingOptions(file).err
    /\ ParseConfigContent(file, file.inbounds # <<>>) = Accepted(file)

(* A subscription of which a proxy was kept is never built into a           *)
(* configuration that only goes direct: the start fails instead             *)
(* (SelectPlan, countInputProxyLeaves).                                     *)
NeverSilentlyDirect ==
  Answered /\ (\E x \in ToSet(file.outbounds \o file.endpoints) :
              Proxy(x) /\ ~Hidden(x.tag) /\ x.tag \notin PlainTags \cup PredefinedOutboundTags)
    => reply.built.nodes.select # <<Direct>>

(***************************************************************************)
(* Outbounds                                                                *)
(***************************************************************************)
Nodes == reply.built.nodes

(* The selector and the balancers list built outbounds, once each, and the  *)
(* default is one of them.  The exception is a leaf that is named "balance": *)
(* PredefinedOutboundTags lacks that tag (builder.go:78), so that the leaf  *)
(* and the balancer share it.                                               *)
BalanceTaken == "balance" \in TagsOf(Nodes.outbounds \o Nodes.endpoints)
SelectorResolves ==
  Answered /\ ~BalanceTaken =>
    /\ ToSet(Nodes.select) \subseteq Nodes.tags
    /\ ToSet(Nodes.balanced) \subseteq ToSet(Nodes.select) \cap Nodes.tags
    /\ Nodes.default \in ToSet(Nodes.select)
    /\ IsInjective(Nodes.select)
    /\ Nodes.pin \in ToSet(Nodes.balanced) \cup {""}

(* The side box of the test engine offers every leaf that the main core     *)
(* offers with the same settings, without Direct and without balancers,     *)
(* but for a leaf named "balance".                                          *)
LeavesOffered(nodes) == ToSet(nodes.select) \ {"lowest", "balance", Direct}
Covers(side, main) ==
  /\ main # {} => ~side.err
  /\ ~side.err => main \subseteq ToSet(side.select) /\ ToSet(side.select) = LeavesOffered(side)
SideBoxCoversMain ==
  Answered /\ ~reply.opt.test /\ ~BalanceTaken =>
    Covers(SetOutbounds(file, [reply.opt EXCEPT !.test = TRUE]), LeavesOffered(Nodes))

(* A detour that the chain settings give an offered node names an outbound  *)
(* that is built, never the node itself or a hidden one.  The exceptions    *)
(* are exits that are known in the input (chain_detour.go:71) and that      *)
(* setOutbounds then passes over: groups of the profile, IPv6 leaves while  *)
(* they are filtered, and what the side box does not have.  Such a detour   *)
(* names nothing.                                                           *)
PassedOver(tag) ==
  \/ tag \in {"lowest", "balance"} /\ Nodes.balanced = <<>>
  \/ \E x \in ToSet(file.outbounds \o file.endpoints) :
       /\ x.tag = tag
       /\ \/ x.type \in Groups \cup {"block", "dns", "custom"}
          \/ x.type = "punnel" /\ (reply.opt.test \/ x.detour \in V6Tags)
          \/ IsIPv6Leaf(x.tag, x.host6) /\ ~Keep6(reply.opt)
ChainExitIsBuilt ==
  Answered => \A n \in ToSet(Nodes.outbounds \o Nodes.endpoints) :
    LET before == CHOOSE x \in ToSet(file.outbounds \o file.endpoints) : x.tag = n.tag
    IN  n.detour # RemapDialerDetour(before.detour) =>
          /\ n.detour # n.tag /\ ~Hidden(n.detour)
          /\ n.detour \in Nodes.tags \/ PassedOver(n.detour)

(* A probe goes through the leaf that it names: the side box has each leaf  *)
(* of the list that the main core offers, dialled as the main core dials    *)
(* it, and falls back to no other.  Its detour is there when the main core  *)
(* has it and the list names it: pruneToAllowlist cuts away a hop that the  *)
(* list leaves out, and the leaf dials through nothing (engine.go).         *)
Probed == reply.call = "ensure" /\ ~reply.err
Dialled(side, main, tag) ==
  /\ ResolveDialer(side, tag) # {}
  /\ tag \in LeavesOffered(main) => ResolveDialer(side, tag) = ResolveDialer(main, tag)
  /\ \A n \in ResolveDialer(side, tag) :
       n.detour \in ToSet(reply.allow) \cap main.tags => n.detour \in side.tags
Probes(side, main) ==
  /\ ToSet(reply.allow) \cap LeavesOffered(main) \subseteq ToSet(side.select)
  /\ ToSet(side.select) \subseteq ToSet(reply.allow)
  /\ side.default \in ToSet(side.select) /\ IsInjective(side.select)
  /\ \A t \in ToSet(side.select) : Dialled(side, main, t)
ProbesReachTheirLeaf == Probed => Probes(Nodes, SetOutbounds(file, reply.opt))

(* The side box takes nothing from the main one: no TUN, no port but one    *)
(* that the system chooses, no address but the loopback, no cache file.     *)
(* Excepted are the inbounds of a profile that is kept in full, which       *)
(* applyTestOverrides does not put aside.                                   *)
SideBoxKeepsApart ==
  Probed =>
    /\ ReadMixedListenPort(reply.built) # {}
    /\ reply.built.cache.enabled /\ reply.built.cache.path # SetExperimental(reply.opt).path
    /\ ~reply.opt.fullConfig => \A i \in DOMAIN reply.built.inbounds :
         LET inb == reply.built.inbounds[i]
         IN  inb.type = "mixed" /\ inb.port = 0 /\ inb.tag[2] \in {"::1", "127.0.0.1"} /\ ~inb.systemProxy

(***************************************************************************)
(* Routes                                                                   *)
(***************************************************************************)
(* What a list of rules decides for a connection (a set of attributes):     *)
(* the first rule that matches and does not only look.                      *)
Matches(r, conn) ==
  IF r.type = "default" THEN r.match = {} \/ r.match \cap conn # {}
  ELSE \E i \in DOMAIN r.sub : r.sub[i].match \cap conn # {}
FirstMatch(rules, conn) ==
  LET hits == {i \in DOMAIN rules : rules[i].action # "sniff" /\ Matches(rules[i], conn)}
  IN  IF hits = {} THEN "none"
      ELSE LET i == CHOOSE x \in hits : \A y \in hits : x <= y
           IN  IF rules[i].action = "route" THEN rules[i].out ELSE rules[i].action
Attributes(rules) == UNION {rules[i].match : i \in DOMAIN rules}
Connections(rules) == {{}} \cup {{a, b} : a, b \in Attributes(rules)}

(* The client wins: a connection that its own rules decide is decided the   *)
(* same with the subscription's rules (setRoutingOptions).                  *)
Decides(own, rules) ==
  \A conn \in Connections(rules) :
    FirstMatch(own, conn) # "none" => FirstMatch(rules, conn) = FirstMatch(own, conn)
ClientWins ==
  Answered => Decides(SetRoutingOptions(file, [reply.opt EXCEPT !.ignoreRoute = TRUE]).rules,
                      reply.built.route.rules)

(* A profile decides by the owner of a connection before its destination,   *)
(* and among these by its own order of the buckets.                         *)
BucketOf(p, conn, rulesOf(_, _)) ==
  LET order == BucketOrder(p)
      hits  == {i \in DOMAIN order : \E r \in ToSet(rulesOf(p, order[i])) : r.match \cap conn # {}}
  IN  IF hits = {} THEN "none" ELSE order[CHOOSE i \in hits : \A j \in hits : i <= j]
Outcome(bucket) == CASE bucket = "block" -> "reject" [] bucket = "direct" -> Direct
                     [] bucket = "proxy" -> "select" [] OTHER -> "none"
OwnerBeforeDestination ==
  Answered => \A p \in ToSet(reply.opt.profiles) :
    \A conn \in Connections(CompileRoutingProfile(p).rules) :
      LET owner == BucketOf(p, conn, OwnerRules)
      IN  FirstMatch(CompileRoutingProfile(p).rules, conn) =
            Outcome(IF owner # "none" THEN owner ELSE BucketOf(p, conn, MatchRules))

(* Profiles decide in their order: what the client leaves open is decided   *)
(* by the first enabled profile that has a rule for it, be it by an owner   *)
(* or by a destination.                                                     *)
FirstThatDecides(profiles, conn) ==
  LET ps   == SelectSeq(profiles, LAMBDA p : p.enabled)
      says == [i \in DOMAIN ps |-> FirstMatch(CompileRoutingProfile(ps[i]).rules, conn)]
      hits == {i \in DOMAIN ps : says[i] # "none"}
  IN  IF hits = {} THEN "none" ELSE says[CHOOSE i \in hits : \A j \in hits : i <= j]
ProfilesInTurn ==
  Answered => \A conn \in Connections(LocalRules(reply.opt)) :
    LET first == FirstThatDecides(Profiles(reply.opt), conn)
    IN  FirstMatch(ClientRules(reply.opt) \o AdsRules(reply.opt), conn) = "none" /\ first # "none" =>
          FirstMatch(reply.built.route.rules, conn) = first

(* Every rule set that a rule of the client or of a profile names is there, *)
(* and every one of a subscription whose sets have one tag each.  A set of  *)
(* several tags is not promised: it is dropped whole when one is taken, and *)
(* a remote one keeps its first tag only (route_merge.go, builder.go).      *)
(* All are local, else the build fails rather than drop the rule's policy.  *)
SetsNamed(rules) == {a[2] : a \in {x \in Attributes(rules) : x[1] = "set"}}
SetsOf(rulesets) == UNION {ToSet(rs.tags) : rs \in ToSet(rulesets)}
PromisedSets ==
  SetsNamed(SetRoutingOptions(file, [reply.opt EXCEPT !.ignoreRoute = TRUE]).rules)
    \cup (IF \A rs \in ToSet(file.route.rulesets) : Len(rs.tags) = 1
          THEN SetsOf(file.route.rulesets) ELSE {})
RuleSetsResolve ==
  Answered =>
    /\ SetsNamed(reply.built.route.rules) \cap PromisedSets \subseteq SetsOf(reply.built.route.rulesets)
    /\ \A rs \in ToSet(reply.built.route.rulesets) : rs.local

(* A tag stands for one rule set.  The exception is a set that two enabled  *)
(* profiles name: nothing compares them (builder.go:945-955), and the build *)
(* has it twice.                                                            *)
NamedBy(profile, tag) ==
  \E name \in ToSet(BucketNames) :
    \E x \in ToSet(profile[name].items) : x.kind = "set" /\ x.val = tag
RuleSetsOnce ==
  Answered =>
    LET sets == reply.built.route.rulesets
    IN  \A i, j \in DOMAIN sets : \A tag \in ToSet(sets[i].tags) \cap ToSet(sets[j].tags) :
          i = j \/ Cardinality({k \in DOMAIN Enabled(reply.opt) :
                                  NamedBy(Enabled(reply.opt)[k], tag)}) > 1

(* A default rule routes to an outbound that is built: the logical names of *)
(* a panel are mapped (RemapLogicalOutbound).  The exception is a rule of   *)
(* the subscription that names a node or a group of its own: it is kept as  *)
(* it is although setOutbounds drops groups (builder.go:192-193), filtered  *)
(* leaves, and has never seen others.                                       *)
RulesReachOutbounds ==
  Answered => \A i \in DOMAIN reply.built.route.rules :
    LET r == reply.built.route.rules[i]
    IN  r.type = "default" /\ r.action = "route" /\ r.out \notin Nodes.tags =>
          /\ r.out \in {own.out : own \in ToSet(file.route.rules)}
          /\ r.out \notin PlainTags \cup PredefinedOutboundTags \cup {"", "proxy", "balance", "reject"}

(* default_network_strategy needs auto_detect_interface, on every system.   *)
StrategyNeedsAutoDetect ==
  Answered => (reply.built.route.strategy => reply.built.route.autoDetect)

(***************************************************************************)
(* DNS                                                                      *)
(***************************************************************************)
FragmentMade == reply.call = "fragment" /\ ~reply.err
ClientDns == Answered /\ ~UseSubDNS(file, reply.opt.dns)
Dns == IF reply.call = "fragment"
       THEN [servers |-> reply.servers, rules |-> <<>>, final |-> Tag(Remote), resolver |-> Tag(Bootstrap)]
       ELSE reply.built.dns
ServerNamed(tag) == CHOOSE s \in ToSet(Dns.servers) : s.tag = tag
Needs(tag) == ({<<ServerNamed(tag).resolver, 0>>} \ {Tag("")}) \cup ToSet(ServerNamed(tag).members)
Asked(tags) == tags \cup UNION {Needs(t) : t \in tags}

(* The servers that resolve the tunnel's own server never go through the    *)
(* tunnel, at any depth; nor do those of a fragment.                        *)
BootstrapNeedsNoTunnel ==
  ClientDns \/ FragmentMade => \A t \in Asked(Asked(Asked({Dns.resolver}))) : ServerNamed(t).detour = ""

(* Every server can come up: one after the other, each with a resolver that *)
(* is up, a group with a member that is, and nothing through the tunnel     *)
(* before the address of the tunnel's own server can be resolved.           *)
Rise(up) ==
  up \cup {s.tag : s \in {x \in ToSet(Dns.servers) :
               /\ x.resolver = "" \/ Tag(x.resolver) \in up
               /\ x.members = <<>> \/ ToSet(x.members) \cap up # {}
               /\ x.detour = "" \/ Dns.resolver \in up}}
EveryServerComesUp ==
  ClientDns \/ FragmentMade =>
    FoldLeft(LAMBDA up, s : Rise(up), {}, Dns.servers) = {s.tag : s \in ToSet(Dns.servers)}

(* The host of a test URL is never answered with a fake address.  The       *)
(* exception is a URL with a port: getHostnameIfNotIP keeps the port        *)
(* (builder.go:148-149), the rule of dns.go:339-341 is for "host:port", and *)
(* a query for the host reaches the rule of the fake server.                *)
ProbeHostsAreReal ==
  ClientDns => \A u \in ConnectionTestURLsForDNS(reply.opt.dns) : u.named /\ u.port = 0 =>
    LET query == {<<"domain", u.host, 0>>, <<"query", "A", 0>>}
        hits  == {i \in DOMAIN Dns.rules : Dns.rules[i].match \cap query # {}}
    IN  hits # {} /\ Dns.rules[CHOOSE i \in hits : \A j \in hits : i <= j].server # Tag(Fake)

(* The resolver, the final server, and the server of every rule exist, in a *)
(* fragment too.  The dns of a subscription is taken as it is: if it names  *)
(* servers of its own, the resolver that is chosen is one of them.          *)
DnsTags == {s.tag : s \in ToSet(Dns.servers)}
DnsNames == {Dns.rules[i].server : i \in DOMAIN Dns.rules} \cup ({Dns.final} \ {Tag("")})
DnsServersExist ==
  /\ ClientDns \/ FragmentMade => DnsNames \subseteq DnsTags
  /\ (ClientDns \/ FragmentMade \/ Answered) /\ DnsNames \subseteq DnsTags =>
       Dns.resolver \in DnsTags

(***************************************************************************)
(* Share links                                                              *)
(***************************************************************************)
FromLinks == reply.call = "import" /\ ~reply.err /\ source.kind = "links"
Leaves    == reply.profile.outbounds \o reply.profile.endpoints
Readable(line) == SelectSeq(line, LAMBDA h : ~ProcessSingleConfig(h).err)
Hops  == FlattenSeq(ExpandDecodedConfig(source.lines))
Names == {Hops[i].name : i \in DOMAIN Hops}

(* A link that cannot be read costs itself only: the answer is that of the  *)
(* text without it, in a chain too (GenerateConfigLite goes on).            *)
BadLinkCostsItself ==
  reply.call = "import" /\ source.kind = "links" =>
    LET lines == ExpandDecodedConfig(source.lines)
        clean == ParseConfigContent([source EXCEPT !.lines = [i \in DOMAIN lines |-> Readable(lines[i])]],
                                    FALSE)
    IN  [err |-> reply.err, profile |-> reply.profile] = clean

(* Each hop of a chain dials through the next one that can be read, and the *)
(* last one through what its own link says: never through a hop of another  *)
(* line.  (For hops of different names that make one leaf each.)            *)
OneLeafEach ==
  /\ Cardinality(Names \ ({""} \cup DOMAIN Sectioned)) = Len(Hops)
  /\ \A h \in ToSet(Hops) : Len(ProcessSingleConfig(h).outs) <= 1
DialsInOrder(hops) ==
  \A i \in DOMAIN hops :
    LET leaf == CHOOSE x \in ToSet(Leaves) : x.tag = hops[i].name
    IN  IF i < Len(hops) THEN leaf.detour = hops[i + 1].name
        ELSE leaf.detour \in {"", Get(hops[i].params, "detour"),
                              OutboundTagBase(Get(hops[i].params, "detour"))}
ChainDialsNextHop ==
  FromLinks /\ OneLeafEach =>
    \A line \in ToSet(source.lines) : DialsInOrder(Readable(line))

(* No two leaves of an import share a tag, outbounds and endpoints together. *)
(* The exception is a link that is already named like a numbered one: the   *)
(* counter of a, a, a-1 is that of the base (convert.go:237-255).           *)
AlreadyNumbered ==
  \E n \in 1..Len(Hops), x, y \in Names : ShareBase(x) = Numbered(ShareBase(y), n)
LinkTagsUnique ==
  Imported => ~DuplicateTag(Leaves) \/ (FromLinks /\ AlreadyNumbered)

(* A detour that names a link, with the mark of older versions or without,  *)
(* names a leaf that is there after the tags were numbered.  Of several     *)
(* links of one name it is the last, which for a hop of an earlier chain is *)
(* the wrong one (convert.go:243-262): the promise that it is the right one *)
(* is ChainDialsNextHop, for different names.                               *)
LinkDetoursResolve ==
  FromLinks => \A x \in ToSet(Leaves) :
    x.detour # "" /\ (\E h \in ToSet(Hops) : /\ ~ProcessSingleConfig(h).err /\ h.name # ""
                                             /\ OutboundTagBase(h.name) = OutboundTagBase(x.detour)) =>
      x.detour \in TagsOf(Leaves)

(* Over TLS the alpn is that of the transport, whatever the link says: the  *)
(* transport is read before the TLS options.                                *)
TransportAlpnAgrees ==
  FromLinks => \A x \in ToSet(Leaves) :
    x.link.tls.on /\ x.type \in {"vless", "vmess", "trojan"} /\ x.link.net \in DOMAIN TransportAlpn =>
      x.link.tls.alpn = TransportAlpn[x.link.net]

(***************************************************************************)
(* The promises by theme, which the run checks                              *)
(***************************************************************************)
(* An import keeps every sound leaf and nothing that does not resolve, it   *)
(* is refused for the named reasons only, and what it stores reads back as  *)
(* itself unless links of it were numbered to one tag (parser_soft.go).     *)
ImportKeepsWhatIsSound ==
  PfTypeOK /\ KeepsTheSoundLeaves /\ RefusedForAReason /\ GroupsResolve /\ ReparseIsStable

(* A text of links becomes leaves with unique tags and detours that resolve *)
(* to the right hop, whatever links of it cannot be read (convert.go).      *)
LinksBecomeLeaves ==
  BadLinkCostsItself /\ ChainDialsNextHop /\ LinkTagsUnique /\ LinkDetoursResolve /\ TransportAlpnAgrees

(* What a build offers is there, in the main box and in the side box, and   *)
(* what it dials through is built, but for the named exits and hops and for *)
(* a leaf called "balance" (builder.go, chain_detour.go, engine.go).        *)
OfferedNodesExist ==
  /\ NeverSilentlyDirect /\ SelectorResolves /\ SideBoxCoversMain /\ ChainExitIsBuilt
  /\ ProbesReachTheirLeaf /\ SideBoxKeepsApart

(* The rules of client, profiles and subscription decide in their order and *)
(* name what exists, but for what a subscription names of its own           *)
(* (builder.go, route_merge.go).                                            *)
RulesDecideInOrder ==
  /\ ClientWins /\ ProfilesInTurn /\ OwnerBeforeDestination
  /\ RuleSetsResolve /\ RuleSetsOnce /\ RulesReachOutbounds /\ StrategyNeedsAutoDetect

(* Names resolve without the tunnel that needs them, to servers that exist  *)
(* and come up; test URLs without a port to real addresses                  *)
(* (dns.go, dns_fragment.go).                                               *)
DnsComesUp ==
  BootstrapNeedsNoTunnel /\ EveryServerComesUp /\ ProbeHostsAreReal /\ DnsServersExist
=============================================================================
