----------------------------- MODULE RoutePlan ------------------------------
(***************************************************************************)
(* v2/config: the route rules and rule sets of a build (routing_profile.go, *)
(* route_merge.go, ads_block.go, ruleset_local.go and setRoutingOptions of  *)
(* builder.go).                                                             *)
(*                                                                         *)
(* A rule is [match, action, out]: match is a set of attributes <<kind,     *)
(* value>> of which a connection needs one ({} matches all).  A rule set is *)
(* [tags, local, known]: known says that a file stands in for a remote one. *)
(* Defaults and spellings of file names and URLs are left out.              *)
(***************************************************************************)
EXTENDS OutboundPlan

Rule(match, action, out) ==
  [type |-> "default", match |-> match, action |-> action, out |-> out, sub |-> <<>>]
RouteTo(match, out) == Rule(match, "route", out)
Reject(match)       == Rule(match, "reject", "")
Tagged(kind, vals)  == {<<kind, v>> : v \in vals}

(***************************************************************************)
(* A local profile is [enabled, global, order, block, direct, proxy]; a     *)
(* bucket has its items (of kind "set", "domain" or "cidr", in the order    *)
(* of the lists of sites, then of addresses) and its owners, the packages   *)
(* and processes by kind.                                                   *)
(***************************************************************************)
BucketNames == <<"block", "direct", "proxy">>
OwnerKinds  == <<"package", "name", "path", "regex">>
MatchKinds  == <<"set", "domain", "cidr">>

(* ruleWithAction, for the bucket of that name.                             *)
BucketRule(name, match) ==
  CASE name = "block"  -> Reject(match)
    [] name = "direct" -> RouteTo(match, Direct)
    [] name = "proxy"  -> RouteTo(match, "select")

(* One rule for each kind that the bucket has something of.                 *)
RulesOf(name, kinds, has(_)) ==
  LET used == SelectSeq(kinds, LAMBDA k : has(k) # {})
  IN  [i \in DOMAIN used |-> BucketRule(name, Tagged(used[i], has(used[i])))]

MatchRules(p, name) ==
  RulesOf(name, MatchKinds,
          LAMBDA k : {item.val : item \in {x \in ToSet(p[name].items) : x.kind = k}})

(* A process is known by its regex (a path with a * is one), path or name.  *)
ProcessKind(proc) == CASE proc.regex # "" -> "regex"
                       [] proc.regex = "" /\ proc.path # "" -> "path"
                       [] OTHER -> "name"
OwnerRules(p, name) ==
  RulesOf(name, OwnerKinds,
          LAMBDA k : IF k = "package" THEN p[name].packages
                     ELSE {proc[k] : proc \in {x \in p[name].processes :
                                                 ProcessKind(x) = k}} \ {""})

(* The order of the buckets: what the profile names (three names, else the  *)
(* default), without repetition, then what it left out.                     *)
BucketOrder(p) ==
  LET named == SelectSeq(IF Len(p.order) = 3 THEN p.order ELSE BucketNames,
                         LAMBDA n : n \in ToSet(BucketNames))
      once  == FoldLeft(LAMBDA acc, n : IF n \in ToSet(acc) THEN acc ELSE Append(acc, n),
                        <<>>, named)
  IN  once \o SelectSeq(BucketNames, LAMBDA n : n \notin ToSet(once))

InOrder(p, rulesOf(_)) ==
  LET order == BucketOrder(p)
  IN  FlattenSeq([i \in DOMAIN order |-> rulesOf(order[i])])

(* Rule sets in the order they are met, each tag once.                      *)
ProfileRuleSets(p) ==
  LET items == FlattenSeq([i \in 1..3 |-> p[BucketNames[i]].items])
      sets  == SelectSeq(items, LAMBDA x : x.kind = "set")
  IN  FoldLeft(LAMBDA acc, x :
                 IF \E rs \in ToSet(acc) : x.val \in ToSet(rs.tags) THEN acc
                 ELSE Append(acc, [tags |-> <<x.val>>, local |-> x.local, known |-> x.known]),
               <<>>, sets)

(* Owners come before domains and addresses: the first match wins.          *)
CompileRoutingProfile(p) ==
  [rulesets |-> ProfileRuleSets(p),
   rules |-> InOrder(p, LAMBDA n : OwnerRules(p, n)) \o InOrder(p, LAMBDA n : MatchRules(p, n))]

ProfileNeedsFindProcess(p) ==
  \E name \in ToSet(BucketNames) :
     \/ p[name].packages # {}
     \/ \E proc \in p[name].processes : \E k \in {"name", "path", "regex"} : proc[k] # ""

(***************************************************************************)
(* The route of the subscription                                            *)
(***************************************************************************)
(* Panels name outbounds by what they are for.  A logical rule's own action *)
(* is kept as it is.                                                        *)
NormalizeDefaultRule(r) ==
  CASE r.action \in {"", "route"} /\ RemapLogicalOutbound(r.out) = "" ->
         [r EXCEPT !.action = "reject", !.out = ""]
    [] r.action \in {"", "route"} /\ RemapLogicalOutbound(r.out) # "" ->
         [r EXCEPT !.action = "route", !.out = RemapLogicalOutbound(r.out)]
    [] r.action = "bypass" -> [r EXCEPT !.action = "route", !.out = Direct]
    [] OTHER -> r

(* Two levels of nesting stand for any depth.                               *)
NormalizeRouteRule(r) ==
  IF r.type = "default" THEN NormalizeDefaultRule(r)
  ELSE [r EXCEPT !.sub = [i \in DOMAIN r.sub |-> NormalizeDefaultRule(r.sub[i])]]

(* The condition on the path of a process is not looked at, nor are those   *)
(* that are no attribute here (network, user and others).                   *)
HasRouteMatchers(r) == \E a \in r.match : a[1] \notin {"path", "regex"}
IsClientL3Hook(r) ==
  r.type = "default" /\ r.action \in {"sniff", "hijack-dns"} /\ ~HasRouteMatchers(r)

SubscriptionRouteHasPolicy(sub) ==
  \/ sub.rulesets # <<>>
  \/ \E r \in ToSet(sub.rules) : ~IsClientL3Hook(r)

(* A rule set one of whose tags is taken is dropped whole.                  *)
BugMergeSubscriptionRoute(sub, rulesets, rules) ==
  [rulesets |-> rulesets \o sub.rulesets,
   rules |-> [i \in DOMAIN sub.rules |-> NormalizeRouteRule(sub.rules[i])] \o rules]
MergeSubscriptionRoute(sub, rulesets, rules) ==
  LET own   == SelectSeq(sub.rules, LAMBDA r : ~IsClientL3Hook(r))
      Taken(acc) == UNION {ToSet(rs.tags) : rs \in ToSet(acc)}
      Merged == FoldLeft(LAMBDA acc, rs :
                           IF rs.tags = <<>> \/ ToSet(rs.tags) \cap Taken(acc) # {} THEN acc
                           ELSE Append(acc, rs),
                         rulesets, sub.rulesets)
  IN  IF SubscriptionRouteHasPolicy(sub)
      THEN [rulesets |-> Merged,
            rules |-> rules \o [i \in DOMAIN own |-> NormalizeRouteRule(own[i])]]
      ELSE [rulesets |-> rulesets, rules |-> rules]

(* Remote rule sets become local ones; one without a file fails the build.  *)
SanitizeRuleSets(rulesets) ==
  [err |-> \E rs \in ToSet(rulesets) : ~rs.local /\ ~rs.known,
   rulesets |-> [i \in DOMAIN rulesets |->
     IF rulesets[i].local THEN rulesets[i]
     ELSE [rulesets[i] EXCEPT !.local = TRUE, !.tags = SubSeq(@, 1, 1)]]]

(* The rules of all the files [readable, rules], or none at all.            *)
MergeLocalRuleSets(inputs) ==
  IF \E f \in ToSet(inputs) : ~f.readable THEN <<>>
  ELSE FlattenSeq([i \in DOMAIN inputs |-> inputs[i].rules])

(***************************************************************************)
(* setRoutingOptions                                                        *)
(***************************************************************************)
(* What the client owns before any policy: sniffing, DNS, filtered ranges,  *)
(* the local network.                                                       *)
ClientRules(opt) ==
  <<Rule({}, "sniff", "")>>
    \o (IF opt.hijack THEN <<Rule({<<"protocol", "dns">>}, "hijack-dns", "")>> ELSE <<>>)
    \o <<RouteTo({<<"cidr", "10.10.34.0">>}, "select")>>
    \o (IF opt.bypassLan
        THEN <<RouteTo({<<"private", "lan">>}, Direct), RouteTo({<<"cidr", "100.64.0.0">>}, Direct)>>
        ELSE <<>>)
AdsRuleSet == [tags |-> <<"pathology-ads">>, local |-> TRUE, known |-> TRUE]
AdsRules(opt) == IF opt.ads THEN <<Reject({<<"set", "pathology-ads">>})>> ELSE <<>>

(* The single profile of older clients counts when the stack is empty.      *)
Profiles(opt) == IF opt.profiles = <<>> THEN opt.legacy ELSE opt.profiles
Enabled(opt) == SelectSeq(Profiles(opt), LAMBDA p : p.enabled)
LocalRules(opt) ==
  LET ps == Enabled(opt)
  IN  FlattenSeq([i \in DOMAIN ps |-> CompileRoutingProfile(ps[i]).rules])
LocalRuleSets(opt) ==
  LET ps == Enabled(opt)
  IN  FlattenSeq([i \in DOMAIN ps |-> CompileRoutingProfile(ps[i]).rulesets])
QuicRules(opt) == IF opt.blockQuic THEN <<Reject({<<"protocol", "quic">>})>> ELSE <<>>

(* opt.globalProxy is "unset", "yes" or "no"; one profile alone decides for *)
(* itself when it is unset.                                                 *)
GlobalProxy(opt) ==
  CASE opt.globalProxy # "unset" -> opt.globalProxy = "yes"
    [] opt.globalProxy = "unset" /\ Len(Profiles(opt)) = 1 -> Profiles(opt)[1].global
    [] OTHER -> opt.legacy # <<>> => opt.legacy[1].global
Final(opt) == IF Enabled(opt) # <<>> /\ ~GlobalProxy(opt) THEN Direct ELSE "select"

(* default_network_strategy, and auto_detect_interface that it needs.       *)
HasStrategy(opt) == opt.ipv6Mode # "as-is" /\ ~opt.mobile
AutoDetect(opt) ==
  \/ ~opt.mobile /\ (opt.tun \/ opt.tunService \/ HasStrategy(opt))
  \/ opt.mobile /\ opt.test

SetRoutingOptions(input, opt) ==
  LET rules    == ClientRules(opt) \o AdsRules(opt) \o LocalRules(opt) \o QuicRules(opt)
      rulesets == (IF opt.ads THEN <<AdsRuleSet>> ELSE <<>>) \o LocalRuleSets(opt)
      merged   == IF opt.ignoreRoute THEN [rulesets |-> rulesets, rules |-> rules]
                  ELSE MergeSubscriptionRoute(input.route, rulesets, rules)
      clean    == SanitizeRuleSets(merged.rulesets)
  IN  [err |-> clean.err, rules |-> merged.rules, rulesets |-> clean.rulesets,
       final |-> Final(opt), strategy |-> HasStrategy(opt), autoDetect |-> AutoDetect(opt),
       findProcess |-> \E p \in ToSet(Enabled(opt)) : ProfileNeedsFindProcess(p)]
=============================================================================
