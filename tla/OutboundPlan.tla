---------------------------- MODULE OutboundPlan ----------------------------
(***************************************************************************)
(* v2/config: the outbounds and endpoints that a build makes of a profile   *)
(* (setOutbounds of builder.go, with chain_detour.go, outbound.go and       *)
(* ipv6_leaf.go).  A tag is a name; what the code reads off its text        *)
(* (markers, suffix) are the constant sets.  Trimming and letter case of    *)
(* tags are left out.                                                       *)
(***************************************************************************)
EXTENDS Naturals, Sequences, FiniteSets, SequencesExt

CONSTANTS
  HiddenTags,  \* tags that contain the marker of hidden nodes
  DefaultTags, \* tags that contain the marker of the preferred node
  V6Tags       \* tags that end in -ipv6

Direct   == "direct-hide"
Fragment == "direct-fragment-hide"
PredefinedOutboundTags ==
  {Direct, "bypass-hide", "select", "lowest", "dns-out-hide", Fragment}
PlainTags == {"direct", "bypass", "block"}
Groups    == {"selector", "urltest", "balancer"}
Hidden(tag) == tag \in HiddenTags \cup {Direct, "bypass-hide", "dns-out-hide", Fragment}

(* A node of a profile: detour is its dialer's detour ("" for none), host6  *)
(* says that its server is an IPv6 literal, tls is "none", "plain" or       *)
(* "reality".                                                               *)

(***************************************************************************)
(* Detours                                                                  *)
(***************************************************************************)
IsSkippedDetourTag(tag) == tag = "" \/ Hidden(tag) \/ tag \in PlainTags

IsNonLeafOutboundType(type) ==
  type \in Groups \cup {"block", "dns", "direct", "custom"}

(* The map of detours wins over the single exit of older clients.           *)
ResolvedChainDetours(chain) ==
  IF DOMAIN chain.detours # {}
  THEN [m \in {x \in DOMAIN chain.detours : x # "" /\ chain.detours[x] # ""} |->
          chain.detours[m]]
  ELSE [m \in IF chain.target = "" THEN {} ELSE chain.members \ {"", chain.target} |->
          chain.target]

ChainKnownExitSet(input) ==
  {"select", "lowest", "balance"}
    \cup ({n.tag : n \in ToSet(input.outbounds) \cup ToSet(input.endpoints)} \ {""})

BugChainExitFor(member, detours, known) ==
  IF /\ member \in DOMAIN detours
     /\ ~IsSkippedDetourTag(member)
     /\ ~IsSkippedDetourTag(detours[member])
  THEN detours[member] ELSE ""

ChainExitFor(member, detours, known) ==
  IF /\ member \in DOMAIN detours
     /\ detours[member] # member
     /\ ~IsSkippedDetourTag(member)
     /\ ~IsSkippedDetourTag(detours[member])
     /\ detours[member] \in known
  THEN detours[member] ELSE ""

ApplyDetour(node, exit) ==
  IF exit = "" \/ IsSkippedDetourTag(node.tag) \/ IsNonLeafOutboundType(node.type)
  THEN node ELSE [node EXCEPT !.detour = exit]

(* The outbound that a logical tag of a panel stands for; "" rejects.       *)
RemapLogicalOutbound(tag) ==
  CASE tag \in {"", "proxy", "select", "lowest", "balance"} -> "select"
    [] tag \in {"direct", "bypass"} -> Direct
    [] tag \in {"block", "reject"} -> ""
    [] OTHER -> tag

RemapDialerDetour(tag) == IF tag = "" THEN "" ELSE RemapLogicalOutbound(tag)

(***************************************************************************)
(* IPv6 leaves and TLS fragments                                            *)
(***************************************************************************)
KeepIPv6Leaves(os6, subscription6) == os6 /\ subscription6

IsIPv6Leaf(tag, host6) == tag \in V6Tags \/ host6

(* QUIC and its like have no ClientHello on TCP; Reality is left alone.     *)
PatchOutboundTLSTricks(node, fragment) ==
  IF /\ fragment
     /\ node.type \notin Groups \cup {"block", "dns", "hysteria", "hysteria2", "tuic",
                                      "shadowquic", "naive", "sudoku", "trusttunnel"}
     /\ node.tls # "reality"
  THEN [node EXCEPT !.fragment = node.tls = "plain", !.tfo = FALSE]
  ELSE node

PatchOutbound(node, opt) ==
  [PatchOutboundTLSTricks(node, opt.fragment) EXCEPT !.detour = RemapDialerDetour(@)]
PatchEndpoint(node) == [node EXCEPT !.detour = RemapDialerDetour(@)]

(***************************************************************************)
(* setOutbounds                                                             *)
(***************************************************************************)
Keep6(opt) == opt.test \/ KeepIPv6Leaves(opt.os6, opt.sub6)

Survives(node, opt) ==
  /\ node.tag \notin PredefinedOutboundTags
  /\ Keep6(opt) \/ ~IsIPv6Leaf(node.tag, node.host6)

Chained(node, input, opt) ==
  ApplyDetour(node, ChainExitFor(node.tag, ResolvedChainDetours(opt.chain),
                                 ChainKnownExitSet(input)))

(* punnel, the reverse provider, is built but never dialled.                *)
Built(node, opt) ==
  /\ node.type \notin Groups \cup {"block", "dns", "custom"}
  /\ IF node.type = "punnel"
     THEN ~opt.test /\ (Keep6(opt) \/ node.detour \notin V6Tags)
     ELSE node.tag \notin PlainTags

Offered(node, opt) ==
  /\ node.type # "punnel"
  /\ ~Hidden(node.tag)
  /\ node.tag \notin opt.disabled

BuiltOutbounds(input, opt) ==
  LET chained == [i \in DOMAIN input.outbounds |->
                    Chained(PatchOutbound(input.outbounds[i], opt), input, opt)]
  IN  SelectSeq(chained, LAMBDA n : Survives(n, opt) /\ Built(n, opt))

(* The host of an endpoint's peer is not looked at.                         *)
BuiltEndpoints(input, opt) ==
  LET chained == [i \in DOMAIN input.endpoints |->
                    Chained(PatchEndpoint(input.endpoints[i]), input, opt)]
  IN  SelectSeq(chained, LAMBDA n : Survives([n EXCEPT !.host6 = FALSE], opt))

LeafTags(input, opt) ==
  LET offered == SelectSeq(BuiltOutbounds(input, opt) \o BuiltEndpoints(input, opt),
                           LAMBDA n : Offered(n, opt))
  IN  [i \in DOMAIN offered |-> offered[i].tag]

Preferred(tags) ==
  LET marked == SelectSeq(tags, LAMBDA t : t \in DefaultTags)
  IN  IF marked = <<>> THEN "" ELSE Head(marked)

(* The leaves of the profile before any filter.                             *)
CountInputProxyLeaves(input) ==
  Len(SelectSeq(input.outbounds, LAMBDA n :
        /\ n.type \notin Groups \cup {"block", "dns"}
        /\ n.tag \notin PlainTags /\ ~Hidden(n.tag)
        /\ n.type = "direct" \/ n.tag \notin PredefinedOutboundTags))
  + Len(SelectSeq(input.endpoints, LAMBDA n :
        n.tag \notin PredefinedOutboundTags /\ ~Hidden(n.tag)))

Failed == [err |-> TRUE, select |-> <<>>, default |-> "", balanced |-> <<>>,
           pin |-> "", outbounds |-> <<>>, endpoints |-> <<>>, tags |-> {}]

(* The selector over `members`, and the nodes it may reach; balanced lists  *)
(* the members of `lowest` and `balance` (empty: they are not built).       *)
Plan(input, opt, members, default, balanced) ==
  LET nodes == BuiltOutbounds(input, opt)
      ends  == BuiltEndpoints(input, opt)
  IN  [err |-> FALSE, select |-> members, default |-> default, balanced |-> balanced,
       pin |-> Preferred(balanced), outbounds |-> nodes, endpoints |-> ends,
       tags |-> {"select", Direct, Fragment}
                  \cup (IF balanced = <<>> THEN {} ELSE {"lowest", "balance"})
                  \cup {n.tag : n \in ToSet(nodes) \cup ToSet(ends)}]

(* The side box of the test engine: leaves only, never Direct.              *)
TestPlan(input, opt) ==
  LET tags    == LeafTags(input, opt)
      members == IF opt.testTag # "" /\ opt.testTag \in ToSet(tags)
                 THEN <<opt.testTag>> ELSE tags
  IN  IF members = <<>> THEN Failed
      ELSE Plan(input, opt, members,
                IF Preferred(tags) \in ToSet(members) \ {""}
                THEN Preferred(tags) ELSE Head(members),
                <<>>)

SelectPlan(input, opt) ==
  LET tags == LeafTags(input, opt)
  IN  IF tags = <<>>
      THEN IF CountInputProxyLeaves(input) > 0 THEN Failed
           ELSE Plan(input, opt, <<Direct>>, Direct, <<>>)
      ELSE Plan(input, opt,
                (IF Len(tags) > 1 THEN <<"lowest", "balance">> ELSE <<>>) \o tags,
                CASE Preferred(tags) # "" -> Preferred(tags)
                  [] Preferred(tags) = "" /\ Len(tags) > 1 -> "balance"
                  [] OTHER -> Head(tags),
                tags)

SetOutbounds(input, opt) ==
  IF opt.test THEN TestPlan(input, opt) ELSE SelectPlan(input, opt)
=============================================================================
