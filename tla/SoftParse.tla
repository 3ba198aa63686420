------------------------------ MODULE SoftParse -----------------------------
(***************************************************************************)
(* v2/config: what an import keeps of a subscription body (parser.go,       *)
(* parser_soft.go, config.go).                                              *)
(*                                                                         *)
(* Of a leaf: members are those of a group; fault is "decode" when its      *)
(* options cannot be read, "check" when sing-box refuses them, else "none". *)
(* A body is [kind, outbounds, endpoints, inbounds, dns, route, lines,      *)
(* sound]; sound says that its dns and route pass the last check, lines are *)
(* those of a body of kind "links".  Its kind is what the decoders make of  *)
(* the text: "number" stands for any text whose first token is a JSON       *)
(* scalar, whatever follows it.                                             *)
(***************************************************************************)
EXTENDS ShareLinks

CONSTANT Registered  \* the types that the build of sing-box knows

NoRoute == [rulesets |-> <<>>, rules |-> <<>>]
NoDns   == [servers |-> <<>>, rules |-> <<>>, final |-> <<"", 0>>]
Body(kind, outbounds, endpoints) ==
  [kind |-> kind, outbounds |-> outbounds, endpoints |-> endpoints,
   inbounds |-> <<>>, dns |-> NoDns, route |-> NoRoute, lines |-> <<>>, sound |-> TRUE]

IsOutboundGroupType(type) == type \in {"selector", "urltest", "balancer"}
OutboundTypeRegistered(type) == type \in Registered
StubTag == "direct"

(* sing-box: every tag of outbounds and endpoints is used once.             *)
TagsOf(items) == {x.tag : x \in ToSet(items)}
DuplicateTag(items) == \E i, j \in DOMAIN items : i < j /\ items[i].tag = items[j].tag

(* A leaf is checked alone, next to a direct outbound of another tag.       *)
CheckOutboundLeaf(leaf) == leaf.fault = "none"

(* A group is checked with the leaves that were kept, the stub, and the     *)
(* groups before it.                                                        *)
BugGroupReferencesKnownTags(group, tags) == group.members # <<>>
GroupReferencesKnownTags(group, tags) ==
  group.members # <<>> /\ ToSet(group.members) \subseteq tags
CheckOutboundGroup(group, pool) ==
  /\ OutboundTypeRegistered(group.type)
  /\ GroupReferencesKnownTags(group, TagsOf(pool))
  /\ group.fault = "none"
  /\ ~DuplicateTag(Append(pool, group))

FilterOutboundLeaves(items) ==
  LET leaves == SelectSeq(items, LAMBDA x : /\ ~IsOutboundGroupType(x.type)
                                            /\ OutboundTypeRegistered(x.type)
                                            /\ CheckOutboundLeaf(x))
      groups == SelectSeq(items, LAMBDA x : IsOutboundGroupType(x.type))
      Pool(kept) == Append(leaves, Node(StubTag, "direct", "")) \o kept
  IN  leaves \o FoldLeft(LAMBDA kept, g : IF CheckOutboundGroup(g, Pool(kept))
                                          THEN Append(kept, g) ELSE kept,
                         <<>>, groups)

(* WireGuard fails the check in isolation, so only its reading counts.      *)
CheckEndpointLeaf(leaf) ==
  IF leaf.type = "wireguard" THEN leaf.fault # "decode" ELSE leaf.fault = "none"
FilterEndpointLeaves(items) ==
  SelectSeq(items, LAMBDA x : OutboundTypeRegistered(x.type) /\ CheckEndpointLeaf(x))
FilterInboundLeaves(items) ==
  SelectSeq(items, LAMBDA x : OutboundTypeRegistered(x.type) /\ x.fault = "none")

(* Groups count as leaves.                                                  *)
CountProtocolLeaves(items) ==
  Len(SelectSeq(items, LAMBDA x : x.type \notin {"", "direct", "block", "dns"}))

(* The body keeps its own order when nothing was dropped.                   *)
FilterValidLeavesJSON(body, filterInbounds) ==
  LET outs == FilterOutboundLeaves(body.outbounds)
      ends == FilterEndpointLeaves(body.endpoints)
      ins  == IF filterInbounds THEN FilterInboundLeaves(body.inbounds) ELSE body.inbounds
  IN  [err |-> /\ CountProtocolLeaves(body.outbounds) + Len(body.endpoints) > 0
               /\ CountProtocolLeaves(outs) + Len(ends) = 0,
       outbounds |-> IF Len(outs) = Len(body.outbounds) THEN body.outbounds ELSE outs,
       endpoints |-> ends, inbounds |-> ins]

(* A parsed profile is [err, profile]; the profile is an "object" body.     *)
Refused == [err |-> TRUE, profile |-> Body("object", <<>>, <<>>)]
Accepted(profile) == [err |-> FALSE, profile |-> profile]

(* libbox.CheckConfigOptions of the whole.                                  *)
ValidateResult(profile) ==
  IF profile.sound /\ \A x \in ToSet(profile.outbounds \o profile.endpoints) :
                        x.fault = "none" /\ OutboundTypeRegistered(x.type)
  THEN Accepted(profile) ELSE Refused

(* Reading JSON refuses a tag that is used twice; a leaf that cannot be     *)
(* read is gone by then.                                                    *)
PatchConfigStr(body, full) ==
  LET kept    == FilterValidLeavesJSON(body, full)
      profile == [body EXCEPT !.kind = "object", !.outbounds = kept.outbounds,
                              !.endpoints = kept.endpoints, !.inbounds = kept.inbounds]
  IN  IF kept.err \/ DuplicateTag(profile.outbounds \o profile.endpoints) THEN Refused
      ELSE ValidateResult(profile)

LinksResult(made) ==
  IF made.err THEN Refused ELSE ValidateResult(Body("object", made.outs, made.ends))

(* An object without outbounds and endpoints is one outbound, unless it is  *)
(* empty.  Only a full configuration keeps its inbounds, and only an object *)
(* its dns and route.                                                       *)
ParseConfigContent(body, full) ==
  LET slice == [body EXCEPT !.inbounds = IF full THEN @ ELSE <<>>]
      bare  == Body(body.kind, body.outbounds, body.endpoints)
  IN  CASE body.kind = "object" -> PatchConfigStr(slice, full)
        [] body.kind = "empty"  -> Accepted(Body("object", <<>>, <<>>))
        [] \/ body.kind \in {"single", "array"}
           \/ body.kind = "clash" /\ body.outbounds \o body.endpoints # <<>> ->
             PatchConfigStr(bare, full)
        [] body.kind = "links"  -> LinksResult(GenerateConfigLite(body.lines))
        [] OTHER -> Refused

(* What is written to the profile.  An empty one has a shape of its own:    *)
(* {} would be read back as one outbound.                                   *)
Marshalled(parsed) ==
  IF parsed.profile.outbounds = <<>> /\ parsed.profile.endpoints = <<>>
  THEN [parsed EXCEPT !.profile = Body("object", <<>>, <<>>)]
  ELSE parsed
ParseConfigBytes(body, full) == Marshalled(ParseConfigContent(body, full))

(* Start reads the profile as it is.                                        *)
ReadSingOptions(profile) ==
  [err |-> \/ DuplicateTag(profile.outbounds \o profile.endpoints)
           \/ \E x \in ToSet(profile.outbounds \o profile.endpoints) : x.fault = "decode",
   profile |-> profile]
=============================================================================
