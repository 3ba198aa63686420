----------------------------- MODULE ShareLinks -----------------------------
(***************************************************************************)
(* ray2sing (convert.go, spliter.go): a text of share links becomes the     *)
(* outbounds and endpoints of a profile.  A line is the sequence of its     *)
(* hops, the exit first: "a -> b" and "a&&detour=b" read the same.  A       *)
(* comment has none.                                                        *)
(***************************************************************************)
EXTENDS LinkParsers

CONSTANT Sectioned \* the tags with a section mark, and what stands before it

(* A vpn:// line is replaced by the texts in it.                            *)
ExpandDecodedConfig(lines) ==
  FlattenSeq([i \in DOMAIN lines |->
    LET line == lines[i]
    IN  IF Len(line) = 1 /\ line[1].scheme = "vpn" /\ DecodeAmneziaVpnINIs(line[1]) # <<>>
        THEN [j \in DOMAIN line[1].inis |-> <<line[1].inis[j]>>]
        ELSE <<line>>])

Parse(link) ==
  CASE link.scheme \in {"vmess", "svmess"}   -> VmessSingbox(link)
    [] link.scheme \in {"vless", "svless"}   -> VlessSingbox(link)
    [] link.scheme \in {"trojan", "strojan"} -> TrojanSingbox(link)
    [] link.scheme = "xvmess"                -> VmessXray(link)
    [] link.scheme = "xvless"                -> VlessXray(link)
    [] link.scheme = "xtrojan"               -> TrojanXray(link)
    [] link.scheme = "xdirect"               -> DirectXray(link)
    [] link.scheme = "ss"                    -> ShadowsocksSingbox(link)
    [] link.scheme = "ssconf"                -> BeepassSingbox(link)
    [] link.scheme = "tuic"                  -> TuicSingbox(link)
    [] link.scheme = "hysteria"              -> HysteriaSingbox(link)
    [] link.scheme \in {"hysteria2", "hy2"}  -> Hysteria2Singbox(link)
    [] link.scheme = "ssh"                   -> SSHSingbox(link)
    [] link.scheme = "naive"                 -> NaiveSingbox(link)
    [] link.scheme \in {"mieru", "mierus"}   -> MieruSingboxAll(link)
    [] link.scheme = "carrier"               -> CarrierSingbox(link)
    [] link.scheme = "derp"                  -> DerpSingbox(link)
    [] link.scheme = "shadowquic"            -> ShadowQUICSingbox(link)
    [] link.scheme = "sudoku"                -> SudokuSingbox(link)
    [] link.scheme = "trusttunnel"           -> TrustTunnelSingbox(link)
    [] link.scheme = "anytls"                -> AnyTLSSingbox(link)
    [] link.scheme = "shadowtls"             -> ShadowTLSSingbox(link)
    [] link.scheme = "snell"                 -> SnellSingbox(link)
    [] link.scheme = "direct"                -> DirectSingbox(link)
    [] link.scheme = "socks"                 -> SocksSingbox(link)
    [] link.scheme \in {"http", "phttp"}     -> HttpSingbox(link)
    [] link.scheme \in {"https", "phttps"}   -> HttpsSingbox(link)
    [] link.scheme \in {"wg", "wireguard"}   -> WireguardEndpoint(link)
    [] link.scheme = "awg"                   -> AWGSingbox(link)
    [] link.scheme = "vpn"                   -> AmneziaVpnEndpoint(link)
    [] link.scheme = "[Interface]"           -> AWGSingboxTxt(link)
    [] link.scheme \in {"pathologywg", "pathology-wg", "pathology", "patologiya"} -> PathologySingbox(link)
    [] OTHER -> Bad

WithTag(leaf) == [leaf EXCEPT !.tag = IF @ = "" THEN leaf.type ELSE @]
ProcessSingleConfig(link) ==
  LET r == IF link.sound THEN Parse(link) ELSE Bad
  IN  [r EXCEPT !.outs = [i \in DOMAIN @ |-> WithTag(@[i])],
                !.ends = [i \in DOMAIN @ |-> WithTag(@[i])]]

(* A leaf dials through the leaf that was made before it on its line; a hop *)
(* that cannot be read is passed over.                                      *)
AddLeaf(acc, leaf, isEnd) ==
  LET wired == [leaf EXCEPT !.detour = IF acc.detour # "" THEN acc.detour ELSE @]
  IN  [acc EXCEPT !.detour = leaf.tag,
                  !.outs = IF isEnd THEN @ ELSE Append(@, wired),
                  !.ends = IF isEnd THEN Append(@, wired) ELSE @]
AddLeaves(acc, r) ==
  LET withOuts == FoldLeft(LAMBDA a, leaf : AddLeaf(a, leaf, FALSE), acc, r.outs)
  IN  FoldLeft(LAMBDA a, leaf : AddLeaf(a, leaf, TRUE), withOuts, r.ends)
AddHop(acc, link) == AddLeaves(acc, ProcessSingleConfig(link))
BugAddHops(acc, line) == FoldLeft(AddHop, acc, Reverse(line))
AddHops(acc, line) == FoldLeft(AddHop, [acc EXCEPT !.detour = ""], Reverse(line))

OutboundTagBase(tag) == IF tag \in DOMAIN Sectioned THEN Sectioned[tag] ELSE tag

(* The first leaf of a base keeps it, the n-th after it is base-n.          *)
ShareBase(tag) == IF OutboundTagBase(tag) = "" THEN "proxy" ELSE OutboundTagBase(tag)
Numbered(base, n) == IF n = 0 THEN base ELSE base \o "-" \o ToString(n)
NewTags(leaves) ==
  [i \in DOMAIN leaves |->
    LET base == ShareBase(leaves[i].tag)
    IN  Numbered(base, Cardinality({j \in 1..(i - 1) : ShareBase(leaves[j].tag) = base}))]

(* A detour follows the tag that it named; of several, the last.            *)
FollowTag(detour, leaves, tags) ==
  LET named == {i \in DOMAIN leaves : leaves[i].tag = detour}
  IN  IF detour = "" \/ named = {} THEN detour
      ELSE tags[CHOOSE i \in named : \A j \in named : j <= i]
UniquifyShareTags(outs, ends) ==
  LET tags == NewTags(outs \o ends)
      Detour(d) == FollowTag(d, outs \o ends, tags)
  IN  [outs |-> [i \in DOMAIN outs |->
                   [outs[i] EXCEPT !.tag = tags[i], !.detour = Detour(@)]],
       ends |-> [i \in DOMAIN ends |->
                   [ends[i] EXCEPT !.tag = tags[Len(outs) + i], !.detour = Detour(@)]]]

(* A reference with the mark of older versions names the base.              *)
ResolveDetourTagRefs(leaves, all) ==
  LET tags == {x.tag : x \in ToSet(all)}
  IN  [i \in DOMAIN leaves |->
        [leaves[i] EXCEPT !.detour =
           IF @ \notin tags /\ OutboundTagBase(@) \in tags THEN OutboundTagBase(@) ELSE @]]

Finished(named) ==
  LET all == named.outs \o named.ends
  IN  [err |-> all = <<>>,
       outs |-> ResolveDetourTagRefs(named.outs, all),
       ends |-> ResolveDetourTagRefs(named.ends, all)]
Uniquified(made) == UniquifyShareTags(made.outs, made.ends)
GenerateConfigLite(lines) ==
  Finished(Uniquified(FoldLeft(AddHops, [detour |-> "", outs |-> <<>>, ends |-> <<>>],
                               ExpandDecodedConfig(lines))))
=============================================================================
