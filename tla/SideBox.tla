------------------------------- MODULE SideBox -------------------------------
(***************************************************************************)
(* v2/hcore/testengine/engine.go: the configuration of the side box that    *)
(* probes the leaves of a profile.  It is a build with the settings of the  *)
(* main core, less what would disturb it, cut down to the tags that the     *)
(* user interface lists.                                                    *)
(***************************************************************************)
EXTENDS ConfigBuild, SoftParse

ApplyTestOverrides(opt) ==
  [opt EXCEPT !.test = TRUE, !.testTag = "", !.disabled = {}, !.lan = FALSE, !.password = FALSE,
              !.tun = FALSE, !.tunService = FALSE, !.systemProxy = FALSE,
              !.ports = [k \in DOMAIN @ |-> 0], !.enabled = [k \in DOMAIN @ |-> k = "mixed"],
              !.cachePath = "data/test-engine/profile/clash.db"]

(* Blank tags and repeated ones are dropped.                                *)
NormalizeAllowlist(tags) ==
  FoldLeft(LAMBDA out, t : IF t \in ToSet(out) \cup {""} THEN out ELSE Append(out, t), <<>>, tags)
IntersectAllowlist(allowlist, built) == SelectSeq(allowlist, LAMBDA t : t \in ToSet(built))

(***************************************************************************)
(* The leaves that a build has to probe                                     *)
(***************************************************************************)
IsSkippedTestLeafTag(tag) == tag \in {"", Direct, "lowest", "balance", "select"} \/ Hidden(tag)
CollectSelectLeaves(nodes) == SelectSeq(nodes.select, LAMBDA t : ~IsSkippedTestLeafTag(t))
CollectAllProbeLeaves(nodes) ==
  LET outs == SelectSeq(nodes.outbounds,
                LAMBDA n : n.type \notin Groups \cup {"block", "dns", "direct", "punnel"})
      all  == outs \o nodes.endpoints
  IN  NormalizeAllowlist(SelectSeq([i \in DOMAIN all |-> all[i].tag],
                                   LAMBDA t : ~IsSkippedTestLeafTag(t)))
CollectTestLeaves(nodes) ==
  IF CollectSelectLeaves(nodes) # <<>> THEN CollectSelectLeaves(nodes)
  ELSE CollectAllProbeLeaves(nodes)

(***************************************************************************)
(* Ensure, up to the start of the box                                       *)
(***************************************************************************)
NarrowSelectOutbounds(nodes, leaves) ==
  [nodes EXCEPT !.select = leaves, !.default = IF @ \in ToSet(leaves) THEN @ ELSE Head(leaves)]
Kept(n, leaves) ==
  n.tag \in ToSet(leaves) \cup PredefinedOutboundTags \cup {"balance"}
    \/ n.type \in Groups \cup {"block", "dns", "direct"}
PruneToAllowlist(nodes, leaves) ==
  LET outs == SelectSeq(nodes.outbounds, LAMBDA n : Kept(n, leaves))
      ends == SelectSeq(nodes.endpoints, LAMBDA n : Kept([n EXCEPT !.type = ""], leaves))
      cut  == {n.tag : n \in ToSet(nodes.outbounds \o nodes.endpoints)}
                \ {n.tag : n \in ToSet(outs \o ends)}
  IN  [nodes EXCEPT !.outbounds = outs, !.endpoints = ends, !.tags = @ \ cut]

SideBoxOf(built, leaves) ==
  IF leaves = <<>> THEN [err |-> TRUE]
  ELSE [built EXCEPT !.nodes = PruneToAllowlist(NarrowSelectOutbounds(@, leaves), leaves)]
BuildTestConfig(built, allowlist) ==
  IF built.err THEN [err |-> TRUE]
  ELSE SideBoxOf(built, IntersectAllowlist(allowlist, CollectTestLeaves(built.nodes)))

(* The dialer of a probe: a leaf, never a group.                            *)
ResolveDialer(nodes, tag) ==
  {n \in ToSet(nodes.outbounds \o nodes.endpoints) : n.tag = tag /\ n.type \notin Groups}
(* The port of the mixed inbound, which the system chose.                   *)
ReadMixedListenPort(box) == {i \in DOMAIN box.inbounds : box.inbounds[i].type = "mixed"}
=============================================================================
