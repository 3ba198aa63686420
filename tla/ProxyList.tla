------------------------------ MODULE ProxyList ------------------------------
(***************************************************************************)
(* What the user sees of the running box, and does to it: the list of       *)
(* proxies (v2/hcore/proxy_info.go), SelectOutbound, UrlTest and            *)
(* UrlTestActive (commands.go), with the probes of the monitor              *)
(* (compat/monitoring/stub.go).  When a list is sent is in ProxyStream.     *)
(***************************************************************************)
EXTENDS Integers, Sequences, FiniteSets, SequencesExt

CONSTANTS
  Boxes,     \* boxes: outs and ends, sequences of [tag, type, members]
  Delays,    \* the delays of the leaves that answer
  MaxLists, MaxTests, MaxChoices \* bounds of calls
FailDelay == 65535
None      == -1   \* no history
GroupTypes == {"selector", "urltest", "balancer"}

VARIABLES
  box,     \* the running box, or NoBox
  now,     \* the member that each of its groups uses, "" when it has none yet
  history, \* what was measured of each tag
  list,    \* the list under way, or the one that was sent last
  test,    \* the same of the test
  lists, tests, choices
proxyVars == <<box, now, history, list, test, lists, tests, choices>>

NoBox == [outs |-> <<>>, ends |-> <<>>]
Of(b) == ToSet(b.outs) \cup ToSet(b.ends)
Outbounds == Of(box)
Tags(nodes) == {n.tag : n \in nodes}
IsGroup(n) == n.type \in GroupTypes
Groups == {n \in Outbounds : IsGroup(n)}
Get(tag) == {n \in Outbounds : n.tag = tag}
Members(n) == ToSet(n.members)
AllTags == UNION {Tags(Of(b)) : b \in Boxes}
(* What sing-box asks of a configuration before it runs it: a tag is one    *)
(* node, the members of a group are there, and no group is its own member;  *)
(* and what the builder adds: the selector.                                 *)
Sound(b) ==
  /\ b.outs \in Seq(Of(b))
  /\ \A n \in Of(b) : /\ n.tag # "" /\ n.members \in Seq(Tags(Of(b)))
                      /\ IsGroup(n) => n.members # <<>>
  /\ \A m, n \in Of(b) : m.tag = n.tag => m = n
  /\ \E rank \in [Tags(Of(b)) -> 0..Cardinality(Of(b))] :
       \A n \in Of(b) : \A t \in Members(n) : rank[t] < rank[n.tag]
  /\ \E n \in ToSet(b.outs) : n.tag = "select" /\ n.type = "selector"

NoList == [pc |-> "idle", only |-> FALSE, his |-> [t \in AllTags |-> None], info |-> <<>>,
           groups |-> <<>>, box |-> NoBox]
NoTest == [pc |-> "idle", active |-> FALSE, at |-> "", seen |-> {}, targets |-> {}, todo |-> {},
           now |-> <<>>, steady |-> TRUE]
ProxyInit ==
  /\ box \in Boxes /\ history \in [AllTags -> {None}]
  /\ now = [t \in Tags(Groups) |-> LET g == CHOOSE n \in Get(t) : TRUE
                                   IN  IF g.type = "selector" THEN Head(g.members) ELSE ""]
  /\ list = NoList /\ test = NoTest /\ lists = 0 /\ tests = 0 /\ choices = 0

(***************************************************************************)
(* The list                                                                 *)
(***************************************************************************)
RealTag(n) == IF IsGroup(n) /\ now[n.tag] # "" THEN now[n.tag] ELSE n.tag
BugPickAlive(his, tag) == his[tag] \notin {None, 0}
PickAlive(his, tag) == his[tag] \notin {None, 0} /\ his[tag] < FailDelay
Alive(his, tags) == {t \in tags : PickAlive(his, t)}
Fastest(his, tags) == CHOOSE t \in tags : \A u \in tags : his[t] <= his[u]

(* The history of what can be listed.                                       *)
OutboundsHistory ==
  [t \in AllTags |-> IF \E n \in Outbounds : t \in {n.tag, RealTag(n)} \cup Members(n)
                     THEN history[t] ELSE None]

(* A node's own history, else that of the member in use, else the best of   *)
(* the members, else a failure of the member in use.                        *)
HistoryForDetour(his, n) ==
  his[CASE PickAlive(his, n.tag)      -> n.tag
        [] /\ ~PickAlive(his, n.tag)
           /\ PickAlive(his, RealTag(n)) -> RealTag(n)
        [] OTHER -> LET live == Alive(his, Members(n))
                    IN  IF live # {} THEN Fastest(his, live) ELSE RealTag(n)]
GetProxyInfo(his, n) ==
  [tag |-> n.tag, delay |-> HistoryForDetour(his, n), isGroup |-> IsGroup(n),
   using |-> RealTag(n), selected |-> FALSE]

(* The nodes are converted first; the groups are asked again after that,    *)
(* those of the same box even if it is gone by then.                        *)
Convert(only) ==
  /\ list.pc # "convert" /\ box # NoBox /\ lists < MaxLists /\ lists' = lists + 1
  /\ list' = [NoList EXCEPT !.pc = "convert", !.only = only, !.his = OutboundsHistory,
                !.info = [t \in Tags(Outbounds) |->
                            GetProxyInfo(OutboundsHistory, CHOOSE n \in Get(t) : TRUE)],
                !.box = box]
  /\ UNCHANGED <<box, now, history, test, tests, choices>>

(* One record of a node is shared by all groups: its mark is what the last  *)
(* group that lists it says.                                                *)
Items(n) == {t \in Members(n) : (list.only => t = now[n.tag]) /\ t \in DOMAIN list.info}
Listed(n) == [tag |-> n.tag, selectable |-> n.type = "selector", selected |-> now[n.tag],
              items |-> Items(n)]
Mark(groups, t) ==
  LET said == {i \in DOMAIN groups : t \in groups[i].items}
  IN  said # {} /\ t = groups[CHOOSE i \in said : \A j \in said : j <= i].selected
GetAllProxiesInfo ==
  /\ list.pc = "convert"
  /\ LET outs   == list.box.outs
         groups == [i \in {i \in DOMAIN outs : IsGroup(outs[i]) /\ Items(outs[i]) # {}} |->
                      Listed(outs[i])]
     IN  list' = [list EXCEPT !.pc = "sent", !.groups = groups,
                    !.info = [t \in DOMAIN @ |-> [@[t] EXCEPT !.selected = Mark(groups, t)]]]
  /\ UNCHANGED <<box, now, history, test, lists, tests, choices>>

(***************************************************************************)
(* The choice of a member, by the user or by the group itself               *)
(***************************************************************************)
Chosen == test' = [test EXCEPT !.steady = @ /\ test.pc \notin {"walk", "found"}]
SelectOutbound(group, tag) ==
  /\ choices < MaxChoices /\ choices' = choices + 1 /\ Chosen
  /\ now' = IF \E n \in Get(group) : n.type = "selector" /\ tag \in Members(n)
            THEN [now EXCEPT ![group] = tag] ELSE now
  /\ UNCHANGED <<box, history, list, lists, tests>>
Balance(n) ==
  /\ n.type # "selector" /\ choices < MaxChoices /\ choices' = choices + 1 /\ Chosen
  /\ \E t \in Alive(history, Members(n)) : now' = [now EXCEPT ![n.tag] = t]
  /\ UNCHANGED <<box, history, list, lists, tests>>

(***************************************************************************)
(* Tests                                                                    *)
(***************************************************************************)
(* A leaf, or the leaves of a group; when it has none, the member in use.   *)
Leaf(tags) == {t \in tags : \E n \in Get(t) : ~IsGroup(n)}
TestGroupLeaves(n) == IF Leaf(Members(n)) # {} THEN Leaf(Members(n)) ELSE Leaf({now[n.tag]})
TestNow(tag) == UNION {IF IsGroup(n) THEN TestGroupLeaves(n) ELSE {n.tag} : n \in Get(tag)}

Starts(t) == /\ test.pc \in {"idle", "done"} /\ tests < MaxTests /\ tests' = tests + 1 /\ box # NoBox
             /\ test' = t /\ UNCHANGED <<box, now, history, list, lists, choices>>
Probing(tag) == [test EXCEPT !.pc = "probing", !.targets = TestNow(tag), !.todo = TestNow(tag)]
UrlTest(tag) ==
  Starts([NoTest EXCEPT !.pc = "found", !.at = tag])
UrlTestActive ==
  /\ now["select"] # ""
  /\ Starts([NoTest EXCEPT !.pc = "walk", !.active = TRUE, !.at = now["select"],
               !.seen = {now["select"]}, !.now = now])
(* From group to group as long as they have a member in use, each read on   *)
(* its own; then what is found is tested.                                   *)
Walk ==
  /\ test.pc = "walk"
  /\ test' = IF \E n \in Get(test.at) : IsGroup(n) /\ now[n.tag] \notin test.seen \cup {""}
             THEN [test EXCEPT !.at = now[@], !.seen = @ \cup {now[test.at]}]
             ELSE [test EXCEPT !.pc = "found"]
  /\ UNCHANGED <<box, now, history, list, lists, tests, choices>>
TestNowContext ==
  /\ test.pc = "found" /\ test' = Probing(test.at)
  /\ UNCHANGED <<box, now, history, list, lists, tests, choices>>

(* A cancelled probe that had no answer yet is stored as a failure.         *)
TestDialer(tag) ==
  /\ test.pc = "probing" /\ tag \in test.todo
  /\ \E d \in Delays \cup {FailDelay} : history' = [history EXCEPT ![tag] = d]
  /\ test' = [test EXCEPT !.todo = @ \ {tag}]
  /\ UNCHANGED <<box, now, list, lists, tests, choices>>
TestReturns ==
  /\ test.pc = "probing" /\ test.todo = {} /\ test' = [test EXCEPT !.pc = "done"]
  /\ UNCHANGED <<box, now, history, list, lists, tests, choices>>

(* The box is taken down, with the monitor and its history.                 *)
BoxGone ==
  /\ box # NoBox /\ box' = NoBox /\ history' = [t \in AllTags |-> None]
  /\ test' = [test EXCEPT !.todo = {}]
  /\ UNCHANGED <<now, list, lists, tests, choices>>

ProxyNext ==
  \/ \E only \in BOOLEAN : Convert(only)
  \/ GetAllProxiesInfo \/ UrlTestActive \/ Walk \/ TestNowContext \/ TestReturns
  \/ BoxGone
  \/ \E n \in Groups : Balance(n)
  \/ \E g, t \in Tags(Outbounds) : SelectOutbound(g, t)
  \/ \E t \in AllTags : UrlTest(t) \/ TestDialer(t)
ProxySpec == ProxyInit /\ [][ProxyNext]_proxyVars

(***************************************************************************)
(* Properties                                                               *)
(***************************************************************************)
(* A group is shown alive as soon as one member is, with the delay of the   *)
(* member that it used, if that one lives, and else of the fastest: a       *)
(* timeout is shown only when nothing else was measured.                    *)
DelaysAreOfMembers ==
  list.pc # "idle" => \A n \in Of(list.box) : IsGroup(n) =>
    LET live  == {t \in Members(n) : list.his[t] > 0 /\ list.his[t] < FailDelay}
        shown == list.info[n.tag]
    IN  /\ live # {} => \E t \in live : shown.delay = list.his[t]
        /\ live # {} => IF shown.using \in live THEN shown.delay = list.his[shown.using]
                        ELSE \A t \in live : shown.delay <= list.his[t]
        /\ shown.delay = FailDelay => live = {}

(* A list names nodes that it describes, every group with the member that   *)
(* it uses among its items; where the groups share no item, that one and no *)
(* other is marked, though the groups are read after the nodes.             *)
ListNamesWhatItShows ==
  list.pc = "sent" => \A i \in DOMAIN list.groups :
    LET g == list.groups[i]
        later == UNION {list.groups[j].items : j \in {j \in DOMAIN list.groups : j > i}}
    IN  /\ g.items \subseteq DOMAIN list.info
        /\ g.selected # "" => g.selected \in g.items
        /\ \A t \in g.items \ later : list.info[t].selected <=> t = g.selected

(* A test of the active proxy probes the leaf that traffic takes from the   *)
(* selector, through as many groups as there are, if nobody chose another   *)
(* member meanwhile; only when a group on the way has not chosen yet are    *)
(* its leaves probed instead.  Whatever is chosen, leaves are probed.       *)
Follows(tags, uses) == \A t \in tags \cap DOMAIN uses : uses[t] \in tags \cup {""}
Reached(uses) ==
  {t \in AllTags : \A tags \in SUBSET AllTags : "select" \in tags /\ Follows(tags, uses) => t \in tags}
TestsReachTheLeaf ==
  (test.pc = "probing" /\ box # NoBox) =>
    /\ test.targets \subseteq Leaf(AllTags)
    /\ (test.active /\ test.steady) =>
         IF Leaf(Reached(test.now)) # {} THEN test.targets = Leaf(Reached(test.now))
         ELSE \E n \in Groups : /\ n.tag \in Reached(test.now) /\ test.now[n.tag] = ""
                                /\ test.targets = Leaf(Members(n))

(* What is shown of the proxies, and what a test probes, is what runs.      *)
ProxiesAreShownTruly == DelaysAreOfMembers /\ ListNamesWhatItShows /\ TestsReachTheLeaf
=============================================================================
