----------------------------- MODULE EzytelCache -----------------------------
(***************************************************************************)
(* The channel reader of v2/ezytel: calls that fetch a page of a channel     *)
(* (GetChannelInfo, GetChannelMessages) or a picture (ProxyImage), a cache   *)
(* of picture files that is never refreshed, and one snapshot per channel    *)
(* that answers when the page cannot be had.  Pages are what the answers     *)
(* tell of them: the last post and the picture of the channel.               *)
(***************************************************************************)
EXTENDS Integers, FiniteSets

CONSTANTS
  Clients, Chans, Pics,
  Requests,   \* what is asked
  Posts,      \* numbers of posts, in the order in which they appear
  MaxAsks,    \* bound of calls
  MaxBreaks   \* bound of failed writes and of kills
None == "none"

VARIABLES
  site,    \* the channels as they are: the last post and the picture
  image,   \* the files of the pictures: "none", "part", "whole", or "other" bytes
  snap,    \* the snapshots
  ask,     \* the call of each client
  job,     \* the fetch of each picture by each client
  crossed, \* ghost: the pictures and channels on which two calls overlapped
  marred,  \* ghost: <<p, "part">> if a write of p broke off, and <<p, "other">> if the front
           \* once answered for p, with status 200, what is not the picture
  seen,    \* ghost: the newest post that was answered for a channel
  asks, breaks
ezVars == <<site, image, snap, ask, job, crossed, marred, seen, asks, breaks>>

NoSnap   == [kind |-> "none", post |-> 0, path |-> None]
TornSnap == [kind |-> "torn", post |-> 0, path |-> None]
NoAnswer == [kind |-> "none", post |-> 0, ok |-> FALSE, newmsg |-> "", avatar |-> None]
NoAsk    == [pc |-> "idle", op |-> "none", chan |-> None, inline |-> FALSE, read |-> 0,
             post |-> 0, pic |-> None, answer |-> NoAnswer, floor |-> 0]
NoJobs   == [p \in Pics |-> "idle"]
EzInit ==
  /\ site \in [Chans -> [post : {CHOOSE n \in Posts : \A m \in Posts : n <= m}, pic : Pics \cup {None}]]
  /\ image = [p \in Pics |-> "none"] /\ snap = [c \in Chans |-> NoSnap]
  /\ ask = [k \in Clients |-> NoAsk] /\ job = [k \in Clients |-> NoJobs]
  /\ crossed = {} /\ marred = {} /\ seen = [c \in Chans |-> 0] /\ asks = 0 /\ breaks = 0

(***************************************************************************)
(* Pictures                                                                 *)
(***************************************************************************)
Contents == {"part", "whole", "other"}
Active(k, p) == job[k][p] \notin {"idle", "failed"} \cup Contents
Doing(k, p, step) == job[k][p] = step
Next1(k, p, step) == job' = [job EXCEPT ![k][p] = step]
Break == breaks < MaxBreaks /\ breaks' = breaks + 1
OnlyJob(k, p, from, to) ==
  Doing(k, p, from) /\ Next1(k, p, to) /\ UNCHANGED <<site, image, snap, ask, crossed, marred, seen, asks, breaks>>

(* curlDownload: a file that exists is not fetched again.                   *)
StatPicture(k, p) == OnlyJob(k, p, "stat", IF image[p] = "none" THEN "get" ELSE "read")
(* A refused connection, a status that is not 200, a body that breaks off.  *)
GetPictureFails(k, p) == OnlyJob(k, p, "get", "failed")
(* The body is there: os.WriteFile opens and truncates, then writes.         *)
CreatePicture(k, p) ==
  /\ Doing(k, p, "get") /\ Next1(k, p, "fill") /\ image' = [image EXCEPT ![p] = "part"]
  /\ UNCHANGED <<site, snap, ask, crossed, marred, seen, asks, breaks>>
(* Any body that comes with status 200 is stored, be it a picture or not.   *)
FillPicture(k, p) ==
  /\ Doing(k, p, "fill") /\ Next1(k, p, "read")
  /\ \/ image' = [image EXCEPT ![p] = "whole"] /\ UNCHANGED marred
     \/ image' = [image EXCEPT ![p] = "other"] /\ marred' = marred \cup {<<p, "other">>}
  /\ UNCHANGED <<site, snap, ask, crossed, seen, asks, breaks>>
FillFails(k, p) ==
  /\ Doing(k, p, "fill") /\ Next1(k, p, "failed") /\ Break
  /\ marred' = marred \cup {<<p, "part">>}
  /\ UNCHANGED <<site, image, snap, ask, crossed, seen, asks>>
ReadPicture(k, p) == OnlyJob(k, p, "read", image[p])

(***************************************************************************)
(* Calls                                                                    *)
(***************************************************************************)
AskAt(k, pc) == ask[k].pc = pc
OnlyAsk(k, new) == ask' = [ask EXCEPT ![k] = new] /\ UNCHANGED <<site, image, snap, crossed, marred, asks, breaks>>
(* The pictures that k starts to fetch, and those that another one fetches. *)
Fetch(k, ps) ==
  /\ job' = [job EXCEPT ![k] = [p \in Pics |-> IF p \in ps THEN "stat" ELSE "idle"]]
  /\ crossed' = crossed \cup {p \in ps : \E j \in Clients \ {k} : Active(j, p)}

Ask(k) ==
  /\ AskAt(k, "idle") /\ asks < MaxAsks /\ asks' = asks + 1
  /\ \E r \in Requests :
       IF r.op = "image"
       THEN /\ ask' = [ask EXCEPT ![k] = [NoAsk EXCEPT !.pc = "picture", !.op = r.op, !.pic = r.pic]]
            /\ Fetch(k, {r.pic})
       ELSE /\ ask' = [ask EXCEPT ![k] = [NoAsk EXCEPT !.pc = "page", !.op = r.op, !.chan = r.chan,
                         !.inline = r.inline, !.read = r.read, !.floor = seen[r.chan]]]
            /\ crossed' = crossed \cup IF \E j \in Clients : ask[j].chan = r.chan THEN {r.chan} ELSE {}
            /\ UNCHANGED job
  /\ UNCHANGED <<site, image, snap, marred, seen, breaks>>

(* curlAuto: a page comes, at once or on one of the two tries that follow a *)
(* time-out.                                                                *)
Replay(k) == [ask[k] EXCEPT !.pc = "replay"]
Answered(k, answer) == [ask[k] EXCEPT !.pc = "done", !.answer = answer]
Err == [NoAnswer EXCEPT !.kind = "error"]
NoPage(k) == IF ask[k].op = "info" THEN Replay(k) ELSE Answered(k, Err)
GetPage(k) ==
  /\ AskAt(k, "page")
  /\ LET s == site[ask[k].chan]
         wants == IF ask[k].op = "info" THEN {s.pic} \ {None} ELSE IF ask[k].inline THEN Pics ELSE {}
     IN  /\ ask' = [ask EXCEPT ![k].pc = "picture", ![k].post = s.post, ![k].pic = s.pic]
         /\ Fetch(k, wants)
  /\ UNCHANGED <<site, image, snap, marred, seen, asks, breaks>>
GetPageFails(k) ==
  /\ AskAt(k, "page")
  /\ OnlyAsk(k, NoPage(k))   \* an error, a third time-out, a page without its markers
  /\ UNCHANGED <<job, seen>>

(* The numbers of new posts that an answer shows, at most 99.               *)
Newmsg(read, post) ==
  IF read = 0 \/ post = read THEN 0
  ELSE LET diff == post - read IN IF diff < 0 THEN 0 ELSE IF diff > 99 THEN 99 ELSE diff
Got(k, p) == p # None /\ job[k][p] \in Contents
Shown(k, p) == IF Got(k, p) THEN job[k][p] ELSE None
Avatar(k) ==
  CASE ~Got(k, ask[k].pic) -> None
    [] ask[k].inline -> Shown(k, ask[k].pic)
    [] OTHER -> "path"
(* The fetches are done: ProxyImage and GetChannelMessages answer, and      *)
(* GetChannelInfo goes on to its snapshot.                                  *)
PicturesDone(k) ==
  /\ AskAt(k, "picture") /\ \A p \in Pics : ~Active(k, p)
  /\ OnlyAsk(k,
       CASE ask[k].op = "info" ->
              [ask[k] EXCEPT !.pc = "snapshot", !.answer =
                [kind |-> "live", post |-> ask[k].post, ok |-> TRUE,
                 newmsg |-> Newmsg(ask[k].read, ask[k].post), avatar |-> Avatar(k)]]
         [] ask[k].op = "image" /\ ~Got(k, ask[k].pic) -> Answered(k, Err)
         [] OTHER -> Answered(k, [NoAnswer EXCEPT !.kind = ask[k].op, !.post = ask[k].post,
                                    !.avatar = Shown(k, ask[k].pic)]))
  /\ UNCHANGED <<job, seen>>

(* The snapshot names the file of the picture, fetched or not, when the     *)
(* answer carries the picture itself.  infoMu keeps two writes apart.       *)
SnapPath(k) ==
  CASE ask[k].inline -> ask[k].pic
    [] ask[k].answer.avatar = "path" -> ask[k].pic
    [] OTHER -> None
Unlocked == \A k \in Clients : ~AskAt(k, "writing")
BugOpenSnapshot(k) ==
  /\ AskAt(k, "snapshot") /\ Unlocked
  /\ IF snap[ask[k].chan].kind = "none"
     THEN /\ snap' = [snap EXCEPT ![ask[k].chan] = TornSnap] /\ ask' = [ask EXCEPT ![k].pc = "writing"]
          /\ UNCHANGED seen
     ELSE /\ ask' = [ask EXCEPT ![k].pc = "done"] /\ UNCHANGED snap
          /\ seen' = [seen EXCEPT ![ask[k].chan] = ask[k].post]
  /\ UNCHANGED <<site, image, job, crossed, marred, asks, breaks>>
OpenSnapshot(k) ==
  /\ AskAt(k, "snapshot") /\ Unlocked
  /\ snap' = [snap EXCEPT ![ask[k].chan] = TornSnap]
  /\ ask' = [ask EXCEPT ![k].pc = "writing"]
  /\ UNCHANGED <<site, image, job, crossed, marred, seen, asks, breaks>>
Newest(k) == seen' = [seen EXCEPT ![ask[k].chan] = IF ask[k].post > @ THEN ask[k].post ELSE @]
FillSnapshot(k) ==
  /\ AskAt(k, "writing")
  /\ snap' = [snap EXCEPT ![ask[k].chan] = [kind |-> "ok", post |-> ask[k].post, path |-> SnapPath(k)]]
  /\ ask' = [ask EXCEPT ![k].pc = "done"] /\ Newest(k)
  /\ UNCHANGED <<site, image, job, crossed, marred, asks, breaks>>
(* A write that fails is not reported.                                      *)
SnapshotFails(k) ==
  /\ AskAt(k, "writing") /\ Break
  /\ ask' = [ask EXCEPT ![k].pc = "done"] /\ Newest(k)
  /\ UNCHANGED <<site, image, snap, job, crossed, marred, asks>>

(* The last snapshot, marked as old.                                        *)
ReplayedAvatar(k, path) ==
  CASE path = None -> None
    [] ~ask[k].inline -> "path"
    [] image[path] = "none" -> None
    [] OTHER -> image[path]
ReadSnapshot(k) ==
  /\ AskAt(k, "replay")
  /\ LET s == snap[ask[k].chan]
     IN  /\ ask' = [ask EXCEPT ![k] = [Answered(k, IF s.kind # "ok" THEN Err
              ELSE [kind |-> "replay", post |-> s.post, ok |-> FALSE, newmsg |-> "OFF",
                    avatar |-> ReplayedAvatar(k, s.path)]) EXCEPT !.pic = s.path]]
         /\ crossed' = crossed \cup {p \in {s.path} \ {None} : \E j \in Clients : Doing(j, p, "fill")}
  /\ UNCHANGED <<site, image, snap, job, marred, seen, asks, breaks>>
Answer(k) ==
  /\ AskAt(k, "done") /\ OnlyAsk(k, NoAsk)
  /\ job' = [job EXCEPT ![k] = NoJobs] /\ UNCHANGED seen

(***************************************************************************)
(* The environment                                                          *)
(***************************************************************************)
Posted(c) ==
  /\ \E n \in Posts, p \in Pics \cup {None} :
       n > site[c].post /\ site' = [site EXCEPT ![c] = [post |-> n, pic |-> p]]
  /\ UNCHANGED <<image, snap, ask, job, crossed, marred, seen, asks, breaks>>
Killed ==
  /\ Break
  /\ ask' = [k \in Clients |-> NoAsk] /\ job' = [k \in Clients |-> NoJobs]
  /\ marred' = marred \cup {<<p, "part">> : p \in {q \in Pics : \E k \in Clients : Doing(k, q, "fill")}}
  /\ UNCHANGED <<site, image, snap, crossed, seen, asks>>

PictureStep(k, p) ==
  \/ StatPicture(k, p) \/ GetPictureFails(k, p) \/ CreatePicture(k, p)
  \/ FillPicture(k, p) \/ FillFails(k, p) \/ ReadPicture(k, p)
AskStep(k) ==
  \/ Ask(k) \/ GetPage(k) \/ GetPageFails(k) \/ PicturesDone(k) \/ OpenSnapshot(k)
  \/ FillSnapshot(k) \/ SnapshotFails(k) \/ ReadSnapshot(k) \/ Answer(k)
EzNext ==
  \/ \E k \in Clients, p \in Pics : PictureStep(k, p)
  \/ \E k \in Clients : AskStep(k)
  \/ \E c \in Chans : Posted(c)
  \/ Killed
EzSpec == EzInit /\ [][EzNext]_ezVars

(***************************************************************************)
(* Properties                                                               *)
(***************************************************************************)
(* What is shown of a picture is the picture, and whole -- unless the front  *)
(* once answered something else for it with status 200, or a write of it     *)
(* broke off, either of which stays in the cache for good; or two calls      *)
(* store it at once, of which one may read what the other has half written. *)
Excused(p, what) == <<p, what>> \in marred \/ (what = "part" /\ p \in crossed)
PicturesAreWhole ==
  \A k \in Clients : AskAt(k, "done") =>
    \/ ask[k].answer.avatar \in {None, "path", "whole"}
    \/ Excused(ask[k].pic, ask[k].answer.avatar)

(* An answer from the snapshot says that it is one, and it is not older     *)
(* than what was answered for the channel before it was asked for, whatever *)
(* writes of it failed or were cut off by a kill -- unless two calls for    *)
(* the channel overlapped, of which the slower one writes last.             *)
ReplayIsNewest ==
  \A k \in Clients : (AskAt(k, "done") /\ ask[k].answer.kind = "replay") =>
    /\ ~ask[k].answer.ok /\ ask[k].answer.newmsg = "OFF"
    /\ ask[k].answer.post >= ask[k].floor \/ ask[k].chan \in crossed

(* The cache serves pictures and the newest answer, but for those cases.    *)
CacheIsSound == PicturesAreWhole /\ ReplayIsNewest
=============================================================================
