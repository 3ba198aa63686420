------------------------------ MODULE Profiles ------------------------------
(***************************************************************************)
(* The configuration calls of v2/hcore (buildconfighelper.go): a body is    *)
(* imported into the profile's file by Parse, and the file is built into a  *)
(* configuration by Start, by Parse on its path alone (an export), by       *)
(* GenerateConfig, and by the Ensure of the test engine.                    *)
(***************************************************************************)
EXTENDS SideBox

CONSTANTS
  Bodies,          \* what the client imports first
  Reimports(_),    \* what it imports over a profile
  SettingsFor(_, _), \* the settings that a profile is built with, after an
                   \* import that was refused or not
  Allowlists(_),   \* the tags that the user interface lists of it
  Fragments,       \* the dns settings of a control plane
  RuleSetInputs    \* the lists of rule set files that it merges
NoProfile == Body("none", <<>>, <<>>)

VARIABLES
  source, \* the body of the last import, accepted or not
  file,   \* the profile on disk
  reply   \* the answer to the last call
vars == <<source, file, reply>>

Idle == [call |-> "none", err |-> FALSE]
Init == source = NoProfile /\ file = NoProfile /\ reply = Idle

(* Parse with a body: the file is written when the path is not a scratch    *)
(* one; a refused body leaves it as it was.  When the write fails the old   *)
(* file stays, and the client is told.                                      *)
Store(parsed, persist) ==
  /\ file' = IF ~parsed.err /\ persist THEN parsed.profile ELSE file
  /\ reply' = [call |-> "import", err |-> parsed.err, profile |-> parsed.profile]
SaveFails(parsed) ==
  /\ ~parsed.err /\ reply' = [call |-> "unsaved", err |-> TRUE]
  /\ UNCHANGED file
Import(body, persist, full) ==
  /\ reply = Idle /\ source' = body
  /\ \E parsed \in {ParseConfigBytes(body, full)} :
       Store(parsed, persist) \/ (persist /\ SaveFails(parsed))

(* The two actions that a client can put in the content of a Parse.         *)
DnsFragment(dns, detour) ==
  LET made == BuildDnsFragment(dns, detour)
  IN  /\ reply = Idle
      /\ reply' = [call |-> "fragment", err |-> made.err, servers |-> made.servers]
      /\ UNCHANGED <<source, file>>
MergeRuleSets(inputs) ==
  LET merged == MergeLocalRuleSets(inputs)
  IN  /\ reply = Idle
      /\ reply' = [call |-> "merge", err |-> merged = <<>>, rules |-> merged]
      /\ UNCHANGED <<source, file>>

(***************************************************************************)
(* Builds                                                                   *)
(***************************************************************************)
(* Start reads the file as it is.  Parse on its path alone, GenerateConfig  *)
(* and the test engine parse it again.                                      *)
ParseBuildConfig(call, opt) ==
  IF call = "build" THEN ReadSingOptions(file) ELSE ParseConfigContent(file, opt.fullConfig)
BuildOf(input, opt) == IF input.err THEN [err |-> TRUE] ELSE BuildConfig(input.profile, opt)

(* The test engine cuts its build down to a list.  (The dns and the routes  *)
(* of the side box are those of the build.)                                 *)
AnswerBuild(call, opt, built) ==
  reply' = IF built.err THEN [call |-> call, err |-> TRUE]
           ELSE [call |-> call, err |-> FALSE, opt |-> opt, built |-> built]
AnswerSide(opt, allowlist, box) ==
  reply' = IF box.err THEN [call |-> "ensure", err |-> TRUE]
           ELSE [call |-> "ensure", err |-> FALSE, opt |-> opt, allow |-> allowlist,
                 built |-> [inbounds |-> box.inbounds, nodes |-> box.nodes, cache |-> box.cache]]
Answer(call, opt, allowlist, built) ==
  IF call = "ensure" THEN AnswerSide(opt, allowlist, BuildTestConfig(built, NormalizeAllowlist(allowlist)))
  ELSE AnswerBuild(call, opt, built)

HasProfile == reply.call = "import" /\ file # NoProfile
Build(call, opt, allowlist) ==
  /\ HasProfile
  /\ call = "ensure" => NormalizeAllowlist(allowlist) # <<>>
  /\ Answer(call, opt, allowlist,
            BuildOf(ParseBuildConfig(call, opt), IF call = "ensure" THEN ApplyTestOverrides(opt) ELSE opt))
  /\ UNCHANGED <<source, file>>

Return == reply # Idle /\ reply' = Idle /\ UNCHANGED <<source, file>>

(* Any call may be made in any state; the bodies after the first are fewer, *)
(* and what reads no state is asked once.                                   *)
Content == IF source = NoProfile THEN Bodies ELSE Reimports(file)
Requests(profile) ==
  {[call |-> call, opt |-> opt, allow |-> <<>>] :
     call \in {"build", "export"}, opt \in SettingsFor(profile, reply.err)}
    \cup {[call |-> "ensure", opt |-> opt, allow |-> allowlist] :
            opt \in {o \in SettingsFor(profile, reply.err) : ~o.test /\ o.disabled = {}},
            allowlist \in Allowlists(profile)}
Next ==
  \/ \E body \in Content, persist \in BOOLEAN, full \in BOOLEAN :
       (full => body.inbounds # <<>>) /\ Import(body, persist, full)
  \/ HasProfile /\ \E r \in Requests(file) : Build(r.call, r.opt, r.allow)
  \/ source = NoProfile /\ \E dns \in Fragments, detour \in {"", "select"} : DnsFragment(dns, detour)
  \/ source = NoProfile /\ \E inputs \in RuleSetInputs : MergeRuleSets(inputs)
  \/ Return
Spec == Init /\ [][Next]_vars
=============================================================================
