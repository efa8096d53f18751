------------------------------- MODULE Naming -------------------------------
(***************************************************************************)
(* What a branch is called and how its request is titled: planner/branch.go *)
(* Name, the titles of Compose, ciCommitType and the runner's second look   *)
(* (CommitTypeFor).                                                         *)
(*                                                                         *)
(* Names are sequences of pieces ("/", "-", ":" are pieces of their own), a *)
(* path is a sequence of segments.  A template is the name of one of the    *)
(* templates of config/defaults.json, and Topic and Extra are what those    *)
(* render.  A title is [type, scope, action, topic, extra, suffix]; letter  *)
(* case is not told apart.  An update is [dep, type, newValue, newVersion   *)
(* <<major, minor>> or <<>>, single, digest, cfg]: cfg is what the rules    *)
(* left for it.                                                             *)
(***************************************************************************)
EXTENDS Settings

LOCAL INSTANCE SequencesExt

Get(cfg, k, none) == IF k \in DOMAIN cfg THEN cfg[k] ELSE none

\* ------------------------------------------------------------------- names
SanitizeDepName(name) ==
  LET kept == SelectSeq(name, LAMBDA c : c /= "@")
  IN [i \in DOMAIN kept |-> IF kept[i] \in {"/", ":", "://"} THEN "-" ELSE kept[i]]

\* Runs of what git refuses become one dash; no segment begins or ends with a
\* dash or a dot.
Unsafe == {" ", "~", ":", "://", "@"}
Dashed(s) ==
  FoldLeft(LAMBDA out, i : IF s[i] \notin Unsafe THEN Append(out, s[i])
                           ELSE IF i > 1 /\ s[i - 1] \in Unsafe THEN out ELSE Append(out, "-"),
           <<>>, [i \in DOMAIN s |-> i])
Solid(s, i, j) == s[j] \notin {"-", "."} /\ \A k \in (i .. j) \cup (j .. i) : s[k] /= "/"
Kept(s, i) == s[i] = "/" \/ ((\E j \in 1 .. i : Solid(s, i, j)) /\ (\E j \in i .. Len(s) : Solid(s, i, j)))
Trimmed(s) == FoldLeft(LAMBDA out, i : IF Kept(s, i) THEN Append(out, s[i]) ELSE out, <<>>, [i \in DOMAIN s |-> i])
CleanBranchName(s) == Trimmed(Dashed(s))

Separators == {" ", "/", ":", "-", "@", "."}
Slugify(name) ==
  LET out == FoldLeft(LAMBDA b, c : IF c \notin Separators THEN Append(b, c)
                                    ELSE IF b = <<>> \/ Last(b) = "-" THEN b ELSE Append(b, "-"), <<>>, name)
  IN IF out /= <<>> /\ Last(out) = "-" THEN Front(out) ELSE out

\* --------------------------------------------------------------- templates
\* A docker digest travels under its tag, unless the templates were changed.
Docker(d) ==
  Over(Over("commitMessageExtra" :> "short", d),
       [k \in {"branchTopic", "commitMessageTopic"} |-> IF Get(d, k, "") \in {"", "digest"} THEN "dockerDigest" ELSE d[k]])
WithDatasourceDigestDefaults(cfg, datasource) ==
  IF datasource /= "docker" THEN cfg ELSE Over(cfg, "digest" :> Docker(Get(cfg, "digest", Empty)))

ManagerTopic(dep) ==
  CASE dep.manager \in {"dockerfile", "gitlabci", "docker-compose", "kustomize", "helm-values"} /\ dep.datasource = "docker" -> "image"
    [] dep.manager = "gomod" -> "module"
    [] OTHER -> ""

UpdateTypeKey(type) == IF type = "majorAvailable" THEN "major" ELSE type
IsMajor(u) == UpdateTypeKey(u.type) = "major"

Part(v, i) == IF v = <<>> THEN <<>> ELSE <<v[i]>>
Topic(cfg, u, slug) ==
  LET name == SanitizeDepName(u.dep.name)
      tag == Get(cfg, "branchTopic", "")
      minor == \/ Get(cfg, "separateMinorPatch", FALSE) /\ u.type = "patch"
               \/ Get(cfg, "separateMultipleMinor", FALSE) /\ u.type = "minor"
  IN CASE tag = "default" -> name \o <<"-">> \o Part(u.newVersion, 1) \o (IF minor THEN <<".">> \o Part(u.newVersion, 2) ELSE <<>>)
                             \o <<".", "x">> \o (IF u.type = "lockFileMaintenance" THEN <<"-", "lockfile">> ELSE <<>>)
       [] tag = "dockerDigest" -> name \o <<"-">> \o u.dep.value
       [] tag = "group" -> slug
       [] tag = "vulnerability" -> <<u.dep.datasource, "-">> \o name \o <<"-", "vulnerability">>
       [] tag = "lock-file-maintenance" -> <<tag>>
       [] tag \in {"digest", "replacement", "rollback"} -> name \o <<"-", tag>>
       [] OTHER -> <<>>

Said(tag, u, groupName) ==
  CASE tag = "dependency" -> <<tag, " ">> \o u.dep.name
    [] tag = "image" -> u.dep.name \o <<" ", "Docker tag">>
    [] tag = "module" -> <<tag, " ">> \o u.dep.name
    [] tag = "digest" -> u.dep.name \o <<" ", tag>>
    [] tag = "dockerDigest" -> u.dep.name \o (IF u.dep.value = <<>> THEN <<>> ELSE <<":">> \o u.dep.value) \o <<" ", "Docker digest">>
    [] tag = "group" -> groupName
    [] OTHER -> IF tag = "" THEN <<>> ELSE <<tag>>

\* The target: a major by its major, a version by itself, a range as written.
Target(tag, u) ==
  CASE tag = "to" -> IF u.type = "pinDigest" THEN u.digest
                     ELSE IF IsMajor(u) THEN Part(u.newVersion, 1)
                     ELSE IF u.single THEN u.newVersion
                     ELSE IF u.newValue /= <<>> THEN u.newValue ELSE u.digest
    [] tag = "short" -> u.digest
    [] OTHER -> <<>>

\* A prefix a person configured is the type, and has no scope.
SemanticPrefix(cfg) ==
  IF Get(cfg, "commitMessagePrefix", "") /= "" THEN [type |-> cfg["commitMessagePrefix"], scope |-> ""]
  ELSE IF Get(cfg, "semanticCommits", "auto") = "disabled" THEN [type |-> "", scope |-> ""]
  ELSE [type |-> IF Get(cfg, "semanticCommitType", "") = "" THEN "chore" ELSE cfg["semanticCommitType"],
        scope |-> Get(cfg, "semanticCommitScope", "")]

Message(c, prefix, u, groupName, extra) ==
  [type |-> prefix.type, scope |-> prefix.scope, action |-> Get(c, "commitMessageAction", "Update"),
   topic |-> Said(Get(c, "commitMessageTopic", ""), u, groupName), extra |-> extra, suffix |-> Get(c, "commitMessageSuffix", "")]

\* -------------------------------------------------------------------- Name
Group(cfg) == Get(cfg, "groupName", <<>>)
MajorsApart(cfg, u) == Get(cfg, "separateMajorMinor", FALSE) /\ IsMajor(u)
GroupSlug(single, majors) ==
  IF Group(single) = <<>> THEN Get(single, "groupSlug", <<>>)
  ELSE (IF majors THEN <<"major", "-">> ELSE <<>>)
       \o (IF Get(single, "groupSlug", <<>>) = <<>> THEN Slugify(Group(single)) ELSE single["groupSlug"])

\* A manager's own topic replaces the default, never a configured one.
Titled(single, u) ==
  IF Get(single, "commitMessageTopic", "") \in {"", "dependency"} /\ ManagerTopic(u.dep) /= ""
    THEN Over(single, "commitMessageTopic" :> ManagerTopic(u.dep)) ELSE single

Rendered(u, single, cfg) ==
  [u |-> u, group |-> Group(single), majors |-> Group(single) /= <<>> /\ MajorsApart(cfg, u), cfg |-> cfg,
   branch |-> CleanBranchName(Get(cfg, "branchPrefix", <<>>) \o Get(cfg, "additionalBranchPrefix", <<>>) \o Topic(cfg, u, GroupSlug(single, MajorsApart(cfg, u)))),
   title |-> Message(Titled(single, u), SemanticPrefix(cfg), u, Group(single), Target(Get(single, "commitMessageExtra", ""), u)),
   extra |-> Target(Get(single, "commitMessageExtra", ""), u),
   automerge |-> Get(cfg, "automerge", FALSE), direct |-> Get(cfg, "automergeDirect", TRUE), notes |-> Get(cfg, "prBodyNotes", {})]
Grouped(u, single) == Rendered(u, single, IF Group(single) = <<>> THEN single ELSE OverlayKey(single, "group"))
Name(u) == Grouped(u, OverlayKey(WithDatasourceDigestDefaults(u.cfg, u.dep.datasource), UpdateTypeKey(u.type)))

GroupTitle(n, extra) ==
  Message(n.cfg, SemanticPrefix(n.cfg), n.u, n.group \o (IF n.majors /\ extra = <<>> THEN <<" ", "(major)">> ELSE <<>>), extra)

\* ----------------------------------------------------------------- Compose
Shared(members) == IF \A i \in DOMAIN members : members[i].extra = members[1].extra THEN members[1].extra ELSE <<>>
TitleOf(members) ==
  IF members[1].group = <<>> \/ Cardinality({<<members[i].u.dep.name, members[i].u.newValue>> : i \in DOMAIN members}) = 1
    THEN members[1].title
  ELSE GroupTitle(members[1], Shared(members))

\* ---------------------------------------------------------- chore, or ci
PipelineNames == {".gitlab-ci.yml", ".woodpecker.yml", ".drone.yml", "azure-pipelines.yml", "bitbucket-pipelines.yml", ".travis.yml", "Jenkinsfile"}
PipelineDirs == {<<".gitlab">>, <<".github", "workflows">>, <<".github", "actions">>, <<".forgejo", "workflows">>, <<".gitea", "workflows">>,
                 <<".woodpecker">>, <<".circleci">>, <<".buildkite">>, <<".azure-pipelines">>}
IsPipelineFile(path) ==
  \/ Last(path) \in PipelineNames
  \/ \E d \in PipelineDirs, i \in DOMAIN path : i + Len(d) <= Len(path) /\ SubSeq(path, i, i + Len(d) - 1) = d
IsPipelineManager(manager) ==
  manager \in {"gitlabci", "gitlabci-include", "github-actions", "woodpecker", "drone", "azure-pipelines",
               "bitbucket-pipelines", "travis", "circleci", "buildkite", "jenkins"}

\* The pipeline's own: what its manager found, and whoever else found the same
\* dependency in the same file.
Spot(n) == <<n.u.dep.file, n.u.dep.name>>
OwnSpots(members) ==
  {Spot(members[i]) : i \in {j \in DOMAIN members : ~members[j].u.dep.custom /\ IsPipelineManager(members[j].u.dep.manager)}}
Conventional(title) == title.scope \in {"deps", ""}
MutCiCommitType(title, members) ==
  IF title.type = "chore" /\ Conventional(title) /\ \A i \in DOMAIN members : IsPipelineFile(members[i].u.dep.file)
    THEN [title EXCEPT !.type = "ci"] ELSE title
CiCommitType(title, members) ==
  IF title.type = "chore" /\ Conventional(title)
     /\ \A i \in DOMAIN members : IsPipelineFile(members[i].u.dep.file) /\ Spot(members[i]) \in OwnSpots(members)
    THEN [title EXCEPT !.type = "ci"] ELSE title

\* The runner, with the files the branch commits.
CommitTypeFor(title, files) ==
  IF title.type = "ci" /\ Conventional(title) /\ \E f \in files : ~IsPipelineFile(f) THEN [title EXCEPT !.type = "chore"] ELSE title

Branched(members) ==
  [members |-> members, title |-> CiCommitType(TitleOf(members), members),
   automerge |-> \A i \in DOMAIN members : members[i].automerge, direct |-> \A i \in DOMAIN members : members[i].direct,
   notes |-> UNION {members[i].notes : i \in DOMAIN members}]
Composed(named) ==
  {Branched(SelectSeq(named, LAMBDA n : n.branch = b)) : b \in {named[i].branch : i \in DOMAIN named}}

\* ---------------------------------------------------------------- reference
Reserved(n) == IsMajor(n.u) /\ Get(n.cfg, "separateMajorMinor", FALSE)
Kin(m, n) ==
  \/ m.group /= <<>> /\ m.group = n.group /\ (Reserved(m) <=> Reserved(n))
  \/ m.group = <<>> /\ n.group = <<>> /\ (m.u.type = "lockFileMaintenance" \/ SanitizeDepName(m.u.dep.name) = SanitizeDepName(n.u.dep.name))
Apart(m, n) ==
  /\ m.branch = n.branch => Kin(m, n) /\ (m.u.fix = n.u.fix \/ m.u.type = "lockFileMaintenance")
  /\ m.group /= <<>> /\ Kin(m, n) => m.branch = n.branch

\* What the pipeline's own manager did not find is the product's.
Products(b) ==
  {n \in Range(b.members) : ~IsPipelineFile(n.u.dep.file)
                             \/ \A m \in Range(b.members) : ~(Spot(m) = Spot(n) /\ ~m.u.dep.custom /\ IsPipelineManager(m.u.dep.manager))}
SaysSo(b, files) ==
  /\ b.members[1].group /= <<>> /\ b.title.extra /= <<>> => \A n \in Range(b.members) : n.extra = b.title.extra
  /\ b.members[1].title.type = "chore" =>
       (CommitTypeFor(b.title, files).type = "ci" <=> Products(b) = {} /\ \A f \in files : IsPipelineFile(f))

\* A fix travels under vulnerabilityAlerts.
Under(u, cfg) == [u EXCEPT !.cfg = IF u.fix THEN OverlayKey(cfg, "vulnerabilityAlerts") ELSE cfg]

(***************************************************************************)
(* A request says what it carries: no branch mixes a group with another or  *)
(* its majors with the rest, or a fix with what is none; its title names a  *)
(* target only if all its members move there; and it is a ci commit, which  *)
(* nobody releases, exactly when nothing of the product is in it.           *)
(***************************************************************************)
NamedFor(ups, files) ==
  LET named == [i \in DOMAIN ups |-> Name(ups[i])]
  IN /\ \A i, j \in DOMAIN named : Apart(named[i], named[j])
     /\ \A b \in Composed(named) : SaysSo(b, files)
=============================================================================
