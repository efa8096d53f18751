----------------------------- MODULE Consumers -----------------------------
(***************************************************************************)
(* The consumer index and the runs made from it: what a run is asked to do  *)
(* and what it leaves alone (run, runReleased, runProject of cmd/pinup),    *)
(* which repositories a release concerns (report/consumers.go).             *)
(*                                                                         *)
(* A name is [segs, sub]: the segments of a path and what follows a ":".    *)
(* A dependency is [ds, package, dep, value, locked, artifact], a package   *)
(* only a lock pins [ds, name, version, lock]; a plan is [deps, locked].    *)
(* A version is the sequence of its parts, "v" a part of its own.  An index *)
(* is [repos (repository -> when), deps (repository -> entries), consumers  *)
(* {<<key, repository>>}].                                                 *)
(***************************************************************************)
EXTENDS Naturals, Sequences, FiniteSets

LOCAL INSTANCE SequencesExt

NoName == [segs |-> <<>>, sub |-> ""]
NewIndex == [repos |-> [r \in {} |-> 0], deps |-> [r \in {} |-> {}], consumers |-> {}]

\* ------------------------------------------------------------- recording
Key(d) == <<d.ds, IF d.package = NoName THEN d.dep ELSE d.package>>
Indexed(d) == d.ds /= "" /\ (d.package /= NoName \/ d.dep /= NoName)
EntryOf(d) == [ds |-> d.ds, name |-> Key(d)[2], version |-> IF d.locked = <<>> THEN d.value ELSE d.locked, lock |-> "", artifact |-> d.artifact]
LockEntry(l) == [ds |-> l.ds, name |-> l.name, version |-> l.version, lock |-> l.lock, artifact |-> FALSE]
Entries(plan) == {EntryOf(d) : d \in {d \in plan.deps : Indexed(d)}} \cup {LockEntry(l) : l \in plan.locked}
Consumed(plan) == {Key(d) : d \in {d \in plan.deps : Indexed(d) /\ ~d.artifact}}

Without(f, x) == [y \in DOMAIN f \ {x} |-> f[y]]
With(f, x, v) == [y \in DOMAIN f \cup {x} |-> IF y = x THEN v ELSE f[y]]
MutForget(x, repo) == [x EXCEPT !.deps = Without(@, repo)]
Forget(x, repo) == [x EXCEPT !.deps = Without(@, repo), !.consumers = {c \in @ : c[2] /= repo}]
Record(x, repo, plan, at) ==
  LET y == Forget(x, repo)
  IN [repos |-> With(y.repos, repo, at), deps |-> With(y.deps, repo, Entries(plan)), consumers |-> y.consumers \cup {<<k, repo>> : k \in Consumed(plan)}]

\* Each repository from the index that recorded it last.
Newer(x, y) == {r \in DOMAIN y.repos : r \in DOMAIN x.repos => y.repos[r] > x.repos[r]}
Taken(x, y, repo) ==
  LET z == Forget(x, repo)
  IN [repos |-> With(z.repos, repo, y.repos[repo]), deps |-> IF repo \in DOMAIN y.deps THEN With(z.deps, repo, y.deps[repo]) ELSE z.deps,
      consumers |-> z.consumers \cup {c \in y.consumers : c[2] = repo}]
Merge(x, y) == FoldLeft(LAMBDA z, repo : Taken(z, y, repo), x, SetToSeq(Newer(x, y)))

\* A file is "missing", "broken" or an index; one written by an older program
\* has no dependencies.
LoadIndex(file) ==
  CASE file.state = "missing" -> NewIndex
    [] file.state = "old" -> [file.index EXCEPT !.deps = [r \in {} |-> {}]]
    [] OTHER -> file.index
LoadIndexes(files) ==
  IF \E i \in DOMAIN files : files[i].state = "broken" THEN [err |-> TRUE, index |-> NewIndex]
  ELSE [err |-> FALSE, index |-> FoldLeft(LAMBDA x, f : Merge(x, LoadIndex(f)), NewIndex, files)]

\* ---------------------------------------------------------- what refers to it
\* The project itself, a part of it after a ":", an image whose path ends in
\* it, or in it and one segment more.
RefersTo(name, path) ==
  \/ name.segs = path
  \/ name.sub = "" /\ Len(name.segs) > Len(path) /\ IsSuffix(path, name.segs)
  \/ name.sub = "" /\ Len(name.segs) > Len(path) + 1 /\ SubSeq(name.segs, Len(name.segs) - Len(path), Len(name.segs) - 1) = path
ConsumersOf(x, path) == {c[2] : c \in {c \in x.consumers : RefersTo(c[1][2], path)}}

Digits == {"0", "1", "2", "3"}
Bare(version) == IF version /= <<>> /\ Head(version) = "v" THEN Tail(version) ELSE version
MajorOf(version) == IF Bare(version) = <<>> \/ Head(Bare(version)) \notin Digits THEN {} ELSE {Head(Bare(version))}
Floating == {"gitlab-releases", "gitlab-tags"}
FloatingMajor(x, repo, path, version) ==
  /\ MajorOf(version) /= {} /\ repo \in DOMAIN x.deps
  /\ LET named == {e \in x.deps[repo] : e.lock = "" /\ ~e.artifact /\ RefersTo(e.name, path)}
     IN named /= {} /\ \A e \in named : e.ds \in Floating /\ Len(e.version) = 1 /\ {e.version[1]} = MajorOf(version)

\* -------------------------------------------------------- what a run is asked
\* flags: [repo, project, discovers, released, pkg, config, dryRun (Booleans),
\* index ("none", "one", "several"), cache].  env: [host, author, format, key,
\* signers].
IsPattern(flags) == flags.index = "several"
Chosen(flags) ==
  Cardinality({f \in {"repo", "project", "discovers", "released"} : flags[f]}) - (IF flags.released /\ flags.discovers THEN 1 ELSE 0)
GitIdentityFromEnv(env) ==
  env.author /\ (env.format = "none" \/ (env.format \in {"ssh", "openpgp"} /\ env.key /\ (env.format = "ssh" => env.signers)))
HasIndex(flags) == flags.index /= "none" \/ flags.cache
CmdRun(flags, env) ==
  CASE flags.pkg /\ (flags.released \/ flags.repo) -> "package goes with a project"
    [] ~(flags.pkg /\ (flags.released \/ flags.repo)) /\ (~flags.config \/ Chosen(flags) /= 1) -> "usage"
    [] OTHER ->
       CASE ~env.host -> "no instance"
         [] env.host /\ ~GitIdentityFromEnv(env) /\ ~flags.dryRun -> "no author"
         [] OTHER ->
            CASE IsPattern(flags) /\ ~flags.released -> "several indexes cannot be written"
              [] flags.released /\ ~HasIndex(flags) -> "no index"
              [] OTHER -> ""

\* One project: what is read before planning, and what is done after.
Narrowed(flags) == flags.released \/ flags.pkg
RecordIndex(flags) == HasIndex(flags) /\ ~IsPattern(flags) /\ ~Narrowed(flags)
PlanOptions(flags, w) ==
  [coverage |-> w.coverage /\ ~Narrowed(flags), checks |-> IF flags.dryRun \/ w.unreadable THEN {} ELSE w.ticked,
   open |-> IF flags.dryRun \/ w.unlisted THEN {} ELSE {w.open}]
NarrowedRunFailure(flags, failed) == Narrowed(flags) /\ failed /= {}
RunProject(flags, w) ==
  [options |-> PlanOptions(flags, w), records |-> RecordIndex(flags), pushes |-> ~flags.dryRun, prunes |-> ~flags.dryRun /\ ~Narrowed(flags),
   dashboard |-> w.board /\ ~Narrowed(flags) /\ ~flags.dryRun, failed |-> NarrowedRunFailure(flags, IF flags.dryRun THEN {} ELSE w.failing)]

\* ------------------------------------------------------------- the fast lane
\* lane: [path, version, only ({} or {patterns' projects}), seen (minutes since
\* this release was run, or Never), listing ("err" or the live projects),
\* dryRun, failing (the projects that fail)].
Never == 9999
SeenRecently(lane) == lane.seen < 60
SkipFloatingMajors(x, lane, consumers) == {c \in consumers : ~FloatingMajor(x, c, lane.path, lane.version)}
SkipGoneProjects(lane, consumers) == IF ~lane.lists \/ lane.live = {} THEN consumers ELSE consumers \cap lane.live
Within(lane, consumers) == IF lane.only = {} THEN consumers ELSE consumers \cap UNION lane.only
RunEach(projects, failing) == [ran |-> projects, failed |-> Cardinality(projects \cap failing)]
RunReleased(x, lane) ==
  LET consumers == SkipGoneProjects(lane, SkipFloatingMajors(x, lane, Within(lane, ConsumersOf(x, lane.path))))
      each == RunEach(consumers, lane.failing)
  IN IF SeenRecently(lane) \/ consumers = {} THEN [ran |-> {}, ok |-> TRUE, marks |-> FALSE]
     ELSE [ran |-> each.ran, ok |-> each.failed = 0, marks |-> each.failed = 0 /\ ~lane.dryRun]

\* ---------------------------------------------------------------- reference
\* history: <<[file, repo, plan]>>, one full run after the other, each writing
\* the index of its partition; old: the files an older program wrote.
Written(history, file) ==
  FoldLeft(LAMBDA x, i : IF history[i].file = file THEN Record(x, history[i].repo, history[i].plan, i) ELSE x, NewIndex, [i \in DOMAIN history |-> i])
Files(history, old) ==
  [i \in 1 .. 2 |-> LET f == IF i = 1 THEN "p" ELSE "q" IN
        [state |-> IF \A j \in DOMAIN history : history[j].file /= f THEN "missing" ELSE IF f \in old THEN "old" ELSE "ok", index |-> Written(history, f)]]
LastOf(history, repo) == CHOOSE i \in DOMAIN history : history[i].repo = repo /\ \A j \in DOMAIN history : history[j].repo = repo => j <= i
RepositoriesOf(history) == {history[i].repo : i \in DOMAIN history}

\* What the last run of a repository read is what the index says of it.
IndexIsLast(history, old, x) ==
  /\ DOMAIN x.repos = RepositoriesOf(history)
  /\ \A r \in RepositoriesOf(history) :
       LET last == history[LastOf(history, r)]
       IN /\ x.repos[r] = LastOf(history, r)
          /\ IF last.file \in old THEN r \notin DOMAIN x.deps ELSE x.deps[r] = Entries(last.plan)
          /\ {c[1] : c \in {c \in x.consumers : c[2] = r}} = Consumed(last.plan)

\* A release is news to a repository that names the project by anything but a
\* component reference that floats on the release's own major.
Follows(d, version) == d.ds \in Floating /\ (IF d.locked = <<>> THEN d.value ELSE d.locked) \in {<<m>> : m \in MajorOf(version)}
News(plan, path, version) == \E d \in plan.deps : Indexed(d) /\ ~d.artifact /\ RefersTo(Key(d)[2], path) /\ ~Follows(d, version)
Concerned(history, path) == {r \in RepositoriesOf(history) : \E d \in history[LastOf(history, r)].plan.deps : Indexed(d) /\ ~d.artifact /\ RefersTo(Key(d)[2], path)}
Live(lane, r) == ~lane.lists \/ lane.live = {} \/ r \in lane.live
Asked(lane, r) == lane.only = {} \/ r \in UNION lane.only
LaneReaches(history, lane, run) ==
  /\ run.ran \subseteq Concerned(history, lane.path)
  /\ ~SeenRecently(lane) => \A r \in RepositoriesOf(history) :
       News(history[LastOf(history, r)].plan, lane.path, lane.version) /\ Live(lane, r) /\ Asked(lane, r) => r \in run.ran
  /\ run.marks => run.ran \cap lane.failing = {} /\ ~lane.dryRun

\* A run that pushes has an author and says how it signs; one narrowed to a
\* package speaks for that package alone; a dry run takes no instruction.
Accountable(flags, env, w) ==
  CmdRun(flags, env) = "" =>
    LET p == RunProject(flags, w)
    IN /\ p.pushes => env.author /\ (env.format = "none" \/ env.key)
       /\ Narrowed(flags) => ~p.records /\ ~p.prunes /\ ~p.dashboard /\ ~p.options.coverage
       /\ ~p.pushes => p.options.checks = {} /\ ~p.prunes /\ ~p.dashboard
       /\ p.records => flags.index /= "several"
       /\ w.failing /= {} /\ w.board /\ p.pushes => p.dashboard \/ p.failed

(***************************************************************************)
(* The index says of a repository what its last full run read, whichever    *)
(* partition made it; a release reaches every live repository it is news    *)
(* to, and counts as done when it did.                                      *)
(***************************************************************************)
ReachesConsumers(history, old, lane) ==
  LET x == LoadIndexes(Files(history, old)).index
  IN IndexIsLast(history, old, x) /\ LaneReaches(history, lane, RunReleased(x, lane))
=============================================================================
