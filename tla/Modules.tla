------------------------------ MODULE Modules ------------------------------
(***************************************************************************)
(* The versions of a Go module (datasource/gods): listed by a proxy under   *)
(* the module's path and under the paths of its later majors, or the tags   *)
(* of the instance's own project that the path lies in.                     *)
(*                                                                         *)
(* A path is [host, segs, sep, major]: "/" and 0 for one without a suffix.  *)
(* A version is [major, rank, ok]: major -1 where none can be read, ok      *)
(* where it parses.  world: [proxy (path -> [code, versions]), latest       *)
(* (path -> <<version>> or <<>>), infos ({<<path, version>>} the proxy has), *)
(* projects (segs -> [code, tags]), comma].  A tag is [dir, v,        *)
(* plain]: a directory, and a version or a name that is none.               *)
(***************************************************************************)
EXTENDS Integers, Sequences, FiniteSets

LOCAL INSTANCE SequencesExt
LOCAL INSTANCE TLC

MaxLater == 3    \* no module has more later majors
Hosted == {"github.com", "gitlab.com", "bitbucket.org"}
Err == [err |-> TRUE, releases |-> <<>>, source |-> <<>>]

\* ------------------------------------------------------------------ majors
\* A suffix is read when its first digit is not a 1; another is part of the
\* name.
Suffixed(path) == path.major >= 2 /\ path.major \notin 10 .. 19
Prefix(path) == IF Suffixed(path) \/ path.major = 0 THEN path.segs ELSE Append(path.segs, "v" \o ToString(path.major))
BeginAt(path) == IF Suffixed(path) THEN path.major + 1 ELSE 2
Candidate(path, n) == [host |-> path.host, segs |-> Prefix(path), sep |-> IF Suffixed(path) THEN path.sep ELSE "/", major |-> n]
SourceURLFor(path) ==
  LET segs == Prefix(path)
  IN IF path.host \in Hosted /\ Len(segs) >= 2 THEN SubSeq(segs, 1, 2) ELSE <<>>

\* ------------------------------------------------------------------- proxy
ListOf(world, path) == IF path \in DOMAIN world.proxy THEN world.proxy[path] ELSE [code |-> 404, versions |-> <<>>]
FetchListEntries(world, path) == [i \in DOMAIN ListOf(world, path).versions |-> [path |-> path, version |-> ListOf(world, path).versions[i]]]
Probed(world, path) == {n \in BeginAt(path) .. BeginAt(path) + MaxLater : \A k \in BeginAt(path) .. n : ListOf(world, Candidate(path, k)).code = 200}
ProbeMajors(world, path) == FlattenSeq([i \in 1 .. Cardinality(Probed(world, path)) |-> FetchListEntries(world, Candidate(path, BeginAt(path) + i - 1))])

\* The first time a version is listed counts; the newest of each major is
\* worth asking for its time.
FirstOnly(entries) == SelectSeq([i \in DOMAIN entries |-> [entry |-> entries[i], at |-> i]],
                                LAMBDA x : \A j \in 1 .. x.at - 1 : entries[j].version /= x.entry.version)
Beats(v, w) == v.ok /\ (~w.ok \/ v.rank > w.rank)
Newest(entries, major) ==
  FoldLeft(LAMBDA best, i : IF entries[i].version.major = major /\ (best = 0 \/ Beats(entries[i].version, entries[IF best = 0 THEN i ELSE best].version)) THEN i ELSE best,
           0, [i \in DOMAIN entries |-> i])
Targets(entries) == {Newest(entries, m) : m \in {entries[i].version.major : i \in DOMAIN entries} \ {-1}}
ApplyInfoTimestamp(world, entry) == IF <<entry.path, entry.version>> \in world.infos THEN <<entry.path, entry.version>> ELSE <<>>
Stamped(world, entries) ==
  [i \in DOMAIN entries |-> [version |-> entries[i].version, time |-> IF i \in Targets(entries) THEN ApplyInfoTimestamp(world, entries[i]) ELSE <<>>]]
FetchLatest(world, path) ==
  IF path \in DOMAIN world.latest THEN [code |-> 200, version |-> world.latest[path]] ELSE [code |-> 404, version |-> <<>>]
ProxyReleases(world, path) ==
  LET entries == FetchListEntries(world, path) \o ProbeMajors(world, path)
      kept == FirstOnly(entries)
      latest == FetchLatest(world, path)
  IN CASE ListOf(world, path).code /= 200 -> Err
       [] ListOf(world, path).code = 200 /\ entries /= <<>> ->
            [err |-> FALSE, source |-> SourceURLFor(path), releases |-> Stamped(world, [i \in DOMAIN kept |-> kept[i].entry])]
       [] OTHER ->
            [err |-> latest.code /= 200, source |-> SourceURLFor(path), releases |-> [i \in DOMAIN latest.version |-> [version |-> latest.version[i], time |-> <<path, latest.version[i]>>]]]

\* ---------------------------------------------------------------- instance
\* The longest prefix that is a project; one that cannot be asked ends it.
Major(path) == IF Suffixed(path) /\ path.sep = "/" THEN path.major ELSE 0
InstancePath(path) == IF Major(path) > 0 \/ path.major = 0 THEN path.segs ELSE Append(path.segs, "v" \o ToString(path.major))
CodeOf(world, segs) == IF segs \in DOMAIN world.projects THEN world.projects[segs].code ELSE 404
Answering(world, segs) == {i \in 2 .. Len(segs) : CodeOf(world, SubSeq(segs, 1, i)) /= 404}
OfMajor(v, major) == v.major >= 0 /\ IF major = 0 THEN v.major <= 1 ELSE v.major = major
InstanceReleases(world, path) ==
  LET segs == InstancePath(path)
      found == Answering(world, segs)
      at == CHOOSE i \in found : \A j \in found : j <= i
      project == SubSeq(segs, 1, at)
      dir == SubSeq(segs, at + 1, Len(segs))
      tags == SelectSeq(world.projects[project].tags, LAMBDA t : t.dir = dir /\ ~t.plain /\ OfMajor(t.v, Major(path)))
  IN IF found = {} THEN Err ELSE IF CodeOf(world, project) /= 200 THEN Err
     ELSE [err |-> FALSE, source |-> project, releases |-> [i \in DOMAIN tags |-> [version |-> tags[i].v, time |-> tags[i].time]]]

ModuleReleases(world, path, instance) ==
  CASE world.comma -> Err
    [] ~world.comma /\ path.host = instance -> InstanceReleases(world, path)
    [] OTHER -> ProxyReleases(world, path)

\* ---------------------------------------------------------------- reference
Listed(world, path) == {ListOf(world, path).versions[i] : i \in DOMAIN ListOf(world, path).versions}
Beside(path, n) == [path EXCEPT !.major = n, !.sep = IF path.major = 0 THEN "/" ELSE path.sep]
Reaches(world, path, n) == \A k \in (IF path.major = 0 THEN 2 ELSE path.major + 1) .. n : ListOf(world, Beside(path, k)).code = 200
Paths(world, path) == {path} \cup {Beside(path, n) : n \in {n \in 2 .. 30 : n > path.major /\ Reaches(world, path, n)}}
VersionsOf(got) == {got.releases[i].version : i \in DOMAIN got.releases}

\* What the proxy lists for the module and its later majors, each version
\* once, the time of one taken from a path that has it.
ProxyIsHonest(world, path, got) ==
  LET listed == UNION {Listed(world, p) : p \in Paths(world, path)}
  IN /\ got.err => ListOf(world, path).code /= 200 \/ listed = {}
     /\ ~got.err => Cardinality(VersionsOf(got)) = Len(got.releases)
     /\ ~got.err => VersionsOf(got) = IF listed = {} THEN ToSet(FetchLatest(world, path).version) ELSE listed
     /\ \A i \in DOMAIN got.releases : got.releases[i].time /= <<>> =>
          got.releases[i].time[2] = got.releases[i].version /\ (got.releases[i].version \in Listed(world, got.releases[i].time[1]) \/ listed = {})
     /\ \A i, j \in DOMAIN got.releases :
          got.releases[i].version.major = got.releases[j].version.major /\ got.releases[i].time = <<>> /\ got.releases[j].time /= <<>>
            => IF got.releases[j].version.ok THEN got.releases[i].version.ok => got.releases[i].version.rank <= got.releases[j].version.rank
               ELSE ~got.releases[i].version.ok
\* The tags of the module's own directory and major, in the project it lies in.
InstanceIsHonest(world, path, got) ==
  ~got.err =>
    \E i \in {i \in 2 .. Len(path.segs) : CodeOf(world, SubSeq(path.segs, 1, i)) = 200} :
      /\ \A j \in i + 1 .. Len(path.segs) : CodeOf(world, SubSeq(path.segs, 1, j)) = 404
      /\ got.source = SubSeq(path.segs, 1, i)
      /\ VersionsOf(got) = {t.v : t \in {t \in ToSet(world.projects[got.source].tags) :
                                t.dir = SubSeq(path.segs, i + 1, Len(path.segs)) /\ ~t.plain /\ t.v.major \in (IF path.major = 0 THEN {0, 1} ELSE {path.major})}}
\* A path like "x/v10" is left out: its suffix is not read as one.
HonestAbout(world, path, instance, got) ==
  path.major \notin 10 .. 19 /\ ~world.comma => IF path.host = instance THEN InstanceIsHonest(world, path, got) ELSE ProxyIsHonest(world, path, got)
ModuleIsHonest(world, path, instance) == HonestAbout(world, path, instance, ModuleReleases(world, path, instance))
=============================================================================
