----------------------------- MODULE Advisories -----------------------------
(***************************************************************************)
(* What is known against the versions in use: OSV, Packagist's own list, a  *)
(* private feed, withdrawals by the publisher and CISA's exploited list      *)
(* (osv, packagistadv, kev, cmd/pinup), for the dependencies of a run, for   *)
(* what its locks pin, and for the watch between runs.                       *)
(*                                                                           *)
(* Versions are naturals in the order of their scheme; 0 is no version.      *)
(***************************************************************************)
EXTENDS Integers, Sequences, FiniteSets

LOCAL INSTANCE SequencesExt

CONSTANTS Versions, Stable, Now, TTL

NoVersion == 0
Highest(S) == IF S = {} THEN NoVersion ELSE CHOOSE v \in S : \A w \in S : w <= v
Lowest(S) == IF S = {} THEN NoVersion ELSE CHOOSE v \in S : \A w \in S : w >= v
MayMoveTo(from, to) == to > from /\ (from \in Stable => to \in Stable)

(***************************************************************************)
(* OSV.                                                                     *)
(***************************************************************************)
EcosystemOfDatasource(ds) ==
  CASE ds = "golang-version" -> "Go" [] ds = "npm" -> "npm" [] ds = "packagist" -> "Packagist"
    [] ds = "go" -> "Go" [] ds = "pypi" -> "PyPI" [] OTHER -> ""
EcosystemOf(q) ==
  CASE q.explicit /\ q.ecosystem /= ""             -> q.ecosystem
    [] EcosystemOfDatasource(q.datasource) /= ""   -> EcosystemOfDatasource(q.datasource)
    [] q.ecosystem = "Wolfi" /\ q.scheme /= "apk"  -> ""
    [] OTHER                                       -> q.ecosystem
Asks(q) == EcosystemOf(q) /= ""
OsvName(q) == IF q.datasource = "golang-version" /\ ~q.explicit THEN "stdlib" ELSE q.name
OsvPackage(q) == <<EcosystemOf(q), OsvName(q)>>

\* walkRange: the events in order; the first segment closed above the
\* version decides.  A segment nothing closes is never seen (README).
Closes(e, v) == IF e.kind = "fixed" THEN v < e.at ELSE v <= e.at
MutWalkEvent(walk, e, v) ==
  CASE walk.hit                -> walk
    [] e.kind = "introduced"   -> [walk EXCEPT !.in = @ \/ e.at = 0 \/ v >= e.at]
    [] walk.in /\ Closes(e, v) -> [walk EXCEPT !.hit = TRUE, !.fixed = IF e.kind = "fixed" THEN e.at ELSE NoVersion]
    [] OTHER                   -> walk
WalkEvent(walk, e, v) ==
  CASE walk.hit                -> walk
    [] e.kind = "introduced"   -> [walk EXCEPT !.in = e.at = 0 \/ v >= e.at]
    [] walk.in /\ Closes(e, v) -> [walk EXCEPT !.hit = TRUE, !.fixed = IF e.kind = "fixed" THEN e.at ELSE NoVersion]
    [] OTHER                   -> [walk EXCEPT !.in = FALSE]
WalkRange(events, v) ==
  FoldLeft(LAMBDA walk, e : WalkEvent(walk, e, v), [in |-> FALSE, hit |-> FALSE, fixed |-> NoVersion], events)

\* evaluateAdvisory: listed by name or inside a range of versions, by the
\* entries of the advisory about the package; the fix is that of the first
\* range that has one.
About(doc, packages) == SelectSeq(doc.affected, LAMBDA e : e.packages \cap packages /= {})
Listed(entries, v) == \E i \in DOMAIN entries : v \in entries[i].versions
Walked(entries, v) ==
  LET ranges == FlattenSeq([i \in DOMAIN entries |-> SelectSeq(entries[i].ranges, LAMBDA r : r.type /= "GIT")])
  IN [i \in DOMAIN ranges |-> WalkRange(ranges[i].events, v)]
FirstFix(walks) == FoldLeft(LAMBDA f, w : IF f = NoVersion /\ w.hit THEN w.fixed ELSE f, NoVersion, walks)
Evaluated(doc, listed, walks) ==
  IF listed \/ \E i \in DOMAIN walks : walks[i].hit
  THEN {[id |-> doc.id, aliases |-> doc.aliases, fixed |-> FirstFix(walks), exploited |-> FALSE, withdrawn |-> FALSE]} ELSE {}
EvaluateAdvisory(doc, packages, v) ==
  LET entries == About(doc, packages) IN Evaluated(doc, Listed(entries, v), Walked(entries, v))

Finding(eco, found, warned) == [ecosystem |-> eco, advisories |-> found, bound |-> NoVersion, warned |-> warned]
BoundOf(found) == Highest({a.fixed : a \in found})
Bounded(f) == [f EXCEPT !.bound = BoundOf(f.advisories)]

\* Client.Check for one query; a record that could not be fetched is left
\* out with a warning.
ValidStdlib(q) == q.datasource /= "golang-version" \/ q.explicit \/ q.version \in Stable
CheckOSV(q, osv) ==
  IF ~Asks(q) \/ ~ValidStdlib(q) THEN Finding("", {}, FALSE)
  ELSE IF q.version \notin Versions THEN Finding(EcosystemOf(q), {}, TRUE)
  ELSE LET refs == {d \in osv.docs : About(d, {OsvPackage(q)}) /= <<>>}
       IN Bounded(Finding(EcosystemOf(q),
                          UNION {EvaluateAdvisory(d, {OsvPackage(q)}, q.version) : d \in {e \in refs : e.id \notin osv.lost}},
                          \E d \in refs : d.id \in osv.lost))

(***************************************************************************)
(* Packagist: ranges without a fix; the fix is looked for among releases.   *)
(***************************************************************************)
\* alternatives: "||" of constraints, each its bounds in the order written.
Holds(part, v) == CASE part.op = ">=" -> v >= part.at [] part.op = "<" -> v < part.at [] OTHER -> v <= part.at
Satisfies(v, alt) == \A i \in DOMAIN alt : Holds(alt[i], v)
Affects(a, v) == \E i \in DOMAIN a.affected : Satisfies(v, a.affected[i])
Covering(a, v) == SelectSeq(a.affected, LAMBDA alt : Satisfies(v, alt))
UpperBounds(a, alt) == SelectSeq(alt, LAMBDA p : p.op = "<" /\ p.at \in Versions /\ ~Affects(a, p.at))
FixedBy(a, v, releases) ==
  IF ~Affects(a, v) THEN NoVersion
  ELSE IF releases /= {} THEN Lowest({r \in releases : MayMoveTo(v, r) /\ ~Affects(a, r)})
  ELSE LET bounds == UpperBounds(a, Covering(a, v)[1]) IN IF bounds = <<>> THEN NoVersion ELSE bounds[1].at

IdsOf(a) == {a.id} \cup a.aliases
Carried(found, a) == \E b \in found : IdsOf(b) \cap IdsOf(a) /= {}
PackagistQueried(q) == q.datasource = "packagist" /\ q.version \in Versions

\* mergePackagist: what OSV did not list under one of its ids.
Known(found) == UNION {IdsOf(b) : b \in found}
AddPackagist(f, q, a, releases, known) ==
  IF ~Affects(a, q.version) \/ known \cap IdsOf(a) /= {} \/ \E b \in f.advisories : b.id \in IdsOf(a) THEN f
  ELSE [f EXCEPT !.advisories = @ \cup {[id |-> a.id, aliases |-> a.aliases, fixed |-> FixedBy(a, q.version, releases),
                                         exploited |-> FALSE, withdrawn |-> FALSE]}]
MergePackagist(f, q, list, releases) ==
  IF ~PackagistQueried(q) THEN f
  ELSE Bounded(FoldLeft(LAMBDA g, a : AddPackagist(g, q, a, releases, Known(f.advisories)), f,
                        SelectSeq(list, LAMBDA a : a.name = q.name)))

(***************************************************************************)
(* The private feed: OSV records by package url or ecosystem.               *)
(***************************************************************************)
PrivatePackage(ds) ==
  CASE ds = "packagist" -> "Packagist" [] ds \in {"gitlab-tags", "gitlab-releases"} -> "GitLab"
    [] ds = "npm" -> "npm" [] ds = "go" -> "Go" [] ds = "pypi" -> "PyPI" [] OTHER -> ""
PrivateAsks(ds, feed) == feed.sources /= {} /\ PrivatePackage(ds) /= ""
FeedRecords(feed) == UNION {s.docs : s \in {t \in feed.sources : t.readable}}
FeedWarned(feed) == \E s \in feed.sources : ~s.readable
PrivateAdvisories(q, feed) ==
  IF q.version \notin Versions THEN {}
  ELSE UNION {EvaluateAdvisory(d, {<<PrivatePackage(q.datasource), q.name>>, <<"purl", PrivatePackage(q.datasource), q.name>>}, q.version)
              : d \in FeedRecords(feed)}
\* checkPrivate; the warnings of the feed go to the first query it is asked.
CheckPrivate(f, q, feed, isFirst) ==
  IF ~PrivateAsks(q.datasource, feed) THEN f
  ELSE LET added == {a \in PrivateAdvisories(q, feed) : ~Carried(f.advisories, a)}
       IN [f EXCEPT !.warned = @ \/ (isFirst /\ FeedWarned(feed)),
                    !.ecosystem = IF @ = "" THEN "private" ELSE @,
                    !.advisories = @ \cup added,
                    !.bound = Highest({@, BoundOf(added)})]

\* advisorySources.Check for one query: Packagist out of reach is a warning.
CheckPublic(q, w, releases) ==
  LET f == CheckOSV(q, w.osv)
  IN CASE ~PackagistQueried(q) -> f
       [] ~w.packagist.reachable -> [f EXCEPT !.warned = TRUE]
       [] OTHER -> MergePackagist(f, q, w.packagist.list, releases)
Check(q, w, releases, isFirst) == CheckPrivate(CheckPublic(q, w, releases), q, w.feed, isFirst)

(***************************************************************************)
(* A run: the dependencies, what their publisher withdrew, and what is      *)
(* exploited.                                                               *)
(***************************************************************************)
On(cfg) == cfg.osvAlerts /\ cfg.alerts /= "off"

\* lowestAdmitted: a range without a lock runs its lowest release.
LowestAdmitted(value, releases) == IF value.or THEN NoVersion ELSE Lowest(releases \cap value.admits)
\* A disabled dependency is not looked up before the database is asked.
Releases(d) == IF d.skip = "none" THEN d.releases ELSE {}
InUse(d) ==
  CASE d.locked /= NoVersion -> d.locked
    [] d.value.kind = "version" -> d.value.at
    [] OTHER -> LowestAdmitted(d.value, Releases(d))
QueryOf(d) == [datasource |-> d.datasource, name |-> d.name, version |-> InUse(d), scheme |-> d.scheme,
               ecosystem |-> d.ecosystem, explicit |-> d.explicit]

Written(d) == IF d.locked /= NoVersion THEN d.locked ELSE IF d.value.kind = "version" THEN d.value.at ELSE NoVersion

NotCovered(d, w) ==
  CASE ~Asks(QueryOf(d)) /\ ~PrivateAsks(d.datasource, w.feed) ->
         IF d.ecosystem /= "" \/ EcosystemOfDatasource(d.datasource) /= "" THEN "other versioning" ELSE "no ecosystem"
    [] InUse(d) = NoVersion \/ ~ValidStdlib([QueryOf(d) EXCEPT !.version = Written(d)]) -> "no version"
    [] OTHER -> ""
Answer(coverage, found, bound, warned) == [coverage |-> coverage, advisories |-> found, bound |-> bound, warned |-> warned]
CheckAdvisories(cfg, d, w) ==
  IF ~On(cfg) \/ d.skip = "other" THEN Answer("unasked", {}, NoVersion, FALSE)
  ELSE IF NotCovered(d, w) /= "" THEN Answer(NotCovered(d, w), {}, NoVersion, FALSE)
  ELSE IF ~w.osv.reachable THEN Answer("covered", {}, NoVersion, TRUE)
  ELSE LET f == Check(QueryOf(d), w, Releases(d), TRUE) IN Answer("covered", f.advisories, f.bound, f.warned)

\* applyWithdrawals: the replacement if it is there, else the newest way out.
WaysOut(d, from, to) ==
  {r \in d.releases : r > from /\ (from \notin Stable \/ r \in Stable \/ d.allowUnstable
                                   \/ (to \in Versions \ Stable /\ r >= to))}
Replacement(d, to) == IF to \in d.releases THEN to ELSE Highest(WaysOut(d, Written(d), to))
Withdrawal(ids, fix) == {[id |-> i, aliases |-> {}, fixed |-> fix, exploited |-> FALSE, withdrawn |-> TRUE] : i \in ids}
ApplyWithdrawals(cfg, d, a) ==
  IF cfg.alerts = "off" \/ d.skip /= "none" \/ Written(d) \notin DOMAIN d.withdrawn THEN a
  ELSE LET w == d.withdrawn[Written(d)] fix == Replacement(d, w.to)
       IN [a EXCEPT !.advisories = @ \cup Withdrawal(IF w.ids = {} THEN {"withdrawn"} ELSE w.ids, fix),
                    !.warned = @ \/ fix = NoVersion,
                    !.bound = Highest({@, fix})]

\* kev: the cached catalog while it is fresh, else the feed, else the stale
\* one; without any the fixes are planned without the mark.
Load(kev) ==
  CASE kev.cached /= {} /\ Now < kev.at + TTL -> kev.cached
    [] kev.feed /= {} -> kev.feed
    [] OTHER -> kev.cached
MarkExploited(a, kev) ==
  [a EXCEPT !.advisories = {[b EXCEPT !.exploited = ~b.withdrawn /\ IdsOf(b) \cap Load(kev) /= {}] : b \in @}]

CoverWithdrawals(d, a) ==
  IF a.coverage \in {"no ecosystem", "other versioning", "no version"} /\ d.skip = "none" /\ d.withdrawalList THEN [a EXCEPT !.coverage = "withdrawal"] ELSE a

Alerts(cfg, d, w) ==
  CoverWithdrawals(d, ApplyWithdrawals(cfg, d, MarkExploited(CheckAdvisories(cfg, d, w), w.kev)))
\* A disabled dependency with a fix is looked up and planned after all.
Revived(d, a) == d.skip = "disabled" /\ a.bound /= NoVersion

\* Packages of a lock that no manifest names, each asked like a dependency.
LockDatasource(manager) == CASE manager = "composer" -> "packagist" [] manager = "npm" -> "npm" [] OTHER -> ""
TransitiveLocked(cfg, lock, direct) ==
  IF ~On(cfg) \/ ~cfg.transitive \/ LockDatasource(lock.manager) = "" THEN {}
  ELSE {n \in DOMAIN lock.pins : n \notin direct /\ lock.pins[n] \in Versions}
LockedQuery(lock, n) == [datasource |-> LockDatasource(lock.manager), name |-> n, version |-> lock.pins[n], scheme |-> "default",
                         ecosystem |-> "", explicit |-> FALSE]
CheckLocked(cfg, lock, direct, w) ==
  IF ~w.osv.reachable THEN {}
  ELSE {[package |-> n, advisories |-> Check(LockedQuery(lock, n), w, {}, FALSE).advisories] : n \in TransitiveLocked(cfg, lock, direct)}
\* liftsOf: each package once, to the highest of its fixes.
LiftsOf(found) == {[package |-> f.package, fixed |-> BoundOf(f.advisories)] : f \in {g \in found : g.advisories /= {}}}

(***************************************************************************)
(* The watch: every version of the consumer index once, each advisory told  *)
(* once, and a control whose findings are counted and not told.             *)
(***************************************************************************)
\* index: a sequence of [repo, key]; the keys in the order they are met.
Selected(index, only, control) == SelectSeq(index, LAMBDA e : e.repo \in only \cup {control})
Order(index) == FoldLeft(LAMBDA ks, e : IF Contains(ks, e.key) THEN ks ELSE Append(ks, e.key), <<>>, index)
Consumers(index, k) == {index[i].repo : i \in {j \in DOMAIN index : index[j].key = k}}

\* packagistForWatch: in full the first time, then what changed since, with
\* an hour of overlap.
MutPackagistForWatch(w, since) == SelectSeq(w.packagist.list, LAMBDA a : a.modified >= since - 1 /\ (since > 0 \/ a.modified > 0))
PackagistForWatch(w, since) == IF since = 0 THEN w.packagist.list ELSE SelectSeq(w.packagist.list, LAMBDA a : a.modified >= since - 1)
WatchFinding(q, isFirst, w, byPkg) ==
  LET f == CheckPrivate(CheckOSV(q, w.osv), q, w.feed, isFirst)
  IN IF w.packagist.reachable THEN MergePackagist(f, q, byPkg, {}) ELSE f

\* A finding with a warning is left for the next watch.
Settled(f) == f.ecosystem /= "" /\ ~f.warned
Id(a, k) == <<a.id, k.datasource, k.name>>
Told(acc, f, k, rs, only, control) ==
  IF ~Settled(f) THEN acc
  ELSE LET fresh == {a \in f.advisories : Id(a, k) \notin acc.seen}
       IN [acc EXCEPT !.seen = @ \cup {Id(a, k) : a \in fresh},
                      !.control = @ \/ (control \in rs /\ f.advisories /= {}),
                      !.new = @ \cup (IF rs \cap only = {} THEN {} ELSE {[id |-> Id(a, k), version |-> k.version, repos |-> rs \cap only] : a \in fresh})]
FirstPrivate(ks, i, feed) == \A j \in 1 .. i - 1 : ~PrivateAsks(ks[j].datasource, feed)
Watch(index, ks, only, control, w, state) ==
  LET byPkg == PackagistForWatch(w, state.since)
      out == FoldLeft(LAMBDA acc, i : Told(acc, WatchFinding(ks[i], FirstPrivate(ks, i, w.feed), w, byPkg), ks[i], Consumers(index, ks[i]), only, control),
                      [seen |-> state.seen, new |-> {}, control |-> FALSE], [i \in 1 .. Len(ks) |-> i])
  IN [seen |-> out.seen, new |-> out.new, control |-> out.control,
      since |-> IF w.packagist.reachable THEN w.now ELSE state.since]
Quiet == [seen |-> {}, new |-> {}, control |-> FALSE, since |-> 0]
\* A watch whose OSV query fails writes nothing.
WatchedBy(in, w, state) ==
  IF ~w.osv.reachable THEN [state EXCEPT !.new = {}]
  ELSE LET index == Selected(in.index, in.only, in.control) IN Watch(index, Order(index), in.only, in.control, w, state)

(***************************************************************************)
(* What a plan may rely on.                                                 *)
(***************************************************************************)
\* A version is affected where a segment that opened at or below it closes
\* above it.
Between(events, v) ==
  \E i, j \in DOMAIN events :
    /\ i < j /\ \A k \in i .. j - 1 : events[k].kind = "introduced"
    /\ events[j - 1].at <= v
    /\ events[j].kind /= "introduced" /\ Closes(events[j], v)
Against(doc, packages, v) ==
  \E i \in DOMAIN doc.affected :
    LET e == doc.affected[i]
    IN e.packages \cap packages /= {} /\ (v \in e.versions \/ \E j \in DOMAIN e.ranges : e.ranges[j].type /= "GIT" /\ Between(e.ranges[j].events, v))

\* Each advisory against the version in use is named once, under whichever
\* source knew it first, and none other is.
Listings(q, w) ==
  {IdsOf(d) : d \in {x \in w.osv.docs : Asks(q) /\ ValidStdlib(q) /\ x.id \notin w.osv.lost /\ Against(x, {OsvPackage(q)}, q.version)}}
  \cup {IdsOf(a) : a \in {x \in ToSet(w.packagist.list) : w.packagist.reachable /\ q.datasource = "packagist" /\ x.name = q.name /\ Affects(x, q.version)}}
  \cup {IdsOf(d) : d \in {x \in FeedRecords(w.feed) : Against(x, {<<PrivatePackage(q.datasource), q.name>>, <<"purl", PrivatePackage(q.datasource), q.name>>}, q.version)}}
NamedOnce(d, w, a) ==
  LET found == {b \in a.advisories : ~b.withdrawn}
  IN a.coverage = "covered" /\ w.osv.reachable =>
       /\ \A ids \in Listings(QueryOf(d), w) : \E b \in found : ids \cap IdsOf(b) /= {}
       /\ {IdsOf(b) : b \in found} \subseteq Listings(QueryOf(d), w)
       /\ \A b, c \in found : IdsOf(b) \cap IdsOf(c) /= {} => b = c
       /\ \A b \in found : b.fixed /= NoVersion => b.fixed > InUse(d) /\ b.fixed <= a.bound

\* Packagist's fix is the next release out of everything the advisory covers.
LeadsOut(d, w, a) ==
  \A b \in a.advisories : \A p \in ToSet(w.packagist.list) :
    b.id = p.id /\ b.fixed /= NoVersion =>
      /\ ~Affects(p, b.fixed)
      /\ Releases(d) /= {} => b.fixed \in Releases(d) /\ ~\E r \in Releases(d) : r < b.fixed /\ MayMoveTo(InUse(d), r) /\ ~Affects(p, r)

\* What its publisher withdrew is left, unless there is nowhere to go.
WithdrawnIsLeft(cfg, d, a) ==
  cfg.alerts /= "off" /\ d.skip = "none" /\ Written(d) \in DOMAIN d.withdrawn =>
    a.bound > Written(d) \/ a.warned \/ d.withdrawn[Written(d)].to \in d.releases
HeldOf(cfg, d, w, a) == NamedOnce(d, w, a) /\ LeadsOut(d, w, a) /\ WithdrawnIsLeft(cfg, d, a)
AlertsHold(cfg, d, w) ==
  HeldOf(cfg, d, w, Alerts(cfg, d, w))

\* Over two watches: nothing is told twice, a repository is told of exactly
\* what it carries, and what OSV could say about a selected repository was
\* told by the end, unless another version of the package was told or is the
\* control's (README).
Exact(in, out) == \A h \in out.new : h.repos = {r \in in.only : \E i \in DOMAIN in.index : in.index[i].repo = r /\ in.index[i].key.version = h.version
                                                                 /\ in.index[i].key.name = h.id[3] /\ in.index[i].key.datasource = h.id[2]}
Unread(k, w) == \E d \in w.osv.docs : d.id \in w.osv.lost /\ About(d, {OsvPackage(k)}) /= <<>>
ToldInTime(in, w, told) ==
  \A i \in DOMAIN in.index : \A d \in w.osv.docs :
    LET k == in.index[i].key
    IN in.index[i].repo \in in.only /\ Asks(k) /\ ~Unread(k, w) /\ ~FeedWarned(w.feed) /\ k.version \in Versions /\ Against(d, {OsvPackage(k)}, k.version) =>
         \/ \E h \in told : h.id = Id(d, k)
         \/ \E j \in DOMAIN in.index : in.index[j].repo = in.control /\ in.index[j].key.name = k.name
\* What Packagist alone knows, where nothing kept the finding back: a list
\* that could not be read is read again in full.
ReadableBy(k, w) == w.osv.reachable /\ ~Unread(k, w) /\ ~FeedWarned(w.feed)
Same(p, id, w) == id \in IdsOf(p) \/ \E d \in w.osv.docs \cup FeedRecords(w.feed) : d.id = id /\ IdsOf(d) \cap IdsOf(p) /= {}
PackagistInTime(in, first, second, told) ==
  \A i \in DOMAIN in.index : \A p \in ToSet(second.packagist.list) :
    LET k == in.index[i].key
    IN (/\ in.index[i].repo \in in.only /\ k.datasource = "packagist" /\ k.name = p.name /\ k.version \in Versions /\ Affects(p, k.version)
        /\ ReadableBy(k, first) /\ ReadableBy(k, second)
        /\ p.modified >= second.now \/ ~first.packagist.reachable \/ p \in ToSet(first.packagist.list)) =>
         \/ \E h \in told : Same(p, h.id[1], first) \/ Same(p, h.id[1], second)
         \/ \E j \in DOMAIN in.index : in.index[j].repo = in.control /\ in.index[j].key.name = k.name
OnceAcross(in, first, second) ==
  /\ {h.id : h \in first.new} \cap {h.id : h \in second.new} = {}
  /\ \A g, h \in first.new \cup second.new : g.id = h.id => g = h
  /\ Exact(in, first) /\ Exact(in, second)
  /\ in.worlds[2].osv.reachable => ToldInTime(in, in.worlds[2], first.new \cup second.new)
  /\ PackagistInTime(in, in.worlds[1], in.worlds[2], first.new \cup second.new)
OnceAfter(in, first) == OnceAcross(in, first, WatchedBy(in, in.worlds[2], first))
ToldOnce(in) == OnceAfter(in, WatchedBy(in, in.worlds[1], Quiet))
=============================================================================
