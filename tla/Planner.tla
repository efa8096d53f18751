------------------------------- MODULE Planner -------------------------------
(***************************************************************************)
(* planner/planner.go: what is offered for one dependency, given the        *)
(* releases its lookup answered.  Pure operators over records:              *)
(*                                                                          *)
(*  dependency d: cur, digest, locked (values, NoValue for none), scheme,   *)
(*    strategy, allowed (the versions allowedVersions admits), limited      *)
(*    (a constraint is set), filter (internalChecksFilter), age, optional   *)
(*    (timestamp-optional), unstable (ignoreUnstable: false), bound (the    *)
(*    fix version of its advisories), pinDigests                            *)
(*  release r: version, time, seen (days, Never for none), deprecated,      *)
(*    digest                                                                *)
(*  update u: value, version, digest, type, time, lockOnly, waived, fix     *)
(*                                                                          *)
(* Reasons for planning nothing are named, not worded.                      *)
(***************************************************************************)
EXTENDS Versions

NoValue == [op |-> "none", n |-> <<>>, pre |-> <<>>]
Never == -1

Skip(why) == [ups |-> {}, skip |-> why, warn |-> FALSE]
Warned(why) == [ups |-> {}, skip |-> why, warn |-> TRUE]
Offer(us) == [ups |-> us, skip |-> "", warn |-> FALSE]

-----------------------------------------------------------------------------
\* The range strategies by name; "auto" and "widen" are read as replace.
RangeStrategy(word) == IF word \in {"bump", "update-lockfile", "pin"} THEN word ELSE "replace"

\* A bare number is a rolling major.
IsRollingMajor(v) == v.op = "" /\ Len(v.n) = 1 /\ v.pre = <<>>

Readable(d, R) == {r \in R : IsVersion(d.scheme, r.version)}
IsRange(d) == ~IsVersion(d.scheme, d.cur)
Admitted(d, R) == {r.version : r \in {x \in Readable(d, R) : Satisfies(d.scheme, x.version, d.cur)}}

\* A valid range no release satisfies.
UnsatisfiedRange(d, R) == IsRange(d) /\ IsValid(d.scheme, d.cur) /\ Admitted(d, R) = {}

\* allowedVersions as the set of versions it admits.
Allowed(d, v) == d.limited => v \in d.allowed

\* When a release counts as published: by its datasource, else by the cache's
\* first sight of it, else not at all.
MutReleaseTime(r) == r.time
ReleaseTime(r) == IF r.time /= Never THEN r.time ELSE r.seen

OldEnough(d, r, now) == IF ReleaseTime(r) = Never THEN d.optional ELSE now >= ReleaseTime(r) + d.age

-----------------------------------------------------------------------------
\* resolveBase: what candidates are compared from.  A range stands for the
\* highest allowed release it admits, or for what the lock pins.
InRange(d, R) == {v \in Admitted(d, R) : Allowed(d, v)}
UsesLock(d) == IsRange(d) /\ RangeStrategy(d.strategy) /= "replace" /\ d.locked /= NoValue /\ IsVersion(d.scheme, d.locked)
Base(d, R) == IF ~IsRange(d) THEN d.cur ELSE IF UsesLock(d) THEN d.locked ELSE Latest(d.scheme, InRange(d, R))
Floor(d, R) == IF IsRange(d) THEN Least(d.scheme, InRange(d, R)) ELSE d.cur

-----------------------------------------------------------------------------
\* candidates: the releases above the base that nothing keeps out but age.
MutNewer(d, R, base) ==
  {r \in Readable(d, R) :
     /\ Compare(d.scheme, r.version, base) > 0
     /\ IsCompatible(d.scheme, r.version, base)
     /\ ~r.deprecated}
Newer(d, R, base) ==
  {r \in Readable(d, R) :
     /\ Compare(d.scheme, r.version, base) > 0
     /\ ~(IsRange(d) /\ Satisfies(d.scheme, r.version, d.cur) /\ RangeStrategy(d.strategy) = "replace")
     /\ IsCompatible(d.scheme, r.version, base)
     /\ (IsStable(d.scheme, base) /\ ~d.unstable) => IsStable(d.scheme, r.version)
     /\ ~r.deprecated}

OfType(d, base, rs, types) == {r \in rs : UpdateType(d.scheme, base, r.version) \in types}
Majors(d, base, rs) == OfType(d, base, rs, {"major"})
Others(d, base, rs) == OfType(d, base, rs, {"minor", "patch"})

\* Newer releases allowedVersions alone keeps out.
Excluded(d, R, base) ==
  {r \in OfType(d, base, Newer(d, R, base), {"major", "minor", "patch"}) : ~Allowed(d, r.version)}

\* internalChecksFilter: with strict and flexible a bucket offers what is old
\* enough; a bucket where nothing is falls back to everything.
Filters(d) == d.filter \in {"strict", "flexible"} /\ d.age > 0
MutBucket(d, rs, now) == rs
Bucket(d, rs, now) ==
  LET old == {r \in rs : OldEnough(d, r, now)}
  IN IF Filters(d) /\ old /= {} THEN old ELSE rs

\* flexible waives the age when some bucket fell back - of every update.
AgeWaived(d, buckets, now) ==
  /\ d.filter = "flexible" /\ d.age > 0
  /\ \E rs \in buckets : rs /= {} /\ \A r \in rs : ~OldEnough(d, r, now)

-----------------------------------------------------------------------------
\* buildUpdate: "unchanged" when the scheme would write the value as it is.
LockOnly(d, target) == /\ RangeStrategy(d.strategy) = "update-lockfile" /\ IsRange(d)
                       /\ Satisfies(d.scheme, target, d.cur)
MutWritten(d, target) == NewValue(d.scheme, d.cur, target, RangeStrategy(d.strategy))
Written(d, target) == IF LockOnly(d, target) THEN d.cur
                      ELSE NewValue(d.scheme, d.cur, target, RangeStrategy(d.strategy))
Unchanged(d, target) == IF LockOnly(d, target) THEN d.locked = NoValue ELSE Written(d, target) = d.cur

Rolling(d, type) == IF type = "major" /\ IsRollingMajor(d.cur) THEN "majorAvailable" ELSE type
TypeOf(d, from, target) == Rolling(d, UpdateType(d.scheme, from, target))

BuildUpdate(d, from, r) ==
  [value |-> Written(d, r.version), version |-> r.version, digest |-> r.digest,
   type |-> TypeOf(d, from, r.version), time |-> ReleaseTime(r),
   lockOnly |-> LockOnly(d, r.version), waived |-> FALSE, fix |-> FALSE]

Build(d, from, r) == IF Unchanged(d, r.version) THEN {} ELSE {BuildUpdate(d, from, r)}

\* The record of a version (the last one the registry lists wins).
ReleaseOf(d, R, v) == CHOOSE r \in Readable(d, R) : r.version = v

-----------------------------------------------------------------------------
\* pinRange: the one version the range resolves to.
PinRange(d, R, base) ==
  IF base = d.cur THEN Skip("")
  ELSE Offer({[value |-> base, version |-> base, digest |-> ReleaseOf(d, R, base).digest, type |-> "pin",
               time |-> Never, lockOnly |-> FALSE, waived |-> FALSE, fix |-> FALSE]})

\* Digests: digests[value] is what the registry resolves a tag to now, 0 when
\* it does not answer.
DigestUpdate(d, value, digest, type) ==
  [value |-> value, version |-> value, digest |-> digest, type |-> type,
   time |-> Never, lockOnly |-> FALSE, waived |-> FALSE, fix |-> FALSE]

PinDigest(d, digests) ==
  IF digests[d.cur] = 0 THEN Warned("digest unknown")
  ELSE Offer({DigestUpdate(d, d.cur, digests[d.cur], "pinDigest")})

\* A whole version written out in full is a release, whose tag must not move.
ReleasedTag(v) == v.op = "" /\ Len(v.n) = 3

DigestRefresh(d, tag, digests) ==
  IF digests[tag] = 0 THEN Warned("digest unknown")
  ELSE IF digests[tag] = d.digest THEN Skip("up to date")
  ELSE [Offer({DigestUpdate(d, d.cur, digests[tag], "digest")}) EXCEPT !.warn = ReleasedTag(tag)]

\* Value and digest move together or not at all; with no update left the
\* digest behind the tag may have moved.
MutWithDigests(d, ups, base, digests) ==
  IF ups /= {} THEN Offer(ups) ELSE DigestRefresh(d, base, digests)
Behind(refresh) == [refresh EXCEPT !.warn = TRUE, !.skip = IF refresh.ups = {} THEN "digest unknown" ELSE ""]
KeptOr(kept, known, refresh) ==
  IF known /= {} THEN [Offer(known) EXCEPT !.warn = known /= kept]
  ELSE IF kept /= {} THEN Behind(refresh) ELSE refresh
WithDigest(ups, digests) == {IF u.digest /= 0 THEN u ELSE [u EXCEPT !.digest = digests[u.value]] : u \in ups}
WithDigests(d, ups, base, digests) ==
  KeptOr(WithDigest(ups, digests), {u \in WithDigest(ups, digests) : u.digest /= 0}, DigestRefresh(d, base, digests))

\* digestOnly decides the references without a version to compare.
DecidedByDigest(d, R) == \/ d.pinDigests /\ d.digest = 0 /\ ~UnsatisfiedRange(d, R)
                         \/ ~IsValid(d.scheme, d.cur)
DigestOnly(d, digests) ==
  IF d.pinDigests /\ d.digest = 0 THEN PinDigest(d, digests)
  ELSE IF d.digest /= 0 THEN DigestRefresh(d, d.cur, digests)
  ELSE Skip("not a version")

-----------------------------------------------------------------------------
\* securityFix: the lowest release at or above the bound, never downwards.
FixFrom(d, R, base) ==
  IF IsRange(d) /\ (d.locked = NoValue \/ ~IsVersion(d.scheme, d.locked)) THEN Floor(d, R) ELSE base

MutFixNeeded(d, from) == TRUE
FixNeeded(d, from) == ~IsVersion(d.scheme, from) \/ Compare(d.scheme, d.bound, from) > 0

Fixes(d, R, base) ==
  {r \in Readable(d, R) :
     /\ Compare(d.scheme, r.version, d.bound) >= 0
     /\ ~r.deprecated
     /\ (IsStable(d.scheme, base) /\ ~d.unstable /\ IsStable(d.scheme, d.bound)) => IsStable(d.scheme, r.version)}

LowestFix(d, from, fix) ==
  IF Unchanged(d, fix.version) THEN Skip("up to date") ELSE Offer({[BuildUpdate(d, from, fix) EXCEPT !.fix = TRUE]})
FixAmong(d, R, from, fixes) ==
  IF ~FixNeeded(d, from) THEN Skip("up to date")
  ELSE IF fixes = {} THEN Warned("vulnerable")
  ELSE LowestFix(d, from, ReleaseOf(d, R, Least(d.scheme, {r.version : r \in fixes})))
SecurityFix(d, R, base) == FixAmong(d, R, FixFrom(d, R, base), Fixes(d, R, base))

-----------------------------------------------------------------------------
\* ordinary: the bump of a range's floor to its highest release, then the
\* newest of each bucket.
FloorBump(d, R, base) ==
  IF IsRange(d) /\ RangeStrategy(d.strategy) = "bump" /\ base /= d.locked
    THEN Build(d, Floor(d, R), ReleaseOf(d, R, base)) ELSE {}

Buckets(d, base, free) == {Others(d, base, free), Majors(d, base, free)}
Top(d, R, rs) == ReleaseOf(d, R, Latest(d.scheme, {r.version : r \in rs}))
NewestOf(d, R, base, buckets, now) ==
  UNION {{[u EXCEPT !.waived = AgeWaived(d, buckets, now)] : u \in Build(d, base, Top(d, R, Bucket(d, rs, now)))} :
           rs \in buckets \ {{}}}
Ordinary(d, R, base, now) ==
  FloorBump(d, R, base)
  \cup NewestOf(d, R, base, Buckets(d, base, {r \in Newer(d, R, base) : Allowed(d, r.version)}), now)

\* One update per key: two buckets can name one value.
Distinct(ups) == {u \in ups : u = CHOOSE w \in ups : w.value = u.value /\ w.digest = u.digest}

HeldBack(d, kept, ups) ==
  \E r \in kept : \A u \in ups : Compare(d.scheme, u.version, r.version) < 0
NothingNew(d, kept) == Skip(IF HeldBack(d, kept, {}) THEN "held by allowedVersions" ELSE "up to date")

Offered(d, R, base, ups, digests) ==
  IF d.digest /= 0 THEN WithDigests(d, ups, base, digests)
  ELSE IF ups = {} THEN NothingNew(d, Excluded(d, R, base)) ELSE Offer(ups)

PlanFrom(d, R, base, digests, now) ==
  IF d.bound /= NoValue THEN SecurityFix(d, R, base)
  ELSE IF IsRange(d) /\ RangeStrategy(d.strategy) = "pin" THEN PinRange(d, R, base)
  ELSE Offered(d, R, base, Distinct(Ordinary(d, R, base, now)), digests)

\* planOne.  The answer is the releases, none made or one that failed.
PlanOne(d, answer, digests, now) ==
  LET R == answer.releases
  IN IF ~answer.made THEN Skip("no lookup")
     ELSE IF answer.failed THEN Skip("lookup failed")
     ELSE IF DecidedByDigest(d, R) THEN DigestOnly(d, digests)
     ELSE IF R = {} THEN Skip("no releases")
     ELSE IF Readable(d, R) = {} THEN Skip("no versions")
     ELSE IF IsRange(d) /\ InRange(d, R) = {}
       THEN Skip(IF Admitted(d, R) = {} THEN "no release satisfies" ELSE "held by allowedVersions")
     ELSE PlanFrom(d, R, Base(d, R), digests, now)

\* streamNotice: a sibling series is reported when its newest is newer.
StreamNotice(d, R, stream) ==
  LET sibling == {r \in Readable(d, stream) : TRUE}
      top == Latest(d.scheme, {r.version : r \in sibling})
  IN IF sibling = {} \/ \E r \in Readable(d, R) : Compare(d.scheme, r.version, top) >= 0 THEN {}
     ELSE {DigestUpdate(d, top, 0, "majorAvailable")}
=============================================================================
