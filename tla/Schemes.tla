------------------------------ MODULE Schemes ------------------------------
(***************************************************************************)
(* The versioning schemes with an order or a range grammar of their own:    *)
(* pep440, composer, hashicorp, apk, regex, go, go-mod-directive and        *)
(* semver-coerced (versioning/<scheme>).  Parsing is what it yields: a      *)
(* value as written is a record, its words and numbers already apart.       *)
(*                                                                          *)
(* A range is a sequence of alternatives, an alternative a sequence of      *)
(* constraints that must all hold; a constraint is a version with op and    *)
(* wild.  NewValue answers a range, Refused when the scheme declines.       *)
(***************************************************************************)
EXTENDS Versions, SequencesExt

Refused == <<>>
FirstSign(cs) == LET i == FirstOf({k \in DOMAIN cs : cs[k] /= 0}) IN IF i = 0 THEN 0 ELSE cs[i]
At(s, i) == IF i <= Len(s) THEN s[i] ELSE 0
To(s, k) == [i \in 1 .. k |-> At(s, i)]
Longer(a, b) == IF Len(a) > Len(b) THEN Len(a) ELSE Len(b)
ReleaseCmp(a, b) == FirstSign([i \in 1 .. Longer(a, b) |-> Sign(At(a, i), At(b, i))])
Agree(v, c, k) == \A i \in 1 .. k : At(v, i) = At(c, i)
Exactly(v) == <<<<v>>>>

\* ------------------------------------------------------------------ pep440
\* [epoch, n, pre <<word, k>>, post, dev, local]; absent are <<>> and -1.
Phase(word) == CASE word \in {"a", "alpha"} -> 1 [] word \in {"b", "beta"} -> 2 [] word \in {"rc", "c", "pre", "preview"} -> 3
PhaseOf(v) == IF v.pre = <<>> THEN 0 ELSE Phase(v.pre[1])
PhaseN(v) == IF v.pre = <<>> THEN 0 ELSE v.pre[2]

\* A dev release alone is below every pre-release, a final one above.
PreRank(v) == IF v.pre /= <<>> THEN PhaseOf(v) ELSE IF v.dev >= 0 /\ v.post < 0 THEN 0 ELSE 4

\* An absent dev is above any; a local part is above none, a number above a
\* word.  A part is <<0, word>> or <<1, number>>.
DevCmp(a, b) == IF a = b THEN 0 ELSE IF a < 0 THEN 1 ELSE IF b < 0 THEN -1 ELSE Sign(a, b)
LocalCmp(a, b) ==
  IF a = <<>> \/ b = <<>> THEN Sign(Len(a), Len(b))
  ELSE IdentsFrom(FirstDiff(a, b), a, b, Sign(Len(a), Len(b)))
PepCompare(a, b) ==
  FirstSign(<<Sign(a.epoch, b.epoch), ReleaseCmp(a.n, b.n), Sign(PreRank(a), PreRank(b)), Sign(PhaseN(a), PhaseN(b)),
              Sign(a.post, b.post), DevCmp(a.dev, b.dev), LocalCmp(a.local, b.local)>>)
PrefixMatch(v, p) == v.epoch = p.epoch /\ Agree(v.n, p.n, Len(p.n))

\* A bound admits no pre-release and no post-release of itself.
PepMatches(v, c) ==
  LET cmp == PepCompare(v, c.v)
  IN CASE c.op = "===" -> v = c.v
       [] c.op \in {"", "=="} -> IF c.wild THEN PrefixMatch(v, c.v) ELSE cmp = 0
       [] c.op = "!=" -> ~(IF c.wild THEN PrefixMatch(v, c.v) ELSE cmp = 0)
       [] c.op = "<=" -> cmp <= 0
       [] c.op = ">=" -> cmp >= 0
       [] c.op = "<" -> cmp < 0 /\ ~(v.pre /= <<>> /\ c.v.pre = <<>> /\ ReleaseCmp(v.n, c.v.n) = 0)
       [] c.op = ">" -> cmp > 0 /\ ~(v.post >= 0 /\ c.v.post < 0 /\ ReleaseCmp(v.n, c.v.n) = 0 /\ PhaseOf(v) = PhaseOf(c.v) /\ PhaseN(v) = PhaseN(c.v))
       [] c.op = "~=" -> cmp >= 0 /\ PrefixMatch(v, [c.v EXCEPT !.n = Front(@)])
PepStable(v) == v.pre = <<>> /\ v.dev < 0

\* One clause is rewritten in its shape, a set of several is declined.
Numbers(v, k) == [epoch |-> 0, n |-> To(v.n, k), pre |-> <<>>, post |-> -1, dev |-> -1, local |-> <<>>]
Clause(op, v, wild) == <<<<[op |-> op, v |-> v, wild |-> wild]>>>>
PepNewValue(current, t, strategy) ==
  LET c == current[1][1]
  IN IF c.op = "" THEN Clause("", t, FALSE)
     ELSE IF strategy = "pin" THEN Clause("==", t, FALSE)
     ELSE IF Len(current[1]) /= 1 THEN Refused
     ELSE CASE c.op = "===" -> Clause("===", t, FALSE)
            [] c.wild -> Clause(c.op, Numbers(t, Len(c.v.n)), TRUE)
            [] c.op = "~=" -> Clause("~=", Numbers(t, Len(c.v.n)), FALSE)
            [] c.op = "!=" -> current
            [] c.op = "==" -> Clause("==", t, FALSE)
            [] c.op \in {">=", ">"} -> Clause(c.op, t, FALSE)
            [] OTHER -> IF PepMatches(t, c) THEN current ELSE Refused

\* ---------------------------------------------------------------- composer
\* [n (one to three), flag, k].  A flag in the wrong case ranks below all.
Flag(word) == CASE word = "a" -> "alpha" [] word = "b" -> "beta" [] word = "p" -> "pl"
                [] word \in {"alpha", "beta", "stable", "dev", "rc", "pl", ""} -> word [] OTHER -> "unrecognised"
Stability(word) ==
  CASE Flag(word) = "unrecognised" -> -1 [] Flag(word) = "dev" -> 0 [] Flag(word) = "alpha" -> 1 [] Flag(word) = "beta" -> 2
    [] Flag(word) = "rc" -> 3 [] Flag(word) \in {"", "stable"} -> 4 [] OTHER -> 5
ComposerCompare(a, b) ==
  FirstSign(<<ReleaseCmp(a.n, b.n), Sign(Stability(a.flag), Stability(b.flag)), Sign(a.k, b.k)>>)

ComposerCaret(v, c) ==
  IF At(c.n, 1) /= 0 THEN At(v.n, 1) = At(c.n, 1)
  ELSE At(v.n, 1) = 0 /\ At(v.n, 2) = At(c.n, 2)
ComposerHolds(v, c) ==
  LET cmp == ComposerCompare(v, c)
  IN \/ c.op = "*" /\ c.n = <<>>
     \/ /\ c.op /= "*"
        /\ v.flag /= "" => c.flag /= ""
        /\ CASE c.wild -> Agree(v.n, c.n, Len(c.n))
             [] c.op = "^" -> cmp >= 0 /\ ComposerCaret(v, c)
             [] c.op = "~" -> cmp >= 0 /\ Agree(v.n, c.n, Len(c.n) - 1)
             [] c.op = ">" -> cmp > 0 [] c.op = ">=" -> cmp >= 0
             [] c.op = "<" -> cmp < 0 [] c.op = "<=" -> cmp <= 0
             [] c.op = "!=" -> cmp /= 0
             [] OTHER -> cmp = 0
ComposerSatisfies(v, range) == \E a \in DOMAIN range : \A i \in DOMAIN range[a] : ComposerHolds(v, range[a][i])
ComposerStable(v) == v.flag = ""

\* The first constraint is rewritten in its precision; a tilde that crosses
\* its major begins the new one; alternatives get one more, or give way.
Write(op, n) == [op |-> op, n |-> n, flag |-> "", k |-> 0, wild |-> FALSE]
Stated(c) == IF c.n = <<>> THEN 1 ELSE Len(c.n)
MutTilde(t, c) == To(<<At(t.n, 1)>>, Stated(c))
Tilde(t, c) == IF At(t.n, 1) /= At(c.n, 1) THEN To(<<At(t.n, 1)>>, Stated(c)) ELSE To(t.n, Stated(c))
ComposerRewritten(t, c, strategy) ==
  IF c.op = "~" THEN Write("~", Tilde(t, c))
  ELSE Write(c.op, To(t.n, IF strategy = "bump" THEN 3 ELSE Stated(c)))
ComposerNewValue(current, t, strategy) ==
  LET caret == <<Write("^", <<At(t.n, 1), 0>>)>>
  IN IF Len(current) = 1
       THEN (IF strategy = "widen" THEN current ELSE <<>>) \o <<<<ComposerRewritten(t, current[1][1], strategy)>>>>
     ELSE IF ComposerSatisfies(t, current) THEN current
     ELSE IF strategy \in {"replace", "update-lockfile"} THEN <<caret>> ELSE Append(current, caret)

\* --------------------------------------------------------------- hashicorp
\* Versions are semver's [op, n, pre]; one alternative of constraints.
HashicorpHolds(v, c) ==
  /\ v.pre /= <<>> => c.pre /= <<>>
  /\ IF c.op \in {"", "=", "~>"} THEN (c.op = "~>" => CompareVersions(v, Zeros(c)) >= 0) /\ Agree(v.n, c.n, Len(c.n) - (IF c.op = "~>" THEN 1 ELSE 0))
     ELSE IF c.op = "!=" THEN CompareVersions(v, Zeros(c)) /= 0
     ELSE Meets(c.op, CompareVersions(v, Zeros(c)))
HashicorpNewValue(current, t, strategy) ==
  IF strategy = "pin" \/ Full(current[1][1]) THEN Exactly(t)
  ELSE Exactly([op |-> current[1][1].op, n |-> To(t.n, Len(current[1][1].n)), pre |-> <<>>, wild |-> FALSE])

\* --------------------------------------------------------------------- apk
\* [n, letter, sufs <<<<rank, k>>, ...>>, rev]; more numbers win, an absent
\* suffix is the bare version, rank 0.
SuffixRank(name) == CASE name = "alpha" -> -4 [] name = "beta" -> -3 [] name = "pre" -> -2 [] name = "rc" -> -1
                      [] name = "cvs" -> 1 [] name = "svn" -> 2 [] name = "git" -> 3 [] name = "hg" -> 4 [] name = "p" -> 5
Suffix(v, i) == IF i <= Len(v.sufs) THEN <<SuffixRank(v.sufs[i][1]), v.sufs[i][2]>> ELSE <<0, 0>>
SuffixCmp(s, t) == IF s[1] /= t[1] THEN Sign(s[1], t[1]) ELSE Sign(s[2], t[2])
ApkCompare(a, b) ==
  FirstSign(<<DecidedAt(FirstDiff(a.n, b.n), a.n, b.n, Sign(Len(a.n), Len(b.n))), Sign(a.letter, b.letter)>>
            \o [i \in 1 .. Longer(a.sufs, b.sufs) |-> SuffixCmp(Suffix(a, i), Suffix(b, i))] \o <<Sign(a.rev, b.rev)>>)
ApkStable(v) == \A i \in DOMAIN v.sufs : SuffixRank(v.sufs[i][1]) >= 0

\* ------------------------------------------------------------------- regex
\* [n (the groups the pattern binds), pre, compatibility]: other words of
\* compatibility are not compared.
RegexCompare(a, b) ==
  IF a.compatibility /= b.compatibility THEN 0 ELSE FirstSign(<<ReleaseCmp(a.n, b.n), ComparePre(a.pre, b.pre)>>)
RegexHolds(v, r) == v.compatibility = r.compatibility /\ Agree(v.n, r.n, Len(r.n))
RegexStable(v) == v.pre = <<>>

\* ------------------------------------- go, go-mod-directive, semver-coerced
\* go: [n, pre, pseudo]; the order sees the first three numbers and no more.
GoCompare(a, b) == ReleaseCmp(To(a.n, 3), To(b.n, 3))
GoStable(v) == v.pre = <<>> /\ Len(v.n) <= 3
GoHolds(v, r) == Len(r.n) <= Len(v.n) /\ Agree(v.n, r.n, Len(r.n)) /\ (r.pre = <<>> \/ r.pre = v.pre)

\* A directive is two or three numbers: a floor within its major.
DirectiveHolds(v, r) == Len(r.n) \in {2, 3} /\ r.pre = <<>> /\ Full(v) /\ v.pre = <<>> /\ v.n[1] = r.n[1] /\ CompareVersions(v, Zeros(r)) >= 0
DirectiveNewValue(current, t, strategy) ==
  CASE strategy = "bump" -> Exactly([t EXCEPT !.n = IF @[3] = 0 THEN To(@, 2) ELSE @, !.pre = <<>>])
    [] strategy = "replace" -> IF DirectiveHolds(t, current[1][1]) THEN current ELSE Exactly(t)
    [] OTHER -> current

CoercedStable(v) == Len(v.n) <= 3 /\ v.pre = <<>>

\* ----------------------------------------------------------- the interface
Orders(s, a, b) ==
  CASE s = "pep440" -> PepCompare(a, b) [] s = "composer" -> ComposerCompare(a, b) [] s = "apk" -> ApkCompare(a, b)
    [] s = "regex" -> RegexCompare(a, b) [] s \in {"go", "semver-coerced"} -> GoCompare(a, b) [] OTHER -> CompareVersions(a, b)
Holds(s, v, c) ==
  CASE s = "pep440" -> PepMatches(v, c) [] s = "composer" -> ComposerHolds(v, c) [] s = "hashicorp" -> HashicorpHolds(v, c)
    [] s = "regex" -> RegexHolds(v, c) [] s = "go" -> GoHolds(v, c) [] s = "go-mod-directive" -> DirectiveHolds(v, c)
    [] OTHER -> Orders(s, v, c) = 0
Admits(s, v, range) == \E a \in DOMAIN range : \A i \in DOMAIN range[a] : Holds(s, v, range[a][i])
Settled(s, v) ==
  CASE s = "pep440" -> PepStable(v) [] s = "composer" -> ComposerStable(v) [] s = "apk" -> ApkStable(v) [] s = "regex" -> RegexStable(v)
    [] s = "go" -> GoStable(v) [] s = "semver-coerced" -> CoercedStable(v) [] OTHER -> v.pre = <<>>
Moved(s, current, t, strategy) ==
  CASE s = "pep440" -> PepNewValue(current, t, strategy) [] s = "composer" -> ComposerNewValue(current, t, strategy)
    [] s = "hashicorp" -> HashicorpNewValue(current, t, strategy) [] s = "go-mod-directive" -> DirectiveNewValue(current, t, strategy)
    [] OTHER -> Exactly(t)

\* ---------------------------------------------------------------- reference
Comparable(s, a, b) == s = "regex" => a.compatibility = b.compatibility
Local(s, v) == s = "pep440" /\ v.local /= <<>>
Ordered(s, a, b, vs) ==
  /\ Orders(s, a, b) = -Orders(s, b, a)
  /\ Orders(s, a, b) >= 0 /\ Comparable(s, a, b) =>
       \A x \in vs : Orders(s, b, x) >= 0 /\ Comparable(s, b, x) => Orders(s, a, x) >= 0

\* What one constraint admits of the settled versions has no gap.
Whole(s, a, b, vs, ranges) ==
  \A range \in ranges : \A i \in DOMAIN range[1] :
    LET c == range[1][i]
    IN Holds(s, a, c) /\ Holds(s, b, c) /\ c.op /= "!=" /\ Comparable(s, a, b) =>
         \A x \in vs : Settled(s, x) /\ ~Local(s, x) /\ Comparable(s, a, x) /\ Orders(s, x, a) > 0 /\ Orders(s, b, x) > 0 => Holds(s, x, c)

\* The constraints that can say any target: an exclusive bound and an upper
\* one cannot, nor one that states less than it compares, nor a tilde of three
\* numbers that crosses its major (README).
Sayable(s, range, t, strategy) ==
  LET c == range[1][1]
  IN CASE s = "pep440" -> c.op \notin {">", "!="} /\ (c.op = "~=" \/ c.wild => t.epoch = 0)
       [] s = "composer" -> (Len(range) = 1 => c.op \in {"^", ">="} \/ (c.op = "~" /\ (Len(c.n) < 3 \/ At(t.n, 1) = At(c.n, 1))) \/ (c.op \in {"", "="} /\ ~c.wild /\ Len(c.n) = 3))
       [] s = "hashicorp" -> c.op \in {"~>", ">=", "", "="} \/ strategy = "pin"
       [] s = "go-mod-directive" -> strategy \in {"bump", "replace"}
       [] OTHER -> TRUE
ReachedBy(s, a, vs, range, strategy, r) ==
  /\ Settled(s, a) /\ ~Local(s, a) /\ (\A x \in vs : Admits(s, x, range) => Orders(s, a, x) > 0) /\ Sayable(s, range, a, strategy) /\ r /= Refused => Admits(s, a, r)
  /\ s = "composer" /\ strategy = "widen" => \A x \in vs : Admits(s, x, range) => Admits(s, x, r)
Reached(s, a, vs, range, strategy) == ReachedBy(s, a, vs, range, strategy, Moved(s, range, a, strategy))

(***************************************************************************)
(* Every scheme orders its versions, a constraint admits no version between *)
(* which it skips one, and a value rewritten for a target admits the target *)
(* - and, widened, all it admitted before.                                  *)
(***************************************************************************)
Sound(s, a, b, vs, ranges, strategy) ==
  /\ Ordered(s, a, b, vs)
  /\ Settled(s, a) /\ Settled(s, b) /\ ~Local(s, a) /\ ~Local(s, b) => Whole(s, a, b, vs, ranges)
  /\ a = b => \A range \in ranges : Reached(s, a, vs, range, strategy)
=============================================================================
