------------------------------ MODULE Versions ------------------------------
(***************************************************************************)
(* The versioning schemes as the planner uses them: semverx, versioning.go  *)
(* and the schemes semver, semver-partial, npm, node, docker and loose.     *)
(*                                                                          *)
(* A value as written is [op, n, pre]: an operator ("" for none), the one   *)
(* to three numbers stated, and the identifiers after the dash.  An         *)
(* identifier is <<0, k>> for the number k and <<1, k>> for the k-th word,  *)
(* so that words keep an order.  For docker and loose, pre is the suffix.   *)
(* A release is a value without an operator and with three numbers (docker  *)
(* and loose: with any).                                                    *)
(***************************************************************************)
EXTENDS Integers, Sequences, FiniteSets

\* Comparisons answer -1, 0 or 1.
Sign(a, b) == IF a < b THEN -1 ELSE IF a > b THEN 1 ELSE 0

\* The first place two sequences differ at, 0 if neither has one.
FirstOf(S) == IF S = {} THEN 0 ELSE CHOOSE i \in S : \A j \in S : i <= j
FirstDiff(s, t) == FirstOf({i \in DOMAIN s \cap DOMAIN t : s[i] /= t[i]})
DecidedAt(i, s, t, tie) == IF i > 0 THEN Sign(s[i], t[i]) ELSE tie

-----------------------------------------------------------------------------
\* semverx
Full(v) == v.op = "" /\ Len(v.n) = 3

MutCompareIdents(a, b) == IF a[1] /= b[1] THEN Sign(b[1], a[1]) ELSE Sign(a[2], b[2])
\* Numbers order as numbers and rank below words.
CompareIdents(a, b) == IF a[1] /= b[1] THEN Sign(a[1], b[1]) ELSE Sign(a[2], b[2])

\* A version without a prerelease outranks one with; a longer list of equal
\* identifiers outranks its prefix.
IdentsFrom(i, p, q, tie) == IF i > 0 THEN CompareIdents(p[i], q[i]) ELSE tie
ComparePre(p, q) ==
  IF p = <<>> \/ q = <<>> THEN Sign(Len(q), Len(p)) ELSE IdentsFrom(FirstDiff(p, q), p, q, Sign(Len(p), Len(q)))

CompareVersions(a, b) == DecidedAt(FirstDiff(a.n, b.n), a.n, b.n, ComparePre(a.pre, b.pre))

SameTriple(a, b) == a.n = b.n
Padded(s) == [i \in 1..3 |-> IF i <= Len(s) THEN s[i] ELSE 0]
Zeros(c) == [c EXCEPT !.n = Padded(@)]

\* Up to the next non-zero leading component.
Caret(v, b) == IF b.n[1] /= 0 THEN v.n[1] = b.n[1]
               ELSE IF b.n[2] /= 0 THEN v.n[1] = 0 /\ v.n[2] = b.n[2]
               ELSE v.n = b.n

-----------------------------------------------------------------------------
\* What an operator asks of a comparison with its version.
Meets(op, c) ==
  CASE op \in {"", "="} -> c = 0
    [] op = ">" -> c > 0
    [] op = "<" -> c < 0
    [] op = "<=" -> c <= 0
    [] op \in {">=", "^", "~"} -> c >= 0

\* semver: one operator before a full version.
SemverSatisfies(v, r) ==
  /\ Full(v) /\ Len(r.n) = 3
  /\ v.pre /= <<>> => r.pre /= <<>> /\ SameTriple(v, r)
  /\ Meets(r.op, CompareVersions(v, r))
  /\ r.op = "^" => Caret(v, r)
  /\ r.op = "~" => v.n[1] = r.n[1] /\ v.n[2] = r.n[2]

\* semver-partial: a prefix of numbers, met by stable versions only.
MutPartialSatisfies(v, r) == Full(v) /\ \A i \in DOMAIN r.n : v.n[i] = r.n[i]
PartialSatisfies(v, r) == Full(v) /\ v.pre = <<>> /\ r.op = "" /\ \A i \in DOMAIN r.n : v.n[i] = r.n[i]

\* npm: one comparator (satisfiesOne).  What is not stated counts as zero.
NpmSatisfiesOne(v, r) ==
  /\ v.pre /= <<>> => r.pre /= <<>>
  /\ IF r.op \in {"", "="} THEN \A i \in DOMAIN r.n : v.n[i] = r.n[i]
     ELSE Meets(r.op, CompareVersions(v, Zeros(r)))
  /\ r.op = "^" => Caret(v, Zeros(r))
  /\ r.op = "~" => v.n[1] = r.n[1] /\ (Len(r.n) >= 2 => v.n[2] = r.n[2])

\* npm: alternatives of comparators, one of which must hold in full.
NpmSatisfies(v, range) ==
  Full(v) /\ \E k \in DOMAIN range : \A i \in DOMAIN range[k] : NpmSatisfiesOne(v, range[k][i])

\* node calls the even majors from 4 on stable.
NodeStable(v) == Full(v) /\ v.pre = <<>> /\ v.n[1] >= 4 /\ v.n[1] % 2 = 0

-----------------------------------------------------------------------------
\* docker: fewer numbers are greater, suffixes order in reverse.
DockerCompare(a, b) ==
  DecidedAt(FirstDiff(a.n, b.n), a.n, b.n,
    IF Len(a.n) /= Len(b.n) THEN Sign(Len(b.n), Len(a.n))
    ELSE IdentsFrom(FirstDiff(a.pre, b.pre), b.pre, a.pre, Sign(Len(b.pre), Len(a.pre))))

MutDockerCompatible(c, cur) == Len(c.n) = Len(cur.n)
DockerCompatible(c, cur) == Len(c.n) = Len(cur.n) /\ c.pre = cur.pre

DockerSatisfies(v, r) ==
  Len(r.n) <= Len(v.n) /\ v.pre = r.pre /\ \A i \in DOMAIN r.n : v.n[i] = r.n[i]

\* The alphabetic head of the suffix: its first word.
Family(t) == LET words == {i \in DOMAIN t.pre : t.pre[i][1] = 1}
             IN IF words = {} THEN <<>> ELSE t.pre[FirstOf(words)]

\* The numbers alone, missing ones read as zero.
NumsLess(a, b) == DecidedAt(FirstDiff(Padded(a), Padded(b)), Padded(a), Padded(b), 0) < 0

Differ(a, b, i) == Len(a) >= i /\ Len(b) >= i /\ a[i] /= b[i]
DockerUpdateType(from, to) ==
  IF from = to \/ Family(from) /= Family(to) THEN "unknown"
  ELSE IF from.n = to.n THEN "compatibility"
  ELSE IF NumsLess(to.n, from.n) THEN "rollback"
  ELSE IF Differ(from.n, to.n, 1) THEN "major"
  ELSE IF ~Differ(from.n, to.n, 2) /\ Differ(from.n, to.n, 3) THEN "patch"
  ELSE "minor"

\* loose: a longer version wins a shared prefix, a suffix loses to none, and
\* only the same bytes satisfy or are equal.
LooseCompare(a, b) ==
  DecidedAt(FirstDiff(a.n, b.n), a.n, b.n,
    IF Len(a.n) /= Len(b.n) THEN Sign(Len(a.n), Len(b.n)) ELSE ComparePre(a.pre, b.pre))

-----------------------------------------------------------------------------
\* The interface, by the name of the scheme.
Schemes == {"semver", "semver-partial", "npm", "node", "docker", "loose"}
Plain == {"docker", "loose"}     \* every value is a version, none a range

IsVersion(s, v) == IF s \in Plain THEN TRUE ELSE Full(v)
IsValid(s, v) == IF s = "semver" THEN Full(v) ELSE TRUE
IsStable(s, v) == CASE s \in Plain -> TRUE
                    [] s = "node" -> NodeStable(v)
                    [] OTHER -> Full(v) /\ v.pre = <<>>

Compare(s, a, b) ==
  CASE s = "docker" -> DockerCompare(a, b)
    [] s = "loose" -> LooseCompare(a, b)
    [] s \notin Plain /\ Full(a) /\ Full(b) -> CompareVersions(a, b)
    [] s \notin Plain /\ ~(Full(a) /\ Full(b)) ->
         IF s = "semver-partial" THEN 0 ELSE (IF Full(a) THEN 1 ELSE 0) - (IF Full(b) THEN 1 ELSE 0)

Satisfies(s, v, r) ==
  CASE s = "semver" -> SemverSatisfies(v, r)
    [] s = "semver-partial" -> PartialSatisfies(v, r)
    [] s \in {"npm", "node"} -> Full(v) /\ NpmSatisfiesOne(v, r)
    [] s = "docker" -> DockerSatisfies(v, r)
    [] s = "loose" -> v = r

IsCompatible(s, c, cur) ==
  CASE s = "docker" -> DockerCompatible(c, cur)
    [] s \in {"npm", "node"} -> Full(c)
    [] OTHER -> IsValid(s, c)

\* The generic classification, which docker replaces with its own.
UpdateType(s, from, to) ==
  IF s = "docker" THEN DockerUpdateType(from, to)
  ELSE IF from = to \/ ~IsValid(s, from) \/ ~IsValid(s, to) THEN "unknown"
  ELSE IF Compare(s, to, from) < 0 THEN "rollback"
  ELSE IF s \notin Plain /\ ~(Full(from) /\ Full(to)) THEN "unknown"
  ELSE IF Differ(from.n, to.n, 1) THEN "major"
  ELSE IF Len(from.n) < 2 \/ Len(to.n) < 2 \/ from.n[2] /= to.n[2] THEN "minor"
  ELSE "patch"

\* npm keeps the operator and as many numbers as were stated, semver-partial
\* the numbers, docker the suffix; semver and loose write the version.
MutNpmNewValue(cur, t) == t
NpmNewValue(cur, t) == IF Full(cur) THEN t ELSE [op |-> cur.op, n |-> SubSeq(t.n, 1, Len(cur.n)), pre |-> <<>>]
NewValue(s, cur, t, strategy) ==
  IF strategy = "pin" /\ s \in {"npm", "node", "semver-partial"} THEN t
  ELSE CASE s \in {"npm", "node"} -> NpmNewValue(cur, t)
         [] s = "semver-partial" /\ Len(cur.n) < Len(t.n) -> [t EXCEPT !.n = SubSeq(t.n, 1, Len(cur.n)), !.pre = <<>>]
         [] s = "docker" /\ t.pre = <<>> -> [t EXCEPT !.pre = cur.pre]
         [] OTHER -> t

\* Latest and Sort: the greatest and the least of a non-empty set.
Latest(s, V) == CHOOSE v \in V : \A w \in V : Compare(s, w, v) <= 0
Least(s, V) == CHOOSE v \in V : \A w \in V : Compare(s, v, w) <= 0
=============================================================================
