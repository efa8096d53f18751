----------------------------- MODULE MCAnswers -----------------------------
EXTENDS Answers, TLC

\* ---- schedules
Clause == {<<"after", 0>>, <<"after", 60>>, <<"after", 120>>, <<"before", 60>>, <<"before", 180>>, <<"weekday">>, <<"weekend">>,
           <<"on", {1}>>, <<"on", {0, 1}>>, <<"dayofmonth", 1>>}
\* One clause names the days, and last: what is written behind them is lost,
\* and days after "every weekday" replace it (README).
DaysLast(p) == \A i, j \in DOMAIN p : p[i][1] \in {"on", "weekday", "weekend"} /\ i /= j =>
                 j < i /\ p[j][1] \notin {"on", "weekday", "weekend"}
MCPhrases == {p \in UNION {[1 .. n -> Clause] : n \in 1 .. 3} : DaysLast(p)}
MCInstants == [minute : {0}, hour : {0, 1, 2, 3}, dom : {1, 2}, month : {1}, dow : {0, 1, 6}]

\* ---- settings
No == [k \in {} |-> ""]
Doc(extends, keys, when, rules) == [extends |-> extends, keys |-> keys, when |-> when, rules |-> rules, notes |-> <<>>]
Named(n) == "matchDepNames" :> [yes |-> {{n}}, no |-> {}]
NotNamed(n) == "matchDepNames" :> [yes |-> {}, no |-> {{n}}]
Ranged == "matchCurrentVersion" :> [regex |-> FALSE, admits |-> {}, negate |-> FALSE, of |-> [sch \in {"loose"} |-> {"1"}]]
Merging(b) == "automerge" :> b
Enabling(b) == "enabled" :> b
Versioned == "versioning" :> "loose"
Rules == {<<>>, <<Doc(<<>>, Merging(TRUE), Named("d"), <<>>)>>, <<Doc(<<>>, Enabling(FALSE), NotNamed("e"), <<>>)>>,
          <<Doc(<<>>, Versioned, No, <<>>), Doc(<<>>, Enabling(FALSE), Ranged, <<>>)>>,
          <<Doc(<<"r">>, Merging(FALSE), No, <<>>)>>, <<Doc(<<"q">>, No, No, <<>>)>>}
FewRules == {<<>>, <<Doc(<<>>, Enabling(TRUE), Ranged, <<>>)>>}
Entry(doc, inert) == [doc |-> doc, inert |-> inert, builtin |-> TRUE]
\* The runner's file extends the preset p, p may extend q and q may extend p.
Runners == {Doc(<<"p">>, k, No, <<>>) : k \in {Enabling(FALSE), Merging(TRUE)}}
PDocs == {Doc(x, k, No, r) : x \in {<<>>, <<"q">>}, k \in {No, "minimumReleaseAge" :> "3 days"}, r \in FewRules}
QDocs == {Doc(<<>>, Enabling(TRUE), No, <<>>), Doc(<<"p">>, No, No, <<>>), Doc(<<>>, No, Named("d"), <<>>)}
Repos == {C!NoFile} \cup
         {[file |-> TRUE, doc |-> Doc(x, k, No, r)] :
            x \in {<<"runner">>, <<"runner", "q">>, <<"gone">>}, k \in {No, Merging(FALSE), "minimumReleaseAge" :> "0"}, r \in Rules}
RDoc == Doc(<<>>, No, Named("d"), <<>>)
Subjects == {[Labelled EXCEPT !.depName = n, !.packageName = n] : n \in {"d", "e"}}
MCConfigurations == {[runner |-> t, repo |-> own, subject |-> s,
                      lib |-> ("p" :> Entry(p, FALSE)) @@ ("q" :> Entry(q, TRUE)) @@ ("r" :> Entry(RDoc, FALSE))]
                     : t \in Runners, own \in Repos, p \in PDocs, q \in QDocs, s \in Subjects}

\* ---- the label: rules that look at it, or at the type, or at nothing, and
\* set keys at the top level or in the object of an update type or of a fix.
When == {No, "matchEffective" :> [yes |-> {{"patch"}}, no |-> {}], "matchUpdateTypes" :> [yes |-> {{"minor"}}, no |-> {}]}
LabelRule == {Doc(<<>>, k, w, <<>>) : w \in When, k \in {Merging(TRUE), Merging(FALSE), "trustEffective" :> TRUE, Enabling(FALSE)}}
             \cup {Doc(<<>>, k, w, <<>>) : w \in When, k \in {"minor" :> Merging(TRUE), "minor" :> Merging(FALSE),
                                                         "vulnerabilityAlerts" :> Merging(TRUE)}}
MCRuleLists == UNION {[1 .. n -> LabelRule] : n \in 0 .. 2}
MCRiskyUpdates == [type : {"minor", "major"}, fix : {FALSE, TRUE}, exploited : {FALSE}, declared : {2, 3}, effective : {0, 1, 3}]

\* ---- HTTP: two callers share a host of one slot, the third asks another
URL(h, path) == [scheme |-> "https", host |-> h, port |-> 0, written |-> h, loopback |-> FALSE, path |-> path, dots |-> FALSE]
MCHostRules == (<<"a">> :> [max |-> 1, paths |-> {"ok"}, header |-> "own"]) @@ (<<"b">> :> [max |-> 0, paths |-> {"any"}, header |-> "auth"])
              @@ (<<"a", 8>> :> [max |-> 2, paths |-> {"no"}, header |-> "own"])
Hops == {<<URL("a", "ok")>>, <<URL("a", "ok"), URL("a", "no")>>, <<URL("a", "ok"), URL("b", "no"), URL("a", "ok")>>,
         <<URL("a", "ok"), [URL("a", "ok") EXCEPT !.scheme = "http"], URL("a", "ok"), URL("a", "no")>>,
         <<[URL("a", "ok") EXCEPT !.dots = TRUE], URL("a", "ok")>>, <<[URL("a", "no") EXCEPT !.port = 8], URL("a", "ok")>>}
Gets(u) == [verb |-> "get", urls |-> u]
MCLoads == {("c1" :> Gets(u)) @@ ("c2" :> Gets(<<URL("a", "ok")>>)) @@ ("c3" :> v)
            : u \in Hops, v \in {[verb |-> "stream", urls |-> <<URL("a", "ok")>>], Gets(<<URL("b", "ok"), URL("c", "ok"), URL("b", "ok")>>)}}
MCReplies == [kind : {"ok", "network", "status"}, after : {[form |-> "none", n |-> 0]}]
             \cup {[kind |-> "busy", after |-> [form |-> f, n |-> n]] : f \in {"seconds", "date"}, n \in {-1, 3}}

\* ---- advisories: three versions, the second a prerelease
Event(k, v) == [kind |-> k, at |-> v]
From(v) == Event("introduced", v)
To(v) == Event("fixed", v)
Through(v) == Event("last", v)
Ranged1(events) == [type |-> "SEMVER", events |-> events]
Entry1(packages, versions, ranges) == [packages |-> packages, versions |-> versions, ranges |-> ranges]
Record(id, aliases, affected) == [id |-> id, aliases |-> aliases, affected |-> affected]
Segments == {<<From(0), To(2)>>, <<From(0), To(2), From(3)>>, <<From(1), Through(1), From(2), To(3)>>, <<From(2), To(3)>>, <<Through(2)>>, <<From(0), From(2), To(3)>>}
Records(eco) == {Record("G", {"C"}, <<Entry1({<<eco, "p">>}, vs, <<Ranged1(e)>>)>>) : vs \in {{}, {1}}, e \in Segments}
                \cup {Record("G", {"C"}, <<Entry1({<<eco, "p">>}, {}, <<[type |-> "GIT", events |-> <<From(0), To(3)>>], Ranged1(e)>>),
                                           Entry1({<<eco, "q">>}, {1}, <<Ranged1(<<From(0), To(3)>>)>>)>>) : e \in {<<From(1), To(2)>>}}
Below(v) == <<[op |-> "<", at |-> v]>>
Listed(id, aliases, affected) == [id |-> id, aliases |-> aliases, name |-> "p", modified |-> 0, affected |-> affected]
Up(list) == [reachable |-> TRUE, list |-> list]
Down == [reachable |-> FALSE, list |-> <<>>]
Lists == {Down} \cup {Up(l) : l \in {<<>>, <<Listed("P", {"C"}, <<Below(3)>>)>>, <<Listed("P", {}, <<Below(2), <<[op |-> ">=", at |-> 2], [op |-> "<=", at |-> 2]>>>>)>>,
          <<Listed("P", {}, <<<<[op |-> ">=", at |-> 1], [op |-> "<", at |-> 2]>>>>), Listed("R", {"D"}, <<Below(3)>>)>>}}
Feeds == {[sources |-> {}], [sources |-> {[readable |-> FALSE, docs |-> {}]}],
          [sources |-> {[readable |-> TRUE, docs |-> {Record("X", {"C"}, <<Entry1({<<"purl", "Packagist", "p">>, <<"GitLab", "p">>}, {}, <<Ranged1(<<From(0), To(3)>>)>>)>>)}]}]}
KEVs == {[cached |-> {}, at |-> 0, feed |-> {"C"}], [cached |-> {"P"}, at |-> 0, feed |-> {}]}
World(osv, list, feed, kev) == [osv |-> osv, packagist |-> list,
                                feed |-> feed, kev |-> kev, now |-> 1]
OSVOf(docs, lost) == [reachable |-> TRUE, docs |-> docs, lost |-> lost]
Worlds(eco) == {World(o, l, f, k) : o \in {OSVOf({r}, {}) : r \in Records(eco)} \cup {OSVOf({Record("G", {}, <<>>)}, {"G"}), [reachable |-> FALSE, docs |-> {}, lost |-> {}]},
                                    l \in Lists, f \in Feeds, k \in {[cached |-> {"P"}, at |-> 0, feed |-> {"C"}]}}
               \cup {World(OSVOf({r}, {}), Up(<<>>), [sources |-> {}], k) : r \in Records(eco), k \in KEVs}
Exact1(v) == [kind |-> "version", at |-> v]
Admitting(vs, or) == [kind |-> "range", admits |-> vs, or |-> or]
Dep(ds, value, locked) == [datasource |-> ds, name |-> "p", scheme |-> "default", ecosystem |-> IF ds = "custom" THEN "Wolfi" ELSE "", explicit |-> FALSE,
                           value |-> value, locked |-> locked, releases |-> {1, 2, 3}, skip |-> "none", allowUnstable |-> FALSE,
                           withdrawn |-> 1 :> [to |-> 2, ids |-> {}], withdrawalList |-> TRUE]
Deps == {Dep("packagist", Exact1(1), 0), Dep("packagist", Exact1(2), 0), Dep("packagist", Admitting({2, 3}, FALSE), 0), Dep("packagist", Admitting({1, 3}, TRUE), 0),
         Dep("packagist", Admitting({1, 2, 3}, FALSE), 1), [Dep("packagist", Exact1(1), 0) EXCEPT !.skip = "disabled"],
         [Dep("packagist", Exact1(1), 0) EXCEPT !.releases = {1, 3}, !.withdrawn = 1 :> [to |-> 0, ids |-> {"W"}]],
         Dep("gitlab-tags", Exact1(1), 0), Dep("custom", Exact1(1), 0)}
Alerting == [osvAlerts |-> TRUE, alerts |-> "on", transitive |-> TRUE]
MCExposures == {[cfg |-> Alerting, dep |-> d, world |-> w] : d \in Deps, w \in Worlds("Packagist")}
               \cup {[cfg |-> c, dep |-> Dep("golang-version", v, 0), world |-> w]
                     : v \in {Exact1(1), Exact1(2), Admitting({1, 2}, FALSE)},
                       c \in {Alerting, [Alerting EXCEPT !.alerts = "off"], [Alerting EXCEPT !.osvAlerts = FALSE]},
                       w \in {World(OSVOf({Record("G", {"C"}, <<Entry1({<<"Go", "stdlib">>}, {}, <<Ranged1(e)>>)>>)}, {}), Up(<<>>), [sources |-> {}], k) : e \in Segments, k \in KEVs}}

\* ---- the watch: r1 and r2 are selected, c is the control
Key(v) == [datasource |-> "packagist", name |-> "p", version |-> v, scheme |-> "default", ecosystem |-> "", explicit |-> FALSE]
Carries(r, v) == [repo |-> r, key |-> Key(v)]
Indexes == {<<Carries("r1", 1)>>, <<Carries("c", 1), Carries("r1", 1)>>, <<Carries("c", 1), Carries("r1", 2)>>,
            <<Carries("r1", 1), Carries("r2", 1)>>, <<Carries("r1", 1), Carries("r2", 2)>>, <<Carries("r1", 0), Carries("r2", 2)>>,
            <<Carries("out", 1), Carries("r1", 2)>>}
WatchWorlds == {[World(o, l, f, [cached |-> {}, at |-> 0, feed |-> {}]) EXCEPT !.now = 2]
                : o \in {OSVOf({r}, lost) : r \in {Record("G", {"C"}, <<Entry1({<<"Packagist", "p">>}, {}, <<Ranged1(<<From(0), To(3)>>)>>)>>),
                                                   Record("G", {"C"}, <<Entry1({<<"Packagist", "p">>}, {}, <<Ranged1(<<From(2), To(3)>>)>>)>>)}, lost \in {{}, {"G"}}}
                        \cup {[reachable |-> FALSE, docs |-> {}, lost |-> {}]},
                  l \in {Down, Up(<<>>), Up(<<Listed("P", {"C"}, <<Below(3)>>)>>), Up(<<[Listed("P", {}, <<Below(3)>>) EXCEPT !.modified = 2]>>)}, f \in Feeds}
MCWatches == [index : Indexes, only : {{"r1", "r2"}}, control : {"c", "none"}, worlds : WatchWorlds \X WatchWorlds]

\* Two files: a text, value@digest, a bare value; a value and its digest
\* written apart, in both orders.
Item(v, d, g, first) == [value |-> v, digest |-> d, gap |-> g, first |-> first]
Layouts == <<<<Item(<<"t">>, <<>>, <<>>, FALSE), Item(<<"a">>, <<"d">>, <<"@">>, FALSE), Item(<<"a">>, <<>>, <<>>, FALSE)>>,
             <<Item(<<"a">>, <<"d">>, <<"t", "@">>, FALSE), Item(<<"a">>, <<"d">>, <<"=">>, TRUE)>>>>
Places == {<<1, 2>>, <<1, 3>>, <<2, 1>>, <<2, 2>>}
Asks(p, it, type, nv, nd, multi, all, writes) ==
  [file |-> p[1], item |-> p[2], type |-> type, blocked |-> ~writes, lockOnly |-> FALSE, multi |-> multi, value |-> it.value,
   digest |-> IF all THEN it.digest ELSE <<>>, newValue |-> nv, newDigest |-> nd,
   locus |-> IF all THEN E!Spot(it, E!At(Layouts[p[1]], p[2]))
             ELSE [E!Spot(it, E!At(Layouts[p[1]], p[2])) EXCEPT !.ds = -1, !.de = -1]]
AskOf(p, type, nv, nd, multi, all, writes) == Asks(p, Layouts[p[1]][p[2]], type, nv, nd, multi, all, writes)
Single == {AskOf(p, type, nv, nd, multi, TRUE, writes) :
             p \in Places, type \in {"minor", "pinDigest"}, nv \in {<<>>, <<"a">>, <<"b", "b">>}, nd \in {<<>>, <<"d">>, <<"e", "e">>},
             multi \in BOOLEAN, writes \in BOOLEAN}
Paired == {AskOf(p, "minor", nv, nd, TRUE, all, TRUE) :
             p \in Places, nv \in {<<>>, <<"b", "b">>}, nd \in {<<"d">>, <<"e", "e">>}, all \in BOOLEAN}
There(p, which) == [Layouts EXCEPT ![p[1]][p[2]][which] = <<"z">>]
Moved == {Layouts} \cup {There(p, "value") : p \in Places \cup {<<1, 1>>}} \cup {There(p, "digest") : p \in Places \ {<<1, 3>>}}
MCRewrites ==
  [planned : {Layouts}, there : Moved, ups : {<<u>> : u \in Single}, failing : {0}]
  \cup [planned : {Layouts}, there : {Layouts, There(<<1, 1>>, "value"), There(<<2, 1>>, "digest")}, ups : Paired \X Paired, failing : {0, 2}]

\* A root and a member below it; what lies there and what is advised against.
Web == <<"web">>
Manifest(manager, dir, deps) == [manager |-> manager, dir |-> dir, deps |-> deps]
NpmFound == {{Manifest("npm", <<>>, r), Manifest("npm", Web, {"x", "y"})} : r \in {{}, {"x"}}} \cup {{Manifest("npm", Web, {"x", "y"})}}
NpmLocks == {{}, {<<<<>>, "package-lock.json">>}, {<<<<>>, "pnpm-lock.yaml">>}, {<<<<>>, "yarn.lock">>}, {<<Web, "package-lock.json">>},
             {<<<<>>, "package-lock.json">>, <<Web, "package-lock.json">>}, {<<<<>>, "bun.lock">>}, {<<<<>>, "package-lock.json">>, <<Web, "bun.lock">>}}
OtherFound == {{Manifest("composer", <<>>, {"x"}), Manifest("terraform", Web, {"x", "y"}), Manifest("gomod", Web, {"y"})}}
OtherLocks == {{}, {<<<<>>, "composer.lock">>, <<<<>>, ".terraform.lock.hcl">>, <<Web, "go.sum">>}, {<<Web, ".terraform.lock.hcl">>, <<<<>>, "go.sum">>}}
Trees(locks) == {[files |-> l, readable |-> {p \in l : p[2] \notin {"bun.lock"} /\ p \notin broken}] : l \in locks, broken \in {{}, {<<Web, "package-lock.json">>}}}
Moves(m, d, n, fix, conf) == [manager |-> m, dir |-> d, name |-> n, type |-> "minor", fix |-> fix, blocked |-> FALSE, lockOnly |-> FALSE,
                              advisories |-> <<>>, conf |-> conf]
NpmMoves(found) == {<<Moves("npm", Web, "x", f, c), Moves("npm", Web, "y", FALSE, d)>> : f \in BOOLEAN, c, d \in {"none", "each", "all"}}
                   \cup {<<Moves("npm", Web, "y", f, "none")>> \o r : f \in BOOLEAN,
                          r \in {<<Moves("npm", <<>>, "x", g, "none")>> : g \in IF Manifest("npm", <<>>, {"x"}) \in found THEN BOOLEAN ELSE {}}}
OtherMoves == {<<Moves("composer", <<>>, "x", TRUE, c), Moves("terraform", Web, "x", FALSE, "none"), Moves("gomod", Web, "y", FALSE, "none")>> : c \in {"none", "all"}}
              \cup {<<Moves("terraform", Web, "x", FALSE, "none"), [Moves("terraform", Web, "y", TRUE, "none") EXCEPT !.blocked = b]>> : b \in BOOLEAN}
MCConfs == [each |-> [commands |-> <<<<"sh", "depName">>>>, mode |-> "update"], all |-> [commands |-> <<<<"sh", "depName">>, <<"composer", "update", "depName">>>>, mode |-> "branch"]]
Commands == {<<"sh", "x">>, <<"sh", "y">>, <<"sh", "x", "y">>}
Safe == {c \o <<"--no-plugins", "--no-scripts">> : c \in {<<"composer", "update", "x">>, <<"composer", "update", "y">>, <<"composer", "update", "x", "y">>}}
Unsafe == {<<"composer", "update", "x">>, <<"composer", "update", "x", "y">>}
Advice(locks) == {[l \in {<<m, p>> : m \in {"npm", "composer", "terraform", "gomod"}, p \in locks \cup {T!NoLock}} |-> IF l[1] \in {"npm", "composer"} THEN a ELSE <<>>] :
                   a \in {<<>>, <<[package |-> "z", fixed |-> 1], [package |-> "v", fixed |-> 0], [package |-> "z", fixed |-> 3]>>}}
Scenes(tree, found, moves, narrowed, allowed, tools, refused, hashes) ==
  [tree : {tree}, found : {found}, updates : moves, on : BOOLEAN, narrowed : narrowed, advised : Advice(tree.files), confs : {MCConfs},
   allowed : allowed, tools : tools, refused : refused, hashes : hashes]
AllTools == {"npm", "yarn", "pnpm", "composer", "go", "sh"}
MCCheckouts ==
  UNION {Scenes(t, f, NpmMoves(f), BOOLEAN, {<<Unsafe, Commands \cup Safe>>, <<Commands, Unsafe>>}, {AllTools}, {FALSE}, {TRUE}) : t \in Trees(NpmLocks), f \in NpmFound}
  \cup UNION {Scenes(t, f, OtherMoves, {FALSE}, {<<Commands, Safe>>}, {AllTools, AllTools \ {"go"}}, BOOLEAN, BOOLEAN) : t \in Trees(OtherLocks), f \in OtherFound}

\* ---- versions
Pep(e, n, pre, post, dev, local) == [epoch |-> e, n |-> n, pre |-> pre, post |-> post, dev |-> dev, local |-> local]
Final(n) == Pep(0, n, <<>>, -1, -1, <<>>)
PepVersions == {Final(<<1>>), Final(<<1, 0, 0>>), Final(<<1, 1>>), Final(<<1, 4, 5>>), Final(<<2>>), Pep(1, <<1>>, <<>>, -1, -1, <<>>),
                Pep(0, <<1>>, <<"alpha", 1>>, -1, -1, <<>>), Pep(0, <<1>>, <<"a", 2>>, -1, 1, <<>>), Pep(0, <<1>>, <<"rc", 1>>, -1, -1, <<>>),
                Pep(0, <<1>>, <<"b", 2>>, 3, 4, <<>>), Pep(0, <<1>>, <<>>, -1, 4, <<>>), Pep(0, <<1>>, <<>>, 1, 2, <<>>), Pep(0, <<1>>, <<>>, 1, -1, <<>>),
                Pep(0, <<1>>, <<>>, -1, -1, <<<<0, 1>>, <<1, 5>>>>), Pep(0, <<1>>, <<>>, -1, -1, <<<<1, 5>>>>)}
Spec1(op, v, wild) == [op |-> op, v |-> v, wild |-> wild]
PepRanges == {<<<<Spec1(op, v, FALSE)>>>> : op \in {"", "==", "===", "!=", "<=", ">=", "<", ">"}, v \in {Final(<<1>>), Final(<<1, 1>>), Pep(0, <<1>>, <<"rc", 1>>, -1, -1, <<>>)}}
             \cup {<<<<Spec1("~=", Final(n), FALSE)>>>> : n \in {<<1, 0>>, <<1, 4>>, <<1, 1, 2>>}}
             \cup {<<<<Spec1(op, Final(n), TRUE)>>>> : op \in {"==", "!="}, n \in {<<1>>, <<1, 1>>}}
             \cup {<<<<Spec1(">=", Final(<<1>>), FALSE), Spec1("<", Final(<<2>>), FALSE)>>>>}
Php(n, flag, k) == [n |-> n, flag |-> flag, k |-> k]
PhpVersions == {Php(n, "", 0) : n \in {<<0, 3>>, <<0, 4, 5>>, <<1>>, <<1, 2>>, <<1, 2, 3>>, <<1, 5, 1>>, <<2, 1, 3>>}}
               \cup {Php(<<1, 2>>, f, 1) : f \in {"alpha", "a", "b", "rc", "RC", "dev", "p", "stable"}}
Php1(op, n, flag, wild) == [op |-> op, n |-> n, flag |-> flag, k |-> 0, wild |-> wild]
PhpConstraints == {Php1(op, n, "", FALSE) : op \in {"^", "~", ">=", "<", "<=", ">", "!=", ""}, n \in {<<1>>, <<1, 2>>, <<1, 2, 3>>, <<0, 3>>}}
                  \cup {Php1("", <<1, 2>>, "", TRUE), Php1("*", <<>>, "", FALSE), Php1("^", <<1, 2>>, "beta", FALSE), Php1("=", <<1, 2, 3>>, "", FALSE)}
PhpRanges == {<<<<c>>>> : c \in PhpConstraints} \cup {<<<<Php1(">=", <<1>>, "", FALSE), Php1("<", <<2>>, "", FALSE)>>>>}
             \cup {<<<<Php1("^", <<0, 3>>, "", FALSE)>>, <<Php1(op, <<1, 2>>, "", FALSE)>>>> : op \in {"^", "~"}}
Semver(n, pre) == [op |-> "", n |-> n, pre |-> pre]
SemverVersions == {Semver(n, <<>>) : n \in {<<0, 3, 0>>, <<1, 0, 0>>, <<1, 2, 0>>, <<1, 2, 4>>, <<1, 5, 1>>, <<2, 1, 3>>}} \cup {Semver(<<1, 2, 0>>, p) : p \in {<<<<1, 1>>>>, <<<<0, 1>>>>}}
Hcl(op, n, pre) == [op |-> op, n |-> n, pre |-> pre, wild |-> FALSE]
HclRanges == {<<<<Hcl(op, n, <<>>)>>>> : op \in {"~>", ">=", "<=", "<", ">", "!=", "=", ""}, n \in {<<1>>, <<1, 2>>, <<1, 2, 0>>}}
             \cup {<<<<Hcl(">=", <<1, 2>>, <<>>), Hcl("!=", <<1, 2, 4>>, <<>>)>>>>, <<<<Hcl("~>", <<1, 2, 0>>, <<<<1, 1>>>>)>>>>}
Directives == {<<<<Semver(n, <<>>)>>>> : n \in {<<1, 2>>, <<1, 2, 0>>, <<0, 3>>, <<2, 2>>}}
Apk(n, l, sufs, rev) == [n |-> n, letter |-> l, sufs |-> sufs, rev |-> rev]
ApkVersions == {Apk(<<1, 0>>, 0, <<>>, r) : r \in 0 .. 2} \cup {Apk(<<1, 0>>, 0, <<<<s, k>>>>, 0) : s \in {"alpha", "rc", "git", "p"}, k \in {0, 2}}
               \cup {Apk(<<1, 0>>, 1, <<>>, 0), Apk(<<1>>, 0, <<>>, 0), Apk(<<1, 0>>, 0, <<<<"git", 2>>, <<"rc", 1>>>>, 1)}
Tagged(n, pre, c) == [n |-> n, pre |-> pre, compatibility |-> c]
RegexVersions == {Tagged(n, p, c) : n \in {<<3>>, <<3, 20>>, <<3, 21>>, <<4, 0>>}, p \in {<<>>, <<<<1, 1>>>>, <<<<1, 2>>>>}, c \in {"", "slim"}}
Op1(v) == v @@ ("op" :> "")
One(vs) == {<<<<Op1(v)>>>> : v \in vs}
Mod(n, pre) == [n |-> n, pre |-> pre]
ModVersions == {Mod(n, <<>>) : n \in {<<1>>, <<1, 2>>, <<1, 2, 3>>, <<1, 2, 3, 4>>, <<1, 3, 0>>, <<2, 0, 0>>}} \cup {Mod(<<1, 2, 3>>, <<<<1, 1>>>>), Mod(<<0, 0, 0>>, <<<<0, 9>>>>)}
MCWritten == [s \in {"pep440", "composer", "hashicorp", "apk", "regex", "go", "go-mod-directive", "semver-coerced"} |->
  CASE s = "pep440" -> [versions |-> PepVersions, ranges |-> PepRanges]
    [] s = "composer" -> [versions |-> PhpVersions, ranges |-> PhpRanges]
    [] s = "hashicorp" -> [versions |-> SemverVersions, ranges |-> HclRanges]
    [] s = "apk" -> [versions |-> ApkVersions, ranges |-> One(ApkVersions)]
    [] s = "regex" -> [versions |-> RegexVersions, ranges |-> One(RegexVersions)]
    [] s = "go-mod-directive" -> [versions |-> SemverVersions, ranges |-> Directives]
    [] OTHER -> [versions |-> ModVersions, ranges |-> One(ModVersions)]]

\* ---- names: a dependency found by two managers, one with a scope, an image
Piece(name, ds, manager, file, custom, value) ==
  [name |-> name, datasource |-> ds, manager |-> manager, file |-> file, custom |-> custom, value |-> value]
PipelineFile == <<".gitlab-ci.yml">>
Includes == <<"x", ".gitlab", "y.yml">>
Found == {Piece(<<"a">>, "gitlab-tags", "gitlabci", PipelineFile, FALSE, <<"1">>), Piece(<<"a">>, "gitlab-tags", "regex", PipelineFile, TRUE, <<"1">>),
          Piece(<<"a">>, "docker", "dockerfile", <<"Containerfile">>, FALSE, <<"1">>), Piece(<<"@", "s", "/", "b">>, "npm", "npm", <<"package.json">>, FALSE, <<"1">>),
          Piece(<<"b">>, "docker", "gitlabci", Includes, FALSE, <<>>)}
KeysFor(g, slug, sep, extra) ==
  ("branchName" :> "default") @@ ("branchTopic" :> "default") @@ ("branchPrefix" :> <<"renovate", "/">>) @@ ("groupName" :> g) @@ ("groupSlug" :> slug)
  @@ ("separateMajorMinor" :> sep) @@ ("separateMinorPatch" :> FALSE) @@ ("commitMessageTopic" :> "dependency") @@ ("commitMessageExtra" :> "to")
  @@ ("semanticCommits" :> "auto") @@ ("semanticCommitType" :> "chore") @@ ("semanticCommitScope" :> "deps") @@ ("automerge" :> FALSE)
  @@ ("digest" :> (("branchTopic" :> "digest") @@ ("commitMessageTopic" :> "digest") @@ ("commitMessageExtra" :> "short")))
  @@ ("pinDigest" :> (("groupName" :> <<"Pin", " ", "Dependencies">>) @@ ("groupSlug" :> <<"pin", "-", "dependencies">>)
                      @@ ("group" :> (("commitMessageTopic" :> "dependencies") @@ ("commitMessageExtra" :> "")))))
  @@ ("lockFileMaintenance" :> (("branchTopic" :> "lock-file-maintenance") @@ ("groupName" :> <<>>) @@ ("commitMessageTopic" :> "") @@ ("commitMessageExtra" :> "")))
  @@ ("group" :> (("branchTopic" :> "group") @@ ("commitMessageTopic" :> "group")))
  @@ ("vulnerabilityAlerts" :> (("groupName" :> <<>>) @@ ("branchTopic" :> "vulnerability") @@ ("commitMessageSuffix" :> "[SECURITY]")))
Web1 == <<"~", "Web", " ", "apps", "~">>
MCRulings == <<KeysFor(<<>>, <<>>, TRUE, ""), KeysFor(Web1, <<>>, TRUE, ""), KeysFor(Web1, <<>>, FALSE, ""),
               KeysFor(<<"Other">>, <<"web">>, TRUE, "")>>
Groupings == DOMAIN MCRulings
Kinds == {[type |-> "major", version |-> <<"2", "0">>, value |-> <<"2.0">>], [type |-> "minor", version |-> <<"1", "5">>, value |-> <<"1.5">>],
          [type |-> "minor", version |-> <<"1", "5">>, value |-> <<"^", "1.5">>], [type |-> "digest", version |-> <<>>, value |-> <<>>],
          [type |-> "pinDigest", version |-> <<>>, value |-> <<"1">>], [type |-> "lockFileMaintenance", version |-> <<>>, value |-> <<>>]}
Named1(d, k, fix, cfg) ==
  [dep |-> d, type |-> k.type, newVersion |-> k.version, newValue |-> k.value, single |-> Len(k.value) = 1, digest |-> <<"0c9dec5">>, fix |-> fix,
   cfg |-> cfg]
NamedUps(cfg, kinds) ==
  {Named1(d, k, fix, cfg) : d \in Found, k \in {k \in Kinds : k.type \in kinds}, fix \in {FALSE}}
  \cup {Named1(d, k, TRUE, cfg) : d \in Found, k \in {k \in Kinds : k.type \in kinds \cap {"major", "minor"}}}
Every == {k.type : k \in Kinds}
Committed == {{PipelineFile, Includes}, {PipelineFile, <<"go.sum">>}}
AnyNamed(kinds) == UNION {NamedUps(cfg, kinds) : cfg \in Groupings}
MCProjects == UNION {[ups : NamedUps(cfg, Every) \X NamedUps(cfg, Every), files : Committed] : cfg \in Groupings}
              \cup [ups : AnyNamed({"minor"}) \X AnyNamed({"major", "pinDigest"}), files : {{PipelineFile}}]

\* ---------------------------------------------------------------- dashboards
\* Two branches: what holds them, what the run did with them, whether their
\* request is open; one update is a fix of an exploited dependency, or not.
Held == {"", "dashboardApproval", "schedule", "minimumReleaseAge", "nothingToRefresh", "limit"}
BoardUp(k, fix, type, hold) ==
  [key |-> k, dep |-> k, type |-> type, fix |-> fix, value |-> "v",
   blocks |-> IF hold = "" THEN <<>> ELSE <<[reason |-> "other", until |-> 9], [reason |-> hold, until |-> 3]>>]
BoardDep(k, cves) == [key |-> k, cves |-> cves, withdrawn |-> <<[id |-> "w", fixed |-> "2"]>>, skip |-> "pinned", upToDate |-> FALSE, heldBack |-> ""]
BoardPlan(h, g, fix, type, found) ==
  [branches |-> <<[name |-> "a", hold |-> h, keys |-> <<"x", "y">>], [name |-> "b", hold |-> g, keys |-> <<"z">>]>>,
   updates |-> <<BoardUp("x", fix, type, h), BoardUp("y", FALSE, "minor", h), BoardUp("z", TRUE, "patch", g)>>,
   deps |-> <<BoardDep("x", {"CVE-1"}), BoardDep("y", {}), BoardDep("z", {"CVE-1", "CVE-2"}), BoardDep("q", {"CVE-3"})>>,
   warnings |-> found, unmanaged |-> found]
Actions2 == {[n \in {} |-> ""], [n \in {"a"} |-> "failed"], [n \in {"a", "b"} |-> "failed"], [n \in {"a", "b"} |-> IF n = "a" THEN "failed" ELSE "created"]}
BoardRun(h, g, fix, type, found, states, open) == [plan |-> BoardPlan(h, g, fix, type, found), states |-> states, open |-> open]
BoardRuns ==
  {BoardRun(h, g, TRUE, "major", <<"w", "has no effect">>, states, open) : h, g \in Held, states \in Actions2, open \in SUBSET {"a", "b"}}
  \cup {BoardRun("", g, fix, "minor", [i \in 1 .. n |-> IF i = 3 THEN "has no effect" ELSE "w"], [m \in {} |-> ""], {"a"}) :
          g \in {"", "schedule"}, fix \in {TRUE, FALSE}, n \in {1, 20, 21, 22, 30, 31}}
NextRun == BoardRun("", "schedule", FALSE, "minor", <<>>, [n \in {} |-> ""], {"a"})
Issue1(author, bot, title, labels, pull) == [author |-> author, bot |-> bot, title |-> title, body |-> <<>>, labels |-> labels, pull |-> pull]
BoardIssues == {Issue1("pinup", FALSE, "dashboard", <<"pinup">>, FALSE), Issue1("pinup", TRUE, "dashboard", <<"pinup", "x">>, FALSE),
                Issue1("pinup", TRUE, "other", <<>>, FALSE), Issue1("someone", FALSE, "dashboard", <<>>, FALSE),
                Issue1("another", TRUE, "dashboard", <<>>, FALSE), Issue1("pinup", TRUE, "dashboard", <<>>, TRUE)}
Tracked(host, user, fails, sticks, issues) == [host |-> host, user |-> user, fails |-> fails, sticks |-> sticks, issues |-> issues]
Trackers ==
  {Tracked(host, user, fails, sticks, issues) : host \in {"gitlab", "github"}, user \in BOOLEAN, fails \in BOOLEAN, sticks \in BOOLEAN,
     issues \in {<<>>} \cup {<<i>> : i \in BoardIssues} \cup {<<i, j>> : i, j \in BoardIssues}}
MCBoards ==
  {[run |-> r, next |-> NextRun, tracker |-> Tracked("gitlab", TRUE, FALSE, TRUE, <<>>)] : r \in BoardRuns}
  \cup {[run |-> NextRun, next |-> BoardRun("schedule", "", FALSE, "minor", <<>>, [n \in {} |-> ""], {}), tracker |-> t] :
          t \in {t \in Trackers : (t.host = "gitlab" => t.user) /\ \A i \in DOMAIN t.issues : t.issues[i].author = "pinup" => t.issues[i].bot = ~t.user}}

\* ------------------------------------------------------------------ registries
\* Two lookups: one image under two spellings, two repositories of one
\* registry, one of two registries.  Repository "app" is private or not.
MCHub == "hub"
MCHosts == {"docker.io", "r.io", "localhost"}
Image1(name, at) == [name |-> name, registry |-> at]
Bare1 == Image1(<<"app">>, "")
Spelled == Image1(<<"docker.io", "library", "app">>, "")
Beside == Image1(<<"team", "app">>, "")
Elsewhere == Image1(<<"r.io", "team", "app">>, "")
Configured == Image1(<<"library", "app">>, "r.io")
KeyOf(ref) == D!Resolve(ref)
NoList == [named |-> FALSE, found |-> "no", signature |-> "none", mode |-> "off", entries |-> {}, scope |-> {}]
ListOf(found, signature, mode) ==
  [named |-> TRUE, found |-> found, signature |-> signature, mode |-> mode, entries |-> {<<KeyOf(Bare1), 2>>}, scope |-> {KeyOf(Elsewhere)}]
WorldOf(private, absent, credentials, foreign, https, l) ==
  [private |-> private, absent |-> absent, credentials |-> credentials, foreign |-> foreign, https |-> https, list |-> l]
Wanting(a, aop, b, bop) == [c \in {"s1", "s2"} |-> IF c = "s1" THEN [ref |-> a, op |-> aop] ELSE [ref |-> b, op |-> bop]]
LookupOf(a, aop, b, bop, w, n) ==
  [wants |-> Wanting(a, aop, b, bop), world |-> w, tags |-> [k \in {KeyOf(a), KeyOf(b)} |-> 1 .. n]]
Closed(https, foreign) == WorldOf({KeyOf(Bare1), KeyOf(Beside)}, {}, "hub", foreign, https, NoList)
MCLookups ==
  {LookupOf(Bare1, "tags", b, bop, Closed({"hub", "r.io"}, {}), n) : b \in {Spelled, Beside, Elsewhere}, bop \in {"tags", "digest"}, n \in {2, 3}}
  \cup {LookupOf(Bare1, "tags", Beside, "blob", Closed(https, f), 3) : https \in {{}, {"hub"}}, f \in {{}, {KeyOf(Beside)}}}
  \cup {LookupOf(Bare1, "tags", Elsewhere, "tags", WorldOf({}, {}, "", {}, {"hub"}, ListOf(found, signature, mode)), 3) :
          found \in {"yes", "no", "unreadable"}, signature \in {"good", "none", "bad"}, mode \in {"off", "warn", "require"}}
  \cup {LookupOf(Beside, "tags", Configured, "digest", WorldOf({KeyOf(Beside)} \cup p, {KeyOf(Configured)}, c, {}, {"hub", "r.io"}, NoList), 0) :
          c \in {"hub", "r.io"}, p \in {{}, {KeyOf(Configured)}}}

\* ------------------------------------------------- consumers, jobs, environments
\* Three full runs of two repositories in two partitions; the project that is
\* released is g/a.
Released == <<"g", "a">>
Called(segs) == [segs |-> segs, sub |-> ""]
DepOn(ds, name, value) == [ds |-> ds, package |-> K!NoName, dep |-> name, value |-> value, locked |-> <<>>, artifact |-> FALSE]
Component(value) == DepOn("gitlab-releases", Called(Released), value)
Image2(segs) == DepOn("docker", Called(segs), <<"2">>)
LockOf(segs) == [ds |-> "packagist", name |-> Called(segs), version |-> <<"2">>, lock |-> "l"]
PlanOf(deps, locked) == [deps |-> deps, locked |-> locked]
MCPlans ==
  {PlanOf({Component(<<"2">>)}, {LockOf(<<"x">>)}), PlanOf({Component(<<"2">>), Image2(<<"r", "g", "a", "ci">>)}, {}),
   PlanOf({Component(<<"2", "1">>), [Image2(Released) EXCEPT !.artifact = TRUE]}, {}), PlanOf({Image2(<<"g">>), Image2(<<"a">>), Image2(<<"r", "g", "a", "b", "c">>)}, {LockOf(Released)}),
   PlanOf({[Component(<<"1">>) EXCEPT !.locked = <<"2">>], [DepOn("", Called(Released), <<"1">>) EXCEPT !.package = Called(Released)]}, {}),
   PlanOf({[DepOn("packagist", K!NoName, <<"2">>) EXCEPT !.package = [segs |-> Released, sub |-> "v/n"]], Component(<<"2">>)}, {})}
Ran3(file, repo, plan) == [file |-> file, repo |-> repo, plan |-> plan]
LaneOf(version, only, seen, lists, live, dry, failing) ==
  [path |-> Released, version |-> version, only |-> only, seen |-> seen, lists |-> lists, live |-> live, dryRun |-> dry, failing |-> failing]
SomeLanes ==
  {LaneOf(v, {}, K!Never, FALSE, {}, FALSE, {}) : v \in {<<"v", "2", "3">>, <<"3", "0">>, <<"next">>, <<>>}}
  \cup {LaneOf(<<"2", "3">>, only, 60, TRUE, live, FALSE, {"r1"}) : only \in {{}, {{"r2", "r3"}}}, live \in {{}, {"r1"}, {"r1", "r2"}}}
  \cup {LaneOf(<<"3">>, {}, seen, TRUE, {"r2"}, dry, {"r1"}) : seen \in {59, 60}, dry \in BOOLEAN}
MCLanes ==
  {[history |-> <<Ran3("p", "r1", a), Ran3(f, r, b), Ran3(g, s, c)>>, old |-> old, lane |-> l] :
     f, g \in {"p", "q"}, r, s \in {"r1", "r2"}, a \in MCPlans, b \in {p \in MCPlans : \E d \in p.deps : d.ds = "docker"}, c \in MCPlans,
     old \in {{}}, l \in {LaneOf(<<"2", "3">>, {}, K!Never, TRUE, {"r1", "r2"}, FALSE, {})}}
  \cup {[history |-> <<Ran3("p", "r1", a), Ran3("q", "r2", b), Ran3("q", "r1", b)>>, old |-> old, lane |-> l] :
     a \in MCPlans, b \in MCPlans, old \in {{}, {"q"}}, l \in SomeLanes}

FlagsOf(repo, project, discovers, released, pkg, config, index, cache, dry) ==
  [repo |-> repo, project |-> project, discovers |-> discovers, released |-> released, pkg |-> pkg, config |-> config, index |-> index, cache |-> cache, dryRun |-> dry]
MCJobs ==
  {[flags |-> FlagsOf(r, p, d, l, k, c, i, c, n), env |-> e, world |-> w] :
     r, p, d, l, k, c, n \in BOOLEAN, i \in {"none", "one", "several"},
     e \in {[host |-> h, author |-> a, format |-> f, key |-> f = "ssh", signers |-> h] : h, a \in BOOLEAN, f \in {"", "none", "ssh", "openpgp"}},
     w \in {[coverage |-> TRUE, ticked |-> {"b"}, unreadable |-> FALSE, unlisted |-> FALSE, open |-> {"b"}, failing |-> {"b"}, board |-> b] : b \in BOOLEAN}}

TextOf(t) == [text |-> t, scheme |-> "", host |-> "", holds |-> {t}, items |-> {}]
UrlOf(t, scheme, host) == [text |-> t, scheme |-> scheme, host |-> host, holds |-> {t}, items |-> {}]
ListOf1(items) == [text |-> "list", scheme |-> "", host |-> "", holds |-> {}, items |-> items]
PlatformVars ==
  [n \in {"PINUP_GITLAB_URL", "CI_SERVER_URL", "PINUP_GITLAB_TOKEN", "CI_JOB_TOKEN", "GITHUB_TOKEN", "PINUP_GITHUB_URL", "GITHUB_COM_TOKEN", "CI_REGISTRY"} |->
     CASE n = "PINUP_GITLAB_URL" -> UrlOf("https://own", "https", "own") [] n = "CI_SERVER_URL" -> UrlOf("https://ci", "https", "ci")
       [] n = "PINUP_GITHUB_URL" -> UrlOf("https://ghe", "https", "ghe") [] n = "CI_REGISTRY" -> UrlOf("reg", "", "reg") [] OTHER -> TextOf(n)]
Kinded(env, kind) == [n \in DOMAIN env \cup {"PINUP_PLATFORM"} |-> IF n = "PINUP_PLATFORM" THEN TextOf(kind) ELSE env[n]]
Chosen1(names) == [n \in names |-> PlatformVars[n]]
TaskVars ==
  {[n \in DOMAIN extra \cup {"PINUP_PLUGIN_ENV", "PATH", "PINUP_GITLAB_TOKEN", "PINUP_GITLAB_URL"} |->
      CASE n \in DOMAIN extra -> extra[n] [] n = "PINUP_PLUGIN_ENV" /\ n \notin DOMAIN extra -> ListOf1({"COMPOSER_AUTH", "PINUP_GITLAB_TOKEN", "HOME"})
        [] n = "PINUP_GITLAB_URL" -> PlatformVars[n] [] OTHER -> TextOf(n)] :
     extra \in {[n \in {"COMPOSER_AUTH"} |-> [TextOf("json") EXCEPT !.holds = {"json", h}]] : h \in {"PINUP_GITLAB_TOKEN", "else"}}
        \cup {[n \in {"PINUP_TASK_NETRC", "PINUP_TASK_ISOLATION"} |-> [TextOf(IF n = "PINUP_TASK_NETRC" THEN "netrc" ELSE i) EXCEPT !.holds = {h}]] :
                h \in {"PINUP_GITLAB_TOKEN", "else"}, i \in {"off", "on"}}}
ListVars ==
  {[n \in names \cup {"PINUP_WITHDRAWN_IMAGES"} |->
      CASE n = "PINUP_WITHDRAWN_IMAGES" -> UrlOf("list", scheme, "own") [] n = "PINUP_WITHDRAWN_IMAGES_SIGNATURE" -> TextOf(mode)
        [] n = "PINUP_WITHDRAWN_IMAGES_PUBKEY" -> key [] OTHER -> UrlOf("k", "pem", "")] :
     names \in SUBSET {"PINUP_WITHDRAWN_IMAGES_SIGNATURE", "PINUP_WITHDRAWN_IMAGES_PUBKEY", "KEY"}, scheme \in {"https", "http"},
     mode \in {"warn", "require", "off", "strict"}, key \in {UrlOf("k", "pem", ""), UrlOf("env://KEY", "env", "KEY"), TextOf("none")}}
MCEnvironments ==
  {Chosen1(names) : names \in SUBSET DOMAIN PlatformVars}
  \cup {Kinded(Chosen1(names), kind) : names \in SUBSET {"PINUP_GITLAB_URL", "PINUP_GITLAB_TOKEN", "GITHUB_TOKEN", "PINUP_GITHUB_URL", "CI_REGISTRY"}, kind \in {"gitlab", "github", "gitea"}}
  \cup TaskVars \cup ListVars

\* Go modules: one listed under its path and its next two majors, each list
\* there, empty, failing or missing; and one on the instance, a directory in.
GoPath(h, s, sep, n) == [host |-> h, segs |-> s, sep |-> sep, major |-> n]
GoV(m, r, ok) == [major |-> m, rank |-> r, ok |-> ok]
Answer(c, vs) == [code |-> c, versions |-> vs]
NoProject == [s \in {} |-> [code |-> 404, tags |-> <<>>]]
MCBases(m) == {Answer(404, <<>>), Answer(200, <<>>), Answer(200, <<GoV(m, 1, TRUE), GoV(m, 2, TRUE), GoV(m, 1, TRUE)>>),
               Answer(200, <<GoV(m, 2, TRUE), GoV(m + 1, 1, TRUE), GoV(m, 1, TRUE)>>), Answer(200, <<GoV(m, 0, FALSE), GoV(m, 1, TRUE), GoV(-1, 0, FALSE)>>)}
MCNexts(m) == {Answer(404, <<>>), Answer(500, <<>>), Answer(200, <<>>), Answer(200, <<GoV(m, 1, TRUE), GoV(m, 2, TRUE)>>)}
ProxyWorld(path, a, b, c, stamped, latest) ==
  LET at(n) == [path EXCEPT !.major = (IF path.major = 0 THEN 1 ELSE path.major) + n]
  IN [proxy |-> [p \in {path, at(1), at(2)} |-> IF p = path THEN a ELSE IF p = at(1) THEN b ELSE c],
      latest |-> IF latest THEN [p \in {path} |-> IF a.code = 200 THEN <<GoV(0, 0, TRUE)>> ELSE <<>>] ELSE [p \in {} |-> <<>>],
      infos |-> IF stamped THEN {<<p, v>> : p \in {path, at(1)}, v \in {GoV(n, r, TRUE) : n \in 1 .. 4, r \in {1, 2}}} ELSE {<<at(1), GoV(2, 2, TRUE)>>},
      projects |-> NoProject, comma |-> FALSE]
MCProxied ==
  UNION {LET m == IF path.major = 0 THEN 1 ELSE path.major
         IN {[world |-> ProxyWorld(path, a, b, c, stamped, latest), path |-> path, instance |-> "git"] :
               a \in MCBases(m), b \in MCNexts(m + 1), c \in MCNexts(m + 2), stamped \in BOOLEAN, latest \in BOOLEAN} :
         path \in {GoPath("github.com", <<"a", "b">>, "/", 0), GoPath("go.d", <<"a">>, "/", 2), GoPath("go.d", <<"a">>, ".", 3), GoPath("go.d", <<"a">>, "/", 10)}}
MCTags == <<[dir |-> <<>>, v |-> GoV(1, 1, TRUE), plain |-> FALSE, time |-> <<>>], [dir |-> <<>>, v |-> GoV(0, 1, TRUE), plain |-> FALSE, time |-> <<>>],
            [dir |-> <<>>, v |-> GoV(2, 1, TRUE), plain |-> FALSE, time |-> <<>>], [dir |-> <<>>, v |-> GoV(3, 1, TRUE), plain |-> FALSE, time |-> <<>>], [dir |-> <<"d">>, v |-> GoV(1, 2, TRUE), plain |-> FALSE, time |-> <<>>],
            [dir |-> <<"d">>, v |-> GoV(2, 2, TRUE), plain |-> FALSE, time |-> <<>>], [dir |-> <<"d", "e">>, v |-> GoV(1, 3, TRUE), plain |-> FALSE, time |-> <<>>],
            [dir |-> <<>>, v |-> GoV(1, 4, TRUE), plain |-> TRUE, time |-> <<>>], [dir |-> <<"d">>, v |-> GoV(-1, 4, FALSE), plain |-> FALSE, time |-> <<>>]>>
MCInstance ==
  {[world |-> [proxy |-> [p \in {} |-> Answer(404, <<>>)], latest |-> [p \in {} |-> <<>>], infos |-> {}, comma |-> comma,
               projects |-> [s \in {<<"g">>, <<"g", "m">>, <<"g", "m", "d">>} |-> [code |-> IF s = <<"g">> THEN 200 ELSE IF Len(s) = 2 THEN a ELSE b, tags |-> MCTags]]],
    path |-> GoPath("git", segs, "/", major), instance |-> "git"] :
    a \in {200, 404, 500}, b \in {200, 404, 500}, major \in {0, 2, 10}, segs \in {<<"g">>, <<"g", "m">>, <<"g", "m", "d">>}, comma \in {TRUE, FALSE}}
MCProxies == MCProxied \cup MCInstance

\* Lists: three requests, read by pages of one or two; between two pages one
\* is closed or a new one is opened.
Req(n, bot, own, state, updated, merged) ==
  [number |-> n, branch |-> [name |-> IF n = 2 THEN "c" ELSE "b", bot |-> bot], own |-> own, state |-> state, created |-> n, updated |-> updated, merged |-> merged]
ReqsOf(n) == {Req(n, TRUE, TRUE, "open", 1, 0), Req(n, FALSE, TRUE, "open", 2, 0), Req(n, TRUE, FALSE, "open", 2, 0),
              Req(n, TRUE, TRUE, "merged", 2, 2), Req(n, TRUE, TRUE, "merged", 3, 1), Req(n, TRUE, TRUE, "closed", 3, 0)}
ShutAt(list, i) == [list EXCEPT ![i] = IF @.state = "open" THEN [@ EXCEPT !.state = "closed", !.updated = 4] ELSE @]
MCMoves(list) == {<<list>>} \cup {<<list, ShutAt(list, i)>> : i \in 1 .. 3} \cup {<<list, <<Req(4, TRUE, TRUE, "open", 4, 0)>> \o list>>}
MCOnHost == <<[path |-> 3, member |-> TRUE, archived |-> FALSE, push |-> TRUE], [path |-> 1, member |-> TRUE, archived |-> TRUE, push |-> TRUE],
              [path |-> 4, member |-> TRUE, archived |-> FALSE, push |-> FALSE], [path |-> 2, member |-> TRUE, archived |-> FALSE, push |-> TRUE],
              [path |-> 5, member |-> FALSE, archived |-> FALSE, push |-> TRUE]>>
MCWalks ==
  {[kind |-> kind, w |-> [shots |-> shots, size |-> size, fails |-> fails, projects |-> MCOnHost]] :
     kind \in {"github", "gitlab"}, size \in {1, 2}, fails \in {0, 2}, shots \in UNION {MCMoves(<<a, b, c>>) : a \in ReqsOf(3), b \in ReqsOf(2), c \in ReqsOf(1)}}
=============================================================================
