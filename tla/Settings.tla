------------------------------ MODULE Settings ------------------------------
(***************************************************************************)
(* From configuration files to what holds for one dependency: packages      *)
(* config and config/preset (extends, layers over the defaults), package    *)
(* rules (packageRules in order) and their two passes in cmd/pinup.         *)
(*                                                                         *)
(* A document is [extends, keys, when, rules, notes]: the presets it names, *)
(* its own keys, its matchers (a rule has some, and so has a preset made    *)
(* for rules), its packageRules - documents themselves - and its            *)
(* description.  A key in ObjectKeys holds a function of keys, every other  *)
(* key a scalar.  A pattern is the set of values it admits: globs, regular  *)
(* expressions and letter case are not told apart.                          *)
(***************************************************************************)
EXTENDS Integers, Sequences, FiniteSets, TLC

LOCAL INSTANCE SequencesExt

ObjectKeys == {"major", "minor", "patch", "digest", "pin", "pinDigest", "rollback", "replacement", "lockFileMaintenance",
               "group", "vulnerabilityAlerts", "prBodyDefinitions"}
Empty == [k \in {} |-> ""]
Over(lower, upper) == upper @@ lower
Failed == [ok |-> FALSE]

\* ----------------------------------------------------------------- presets
\* extends, resolved: lib[name] = [doc, inert, builtin].
Nothing == [ok |-> TRUE, keys |-> Empty, by |-> Empty, when |-> Empty, rules |-> <<>>, notes |-> <<>>,
            seen |-> <<>>, warned |-> {}]

Own(doc, owner) ==
  [Nothing EXCEPT !.keys = doc.keys, !.by = [k \in DOMAIN doc.keys |-> <<owner>>], !.when = doc.when,
                  !.rules = [i \in DOMAIN doc.rules |-> [rule |-> doc.rules[i], by |-> owner]],
                  !.notes = [i \in DOMAIN doc.notes |-> [text |-> doc.notes[i], by |-> owner]]]

\* Keys replace and their chain of writers grows; rules and notes append.
MutMerge(parent, child) ==
  [parent EXCEPT !.keys = Over(child.keys, @), !.by = [k \in DOMAIN @ \cup DOMAIN child.by |->
      (IF k \in DOMAIN @ THEN @[k] ELSE <<>>) \o (IF k \in DOMAIN child.by THEN child.by[k] ELSE <<>>)],
      !.when = Over(@, child.when), !.rules = @ \o child.rules, !.notes = @ \o child.notes,
      !.seen = @ \o child.seen, !.warned = @ \cup child.warned]
Merge(parent, child) ==
  [parent EXCEPT !.keys = Over(@, child.keys), !.by = [k \in DOMAIN @ \cup DOMAIN child.by |->
      (IF k \in DOMAIN @ THEN @[k] ELSE <<>>) \o (IF k \in DOMAIN child.by THEN child.by[k] ELSE <<>>)],
      !.when = Over(@, child.when), !.rules = @ \o child.rules, !.notes = @ \o child.notes,
      !.seen = @ \o child.seen, !.warned = @ \cup child.warned]

\* An inert preset warns where a configuration names it, not where the
\* library's own presets reach it.
Warned(name, lib, stack) ==
  IF lib[name].inert /\ ~(stack /= <<>> /\ lib[Last(stack)].builtin) THEN {name} ELSE {}

(***************************************************************************)
(* A preset's own extends come before its body, later ones over earlier     *)
(* ones.  An unknown preset and one that extends itself fail the whole.  A  *)
(* rule may extend presets too: they resolve into the rule.                 *)
(***************************************************************************)
RECURSIVE Resolve(_, _, _, _)
Extended(doc, lib, stack) ==
  LET Add(acc, name) ==
        IF ~acc.ok \/ name \in Range(stack) \/ name \notin DOMAIN lib THEN Failed
        ELSE LET r == Resolve(lib[name].doc, lib, Append(stack, name), name)
                 silent == stack /= <<>> /\ doc.notes /= <<>> /\ lib[name].doc.rules /= <<>>
             IN IF ~r.ok THEN Failed
                ELSE Merge(acc, [r EXCEPT !.notes = IF silent THEN <<>> ELSE @,
                                          !.seen = <<name>> \o @, !.warned = Warned(name, lib, stack) \cup @])
  IN FoldLeft(Add, Nothing, doc.extends)

Resolve(doc, lib, stack, owner) ==
  LET below == Extended(doc, lib, stack)
      RuleOf(r) == IF r.rule.extends = <<>> THEN [ok |-> TRUE] ELSE Resolve(r.rule, lib, stack, owner)
      Flat(r) == IF r.rule.extends = <<>> THEN r
                 ELSE LET s == RuleOf(r)
                      IN [r EXCEPT !.rule = [extends |-> <<>>, keys |-> s.keys, when |-> s.when, rules |-> <<>>, notes |-> <<>>]]
      whole == Merge(below, Own(doc, owner))
  IN IF ~below.ok THEN Failed
     ELSE IF \E i \in DOMAIN whole.rules : ~RuleOf(whole.rules[i]).ok THEN Failed
     ELSE [whole EXCEPT !.rules = [i \in DOMAIN @ |-> Flat(@[i])]]

\* ------------------------------------------------------------------ layers
\* Keys that configure the runner are dropped, "0" as an age is no age.
GlobalOnly == {"executionTimeout", "allowedCommands"}
Ageless(f) == [k \in DOMAIN f |-> IF k = "minimumReleaseAge" /\ f[k] = "0" THEN "" ELSE f[k]]
Migrate(keys) ==
  LET kept == [k \in DOMAIN keys \ GlobalOnly |-> IF k \in ObjectKeys THEN Ageless(keys[k]) ELSE keys[k]]
  IN Ageless(kept)

\* Objects merge one level deep over what is there, all else replaces.
Overlaid(lower, upper) ==
  [k \in DOMAIN lower \cup DOMAIN upper |->
     IF k \notin DOMAIN upper THEN lower[k]
     ELSE IF k \in ObjectKeys /\ k \in DOMAIN lower THEN Over(lower[k], upper[k]) ELSE upper[k]]

ResolveLayer(doc, lib, defaults) ==
  LET r == Resolve(doc, lib, <<>>, "config")
  IN IF ~r.ok THEN Failed
     ELSE [r EXCEPT !.keys = Overlaid(defaults, Migrate(@)),
                    !.by = [k \in DOMAIN @ \cup DOMAIN defaults |->
                              (IF k \in DOMAIN defaults THEN <<"builtin">> ELSE <<>>)
                              \o (IF k \in DOMAIN @ THEN @[k] ELSE <<>>)],
                    !.rules = [i \in DOMAIN @ |-> [@[i] EXCEPT !.rule.keys = Ageless(@)]]]

\* The runner's file answers to its alias; a repository's own file is resolved
\* in its place.  The commands a task may run are the runner's alone.
NoFile == [file |-> FALSE]
Sources(runner, alias, lib) == (alias :> [doc |-> runner, inert |-> FALSE, builtin |-> FALSE]) @@ lib
Layer(runner, repo) == IF repo = NoFile THEN runner ELSE repo.doc

\* Without a file of its own a repository leaves vendored modules alone.
Onboarded(r) ==
  [r EXCEPT !.keys = Over(@, "ignorePaths" :> "modules and tests"),
            !.by = Over(@, "ignorePaths" :> <<"builtin", ":ignoreModulesAndTests">>)]
ForRepository(r, repo) == IF r.ok /\ repo = NoFile THEN Onboarded(r) ELSE r
ResolveConfig(runner, repo, alias, lib, defaults) ==
  ForRepository(ResolveLayer(Layer(runner, repo), Sources(runner, alias, lib), defaults), repo)
CommandsAllowed(runner) == IF "allowedCommands" \in DOMAIN runner.keys THEN runner.keys["allowedCommands"] ELSE ""
ConfiguredBy(r, key) == IF key \in DOMAIN r.by THEN Last(r.by[key]) ELSE ""

\* ---------------------------------------------------------------- matchers
\* A list [yes, no] of patterns: none of the negated, one of the others if any.
Listed(list, v) ==
  /\ v \notin UNION list.no
  /\ list.yes = {} \/ v \in UNION list.yes

\* What a matcher looks at; "" is unknown, and nothing matches the unknown.
FieldOf(key, s) ==
  CASE key = "matchPackageNames" -> IF s.packageName /= "" THEN s.packageName ELSE s.depName
    [] key = "matchDepNames" -> s.depName
    [] key = "matchDatasources" -> s.datasource
    [] key = "matchManagers" -> s.manager
    [] key = "matchDepTypes" -> s.depType
    [] key = "matchUpdateTypes" -> s.updateType
    [] key = "matchCurrentValue" -> s.currentValue
    [] key = "matchSourceUrls" -> s.sourceURL
    [] key = "matchEffective" -> IF s.effective = "unknown" THEN "" ELSE s.effective
    [] OTHER -> ""
Listing == {"matchPackageNames", "matchDepNames", "matchDatasources", "matchManagers", "matchDepTypes",
            "matchUpdateTypes", "matchCurrentValue", "matchSourceUrls", "matchEffective"}
Unsupported == {"matchCategories"}

\* A range in the dependency's own versioning, or a pattern on the value.
CurrentVersionMatches(range, s) ==
  IF range.regex THEN s.currentValue /= "" /\ (s.currentValue \in range.admits) /= range.negate
  ELSE LET scheme == IF s.versioning = "" THEN "semver" ELSE s.versioning
       IN scheme \in DOMAIN range.of /\ s.currentValue \in range.of[scheme]

\* The file names' list has no negation; jsonata knows two shapes.
MatcherHolds(key, m, s) ==
  CASE key \in Listing -> FieldOf(key, s) /= "" /\ Listed(m, FieldOf(key, s))
    [] key = "matchFileNames" -> s.packageFile /= "" /\ s.packageFile \in UNION m.yes
    [] key = "matchCurrentVersion" -> CurrentVersionMatches(m, s)
    [] key = "matchJsonata" -> ("lockfile" \in m.yes /\ s.lockfileUpdate) \/ s.platform \in m.yes
    [] OTHER -> FALSE

Compiles(rule) == DOMAIN rule.when \subseteq Listing \cup Unsupported \cup {"matchFileNames", "matchCurrentVersion", "matchJsonata"}
NeverFires(rule) == DOMAIN rule.when \cap Unsupported /= {}
UsesEffective(rule) == "matchEffective" \in DOMAIN rule.when
Matches(rule, s) == ~NeverFires(rule) /\ \A key \in DOMAIN rule.when : MatcherHolds(key, rule.when[key], s)

\* ------------------------------------------------------------------- rules
\* Every rule is tried in order.  A rule that sets versioning changes how the
\* next one reads the version; enabled decides whether the dependency is
\* skipped; prBodyDefinitions merges, everything else replaces.
Off(cfg) == "enabled" \in DOMAIN cfg /\ ~cfg["enabled"]

Fire(res, i, rule) ==
  LET sets == DOMAIN rule.keys
  IN [res EXCEPT
        !.cfg = Over(@, [k \in sets |-> IF k = "prBodyDefinitions" /\ k \in DOMAIN res.cfg
                                         THEN Over(res.cfg[k], rule.keys[k]) ELSE rule.keys[k]]),
        !.subject.versioning = IF "versioning" \in sets THEN rule.keys["versioning"] ELSE @,
        !.skipped = IF "enabled" \in sets THEN ~rule.keys["enabled"] ELSE @,
        !.matched = Append(@, i),
        !.wrote = [k \in DOMAIN @ \cup sets |->
                     (IF k \in DOMAIN @ THEN @[k] ELSE <<>>) \o (IF k \in sets THEN <<i>> ELSE <<>>)],
        !.notes = @ \o rule.notes]

Apply(rules, base, s) ==
  FoldLeft(LAMBDA res, i : IF Matches(rules[i], res.subject) THEN Fire(res, i, rules[i]) ELSE res,
           [cfg |-> base, subject |-> s, skipped |-> Off(base), matched |-> <<>>, wrote |-> Empty, notes |-> <<>>],
           [i \in DOMAIN rules |-> i])

LastWriter(res, key) == IF key \in DOMAIN res.wrote THEN Last(res.wrote[key]) ELSE 0

\* -------------------------------------------------------------- first pass
\* What a rule may change about the lookup.  Some keys count only when a rule
\* wrote them, the others whoever did.
Written(res, key, old) == IF LastWriter(res, key) /= 0 THEN res.cfg[key] ELSE old
Set(res, key, old) == IF key \in DOMAIN res.cfg THEN res.cfg[key] ELSE old
Moved(res) == LastWriter(res, "overrideDatasource") /= 0

Aged(res) == Set(res, "internalChecksFilter", "none") /= "none"

Rewritten(d, res) ==
  IF res.skipped THEN [d EXCEPT !.disabled = TRUE, !.disabledBy = LastWriter(res, "enabled")]
  ELSE [d EXCEPT !.subject.versioning = Written(res, "versioning", @),
                 !.allowed = Set(res, "allowedVersions", @),
                 !.strategy = Set(res, "rangeStrategy", @),
                 !.age = IF Aged(res) THEN Set(res, "minimumReleaseAge", @) ELSE @,
                 !.subject.datasource = Written(res, "overrideDatasource", @),
                 !.subject.packageName = Written(res, "overridePackageName", @),
                 !.registries = Written(res, "registryUrls", IF Moved(res) THEN "" ELSE @)]
ApplyDepRules(rules, base, d) ==
  IF d.skipReason /= "" THEN d
  ELSE Rewritten(d, Apply(rules, base, [d.subject EXCEPT !.updateType = "", !.effective = ""]))

\* ------------------------------------------------------------- second pass
\* The object of the update's type over a copy, then the rules once more: a
\* rule wins over the object.
OverlayKey(cfg, key) == IF key \in DOMAIN cfg THEN Overlaid(cfg, cfg[key]) ELSE cfg
Overlay(cfg, type) == OverlayKey(cfg, type)

Synced(res, type) ==
  [res EXCEPT !.cfg = [k \in DOMAIN @ |->
     IF k = type /\ k \in ObjectKeys THEN [j \in DOMAIN @[k] |-> IF j \in DOMAIN @ THEN @[j] ELSE @[k][j]] ELSE @[k]]]
Again(rules, first, s, type) ==
  [Synced(Apply(rules, Overlay(first.cfg, type), s), type) EXCEPT !.notes = first.notes]
ResolveUpdate(rules, base, s, type) == Again(rules, Apply(rules, base, s), s, type)

WroteByEffectiveRule(rules, res, key) == key \in DOMAIN res.wrote /\ UsesEffective(rules[Last(res.wrote[key])])

\* No rule that names a package, a datasource or a version is meant for a lock.
LockRefreshSubject(s) ==
  [s EXCEPT !.depName = "", !.packageName = "", !.datasource = "", !.depType = "", !.currentValue = "",
            !.versioning = "", !.sourceURL = "", !.effective = "", !.lockfileUpdate = FALSE, !.platform = ""]

Is(cfg, key) == key \in DOMAIN cfg /\ cfg[key]
Milder(u) == u.effective /= 0 /\ u.effective < u.declared

\* applyUpdateRules: what the rules make of one update [type, fix, exploited,
\* declared, effective]: is it enabled, is it armed, which age holds it.
Distrusted(rules, res, over, u) ==
  /\ Is(over, "automerge") /\ Milder(u) /\ ~Is(over, "trustEffective")
  /\ WroteByEffectiveRule(rules, res, "automerge")
Unarmed(cfg) == Over(cfg, "automerge" :> FALSE)
Checked(over, distrusted) == IF distrusted THEN Unarmed(over) ELSE over
Alerted(cfg, u) ==
  IF ~u.fix THEN cfg
  ELSE IF u.type = "major" THEN Unarmed(OverlayKey(cfg, "vulnerabilityAlerts"))
  ELSE OverlayKey(cfg, "vulnerabilityAlerts")

Policy(res, over, cfg, u) ==
  [armed |-> Is(cfg, "automerge"),
   trusted |-> Is(over, "trustEffective"),
   enabled |-> IF u.fix /\ "enabled" \in DOMAIN cfg THEN cfg["enabled"] ELSE ~res.skipped /\ ~Off(cfg),
   age |-> IF (u.fix /\ u.exploited) \/ "minimumReleaseAge" \notin DOMAIN cfg THEN "" ELSE cfg["minimumReleaseAge"],
   approval |-> Is(cfg, "dependencyDashboardApproval") /\ ~(u.fix /\ u.exploited)]

JudgedOver(rules, res, over, u) == Policy(res, over, Alerted(Checked(over, Distrusted(rules, res, over, u)), u), u)
Judged(rules, res, u) == JudgedOver(rules, res, Overlay(res.cfg, u.type), u)
ApplyUpdateRules(rules, base, s, u) ==
  Judged(rules, ResolveUpdate(rules, base, IF u.type = "lockFileMaintenance" THEN LockRefreshSubject(s) ELSE s, u.type), u)

\* ---------------------------------------------------------------- reference
\* The documents in the order they speak, each after what it extends.
RECURSIVE Speakers(_, _)
Speakers(doc, lib) ==
  FlattenSeq([i \in DOMAIN doc.extends |-> Speakers(lib[doc.extends[i]].doc, lib)]) \o <<doc>>

\* Every preset a document reaches, through its rules too.
Names(doc) == Range(doc.extends) \cup UNION {Range(doc.rules[i].extends) : i \in DOMAIN doc.rules}
RECURSIVE Reach(_, _)
Reach(names, lib) ==
  LET more == names \cup UNION {Names(lib[n].doc) : n \in names \cap DOMAIN lib}
  IN IF more = names THEN names ELSE Reach(more, lib)
WellFounded(doc, lib) ==
  LET all == Reach(Names(doc), lib)
  IN all \subseteq DOMAIN lib /\ \A n \in all : n \notin Reach(Names(lib[n].doc), lib)

KeysOf(docs) == [i \in DOMAIN docs |-> docs[i].keys]
LastOf(fs) == FoldLeft(Over, Empty, fs)
Flattened(docs) ==
  [keys |-> LastOf(KeysOf(docs)), when |-> LastOf([i \in DOMAIN docs |-> docs[i].when])]
RulesIn(docs, lib) ==
  FlattenSeq([i \in DOMAIN docs |-> [j \in DOMAIN docs[i].rules |-> Flattened(Speakers(docs[i].rules[j], lib))]])
AllRules(doc, lib) == RulesIn(Speakers(doc, lib), lib)

\* Every rule with whether it fires: a rule that fires may change how the next
\* one reads versions.
Firing(all, s) ==
  LET Read(acc, rule) ==
        IF Matches(rule, acc.s)
          THEN [s |-> IF "versioning" \in DOMAIN rule.keys THEN [acc.s EXCEPT !.versioning = rule.keys["versioning"]] ELSE acc.s,
                fired |-> Append(acc.fired, rule.keys)]
        ELSE acc
  IN FoldLeft(Read, [s |-> s, fired |-> <<>>], all)

\* The last of a sequence of key functions that has the key, or otherwise.
Word(said, k, otherwise) ==
  FoldLeft(LAMBDA v, keys : IF k \in DOMAIN keys THEN keys[k] ELSE v, otherwise, said)
Normal(k, v) == IF k = "minimumReleaseAge" /\ v = "0" THEN "" ELSE v

\* The last word wins, for the settings and for whom they are attributed to.
SaidLast(cfg, k, docs, f, defaults) == cfg[k] = Normal(k, Word(KeysOf(docs) \o f.fired, k, defaults[k]))
SaidBy(r, k, who, doc, lib, defaults) ==
  r.keys[k] = Normal(k, IF who = "builtin" THEN defaults[k] ELSE IF who = "config" THEN doc.keys[k] ELSE lib[who].doc.keys[k])
Speaks(r, res, d, docs, f, doc, lib, defaults) ==
  /\ \A k \in (DOMAIN res.cfg \cap DOMAIN defaults) \ (ObjectKeys \cup GlobalOnly) : SaidLast(res.cfg, k, docs, f, defaults)
  /\ d.disabled = ~Word(KeysOf(docs) \o f.fired, "enabled", defaults["enabled"])
  /\ ~d.disabled => d.subject.versioning = f.s.versioning
  /\ \A k \in (DOMAIN r.by \cap DOMAIN r.keys \cap DOMAIN defaults) \ ObjectKeys :
       SaidBy(r, k, ConfiguredBy(r, k), doc, lib, defaults)

Resolved(r, doc, lib, defaults, d) ==
  r.ok /\ Speaks(r, Apply([i \in DOMAIN r.rules |-> r.rules[i].rule], r.keys, d.subject),
                 ApplyDepRules([i \in DOMAIN r.rules |-> r.rules[i].rule], r.keys, d),
                 Speakers(doc, lib), Firing(AllRules(doc, lib), d.subject), doc, lib, defaults)

(***************************************************************************)
(* The last word wins: a configuration resolves exactly when every preset   *)
(* it reaches is known and none reaches itself, and what then holds for a   *)
(* dependency is what the last matching rule says, else the last document,  *)
(* else the default; whom Explain names wrote it.                           *)
(***************************************************************************)
LastWordWins(runner, repo, alias, lib, defaults, d) ==
  IF WellFounded(Layer(runner, repo), Sources(runner, alias, lib))
    THEN Resolved(ResolveConfig(runner, repo, alias, lib, defaults), Layer(runner, repo), Sources(runner, alias, lib), defaults, d)
  ELSE ~ResolveConfig(runner, repo, alias, lib, defaults).ok

\* A rule on the label that arms through an object: nobody asks who wrote the
\* object, so the update is armed untrusted, though
\* docs/effective-classification.md:28 says it stays off.
ArmsThroughObject(rule) ==
  UsesEffective(rule) /\ \E k \in DOMAIN rule.keys \cap ObjectKeys : Is(rule.keys[k], "automerge")

=============================================================================
