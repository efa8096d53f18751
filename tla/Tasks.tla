------------------------------- MODULE Tasks -------------------------------
(***************************************************************************)
(* What a branch runs besides its edits: the lock refreshes of the manifests *)
(* it moves, the lifts of a security refresh, terraform's lock entries and   *)
(* the configured postUpgradeTasks; and what stops it (whatif.realise,       *)
(* tasksFor, package plugin).                                                *)
(*                                                                           *)
(* A directory is a sequence of names, a path <<directory, name>>.  tree is  *)
(* [files, readable], found the manifests the run read, at most one of a     *)
(* manager in a directory: [manager, dir, deps].                             *)
(***************************************************************************)
EXTENDS Integers, Sequences, FiniteSets

LOCAL INSTANCE SequencesExt

NoLock == <<<<>>, "">>
FirstOf(s, otherwise) == IF s = <<>> THEN otherwise ELSE s[1]

(***************************************************************************)
(* The locks of the checkout.                                               *)
(***************************************************************************)
LockNames(manager) ==
  CASE manager = "npm"       -> <<"package-lock.json", "npm-shrinkwrap.json", "yarn.lock", "pnpm-lock.yaml">>
    [] manager = "composer"  -> <<"composer.lock">>
    [] manager = "terraform" -> <<".terraform.lock.hcl">>
    [] manager = "gomod"     -> <<"go.sum">>
    [] OTHER                 -> <<>>
\* A package.json or a .tf file without dependencies names no lock.
LockFilesOf(m) == IF m.deps = {} /\ m.manager \in {"npm", "terraform"} THEN <<>> ELSE LockNames(m.manager)
Upwards(dir) == [i \in 1..Len(dir) + 1 |-> SubSeq(dir, 1, Len(dir) + 1 - i)]
SearchedDirs(m) == IF m.manager \in {"terraform", "npm"} THEN Upwards(m.dir) ELSE <<m.dir>>
PathsIn(dir, names) == [j \in DOMAIN names |-> <<dir, names[j]>>]
Candidates(dirs, names) == FlattenSeq([i \in DOMAIN dirs |-> PathsIn(dirs[i], names)])

\* lockedVersions: the first lock that is there and can be read.
LockedVersions(tree, m) ==
  FirstOf(SelectSeq(Candidates(SearchedDirs(m), LockFilesOf(m)), LAMBDA p : p \in tree.readable), NoLock)
Unrefreshable(manager) == IF manager = "npm" THEN {"bun.lock", "bun.lockb"} ELSE {}
ForeignLock(tree, m) ==
  LockedVersions(tree, m) = NoLock /\ \E d \in ToSet(Upwards(m.dir)), n \in Unrefreshable(m.manager) : <<d, n>> \in tree.files

\* extractAll: the lock a task regenerates lies beside the manifest, or is
\* an npm workspace's; terraform's lock paths are kept apart.
LockPath(tree, found, manager, dir) ==
  FirstOf(SetToSeq({LockedVersions(tree, m) : m \in {m \in found : m.manager = manager /\ m.dir = dir}}), NoLock)
Refreshed(p, manager, dir) == IF p[1] = dir \/ manager = "npm" THEN p ELSE NoLock
LockOf(tree, found, manager, dir) == Refreshed(LockPath(tree, found, manager, dir), manager, dir)
Foreign(tree, found, manager, dir) == \E m \in found : m.manager = manager /\ m.dir = dir /\ ForeignLock(tree, m)

\* lockMaintenance: one refresh per lock, the advised ones also where it is
\* off or the run is narrowed.  advised maps <<manager, lock>> to advisories.
Maintained(tree, found) == {<<m.manager, LockOf(tree, found, m.manager, m.dir)>> : m \in {m \in found : m.deps /= {}}}
LockMaintenance(tree, found, on, narrowed, advised) ==
  {[manager |-> l[1], dir |-> l[2][1], name |-> "lock file", type |-> "lockFileMaintenance", fix |-> advised[l] /= <<>>,
    blocked |-> FALSE, lockOnly |-> FALSE, advisories |-> advised[l], conf |-> "none"] :
     l \in {l \in Maintained(tree, found) : l[2] /= NoLock /\ ((on /\ ~narrowed) \/ advised[l] /= <<>>)}}

(***************************************************************************)
(* The lock refreshes.                                                      *)
(***************************************************************************)
LiftsReleaseAge(manager, lockFile) == manager = "npm" /\ lockFile \in {"package-lock.json", "npm-shrinkwrap.json", "pnpm-lock.yaml"}
LiftsTransitive(manager, lockFile) == manager = "npm" /\ lockFile \in {"package-lock.json", "npm-shrinkwrap.json"}
Task(manager, dir, tool, verb, names, aged, scope) ==
  [kind |-> "lock-refresh", manager |-> manager, dir |-> dir, argv |-> <<tool, verb>>, names |-> names, aged |-> aged,
   scope |-> scope, lifts |-> <<>>, by |-> 0]
NpmScope == {"package-lock.json", "npm-shrinkwrap.json"}
HasRefresh(manager) == manager \in {"npm", "composer", "gomod"}
LockRefresh(manager, dir, lockFile, names, maintenance, liftAge) ==
  CASE manager = "npm" /\ lockFile = "pnpm-lock.yaml"
         -> Task(manager, dir, "pnpm", IF maintenance THEN "update" ELSE "install", {}, liftAge /\ ~maintenance, {"pnpm-lock.yaml"})
    [] manager = "npm" /\ lockFile = "yarn.lock"
         -> Task(manager, dir, "yarn", IF maintenance THEN "upgrade" ELSE "install", {}, FALSE, {"yarn.lock"})
    [] manager = "npm"
         -> Task(manager, dir, "npm", IF maintenance THEN "update" ELSE "install", IF maintenance THEN {} ELSE names,
                 ~maintenance /\ liftAge /\ LiftsReleaseAge(manager, lockFile), NpmScope)
    [] manager = "composer" -> Task(manager, dir, "composer", "update", IF maintenance THEN {} ELSE names, FALSE, {"composer.lock"})
    [] manager = "gomod" -> Task(manager, dir, "go", "tidy", {}, FALSE, {"go.mod", "go.sum"})

\* liftsOf: each package once, with the highest first fix; 0 is none.
Raised(l, a) == IF a.fixed > l.fixed THEN [l EXCEPT !.fixed = a.fixed] ELSE l
LiftsOf(advisories) ==
  FoldLeft(LAMBDA out, a : IF \E i \in DOMAIN out : out[i].package = a.package
                           THEN [i \in DOMAIN out |-> IF out[i].package = a.package THEN Raised(out[i], a) ELSE out[i]]
                           ELSE Append(out, [package |-> a.package, fixed |-> a.fixed]), <<>>, advisories)
SecurityLifts(manager, lockFile, lifts) == lifts /= <<>> /\ LiftsTransitive(manager, lockFile)
SecurityLift(manager, dir, lifts) ==
  [Task(manager, dir, "npm", "update", {lifts[i].package : i \in DOMAIN lifts}, TRUE, NpmScope) EXCEPT !.lifts = lifts]

\* One refresh per lock: a member's manifest folds into the root's, which is
\* then regenerated whole.  k is <<manager, dir>> of an update.
IsMaintenance(u) == u.type = "lockFileMaintenance"
KeyOf(u) == <<u.manager, u.dir>>
Refreshing(tree, found, u) == IsMaintenance(u) \/ LockOf(tree, found, u.manager, u.dir) /= NoLock
RefreshDir(tree, found, u) == IF LockOf(tree, found, u.manager, u.dir) = NoLock THEN u.dir ELSE LockOf(tree, found, u.manager, u.dir)[1]
Place(tree, found, u) == <<u.manager, RefreshDir(tree, found, u)>>
MutWhole(tree, found, us) == FALSE
Whole(tree, found, us) == \E i \in DOMAIN us : RefreshDir(tree, found, us[i]) /= us[i].dir
NamesOf(us) == {us[i].name : i \in {i \in DOMAIN us : ~IsMaintenance(us[i])}}
RefreshesAt(at, us, whole, lockFile, maintenance, fix, lifts) ==
  (IF HasRefresh(at[1]) THEN <<LockRefresh(at[1], at[2], lockFile, IF whole THEN {} ELSE NamesOf(us), maintenance, fix)>> ELSE <<>>)
  \o (IF maintenance /\ SecurityLifts(at[1], lockFile, lifts) THEN <<SecurityLift(at[1], at[2], lifts)>> ELSE <<>>)
Refreshes(tree, found, at, us) ==
  RefreshesAt(at, us, Whole(tree, found, us), LockOf(tree, found, us[1].manager, us[1].dir)[2], \E i \in DOMAIN us : IsMaintenance(us[i]),
              \E i \in DOMAIN us : us[i].fix /\ ~IsMaintenance(us[i]),
              LiftsOf(FlattenSeq([i \in DOMAIN us |-> IF IsMaintenance(us[i]) /\ us[i].fix THEN us[i].advisories ELSE <<>>])))
OnLocks(tree, found, mine) == SelectSeq(mine, LAMBDA u : Refreshing(tree, found, u))
Places(tree, found, us) ==
  FoldLeft(LAMBDA out, u : IF Place(tree, found, u) \in ToSet(out) THEN out ELSE Append(out, Place(tree, found, u)), <<>>, us)
LockTasks(tree, found, us, places) ==
  FlattenSeq([i \in DOMAIN places |-> Refreshes(tree, found, places[i], SelectSeq(us, LAMBDA u : Place(tree, found, u) = places[i]))])

(***************************************************************************)
(* postUpgradeTasks.  confs: name -> [commands, mode]; a command is a        *)
(* sequence of words, "depName" one that is expanded; a pattern of the       *)
(* allowlist is the set of the commands it admits whole.                    *)
(***************************************************************************)
MandatoryFlags(tool) ==
  CASE tool = "composer" -> <<"--no-plugins", "--no-scripts">>
    [] tool \in {"npm", "yarn", "pnpm"} -> <<"--ignore-scripts">>
    [] OTHER -> <<>>
Harden(argv) == argv \o SelectSeq(MandatoryFlags(argv[1]), LAMBDA f : f \notin ToSet(argv))
Distinct(s) == FoldLeft(LAMBDA out, x : IF x \in ToSet(out) THEN out ELSE Append(out, x), <<>>, s)
Render(command, us) ==
  FlattenSeq([i \in DOMAIN command |-> IF command[i] = "depName" THEN Distinct([j \in DOMAIN us |-> us[j].name]) ELSE <<command[i]>>])
Allowed(argv, allowed) == FirstOf(SelectSeq([i \in DOMAIN allowed |-> i], LAMBDA i : argv \in allowed[i]), 0)
Groups(mode, us) == IF mode = "branch" THEN <<us>> ELSE [i \in DOMAIN us |-> <<us[i]>>]
PostUpgrade(argv, us, allowed) ==
  [kind |-> "post-upgrade", manager |-> us[1].manager, dir |-> <<>>, argv |-> argv, names |-> {us[i].name : i \in DOMAIN us},
   aged |-> FALSE, scope |-> {}, lifts |-> <<>>, by |-> Allowed(argv, allowed)]
Compile(conf, us, allowed) ==
  FlattenSeq([g \in DOMAIN Groups(conf.mode, us) |->
    [c \in DOMAIN conf.commands |-> PostUpgrade(Harden(Render(conf.commands[c], Groups(conf.mode, us)[g])), Groups(conf.mode, us)[g], allowed)]])
Configured(us) == Distinct([i \in DOMAIN us |-> us[i].conf])
PostTasks(mine, confs, allowed) ==
  FlattenSeq([i \in DOMAIN Configured(mine) |->
    IF Configured(mine)[i] = "none" THEN <<>>
    ELSE Compile(confs[Configured(mine)[i]], SelectSeq(mine, LAMBDA u : u.conf = Configured(mine)[i]), allowed)])

(***************************************************************************)
(* tasksFor and realise: the branch whole, or held and without edits.       *)
(***************************************************************************)
Held(reason) == [held |-> reason, edits |-> {}, lockEdits |-> {}, tasks |-> <<>>]
NoRefresh(tree, found, us) == \E i \in DOMAIN us : IsMaintenance(us[i]) /\ ~HasRefresh(us[i].manager)
LeftBehind(tree, found, mine) ==
  \E i \in DOMAIN mine : /\ ~IsMaintenance(mine[i]) /\ LockOf(tree, found, mine[i].manager, mine[i].dir) = NoLock
                         /\ Foreign(tree, found, mine[i].manager, mine[i].dir)
Realised(branch, tasks, tools) ==
  CASE \E i \in DOMAIN tasks : tasks[i].kind = "post-upgrade" /\ tasks[i].by = 0 -> Held("taskRefused")
    [] \E i \in DOMAIN tasks : tasks[i].argv[1] \notin tools                     -> Held("pluginRequired")
    [] OTHER -> [branch EXCEPT !.tasks = tasks]
TasksFor(branch, tree, found, mine, us, confs, allowed, tools) ==
  CASE LeftBehind(tree, found, mine) -> Held("pluginRequired")
    [] NoRefresh(tree, found, us)    -> Held("pluginRequired")
    [] OTHER -> Realised(branch, LockTasks(tree, found, us, Places(tree, found, us)) \o PostTasks(mine, confs, allowed), tools)

\* terraformLockEdits: each provider once per lock; without its hashes the
\* branch is held.
Provider(tree, found, u) == u.manager = "terraform" /\ ~IsMaintenance(u) /\ LockPath(tree, found, "terraform", u.dir) /= NoLock
TerraformLockEdits(tree, found, us) == {<<LockPath(tree, found, "terraform", us[i].dir), us[i].name>> : i \in {i \in DOMAIN us : Provider(tree, found, us[i])}}
Edited(us) == {<<us[i].manager, us[i].dir, us[i].name>> : i \in {i \in DOMAIN us : ~IsMaintenance(us[i]) /\ ~us[i].lockOnly}}
RealiseMine(w, mine) ==
  CASE w.refused -> Held("editRefused")
    [] ~w.hashes /\ TerraformLockEdits(w.tree, w.found, mine) /= {} -> Held("taskRefused")
    [] OTHER -> TasksFor([held |-> "none", edits |-> Edited(mine), lockEdits |-> TerraformLockEdits(w.tree, w.found, mine), tasks |-> <<>>],
                         w.tree, w.found, mine, OnLocks(w.tree, w.found, mine), w.confs, w.allowed, w.tools)
Realise(w) == RealiseMine(w, SelectSeq(w.updates, LAMBDA u : ~u.blocked))

(***************************************************************************)
(* The reference: w's updates of dependencies are one branch, the refreshes *)
(* of its locks another.  Nearest is every lock beside, or for npm and       *)
(* terraform above, a manifest that no other lies nearer to.                *)
(***************************************************************************)
Mine(updates) == {updates[i] : i \in {i \in DOMAIN updates : ~updates[i].blocked}}
InReach(w, manager, dir) ==
  {p \in w.tree.readable : /\ p[2] \in ToSet(LockNames(manager)) /\ p[1] \in ToSet(Upwards(dir))
                           /\ p[1] = dir \/ manager \in {"npm", "terraform"}}
Nearest(w, manager, dir) == {p \in InReach(w, manager, dir) : \A q \in InReach(w, manager, dir) : Len(q[1]) <= Len(p[1])}
ToolOf(lock) ==
  CASE lock \in NpmScope -> "npm" [] lock = "yarn.lock" -> "yarn" [] lock = "pnpm-lock.yaml" -> "pnpm"
    [] lock = "composer.lock" -> "composer" [] OTHER -> "go"
Brings(t, p) == t.kind = "lock-refresh" /\ t.lifts = <<>> /\ t.dir = p[1] /\ p[2] \in t.scope /\ t.argv[1] = ToolOf(p[2])
RefreshesOf(out, p) == {i \in DOMAIN out.tasks : Brings(out.tasks[i], p)}

\* The root of a workspace without dependencies of its own names no lock
\* and its maintenance takes npm for the tool (README).
Bare(w, manager, p) == p[1] \notin {m.dir : m \in {m \in w.found : m.manager = manager /\ m.deps /= {}}}

\* A manifest and its lock move together, by one refresh of the right tool.
LockFollows(w, out, u) ==
  IF u.manager = "terraform"
  THEN Nearest(w, u.manager, u.dir) /= {} => \E p \in Nearest(w, u.manager, u.dir) : <<p, u.name>> \in out.lockEdits
  ELSE IF Nearest(w, u.manager, u.dir) = {}
  THEN \A d \in ToSet(Upwards(u.dir)), n \in Unrefreshable(u.manager) : <<d, n>> \notin w.tree.files
  ELSE \E p \in Nearest(w, u.manager, u.dir) :
         /\ \E i \in RefreshesOf(out, p) :
              /\ RefreshesOf(out, p) = {i}
              /\ out.tasks[i].names = {} \/ (p[1] = u.dir /\ u.name \in out.tasks[i].names)
              /\ u.fix /\ LiftsReleaseAge(u.manager, p[2]) => out.tasks[i].aged

\* The age is lifted for a fix and for what is advised against, no further.
AgeKept(out, updates) ==
  \A i \in DOMAIN out.tasks : out.tasks[i].aged =>
    \E u \in updates : u.fix /\ u.manager = out.tasks[i].manager
      /\ (out.tasks[i].lifts /= <<>> => out.tasks[i].names \subseteq UNION {{v.advisories[k].package : k \in DOMAIN v.advisories} : v \in updates})

\* What is configured runs for every update it is configured for, as allowed.
RunsAsAllowed(w, out, u) ==
  u.conf /= "none" =>
    \A c \in DOMAIN w.confs[u.conf].commands :
      \E i \in DOMAIN out.tasks :
        /\ out.tasks[i].kind = "post-upgrade" /\ u.name \in out.tasks[i].names
        /\ out.tasks[i].argv[1] = w.confs[u.conf].commands[c][1]
        /\ out.tasks[i].argv \in w.allowed[out.tasks[i].by]
        /\ ToSet(MandatoryFlags(out.tasks[i].argv[1])) \subseteq ToSet(out.tasks[i].argv)

\* Every lock with advisories against what it pins is brought up to date,
\* what is advised against past its age where the tool can.
AdvisedMoves(w, out) ==
  \A m \in {m \in w.found : m.deps /= {}} : \A p \in Nearest(w, m.manager, m.dir) :
    w.advised[<<m.manager, p>>] /= <<>> /\ ~Bare(w, m.manager, p) /\ m.manager /= "terraform" /\ Cardinality(Nearest(w, m.manager, m.dir)) = 1 =>
      /\ \E i \in RefreshesOf(out, p) : out.tasks[i].argv[2] /= "install" /\ out.tasks[i].names = {} /\ ~out.tasks[i].aged
      /\ LiftsTransitive(m.manager, p[2]) =>
           \E i \in DOMAIN out.tasks : out.tasks[i].lifts /= <<>> /\ out.tasks[i].dir = p[1]
             /\ out.tasks[i].names = {w.advised[<<m.manager, p>>][k].package : k \in DOMAIN w.advised[<<m.manager, p>>]}

Complete(w, out, updates) ==
  /\ out.held /= "none" => out.edits = {} /\ out.lockEdits = {} /\ out.tasks = <<>>
  /\ out.held = "none" =>
       /\ \A i \in DOMAIN out.tasks : out.tasks[i].argv[1] \in w.tools
       /\ AgeKept(out, updates)
       /\ \A u \in updates : RunsAsAllowed(w, out, u)
       /\ \A u \in updates : ~IsMaintenance(u) => LockFollows(w, out, u) /\ (u.lockOnly \/ <<u.manager, u.dir, u.name>> \in out.edits)
MaintenanceOf(w) == SetToSeq(LockMaintenance(w.tree, w.found, w.on, w.narrowed, w.advised))
MovesAdvised(w, out) == out.held = "none" => AdvisedMoves(w, out)
WholeOrHeld(w) ==
  /\ Complete(w, Realise(w), Mine(w.updates))
  /\ Complete(w, Realise([w EXCEPT !.updates = MaintenanceOf(w)]), Mine(MaintenanceOf(w)))
  /\ MovesAdvised(w, Realise([w EXCEPT !.updates = MaintenanceOf(w)]))
=============================================================================
