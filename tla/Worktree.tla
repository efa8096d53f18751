------------------------------ MODULE Worktree ------------------------------
(***************************************************************************)
(* The working trees a run pushes its branches from.  pushBranch of the     *)
(* runner rebuilds one branch after the other in ONE checkout: it recreates *)
(* the branch on the base, writes the edits, runs the tasks (tools that     *)
(* rewrite lock files), commits what is staged and pushes.  Each of these   *)
(* steps can fail, and what a failed step leaves in the tree or the index   *)
(* is where the next branch starts.  Several checkouts work side by side    *)
(* and share the slots a task needs (plugin.Runner.Slots).                  *)
(*                                                                         *)
(* A file's content is the set of marks its writers left, so a commit tells *)
(* whose bytes it carries.  BranchPush models the remote's side of the same *)
(* function; here the remote's answer is a choice.                          *)
(***************************************************************************)
EXTENDS Naturals, Sequences, FiniteSets

CONSTANTS
    Checkouts,      \* the clones a partition works on in parallel
    Files,          \* the paths of a checkout
    Manifest,       \* the file whose edits ask for new versions
    Lock,           \* the file a lock refresh derives from the manifest
    Plan,           \* Plan[c]: the branches of c, in the order they are pushed
    Slots           \* how many tasks may run at once

(***************************************************************************)
(* A branch is [name, edits, tasks]: the files its edits change and its     *)
(* tasks, each [kind, scope, lifts]: a lock refresh or an upgrade command,  *)
(* the paths its file filters admit, and how many advisories it is to lift. *)
(***************************************************************************)
Names == UNION {{Plan[c][i].name : i \in DOMAIN Plan[c]} : c \in Checkouts}
Tasks == [kind : {"lock", "upgrade"}, scope : SUBSET Files, lifts : Nat]
Branches == [name : Names, edits : SUBSET Files, tasks : Seq(Tasks)]

ASSUME PlanAssumption ==
    /\ Manifest \in Files /\ Lock \in Files /\ Manifest # Lock
    /\ Slots \in Nat \ {0}
    /\ \A c \in Checkouts : Plan[c] \in Seq(Branches)

VARIABLES
    at,        \* at[c]: where pushBranch of c stands
    turn,      \* turn[c]: the index of the branch at work
    task,      \* task[c]: the index of the next task of that branch
    work,      \* work[c]: the files on disk
    index,     \* index[c]: what is staged
    head,      \* head[c]: the tree of HEAD
    paths,     \* paths[c]: the paths pushBranch will stage
    lifts,     \* lifts[c]: [asked, left, checked], the lifts read back, and
               \* how many the tools have made in truth (moved)
    title,     \* title[c]: the branch's title still claims [security]
    free,      \* the task slots nobody holds
    pushed,    \* what was pushed: [checkout, turn, tree, claim]
    tainted    \* tainted[c]: history, a write or commit or discard of c failed

tree == <<work, index, head>>
vars == <<at, turn, task, work, index, head, paths, lifts, title, free, pushed, tainted>>

Mark == [branch : Names, by : {"edit", "task"}]
Tree == [Files -> SUBSET Mark]
Base == [f \in Files |-> {}]

B(c) == Plan[c][turn[c]]
Mine(c, by) == [branch |-> B(c).name, by |-> by]
Task(c) == B(c).tasks[task[c]]
NoLifts == [asked |-> 0, left |-> 0, checked |-> TRUE, moved |-> 0]

\* The edits of a branch whose bytes a content holds.
EditsIn(content) == {m.branch : m \in {n \in content : n.by = "edit"}}

\* git status --porcelain: what differs from HEAD on disk or in the index.
Changed(w, i, h) == {f \in Files : w[f] # h[f] \/ i[f] # h[f]}

(***************************************************************************)
(* git checkout -B branch base: a file nobody touched becomes the base's,  *)
(* a local change is carried along, and git refuses when the base differs   *)
(* from HEAD in a changed file.                                             *)
(***************************************************************************)
Carried(c) == Changed(work[c], index[c], head[c])
Carries(c) == \A f \in Carried(c) : head[c][f] = Base[f]

\* checkout -- . restores from the index, clean -fd removes what is untracked.
MutDiscard(w, i) == w
Discard(w, i) == i

------------------------------------------------------------------------------
Init ==
    /\ at = [c \in Checkouts |-> IF Plan[c] = <<>> THEN "done" ELSE "next"]
    /\ turn = [c \in Checkouts |-> 1]
    /\ task = [c \in Checkouts |-> 1]
    /\ work = [c \in Checkouts |-> Base]
    /\ index = [c \in Checkouts |-> Base]
    /\ head = [c \in Checkouts |-> Base]
    /\ paths = [c \in Checkouts |-> {}]
    /\ lifts = [c \in Checkouts |-> NoLifts]
    /\ title = [c \in Checkouts |-> TRUE]
    /\ free = Slots
    /\ pushed = {}
    /\ tainted = [c \in Checkouts |-> FALSE]

\* Execute goes on with the next branch whatever became of this one.
Leave(c) ==
    /\ turn' = [turn EXCEPT ![c] = @ + 1]
    /\ at' = [at EXCEPT ![c] = IF turn[c] = Len(Plan[c]) THEN "done" ELSE "next"]

(***************************************************************************)
(* The remote cannot be read, or the branch carries a person's commits:     *)
(* pushBranch returns before it touches the tree.                           *)
(***************************************************************************)
LeftAlone(c) ==
    /\ at[c] = "next" /\ Leave(c)
    /\ UNCHANGED <<task, tree, paths, lifts, title, free, pushed, tainted>>

Recreate(c) ==
    /\ at[c] = "next" /\ Carries(c)
    /\ at' = [at EXCEPT ![c] = "write"]
    /\ head' = [head EXCEPT ![c] = Base]
    /\ index' = [index EXCEPT ![c] =
          [f \in Files |-> IF f \in Carried(c) THEN @[f] ELSE Base[f]]]
    /\ work' = [work EXCEPT ![c] =
          [f \in Files |-> IF f \in Carried(c) THEN @[f] ELSE Base[f]]]
    /\ task' = [task EXCEPT ![c] = 1]
    /\ paths' = [paths EXCEPT ![c] = B(c).edits]
    /\ lifts' = [lifts EXCEPT ![c] = NoLifts]
    /\ title' = [title EXCEPT ![c] = TRUE]
    /\ UNCHANGED <<turn, free, pushed, tainted>>

\* git will not overwrite a change: the branch fails, the tree stays.
RecreateRefused(c) ==
    /\ at[c] = "next" /\ ~Carries(c) /\ Leave(c)
    /\ UNCHANGED <<task, tree, paths, lifts, title, free, pushed, tainted>>

Written(c, fs) ==
    [work EXCEPT ![c] = [f \in Files |-> IF f \in fs THEN @[f] \cup {Mine(c, "edit")} ELSE @[f]]]

\* Edits found their old bytes: certain on the base's file, possible beside
\* somebody else's change, never over their own.
Applies(c) == \A f \in B(c).edits : Mine(c, "edit") \notin work[c][f]

WriteFiles(c) ==
    /\ at[c] = "write" /\ Applies(c)
    /\ work' = Written(c, B(c).edits)
    /\ at' = [at EXCEPT ![c] = "tasks"]
    /\ UNCHANGED <<turn, task, index, head, paths, lifts, title, free, pushed, tainted>>

\* The file changed since the plan was made: every file is checked before
\* any is written, so the tree stays as it was.
WriteRefused(c) ==
    /\ at[c] = "write"
    /\ \E f \in B(c).edits : work[c][f] # Base[f]
    /\ Leave(c)
    /\ UNCHANGED <<task, tree, paths, lifts, title, free, pushed, tainted>>

\* A write fails (a full disk): the files before it are written and stay.
WriteFails(c) ==
    /\ at[c] = "write" /\ Applies(c)
    /\ \E fs \in (SUBSET B(c).edits) \ {B(c).edits} : work' = Written(c, fs)
    /\ tainted' = [tainted EXCEPT ![c] = TRUE]
    /\ Leave(c)
    /\ UNCHANGED <<task, index, head, paths, lifts, title, free, pushed>>

------------------------------------------------------------------------------
HasTask(c) == task[c] <= Len(B(c).tasks)

\* The toolchain is there and Runner.Run asks for a slot.
Queue(c) ==
    /\ at[c] = "tasks" /\ HasTask(c)
    /\ at' = [at EXCEPT ![c] = "waiting"]
    /\ UNCHANGED <<turn, task, tree, paths, lifts, title, free, pushed, tainted>>

\* A task behind others waits, outside its timeout.
TakeSlot(c) ==
    /\ at[c] = "waiting" /\ free > 0
    /\ free' = free - 1
    /\ at' = [at EXCEPT ![c] = "running"]
    /\ UNCHANGED <<turn, task, tree, paths, lifts, title, pushed, tainted>>

\* What a tool that touched fs leaves on disk.  A lock is resolved from the
\* manifest as it lies there.
Touched(c, fs) ==
    [f \in Files |->
        IF f \notin fs THEN work[c][f]
        ELSE {Mine(c, "task")} \cup
             (IF f = Lock /\ Task(c).kind = "lock"
              THEN {m \in work[c][Manifest] : m.by = "edit"} ELSE work[c][f])]

\* A refresh that succeeds leaves the lock resolved (the tool's contract).
Resolves(c, fs) ==
    Task(c).kind = "lock" /\ EditsIn(work[c][Lock]) # EditsIn(work[c][Manifest]) => Lock \in fs

\* The paths runTask calls changed: the listing after the task, without what
\* the listing before it already named.
MutNewlyChanged(c, w) == {}
NewlyChanged(c, w) ==
    Changed(w, index[c], head[c]) \ Changed(work[c], index[c], head[c])

InScope(c, changed) == changed \subseteq Task(c).scope

\* Every way out of Run gives the slot back.
MutGivenBack == free
GivenBack == free + 1

\* unlifted, after a task that was to make n lifts and made some: those still
\* locked are added to the earlier ones; a lock that cannot be read adds
\* nothing to either count, and the counts are not trusted any more (checked).
MutReadBack(l, n, made, readable) ==
    IF readable THEN [asked |-> l.asked + n, left |-> n - made, checked |-> l.checked, moved |-> l.moved + made]
                ELSE [l EXCEPT !.checked = FALSE, !.moved = @ + made]
ReadBack(l, n, made, readable) ==
    IF readable THEN [asked |-> l.asked + n, left |-> l.left + (n - made), checked |-> l.checked, moved |-> l.moved + made]
                ELSE [l EXCEPT !.checked = FALSE, !.moved = @ + made]

\* The task ended and stayed in its scope.
TaskEnds(c) ==
    /\ at[c] = "running" /\ free' = GivenBack
    /\ \E fs \in SUBSET Files :
          LET w == Touched(c, fs)
              new == NewlyChanged(c, w)
          IN /\ Resolves(c, fs) /\ InScope(c, new)
             /\ work' = [work EXCEPT ![c] = w]
             /\ paths' = [paths EXCEPT ![c] = @ \cup new]
    /\ \E made \in 0 .. Task(c).lifts, readable \in BOOLEAN :
          /\ Task(c).lifts = 0 => readable
          /\ lifts' = [lifts EXCEPT ![c] = ReadBack(@, Task(c).lifts, made, readable)]
    /\ task' = [task EXCEPT ![c] = @ + 1]
    /\ at' = [at EXCEPT ![c] = "tasks"]
    /\ UNCHANGED <<turn, index, head, title, pushed, tainted>>

(***************************************************************************)
(* The tool failed, ran into its timeout, changed .git or left its scope:   *)
(* what it wrote is discarded and the branch fails.                         *)
(***************************************************************************)
TaskFails(c) ==
    /\ at[c] = "running" /\ free' = GivenBack
    /\ \E fs \in SUBSET Files :
          work' = [work EXCEPT ![c] = Discard(Touched(c, fs), index[c])]
    /\ Leave(c)
    /\ UNCHANGED <<task, index, head, paths, lifts, title, pushed, tainted>>

\* The toolchain is not on PATH: refused before a slot is taken.
Unavailable(c) ==
    /\ at[c] = "tasks" /\ HasTask(c)
    /\ work' = [work EXCEPT ![c] = Discard(work[c], index[c])]
    /\ Leave(c)
    /\ UNCHANGED <<task, index, head, paths, lifts, title, free, pushed, tainted>>

\* Discard's own error is dropped: the tree stays as the task left it.
DiscardFails(c) ==
    /\ at[c] = "running" /\ free' = GivenBack
    /\ \E fs \in SUBSET Files : work' = [work EXCEPT ![c] = Touched(c, fs)]
    /\ tainted' = [tainted EXCEPT ![c] = TRUE]
    /\ Leave(c)
    /\ UNCHANGED <<task, index, head, paths, lifts, title, pushed>>

------------------------------------------------------------------------------
\* dropSecurityTitle: a branch without edits whose lifts all stayed behind.
Claim(c) ==
    ~(/\ lifts[c].checked /\ lifts[c].asked > 0
      /\ lifts[c].left >= lifts[c].asked /\ B(c).edits = {})

TasksOver(c) == at[c] = "tasks" /\ ~HasTask(c)

\* No edits and nothing refreshed: nothing to open.
NothingToOpen(c) ==
    /\ TasksOver(c) /\ paths[c] = {} /\ Leave(c)
    /\ title' = [title EXCEPT ![c] = Claim(c)]
    /\ UNCHANGED <<task, tree, paths, lifts, free, pushed, tainted>>

\* The signing key does not vouch for the author: nothing is staged.
NotVouched(c) ==
    /\ TasksOver(c) /\ paths[c] # {} /\ Leave(c)
    /\ title' = [title EXCEPT ![c] = Claim(c)]
    /\ tainted' = [tainted EXCEPT ![c] = TRUE]
    /\ UNCHANGED <<task, tree, paths, lifts, free, pushed>>

Staged(c) == [f \in Files |-> IF f \in paths[c] THEN work[c][f] ELSE index[c][f]]

\* git add the paths; what HEAD already holds is no commit.
Stage(c) ==
    /\ TasksOver(c) /\ paths[c] # {}
    /\ index' = [index EXCEPT ![c] = Staged(c)]
    /\ title' = [title EXCEPT ![c] = Claim(c)]
    /\ IF Staged(c) = head[c]
       THEN Leave(c)
       ELSE at' = [at EXCEPT ![c] = "commit"] /\ UNCHANGED turn
    /\ UNCHANGED <<task, work, head, paths, lifts, free, pushed, tainted>>

\* git commit takes the whole index, not the paths.
Commit(c) ==
    /\ at[c] = "commit"
    /\ head' = [head EXCEPT ![c] = index[c]]
    /\ at' = [at EXCEPT ![c] = "push"]
    /\ UNCHANGED <<turn, task, work, index, paths, lifts, title, free, pushed, tainted>>

\* The commit fails (the signing agent, a hook): the paths stay staged.
CommitFails(c) ==
    /\ at[c] = "commit" /\ Leave(c)
    /\ tainted' = [tainted EXCEPT ![c] = TRUE]
    /\ UNCHANGED <<task, tree, paths, lifts, title, free, pushed>>

Push(c) ==
    /\ at[c] = "push" /\ Leave(c)
    /\ pushed' = pushed \cup {[checkout |-> c, turn |-> turn[c], tree |-> head[c],
                               claim |-> title[c], lifts |-> lifts[c], clean |-> ~tainted[c]]}
    /\ UNCHANGED <<task, tree, paths, lifts, title, free, tainted>>

\* The remote holds the bytes already, or the push is refused.
NotPushed(c) ==
    /\ at[c] = "push" /\ Leave(c)
    /\ UNCHANGED <<task, tree, paths, lifts, title, free, pushed, tainted>>

Begin(c) == LeftAlone(c) \/ Recreate(c) \/ RecreateRefused(c)
Write(c) == WriteFiles(c) \/ WriteRefused(c) \/ WriteFails(c)
Ask(c) == Queue(c) \/ Unavailable(c)
Over(c) == TaskEnds(c) \/ TaskFails(c) \/ DiscardFails(c)
Close(c) ==
    \/ NothingToOpen(c) \/ NotVouched(c) \/ Stage(c)
    \/ Commit(c) \/ CommitFails(c) \/ Push(c) \/ NotPushed(c)

Finished == (\A c \in Checkouts : at[c] = "done") /\ UNCHANGED vars

Next ==
    \/ \E c \in Checkouts :
          Begin(c) \/ Write(c) \/ Ask(c) \/ TakeSlot(c) \/ Over(c) \/ Close(c)
    \/ Finished

Spec == Init /\ [][Next]_vars

\* pushBranch runs on, a tool is killed at its timeout, and a sender blocked
\* on the slots' channel is served when a slot comes free.
FairSpec ==
    /\ Spec
    /\ \A c \in Checkouts :
          /\ WF_vars(Begin(c) \/ Write(c) \/ Ask(c) \/ Close(c))
          /\ WF_vars(TakeSlot(c))
          /\ WF_vars(Over(c))
------------------------------------------------------------------------------
Lifts == [asked : Nat, left : Nat, checked : BOOLEAN, moved : Nat]
Pushes == [checkout : Checkouts, turn : Nat, tree : Tree, claim : BOOLEAN, lifts : Lifts, clean : BOOLEAN]
Busy == {c \in Checkouts : at[c] = "running"}

TypeOK ==
    /\ at \in [Checkouts -> {"next", "write", "tasks", "waiting", "running", "commit", "push", "done"}]
    /\ turn \in [Checkouts -> Nat \ {0}] /\ task \in [Checkouts -> Nat \ {0}]
    /\ \A c \in Checkouts : at[c] # "done" => turn[c] \in DOMAIN Plan[c]
    /\ \A c \in Checkouts : at[c] \in {"waiting", "running"} => task[c] \in DOMAIN B(c).tasks
    /\ work \in [Checkouts -> Tree] /\ index \in [Checkouts -> Tree] /\ head \in [Checkouts -> Tree]
    /\ paths \in [Checkouts -> SUBSET Files]
    /\ lifts \in [Checkouts -> Lifts]
    /\ title \in [Checkouts -> BOOLEAN] /\ tainted \in [Checkouts -> BOOLEAN]
    /\ pushed \subseteq Pushes
    /\ free \in Nat /\ IsFiniteSet(Busy) /\ free + Cardinality(Busy) = Slots

PlanOf(p) == Plan[p.checkout][p.turn]
Allowed(b) == b.edits \cup UNION {b.tasks[j].scope : j \in DOMAIN b.tasks}
ItsOwn(p) ==
    \A f \in Files : p.tree[f] # {} =>
        f \in Allowed(PlanOf(p)) /\ \A m \in p.tree[f] : m.branch = PlanOf(p).name

(***************************************************************************)
(* As long as no write, commit or discard of a checkout has failed, a       *)
(* pushed commit holds the base, its own branch's edits and what its own    *)
(* tasks changed in their scope: a refused task or an unchanged branch      *)
(* before it leaves nothing behind (runner.go:605, git.go:321).             *)
(***************************************************************************)
OnlyItsOwn == \A p \in pushed : p.clean => ItsOwn(p)

(***************************************************************************)
(* Recreate "makes branch the checked-out branch starting fresh from        *)
(* start" (git.go:312): a pushed commit never carries another branch's      *)
(* bytes, whatever happened to that branch.                                 *)
(***************************************************************************)
StartsFresh == \A p \in pushed : \A f \in Files : \A m \in p.tree[f] : m.branch = PlanOf(p).name

(***************************************************************************)
(* "A manifest never lands without its lock" (runner.go:608): what a        *)
(* branch with a lock refresh pushes locks what its manifest asks for.      *)
(***************************************************************************)
LockLandsToo ==
    \A p \in pushed :
        p.clean /\ (\E j \in DOMAIN PlanOf(p).tasks : PlanOf(p).tasks[j].kind = "lock")
        => EditsIn(p.tree[Lock]) = EditsIn(p.tree[Manifest])

(***************************************************************************)
(* "Only the lock after the tool ran can say whether it happened"           *)
(* (lift.go:22): over all tasks of a branch of lifts alone, what was pushed *)
(* without the [security] it was planned with made none of them, and what   *)
(* was pushed with it made one in truth or has a lock nobody could read.    *)
(***************************************************************************)
LiftsAlone(b) == b.edits = {} /\ \E j \in DOMAIN b.tasks : b.tasks[j].lifts > 0
TitleTellsLifts ==
    \A p \in pushed : LiftsAlone(PlanOf(p)) =>
        IF p.claim THEN p.lifts.moved > 0 \/ ~p.lifts.checked ELSE p.lifts.moved = 0

(***************************************************************************)
(* Every checkout gets through its branches: no task waits forever for a    *)
(* slot another one never gave back (plugin.go:599).                        *)
(***************************************************************************)
EveryBranchHasItsTurn == \A c \in Checkouts : <>(at[c] = "done")
==============================================================================
