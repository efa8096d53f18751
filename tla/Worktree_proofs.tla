--------------------------- MODULE Worktree_proofs ---------------------------
(***************************************************************************)
(* What one branch leaves behind in a working tree the next one starts      *)
(* from, for any plans, files, checkouts and task slots.                    *)
(***************************************************************************)
EXTENDS Worktree, TLAPS, SequenceTheorems, FiniteSetTheorems

Step(c) == Begin(c) \/ Write(c) \/ Ask(c) \/ TakeSlot(c) \/ Over(c) \/ Close(c)

-----------------------------------------------------------------------------
(* Types.                                                                  *)

\* TypeOK in three parts: where the checkouts are, what they hold, the slots.
Places == {"next", "write", "tasks", "waiting", "running", "commit", "push", "done"}
Place ==
    /\ at \in [Checkouts -> Places] /\ turn \in [Checkouts -> Nat \ {0}] /\ task \in [Checkouts -> Nat \ {0}]
    /\ \A c \in Checkouts : at[c] # "done" => turn[c] \in DOMAIN Plan[c]
    /\ \A c \in Checkouts : at[c] \in {"waiting", "running"} => task[c] \in DOMAIN B(c).tasks
Data ==
    /\ work \in [Checkouts -> Tree] /\ index \in [Checkouts -> Tree] /\ head \in [Checkouts -> Tree]
    /\ paths \in [Checkouts -> SUBSET Files]
    /\ lifts \in [Checkouts -> Lifts]
    /\ title \in [Checkouts -> BOOLEAN] /\ tainted \in [Checkouts -> BOOLEAN]
    /\ pushed \subseteq Pushes
Count == free \in Nat /\ IsFiniteSet(Busy) /\ free + Cardinality(Busy) = Slots

LEMMA Parts == TypeOK <=> Place /\ Data /\ Count
BY DEF TypeOK, Place, Places, Data, Count

\* A branch at work is one of the plan's.
LEMMA BranchTyped ==
    ASSUME Place, NEW c \in Checkouts, at[c] # "done"
    PROVE  /\ turn[c] \in 1 .. Len(Plan[c]) /\ Len(Plan[c]) \in Nat
           /\ B(c) \in Branches
           /\ DOMAIN B(c).tasks = 1 .. Len(B(c).tasks) /\ Len(B(c).tasks) \in Nat
           /\ \A by \in {"edit", "task"} : Mine(c, by) \in Mark
<1>1. Plan[c] \in Seq(Branches) /\ turn[c] \in DOMAIN Plan[c]
  BY PlanAssumption DEF Place
<1>2. turn[c] \in 1 .. Len(Plan[c]) /\ Len(Plan[c]) \in Nat /\ B(c) \in Branches
  BY <1>1 DEF B
<1>3. B(c).tasks \in Seq(Tasks) /\ B(c).name \in Names
  BY <1>2 DEF Branches
<1> QED BY <1>2, <1>3 DEF Mine, Mark

\* After its last branch a checkout is done.
LEMMA LeaveTyped ==
    ASSUME Place, NEW c \in Checkouts, at[c] # "done", Leave(c)
    PROVE  /\ at' \in [Checkouts -> Places] /\ turn' \in [Checkouts -> Nat \ {0}]
           /\ \A d \in Checkouts : at'[d] # "done" => turn'[d] \in DOMAIN Plan[d]
           /\ at'[c] \in {"next", "done"}
           /\ \A d \in Checkouts \ {c} : at'[d] = at[d] /\ turn'[d] = turn[d]
<1>1. turn[c] \in 1 .. Len(Plan[c]) /\ Len(Plan[c]) \in Nat /\ DOMAIN Plan[c] = 1 .. Len(Plan[c])
  BY BranchTyped, PlanAssumption
<1>2. turn' = [turn EXCEPT ![c] = turn[c] + 1]
      /\ at' = [at EXCEPT ![c] = IF turn[c] = Len(Plan[c]) THEN "done" ELSE "next"]
  BY DEF Leave
<1>3. at'[c] # "done" => turn'[c] \in DOMAIN Plan[c]
  BY <1>1, <1>2 DEF Place
<1>4. at' \in [Checkouts -> Places] /\ at'[c] \in {"next", "done"}
      /\ \A d \in Checkouts \ {c} : at'[d] = at[d] /\ turn'[d] = turn[d]
  BY <1>2 DEF Place, Places
<1>5. turn' \in [Checkouts -> Nat \ {0}]
  BY <1>1, <1>2 DEF Place
<1> QED BY <1>3, <1>4, <1>5 DEF Place

\* The ways a step of c changes where it is.
Moved(c) ==
    \/ Leave(c) /\ task' = task
    \/ \E p \in Places \ {"next", "done"} :
          /\ at' = [at EXCEPT ![c] = p] /\ turn' = turn
          /\ \/ /\ task' = task
                /\ p = "waiting" => HasTask(c)
                /\ p = "running" => at[c] = "waiting"
             \/ /\ task' \in {[task EXCEPT ![c] = 1], [task EXCEPT ![c] = @ + 1]}
                /\ p \in {"write", "tasks"}

LEMMA StepMoves ==
    ASSUME Place, NEW c \in Checkouts, Step(c)
    PROVE  Moved(c) /\ at[c] # "done"
<1>1. CASE Begin(c)
  BY <1>1 DEF Begin, LeftAlone, Recreate, RecreateRefused, Moved, Places
<1>2. CASE Write(c)
  BY <1>2 DEF Write, WriteFiles, WriteRefused, WriteFails, Moved, Places
<1>3. CASE Ask(c) \/ TakeSlot(c)
  BY <1>3 DEF Ask, Queue, Unavailable, TakeSlot, Moved, Places
<1>4. CASE Over(c)
  BY <1>4 DEF Over, TaskEnds, TaskFails, DiscardFails, Moved, Places
<1>5. CASE Close(c)
  BY <1>5 DEF Close, NothingToOpen, NotVouched, Stage, Commit, CommitFails, Push, NotPushed, Moved, Places,
              TasksOver
<1> QED BY <1>1, <1>2, <1>3, <1>4, <1>5 DEF Step

LEMMA PlaceKept == ASSUME Place, NEW c \in Checkouts, Step(c) PROVE Place'
<1>0. at[c] # "done" /\ Moved(c)
  BY StepMoves
<1>1. CASE Leave(c) /\ task' = task
  <2>1. \A d \in Checkouts : at'[d] \in {"waiting", "running"} => task'[d] \in DOMAIN B(d)'.tasks
    BY <1>0, <1>1, LeaveTyped DEF Place, B
  <2> QED BY <1>0, <1>1, <2>1, LeaveTyped DEF Place
<1>2. ASSUME NEW p \in Places \ {"next", "done"}, at' = [at EXCEPT ![c] = p], turn' = turn,
             task' = task, p = "waiting" => HasTask(c), p = "running" => at[c] = "waiting"
      PROVE  Place'
  <2>1. \A d \in Checkouts : B(d)' = B(d)
    BY <1>2 DEF B
  <2>2. HasTask(c) => task[c] \in DOMAIN B(c).tasks
    BY <1>0, BranchTyped DEF HasTask, Place
  <2>3. \A d \in Checkouts : at'[d] \in {"waiting", "running"} => task'[d] \in DOMAIN B(d)'.tasks
    BY <1>2, <2>1, <2>2 DEF Place
  <2> QED BY <1>0, <1>2, <2>3 DEF Place
<1>3. ASSUME NEW p \in {"write", "tasks"}, at' = [at EXCEPT ![c] = p], turn' = turn,
             task' \in {[task EXCEPT ![c] = 1], [task EXCEPT ![c] = @ + 1]}
      PROVE  Place'
  <2>1. \A d \in Checkouts : B(d)' = B(d)
    BY <1>3 DEF B
  <2>2. task' \in [Checkouts -> Nat \ {0}] /\ \A d \in Checkouts \ {c} : task'[d] = task[d]
    BY <1>3 DEF Place
  <2>3. \A d \in Checkouts : at'[d] \in {"waiting", "running"} => task'[d] \in DOMAIN B(d)'.tasks
    BY <1>3, <2>1, <2>2 DEF Place
  <2> QED BY <1>0, <1>3, <2>2, <2>3 DEF Place, Places
<1> QED BY <1>0, <1>1, <1>2, <1>3 DEF Moved

\* Whoever leaves running gives a slot back, whoever starts takes one.
LEMMA CountKept ==
    ASSUME Place, Place', Count, NEW c \in Checkouts, Step(c)
    PROVE  Count'
<1>1. CASE Busy' = Busy /\ free' = free
  BY <1>1 DEF Count
<1>2. CASE TakeSlot(c)
  <2>1. c \notin Busy /\ Busy' = Busy \cup {c} /\ free' = free - 1 /\ free > 0
    BY <1>2 DEF TakeSlot, Busy, Place
  <2>2. IsFiniteSet(Busy') /\ Cardinality(Busy') = Cardinality(Busy) + 1 /\ Cardinality(Busy) \in Nat
    BY <2>1, FS_AddElement, FS_CardinalityType DEF Count
  <2> QED BY <2>1, <2>2 DEF Count
<1>3. CASE Over(c)
  <2>1. at[c] = "running" /\ free' = free + 1
    BY <1>3 DEF Over, TaskEnds, TaskFails, DiscardFails, GivenBack
  <2>2. at'[c] # "running" /\ \A d \in Checkouts \ {c} : at'[d] = at[d]
    <3>1. CASE Leave(c)
      BY <2>1, <3>1, LeaveTyped
    <3>2. CASE TaskEnds(c)
      BY <3>2 DEF TaskEnds, Place
    <3> QED BY <1>3, <3>1, <3>2 DEF Over, TaskFails, DiscardFails
  <2>3. c \in Busy /\ Busy' = Busy \ {c}
    BY <2>1, <2>2 DEF Busy
  <2>4. IsFiniteSet(Busy') /\ Cardinality(Busy') = Cardinality(Busy) - 1 /\ Cardinality(Busy) \in Nat
    BY <2>3, FS_RemoveElement, FS_CardinalityType DEF Count
  <2> QED BY <2>1, <2>4 DEF Count
<1>4. CASE Begin(c) \/ Write(c) \/ Ask(c) \/ Close(c)
  <2>1. free' = free /\ at[c] \notin {"running", "done"}
    BY <1>4 DEF Begin, LeftAlone, Recreate, RecreateRefused, Write, WriteFiles, WriteRefused, WriteFails, Ask, Queue,
                Unavailable, Close, NothingToOpen, NotVouched, Stage, Commit, CommitFails, Push, NotPushed, TasksOver
  <2>2. at'[c] # "running" /\ \A d \in Checkouts \ {c} : at'[d] = at[d]
    <3>1. CASE Leave(c)
      BY <2>1, <3>1, LeaveTyped
    <3>2. CASE Recreate(c) \/ WriteFiles(c) \/ Queue(c) \/ Stage(c) \/ Commit(c)
      BY <2>1, <3>2, LeaveTyped DEF Recreate, WriteFiles, Queue, Stage, Commit, Place
    <3> QED BY <1>4, <3>1, <3>2 DEF Begin, LeftAlone, RecreateRefused, Write, WriteRefused, WriteFails, Ask,
                Unavailable, Close, NothingToOpen, NotVouched, CommitFails, Push, NotPushed
  <2>3. Busy' = Busy
    BY <2>1, <2>2 DEF Busy
  <2> QED BY <1>1, <2>1, <2>3
<1> QED BY <1>2, <1>3, <1>4 DEF Step

LEMMA BaseTyped == Base \in Tree
BY DEF Base, Tree

\* Writing edits leaves the branch's marks and nothing else.
LEMMA WrittenTyped ==
    ASSUME Place, Data, NEW c \in Checkouts, at[c] # "done", NEW fs \in SUBSET Files
    PROVE  /\ Written(c, fs) \in [Checkouts -> Tree]
           /\ Written(c, fs)[c] = [f \in Files |-> IF f \in fs THEN work[c][f] \cup {Mine(c, "edit")} ELSE work[c][f]]
           /\ \A d \in Checkouts \ {c} : Written(c, fs)[d] = work[d]
<1> DEFINE w == [f \in Files |-> IF f \in fs THEN work[c][f] \cup {Mine(c, "edit")} ELSE work[c][f]]
<1>1. Mine(c, "edit") \in Mark /\ work[c] \in Tree
  BY BranchTyped DEF Data
<1>2. w \in Tree
  BY <1>1 DEF Tree
<1>3. Written(c, fs) = [work EXCEPT ![c] = w]
  BY DEF Written
<1> HIDE DEF w
<1>4. Written(c, fs) \in [Checkouts -> Tree] /\ Written(c, fs)[c] = w
      /\ \A d \in Checkouts \ {c} : Written(c, fs)[d] = work[d]
  BY <1>2, <1>3 DEF Data
<1> QED BY <1>4 DEF w

LEMMA TouchedTyped ==
    ASSUME Place, Data, NEW c \in Checkouts, at[c] # "done", NEW fs \in SUBSET Files
    PROVE  Touched(c, fs) \in Tree
<1>1. Mine(c, "task") \in Mark /\ work[c] \in Tree
  BY BranchTyped DEF Data
<1>2. {m \in work[c][Manifest] : m.by = "edit"} \subseteq Mark
  BY <1>1, PlanAssumption DEF Tree
<1>3. \A f \in Files : {Mine(c, "task")} \cup
           (IF f = Lock /\ Task(c).kind = "lock"
              THEN {m \in work[c][Manifest] : m.by = "edit"} ELSE work[c][f]) \in SUBSET Mark
  BY <1>1, <1>2 DEF Tree
<1> QED BY <1>1, <1>3 DEF Touched, Tree

\* What a step leaves alone: the other checkouts' trees and claims.
LEMMA OthersAlone ==
    ASSUME Place, Data, NEW c \in Checkouts, Step(c), NEW d \in Checkouts \ {c}
    PROVE  /\ at'[d] = at[d] /\ turn'[d] = turn[d] /\ task'[d] = task[d]
           /\ work'[d] = work[d] /\ index'[d] = index[d] /\ head'[d] = head[d] /\ paths'[d] = paths[d]
           /\ lifts'[d] = lifts[d] /\ title'[d] = title[d] /\ tainted'[d] = tainted[d]
<1>0. at[c] # "done" /\ Moved(c)
  BY StepMoves
<1>1. at'[d] = at[d] /\ turn'[d] = turn[d] /\ task'[d] = task[d]
  <2>1. Leave(c) => at'[d] = at[d] /\ turn'[d] = turn[d]
    BY <1>0, LeaveTyped
  <2> QED BY <1>0, <2>1 DEF Moved, Place
<1>2. CASE Begin(c)
  BY <1>1, <1>2 DEF Begin, LeftAlone, Recreate, RecreateRefused, tree, Data
<1>3. CASE Write(c)
  <2>1. \A fs \in SUBSET B(c).edits : Written(c, fs)[d] = work[d]
    BY DEF Written, Data
  <2> QED BY <1>1, <1>3, <2>1 DEF Write, WriteFiles, WriteRefused, WriteFails, tree, Data
<1>4. CASE Ask(c) \/ TakeSlot(c)
  BY <1>1, <1>4 DEF Ask, Queue, Unavailable, TakeSlot, tree, Data
<1>5. CASE TaskEnds(c)
  <2>1. PICK fs \in SUBSET Files : work' = [work EXCEPT ![c] = Touched(c, fs)]
            /\ paths' = [paths EXCEPT ![c] = @ \cup NewlyChanged(c, Touched(c, fs))]
    BY <1>5 DEF TaskEnds
  <2>2. work'[d] = work[d] /\ paths'[d] = paths[d]
    BY <2>1 DEF Data
  <2>3. lifts'[d] = lifts[d]
    BY <1>5 DEF TaskEnds, Data
  <2> QED BY <1>1, <1>5, <2>2, <2>3 DEF TaskEnds
<1>6. CASE TaskFails(c) \/ DiscardFails(c)
  BY <1>1, <1>6 DEF TaskFails, DiscardFails, Data
<1>7. CASE Close(c)
  BY <1>1, <1>7 DEF Close, NothingToOpen, NotVouched, Stage, Commit, CommitFails, Push, NotPushed, tree, Data
<1> QED BY <1>2, <1>3, <1>4, <1>5, <1>6, <1>7 DEF Step, Over

\* The task a checkout waits for or runs is one of its branch's.
LEMMA TaskTyped ==
    ASSUME Place, NEW c \in Checkouts, at[c] \in {"waiting", "running"}
    PROVE  Task(c).lifts \in Nat /\ task[c] \in DOMAIN B(c).tasks
<1>1. B(c) \in Branches /\ task[c] \in DOMAIN B(c).tasks
  BY BranchTyped DEF Place
<1>2. Task(c) \in Tasks
  <2>1. B(c).tasks \in Seq(Tasks)
    BY <1>1 DEF Branches
  <2> QED BY <1>1, <2>1 DEF Task
<1> QED BY <1>1, <1>2 DEF Tasks

\* Reading a lock back adds the lifts of one task, or spoils the counts.
LEMMA ReadBackTyped ==
    ASSUME NEW l \in Lifts, NEW n \in Nat, NEW made \in 0 .. n, NEW readable \in BOOLEAN
    PROVE  LET k == ReadBack(l, n, made, readable)
           IN /\ k \in Lifts
              /\ k.checked => l.checked /\ k.asked = l.asked + n
              /\ k.checked /\ l.asked = l.left + l.moved => k.asked = k.left + k.moved
<1>1. /\ l.asked \in Nat /\ l.left \in Nat /\ l.moved \in Nat /\ l.checked \in BOOLEAN
      /\ l.left + (n - made) \in Nat /\ l.moved + made \in Nat
  BY DEF Lifts
<1>2. CASE readable
  BY <1>1, <1>2 DEF ReadBack, Lifts
<1>3. CASE ~readable
  BY <1>1, <1>3 DEF ReadBack, Lifts
<1> QED BY <1>2, <1>3

LEMMA DataKept == ASSUME Place, Data, NEW c \in Checkouts, Step(c) PROVE Data'
<1>0. at[c] # "done" /\ B(c) \in Branches /\ B(c).edits \in SUBSET Files
  BY StepMoves, BranchTyped DEF Branches
<1>1. CASE LeftAlone(c) \/ RecreateRefused(c) \/ WriteRefused(c) \/ Queue(c) \/ TakeSlot(c) \/ NotPushed(c)
  BY <1>1 DEF LeftAlone, RecreateRefused, WriteRefused, Queue, TakeSlot, NotPushed, tree, Data
<1>2. CASE Recreate(c)
  <2> DEFINE Kept(t) == [f \in Files |-> IF f \in Carried(c) THEN t[f] ELSE Base[f]]
  <2>1. \A t \in Tree : Kept(t) \in Tree
    BY BaseTyped DEF Tree
  <2>2. head' = [head EXCEPT ![c] = Base] /\ index' = [index EXCEPT ![c] = Kept(index[c])]
        /\ work' = [work EXCEPT ![c] = Kept(work[c])]
    BY <1>2 DEF Recreate, Data
  <2> HIDE DEF Kept
  <2>3. head' \in [Checkouts -> Tree] /\ index' \in [Checkouts -> Tree] /\ work' \in [Checkouts -> Tree]
    BY <2>1, <2>2, BaseTyped DEF Data
  <2>4. NoLifts \in Lifts
    BY DEF NoLifts, Lifts
  <2>5. paths' = [paths EXCEPT ![c] = B(c).edits] /\ lifts' = [lifts EXCEPT ![c] = NoLifts]
        /\ title' = [title EXCEPT ![c] = TRUE] /\ tainted' = tainted /\ pushed' = pushed
    BY <1>2 DEF Recreate
  <2>6. lifts' \in [Checkouts -> Lifts]
    BY <2>4, <2>5 DEF Data
  <2> QED BY <1>0, <2>3, <2>5, <2>6 DEF Data
<1>3. CASE WriteFiles(c) \/ WriteFails(c)
  <2>1. PICK fs \in SUBSET Files : work' = Written(c, fs)
    BY <1>0, <1>3 DEF WriteFiles, WriteFails
  <2>2. work' \in [Checkouts -> Tree]
    BY <1>0, <2>1, WrittenTyped
  <2> QED BY <1>3, <2>2 DEF WriteFiles, WriteFails, Data
<1>4. CASE TaskEnds(c)
  <2>1. PICK fs \in SUBSET Files : work' = [work EXCEPT ![c] = Touched(c, fs)]
            /\ paths' = [paths EXCEPT ![c] = @ \cup NewlyChanged(c, Touched(c, fs))]
    BY <1>4 DEF TaskEnds
  <2>2. Touched(c, fs) \in Tree
    BY <1>0, TouchedTyped
  <2>3. work' \in [Checkouts -> Tree]
    BY <2>1, <2>2 DEF Data
  <2>4. NewlyChanged(c, Touched(c, fs)) \subseteq Files
    BY DEF NewlyChanged, Changed
  <2>5. paths' \in [Checkouts -> SUBSET Files]
    BY <2>1, <2>4 DEF Data
  <2>6. Task(c).lifts \in Nat
    BY <1>0, <1>4, TaskTyped DEF TaskEnds
  <2>7. lifts' \in [Checkouts -> Lifts]
    <3>1. PICK made \in 0 .. Task(c).lifts, readable \in BOOLEAN :
             lifts' = [lifts EXCEPT ![c] = ReadBack(lifts[c], Task(c).lifts, made, readable)]
      BY <1>4 DEF TaskEnds, Data
    <3>2. ReadBack(lifts[c], Task(c).lifts, made, readable) \in Lifts
      BY <2>6, ReadBackTyped DEF Data
    <3> QED BY <3>1, <3>2 DEF Data
  <2> QED BY <1>4, <2>3, <2>5, <2>7 DEF TaskEnds, Data
<1>5. CASE TaskFails(c) \/ Unavailable(c) \/ DiscardFails(c)
  <2>1. \E w \in Tree : work' = [work EXCEPT ![c] = w]
    <3>1. \A fs \in SUBSET Files : Touched(c, fs) \in Tree
      BY <1>0, TouchedTyped
    <3>2. index[c] \in Tree
      BY DEF Data
    <3> QED BY <1>5, <3>1, <3>2 DEF TaskFails, Unavailable, DiscardFails, Discard
  <2> QED BY <1>5, <2>1 DEF TaskFails, Unavailable, DiscardFails, Data
<1>6. CASE NothingToOpen(c) \/ NotVouched(c) \/ CommitFails(c)
  BY <1>6 DEF NothingToOpen, NotVouched, CommitFails, tree, Data, Claim
<1>7. CASE Stage(c)
  <2>1. Staged(c) \in Tree
    BY DEF Staged, Tree, Data
  <2> QED BY <1>7, <2>1 DEF Stage, Data, Claim
<1>8. CASE Commit(c)
  BY <1>8 DEF Commit, Data
<1>9. CASE Push(c)
  <2>1. [checkout |-> c, turn |-> turn[c], tree |-> head[c], claim |-> title[c], lifts |-> lifts[c],
         clean |-> ~tainted[c]] \in Pushes
    BY DEF Pushes, Data, Place
  <2> QED BY <1>9, <2>1 DEF Push, tree, Data
<1> QED BY <1>1, <1>2, <1>3, <1>4, <1>5, <1>6, <1>7, <1>8, <1>9 DEF Step, Begin, Write, Ask, Over, Close

\* Every checkout is at a branch of its plan, every file holds marks of
\* branches, and the slots taken and free add up (plugin.go, Slots).
THEOREM TypeCorrect == Spec => []TypeOK
<1>1. Init => TypeOK
  <2> SUFFICES ASSUME Init PROVE TypeOK
    OBVIOUS
  <2>1. Busy = {} /\ free = Slots
    BY DEF Init, Busy
  <2>2. Count
    BY <2>1, FS_EmptySet, PlanAssumption DEF Count
  <2>3. \A c \in Checkouts : at[c] # "done" => turn[c] \in DOMAIN Plan[c]
    BY PlanAssumption DEF Init
  <2>4. Place
    BY <2>3 DEF Init, Place, Places
  <2>5. Data
    BY BaseTyped DEF Init, Data, Lifts, NoLifts
  <2> QED BY <2>2, <2>4, <2>5, Parts
<1>2. TypeOK /\ [Next]_vars => TypeOK'
  <2> SUFFICES ASSUME TypeOK, [Next]_vars PROVE TypeOK'
    OBVIOUS
  <2>1. ASSUME NEW c \in Checkouts, Step(c) PROVE TypeOK'
    <3>1. Place /\ Data /\ Count
      BY Parts
    <3>2. Place' /\ Data' /\ Count'
      BY <2>1, <3>1, PlaceKept, DataKept, CountKept
    <3> QED BY <3>2 DEF TypeOK, Place, Places, Data, Count
  <2>2. CASE UNCHANGED vars
    BY <2>2 DEF vars, tree, TypeOK, Busy, B
  <2> QED BY <2>1, <2>2 DEF Next, Step, Finished
<1> QED BY <1>1, <1>2, PTL DEF Spec

-----------------------------------------------------------------------------
(* A working tree between two branches, and at each place within one.      *)

\* w holds nothing but b's marks, in the paths that will be staged, and those
\* are files its edits or its tasks may change.
Own(b, w, p) ==
    /\ p \subseteq Allowed(b)
    /\ \A f \in Files : w[f] # {} => f \in p
    /\ \A f \in Files : \A m \in w[f] : m.branch = b.name

\* Once one of the first k - 1 tasks was a refresh, the lock follows the manifest.
Follows(b, w, k) ==
    (\E j \in DOMAIN b.tasks : j < k /\ b.tasks[j].kind = "lock")
        => EditsIn(w[Lock]) = EditsIn(w[Manifest])

AtTasks == {"tasks", "waiting", "running"}
AtClose == {"commit", "push"}

InOrder(c) == ~tainted[c] =>
    /\ at[c] \in {"next", "done"} => work[c] = index[c] /\ index[c] = head[c]
    /\ at[c] = "write" => work[c] = Base /\ paths[c] = B(c).edits /\ task[c] = 1
    /\ at[c] \in {"write"} \cup AtTasks => index[c] = Base /\ head[c] = Base
    /\ at[c] \in AtClose => index[c] = work[c] /\ task[c] > Len(B(c).tasks)
    /\ at[c] = "push" => head[c] = work[c]
    /\ at[c] \in AtTasks \cup AtClose => Own(B(c), work[c], paths[c]) /\ Follows(B(c), work[c], task[c])

\* The counts add up as long as every lock could be read, the tasks behind
\* the branch are in them, and the title of a commit was decided from them.
Told(c) ==
    /\ lifts[c].checked => lifts[c].asked = lifts[c].left + lifts[c].moved
    /\ lifts[c].checked /\ at[c] \in {"write"} \cup AtTasks \cup AtClose =>
          \A j \in DOMAIN B(c).tasks : j < task[c] /\ B(c).tasks[j].lifts > 0 => lifts[c].asked > 0
    /\ at[c] \in AtClose => title[c] = Claim(c) /\ task[c] > Len(B(c).tasks)

Trees == \A c \in Checkouts : InOrder(c) /\ Told(c)

LEMMA BaseEmpty == \A f \in Files : Base[f] = {}
BY DEF Base

\* A task's mark is no edit's, and a refresh keeps the edits it resolves from.
LEMMA EditsKept ==
    ASSUME NEW x, NEW m, m.by = "task"
    PROVE  EditsIn({m} \cup x) = EditsIn(x) /\ EditsIn({m} \cup {n \in x : n.by = "edit"}) = EditsIn(x)
BY DEF EditsIn

\* What a task that stayed in its scope leaves is the branch's own.
LEMMA TouchedOwn ==
    ASSUME Place, Data, NEW c \in Checkouts, at[c] = "running", NEW fs \in SUBSET Files,
           index[c] = Base, head[c] = Base, Own(B(c), work[c], paths[c]),
           InScope(c, NewlyChanged(c, Touched(c, fs)))
    PROVE  Own(B(c), Touched(c, fs), paths[c] \cup NewlyChanged(c, Touched(c, fs)))
<1> DEFINE w == Touched(c, fs)
           new == NewlyChanged(c, w)
<1>1. new \subseteq Allowed(B(c))
  <2>1. new \subseteq Task(c).scope /\ task[c] \in DOMAIN B(c).tasks
    BY DEF InScope, Place
  <2> QED BY <2>1 DEF Allowed, Task
<1>2. \A f \in Files : w[f] # {} => f \in paths[c] \cup new
  <2> SUFFICES ASSUME NEW f \in Files, w[f] # {}, f \notin paths[c] PROVE f \in new
    OBVIOUS
  <2>1. work[c][f] = {}
    BY DEF Own
  <2>2. f \in Changed(w, index[c], head[c]) /\ f \notin Changed(work[c], index[c], head[c])
    BY <2>1, BaseEmpty DEF Changed
  <2> QED BY <2>2 DEF NewlyChanged
<1>3. \A f \in Files : \A m \in w[f] : m.branch = B(c).name
  <2>1. Mine(c, "task").branch = B(c).name
    BY DEF Mine
  <2>2. Manifest \in Files
    BY PlanAssumption
  <2>3. \A f \in Files : \A m \in work[c][f] : m.branch = B(c).name
    BY DEF Own
  <2> QED BY <2>1, <2>2, <2>3 DEF Touched
<1> QED BY <1>1, <1>2, <1>3 DEF Own

\* A refresh that resolves the lock makes it follow, no task undoes that.
LEMMA TouchedFollows ==
    ASSUME Place, NEW c \in Checkouts, at[c] = "running", NEW fs \in SUBSET Files,
           Follows(B(c), work[c], task[c]), Resolves(c, fs)
    PROVE  Follows(B(c), Touched(c, fs), task[c] + 1)
<1> DEFINE w == Touched(c, fs)
           m == Mine(c, "task")
<1>1. m.by = "task"
  BY DEF Mine
<1>2. Manifest \in Files /\ Lock \in Files /\ Manifest # Lock
  BY PlanAssumption
<1>3. w[Manifest] = work[c][Manifest] \/ w[Manifest] = {m} \cup work[c][Manifest]
  BY <1>2 DEF Touched
<1>4. EditsIn(w[Manifest]) = EditsIn(work[c][Manifest])
  BY <1>1, <1>3, EditsKept
<1>5. CASE Task(c).kind = "lock"
  <2>1. CASE Lock \in fs
    <3>1. w[Lock] = {m} \cup {n \in work[c][Manifest] : n.by = "edit"}
      BY <1>2, <1>5, <2>1 DEF Touched
    <3>2. EditsIn(w[Lock]) = EditsIn(work[c][Manifest])
      BY <1>1, <3>1, EditsKept
    <3> QED BY <1>4, <3>2 DEF Follows
  <2>2. CASE Lock \notin fs
    <3>1. w[Lock] = work[c][Lock] /\ EditsIn(work[c][Lock]) = EditsIn(work[c][Manifest])
      BY <1>2, <1>5, <2>2 DEF Touched, Resolves
    <3> QED BY <1>4, <3>1 DEF Follows
  <2> QED BY <2>1, <2>2
<1>6. CASE Task(c).kind # "lock"
  <2>1. w[Lock] = work[c][Lock] \/ w[Lock] = {m} \cup work[c][Lock]
    BY <1>2, <1>6 DEF Touched
  <2>2. EditsIn(w[Lock]) = EditsIn(work[c][Lock])
    BY <1>1, <2>1, EditsKept
  <2> SUFFICES ASSUME NEW j \in DOMAIN B(c).tasks, j < task[c] + 1, B(c).tasks[j].kind = "lock"
               PROVE  EditsIn(w[Lock]) = EditsIn(w[Manifest])
    BY DEF Follows
  <2>3. j \in Nat /\ task[c] \in Nat /\ j # task[c]
    <3>1. DOMAIN B(c).tasks = 1 .. Len(B(c).tasks) /\ Len(B(c).tasks) \in Nat
      BY BranchTyped
    <3>2. j \in Nat
      BY <3>1
    <3>3. j # task[c]
      BY <1>6 DEF Task
    <3> QED BY <3>2, <3>3 DEF Place
  <2>4. j < task[c]
    BY <2>3
  <2>5. EditsIn(work[c][Lock]) = EditsIn(work[c][Manifest])
    BY <2>4 DEF Follows
  <2> QED BY <1>4, <2>2, <2>5
<1> QED BY <1>5, <1>6

\* A branch starts from the base and its own edits: the tree before it was clean.
LEMMA BeginInOrder ==
    ASSUME Place, Data, NEW c \in Checkouts, InOrder(c), Begin(c) PROVE InOrder(c)'
<1>0. at[c] = "next" /\ tainted' = tainted
  BY DEF Begin, LeftAlone, Recreate, RecreateRefused
<1> SUFFICES ASSUME ~tainted[c] PROVE InOrder(c)'
  BY <1>0 DEF InOrder
<1>1. work[c] = index[c] /\ index[c] = head[c]
  BY <1>0 DEF InOrder
<1>2. CASE LeftAlone(c) \/ RecreateRefused(c)
  <2>1. at'[c] \in {"next", "done"} /\ work'[c] = work[c] /\ index'[c] = index[c] /\ head'[c] = head[c]
    BY <1>0, <1>2, LeaveTyped DEF LeftAlone, RecreateRefused, tree
  <2> QED BY <1>1, <2>1 DEF InOrder, AtTasks, AtClose
<1>3. CASE Recreate(c)
  <2>1. Carried(c) = {}
    BY <1>1 DEF Carried, Changed
  <2>2. work'[c] = [f \in Files |-> Base[f]] /\ index'[c] = [f \in Files |-> Base[f]] /\ head'[c] = Base
        /\ at'[c] = "write" /\ paths'[c] = B(c).edits /\ task'[c] = 1 /\ turn' = turn
    BY <1>3, <2>1 DEF Recreate, Data, Place
  <2>3. [f \in Files |-> Base[f]] = Base
    BY DEF Base
  <2> QED BY <2>2, <2>3 DEF InOrder, AtTasks, AtClose, B
<1> QED BY <1>2, <1>3 DEF Begin

LEMMA WriteInOrder ==
    ASSUME Place, Data, NEW c \in Checkouts, InOrder(c), Write(c) PROVE InOrder(c)'
<1>0. at[c] = "write" /\ B(c) \in Branches
  BY BranchTyped DEF Write, WriteFiles, WriteRefused, WriteFails
<1>1. CASE WriteFails(c)
  BY <1>1 DEF WriteFails, Data, InOrder
<1>2. CASE WriteFiles(c) /\ ~tainted[c]
  <2>1. work[c] = Base /\ paths[c] = B(c).edits /\ task[c] = 1 /\ index[c] = Base /\ head[c] = Base
    BY <1>0, <1>2 DEF InOrder
  <2>2. B(c).edits \in SUBSET Files
    BY <1>0 DEF Branches
  <2>3. work'[c] = [f \in Files |-> IF f \in B(c).edits THEN work[c][f] \cup {Mine(c, "edit")} ELSE work[c][f]]
    <3> DEFINE fs == B(c).edits
    <3>1. work' = Written(c, fs) /\ fs \in SUBSET Files /\ at[c] # "done"
      BY <1>0, <1>2, <2>2 DEF WriteFiles
    <3> HIDE DEF fs
    <3>2. Written(c, fs)[c] = [f \in Files |-> IF f \in fs THEN work[c][f] \cup {Mine(c, "edit")} ELSE work[c][f]]
      BY <3>1, WrittenTyped
    <3> QED BY <3>1, <3>2 DEF fs
  <2>4. Mine(c, "edit").branch = B(c).name
    BY DEF Mine
  <2>5. Own(B(c), work'[c], paths[c])
    BY <2>1, <2>3, <2>4, BaseEmpty DEF Own, Allowed
  <2>6. Follows(B(c), work'[c], 1)
    BY <1>0, BranchTyped DEF Follows
  <2>7. at'[c] = "tasks" /\ UNCHANGED <<turn, task, index, head, paths, tainted>>
    BY <1>2 DEF WriteFiles, Place
  <2> HIDE DEF WriteFiles
  <2> QED BY <2>1, <2>5, <2>6, <2>7 DEF InOrder, AtTasks, AtClose, B
<1>3. CASE WriteFiles(c) /\ tainted[c]
  BY <1>3 DEF WriteFiles, InOrder
<1>4. CASE WriteRefused(c)
  <2>1. at'[c] \in {"next", "done"} /\ work'[c] = work[c] /\ index'[c] = index[c] /\ head'[c] = head[c]
        /\ tainted' = tainted
    BY <1>0, <1>4, LeaveTyped DEF WriteRefused, tree
  <2> QED BY <1>0, <2>1 DEF InOrder, AtTasks, AtClose
<1> QED BY <1>1, <1>2, <1>3, <1>4 DEF Write

\* What a failed task wrote is discarded, what the edits wrote before it too.
LEMMA TaskInOrder ==
    ASSUME Place, Data, NEW c \in Checkouts, InOrder(c), Ask(c) \/ TakeSlot(c) \/ Over(c) PROVE InOrder(c)'
<1>0. at[c] \in AtTasks
  BY DEF AtTasks, Ask, Queue, Unavailable, TakeSlot, Over, TaskEnds, TaskFails, DiscardFails
<1>1. CASE DiscardFails(c)
  BY <1>1 DEF DiscardFails, Data, InOrder
<1>2. CASE tainted[c] /\ ~DiscardFails(c)
  BY <1>2 DEF Ask, Queue, Unavailable, TakeSlot, Over, TaskEnds, TaskFails, InOrder
<1>3. CASE ~tainted[c] /\ ~DiscardFails(c)
  <2>1. index[c] = Base /\ head[c] = Base /\ Own(B(c), work[c], paths[c]) /\ Follows(B(c), work[c], task[c])
    BY <1>0, <1>3 DEF InOrder
  <2>2. CASE Queue(c) \/ TakeSlot(c)
    <3>1. at'[c] \in AtTasks /\ UNCHANGED <<turn, task, tree, paths, tainted>>
      BY <2>2 DEF Queue, TakeSlot, Place, AtTasks
    <3> QED BY <2>1, <3>1 DEF InOrder, AtTasks, AtClose, B, tree
  <2>3. CASE TaskFails(c) \/ Unavailable(c)
    <3>1. at'[c] \in {"next", "done"} /\ work'[c] = index[c] /\ UNCHANGED <<index, head, tainted>>
      BY <1>0, <2>3, LeaveTyped DEF TaskFails, Unavailable, Discard, Data, AtTasks
    <3> QED BY <2>1, <3>1 DEF InOrder, AtTasks, AtClose
  <2>4. CASE TaskEnds(c)
    <3>1. PICK fs \in SUBSET Files :
              /\ Resolves(c, fs) /\ InScope(c, NewlyChanged(c, Touched(c, fs)))
              /\ work' = [work EXCEPT ![c] = Touched(c, fs)]
              /\ paths' = [paths EXCEPT ![c] = @ \cup NewlyChanged(c, Touched(c, fs))]
      BY <2>4 DEF TaskEnds
    <3>2. at[c] = "running" /\ at'[c] = "tasks" /\ task'[c] = task[c] + 1 /\ UNCHANGED <<turn, index, head, tainted>>
      BY <2>4 DEF TaskEnds, Place
    <3>3. Own(B(c), Touched(c, fs), paths[c] \cup NewlyChanged(c, Touched(c, fs)))
      BY <2>1, <3>1, <3>2, TouchedOwn
    <3>4. Follows(B(c), Touched(c, fs), task[c] + 1)
      BY <2>1, <3>1, <3>2, TouchedFollows
    <3>5. work'[c] = Touched(c, fs) /\ paths'[c] = paths[c] \cup NewlyChanged(c, Touched(c, fs))
      BY <3>1 DEF Data
    <3>6. Own(B(c), work'[c], paths'[c]) /\ Follows(B(c), work'[c], task'[c])
      BY <3>2, <3>3, <3>4, <3>5
    <3>7. B(c)' = B(c)
      BY <3>2 DEF B
    <3> QED BY <2>1, <3>2, <3>6, <3>7 DEF InOrder, AtTasks, AtClose
  <2> QED BY <1>3, <2>2, <2>3, <2>4 DEF Ask, Over
<1> QED BY <1>1, <1>2, <1>3

\* What is staged is all that differs: the tree is clean after the commit.
LEMMA CloseInOrder ==
    ASSUME Place, Data, NEW c \in Checkouts, InOrder(c), Close(c) PROVE InOrder(c)'
<1>0. at[c] \in {"tasks", "commit", "push"}
  BY DEF Close, NothingToOpen, NotVouched, Stage, Commit, CommitFails, Push, NotPushed, TasksOver
<1>1. CASE NotVouched(c) \/ CommitFails(c)
  BY <1>1 DEF NotVouched, CommitFails, Data, InOrder
<1>2. CASE tainted[c] /\ ~NotVouched(c) /\ ~CommitFails(c)
  BY <1>2 DEF Close, NothingToOpen, Stage, Commit, Push, NotPushed, InOrder
<1>3. CASE ~tainted[c] /\ ~NotVouched(c) /\ ~CommitFails(c)
  <2>1. Own(B(c), work[c], paths[c]) /\ Follows(B(c), work[c], task[c])
    BY <1>0, <1>3 DEF InOrder, AtTasks, AtClose
  <2>2. CASE NothingToOpen(c)
    <3>1. work[c] = Base
      <4>1. \A f \in Files : work[c][f] = {}
        BY <2>1, <2>2 DEF Own, NothingToOpen
      <4> QED BY <4>1 DEF Base, Data, Tree
    <3>2. at'[c] \in {"next", "done"} /\ UNCHANGED <<tree, tainted>> /\ index[c] = Base /\ head[c] = Base
      BY <1>0, <1>3, <2>2, LeaveTyped DEF NothingToOpen, InOrder, TasksOver, AtTasks
    <3> QED BY <3>1, <3>2 DEF InOrder, AtTasks, AtClose, tree
  <2>3. CASE Stage(c)
    <3>1. index[c] = Base /\ head[c] = Base /\ at[c] = "tasks" /\ task[c] > Len(B(c).tasks)
      <4>1. at[c] = "tasks" /\ ~HasTask(c)
        BY <2>3 DEF Stage, TasksOver
      <4>2. task[c] \in Nat /\ Len(B(c).tasks) \in Nat
        BY <4>1, BranchTyped DEF Place
      <4> QED BY <1>3, <4>1, <4>2 DEF InOrder, HasTask, AtTasks
    <3>2. Staged(c) = work[c]
      <4>1. \A f \in Files : f \notin paths[c] => work[c][f] = {}
        BY <2>1 DEF Own
      <4>2. \A f \in Files : (IF f \in paths[c] THEN work[c][f] ELSE index[c][f]) = work[c][f]
        BY <3>1, <4>1, BaseEmpty
      <4>3. work[c] \in Tree
        BY DEF Data
      <4> QED BY <4>2, <4>3 DEF Staged, Tree
    <3>3. index'[c] = work[c] /\ UNCHANGED <<task, work, head, paths, tainted>>
      BY <2>3, <3>2 DEF Stage, Data
    <3>4. CASE Leave(c) /\ Staged(c) = head[c]
      <4>1. at'[c] \in {"next", "done"}
        BY <3>1, <3>4, LeaveTyped
      <4> QED BY <3>2, <3>3, <3>4, <4>1 DEF InOrder, AtTasks, AtClose
    <3>5. CASE at' = [at EXCEPT ![c] = "commit"] /\ turn' = turn
      <4>1. at'[c] = "commit" /\ B(c)' = B(c)
        BY <3>5 DEF Place, B
      <4> QED BY <2>1, <3>1, <3>3, <4>1 DEF InOrder, AtTasks, AtClose
    <3> QED BY <2>3, <3>4, <3>5 DEF Stage
  <2>4. CASE Commit(c)
    <3>1. at[c] = "commit" /\ at'[c] = "push" /\ head'[c] = index[c]
          /\ UNCHANGED <<turn, task, work, index, paths, tainted>>
      BY <2>4 DEF Commit, Place, Data
    <3>2. B(c)' = B(c)
      BY <3>1 DEF B
    <3> QED BY <1>3, <2>1, <3>1, <3>2 DEF InOrder, AtTasks, AtClose
  <2>5. CASE Push(c) \/ NotPushed(c)
    <3>1. at[c] = "push" /\ at'[c] \in {"next", "done"} /\ UNCHANGED <<tree, tainted>>
      BY <2>5, <1>0, LeaveTyped DEF Push, NotPushed
    <3> QED BY <1>3, <3>1 DEF InOrder, AtTasks, AtClose, tree
  <2> QED BY <1>3, <2>2, <2>3, <2>4, <2>5 DEF Close
<1> QED BY <1>1, <1>2, <1>3

\* The title of a commit is decided from the lifts as they are when it is pushed.
LEMMA ToldKept ==
    ASSUME Place, Data, NEW c \in Checkouts, Told(c), Step(c) PROVE Told(c)'
<1>0. at[c] # "done"
  BY StepMoves
<1>1. CASE Leave(c) /\ lifts' = lifts
  <2>1. at'[c] \notin {"write"} \cup AtTasks \cup AtClose
    BY <1>0, <1>1, LeaveTyped DEF AtTasks, AtClose
  <2> QED BY <1>1, <2>1 DEF Told
<1>2. CASE Recreate(c)
  <2>1. lifts'[c] = NoLifts /\ at'[c] = "write" /\ task'[c] = 1 /\ B(c)' = B(c)
    BY <1>2 DEF Recreate, Data, Place, B
  <2>2. \A j \in DOMAIN B(c).tasks : ~(j < 1)
    BY <1>0, BranchTyped
  <2> QED BY <2>1, <2>2 DEF Told, NoLifts, AtClose
<1>3. CASE WriteFiles(c) \/ Queue(c) \/ TakeSlot(c)
  <2>1. /\ UNCHANGED <<lifts, task, turn>> /\ at[c] \in {"write"} \cup AtTasks /\ at'[c] \in AtTasks
    BY <1>3 DEF WriteFiles, Queue, TakeSlot, Place, AtTasks
  <2>2. B(c)' = B(c) /\ at'[c] \notin AtClose
    BY <2>1 DEF B, AtTasks, AtClose
  <2> QED BY <2>1, <2>2 DEF Told
<1>4. CASE TaskEnds(c)
  <2>1. /\ at[c] = "running" /\ at'[c] = "tasks" /\ task'[c] = task[c] + 1 /\ turn' = turn
    BY <1>4 DEF TaskEnds, Place
  <2>2. Task(c).lifts \in Nat /\ task[c] \in DOMAIN B(c).tasks /\ B(c)' = B(c)
    BY <2>1, TaskTyped DEF B
  <2>3. PICK made \in 0 .. Task(c).lifts, readable \in BOOLEAN :
           lifts'[c] = ReadBack(lifts[c], Task(c).lifts, made, readable)
    BY <1>4 DEF TaskEnds, Data
  <2>4. /\ lifts[c] \in Lifts /\ lifts'[c] \in Lifts
        /\ lifts'[c].checked => lifts[c].checked /\ lifts'[c].asked = lifts[c].asked + Task(c).lifts
        /\ lifts'[c].checked /\ lifts[c].asked = lifts[c].left + lifts[c].moved
              => lifts'[c].asked = lifts'[c].left + lifts'[c].moved
    BY <2>2, <2>3, ReadBackTyped DEF Data
  <2>5. ASSUME lifts'[c].checked, NEW j \in DOMAIN B(c).tasks, j < task[c] + 1, B(c).tasks[j].lifts > 0
        PROVE  lifts'[c].asked > 0
    <3>1. lifts[c].asked \in Nat /\ lifts'[c].asked = lifts[c].asked + Task(c).lifts
      BY <2>4, <2>5 DEF Lifts
    <3>2. j \in Nat /\ task[c] \in Nat
      BY <1>0, BranchTyped DEF Place
    <3>3. CASE j < task[c]
      BY <2>1, <2>2, <2>4, <2>5, <3>1, <3>3 DEF Told, AtTasks
    <3>4. CASE j = task[c]
      BY <2>2, <2>5, <3>1, <3>4 DEF Task
    <3> QED BY <2>5, <3>2, <3>3, <3>4
  <2> QED BY <2>1, <2>2, <2>4, <2>5 DEF Told, AtTasks, AtClose
<1>5. CASE Stage(c) /\ ~Leave(c)
  <2>1. /\ at[c] = "tasks" /\ at'[c] = "commit" /\ ~HasTask(c)
        /\ title'[c] = Claim(c) /\ UNCHANGED <<lifts, turn, task>>
    BY <1>5 DEF Stage, Data, Place, TasksOver
  <2>2. B(c)' = B(c)
    BY <2>1 DEF B
  <2>3. Claim(c)' = Claim(c)
    BY <2>1, <2>2 DEF Claim
  <2>4. task[c] > Len(B(c).tasks)
    <3>1. task[c] \in Nat /\ Len(B(c).tasks) \in Nat
      BY <1>0, BranchTyped DEF Place
    <3> QED BY <2>1, <3>1 DEF HasTask
  <2>5. title'[c] = Claim(c)' /\ task'[c] > Len(B(c)'.tasks)
    BY <2>1, <2>2, <2>3, <2>4
  <2> QED BY <2>1, <2>2, <2>5 DEF Told, AtTasks, AtClose
<1>6. CASE Commit(c)
  <2>1. at[c] \in AtClose /\ at'[c] \in AtClose /\ UNCHANGED <<title, lifts, turn, task>>
    BY <1>6 DEF Commit, AtClose, Place
  <2>2. B(c)' = B(c)
    BY <2>1 DEF B
  <2>3. Claim(c)' = Claim(c)
    BY <2>1, <2>2 DEF Claim
  <2> QED BY <2>1, <2>2, <2>3 DEF Told
<1> QED BY <1>1, <1>2, <1>3, <1>4, <1>5, <1>6
        DEF Step, Begin, LeftAlone, RecreateRefused, Write, WriteRefused, WriteFails, Ask, Unavailable, Over, TaskFails,
            DiscardFails, Close, NothingToOpen, NotVouched, Stage, CommitFails, Push, NotPushed

LEMMA TreesKept ==
    ASSUME Place, Data, Trees, NEW c \in Checkouts, Step(c) PROVE Trees'
<1>1. InOrder(c)' /\ Told(c)'
  <2>1. InOrder(c) /\ Told(c)
    BY DEF Trees
  <2> QED BY <2>1, BeginInOrder, WriteInOrder, TaskInOrder, CloseInOrder, ToldKept DEF Step
<1>2. ASSUME NEW d \in Checkouts \ {c} PROVE InOrder(d)' /\ Told(d)'
  <2>1. InOrder(d) /\ Told(d)
    BY DEF Trees
  <2>2. /\ at'[d] = at[d] /\ turn'[d] = turn[d] /\ task'[d] = task[d]
        /\ work'[d] = work[d] /\ index'[d] = index[d] /\ head'[d] = head[d] /\ paths'[d] = paths[d]
        /\ lifts'[d] = lifts[d] /\ title'[d] = title[d] /\ tainted'[d] = tainted[d]
    BY OthersAlone
  <2>3. B(d)' = B(d)
    BY <2>2 DEF B
  <2> QED BY <2>1, <2>2, <2>3 DEF InOrder, Told, Claim
<1> QED BY <1>1, <1>2 DEF Trees

\* Whatever became of the branches before it, a branch starts from a clean
\* tree, unless a write, a commit or a discard failed (runner.go, pushBranch).
THEOREM TreesInOrder == Spec => []Trees
<1>1. Init => Trees
  BY DEF Init, Trees, InOrder, Told, NoLifts, AtTasks, AtClose
<1>2. TypeOK /\ Trees /\ [Next]_vars => Trees'
  <2> SUFFICES ASSUME TypeOK, Trees, [Next]_vars PROVE Trees'
    OBVIOUS
  <2>1. Place /\ Data
    BY Parts
  <2>2. ASSUME NEW c \in Checkouts, Step(c) PROVE Trees'
    BY <2>1, <2>2, TreesKept
  <2>3. CASE UNCHANGED vars
    BY <2>3 DEF vars, tree, Trees, InOrder, Told, Claim, B
  <2> QED BY <2>2, <2>3 DEF Next, Step, Finished
<1> QED BY <1>1, <1>2, TypeCorrect, PTL DEF Spec

-----------------------------------------------------------------------------
(* What was pushed.                                                        *)

\* A push that adds nothing adds no hazard.
Pushed(c) == [checkout |-> c, turn |-> turn[c], tree |-> head[c], claim |-> title[c], lifts |-> lifts[c],
              clean |-> ~tainted[c]]

LEMMA PushesAdd ==
    ASSUME NEW c \in Checkouts, Step(c)
    PROVE  pushed' = pushed \/ (at[c] = "push" /\ pushed' = pushed \cup {Pushed(c)})
BY DEF Step, Begin, LeftAlone, Recreate, RecreateRefused, Write, WriteFiles, WriteRefused, WriteFails, Ask, Queue,
       Unavailable, TakeSlot, Over, TaskEnds, TaskFails, DiscardFails, Close, NothingToOpen, NotVouched, Stage, Commit,
       CommitFails, Push, NotPushed, Pushed

\* A commit made in a tree in order holds its branch's own bytes, locked, and
\* says what it carries.
LEMMA PushIsRight ==
    ASSUME Place, Data, Trees, NEW c \in Checkouts, at[c] = "push"
    PROVE  LET p == Pushed(c)
           IN /\ p.clean => ItsOwn(p)
              /\ p.clean /\ (\E j \in DOMAIN PlanOf(p).tasks : PlanOf(p).tasks[j].kind = "lock")
                   => EditsIn(p.tree[Lock]) = EditsIn(p.tree[Manifest])
              /\ LiftsAlone(PlanOf(p)) =>
                   IF p.claim THEN p.lifts.moved > 0 \/ ~p.lifts.checked ELSE p.lifts.moved = 0
<1> DEFINE p == Pushed(c)
<1>1. PlanOf(p) = B(c) /\ p.tree = head[c] /\ p.claim = title[c] /\ p.lifts = lifts[c] /\ p.clean = ~tainted[c]
  BY DEF PlanOf, Pushed, B
<1>2. InOrder(c) /\ Told(c)
  BY DEF Trees
<1>3. ASSUME ~tainted[c]
      PROVE  /\ ItsOwn(p)
             /\ (\E j \in DOMAIN B(c).tasks : B(c).tasks[j].kind = "lock")
                   => EditsIn(head[c][Lock]) = EditsIn(head[c][Manifest])
  <2>1. head[c] = work[c] /\ Own(B(c), work[c], paths[c]) /\ Follows(B(c), work[c], task[c])
        /\ task[c] > Len(B(c).tasks)
    BY <1>2, <1>3 DEF InOrder, AtClose
  <2>2. ItsOwn(p)
    BY <1>1, <2>1 DEF ItsOwn, Own
  <2>3. \A j \in DOMAIN B(c).tasks : j < task[c]
    <3>1. DOMAIN B(c).tasks = 1 .. Len(B(c).tasks) /\ Len(B(c).tasks) \in Nat /\ task[c] \in Nat
      BY BranchTyped DEF Place
    <3> QED BY <2>1, <3>1
  <2> QED BY <2>1, <2>2, <2>3 DEF Follows
<1>4. LiftsAlone(B(c)) => IF title[c] THEN lifts[c].moved > 0 \/ ~lifts[c].checked ELSE lifts[c].moved = 0
  <2>1. /\ lifts[c].asked \in Nat /\ lifts[c].left \in Nat /\ lifts[c].moved \in Nat
        /\ lifts[c].checked => lifts[c].asked = lifts[c].left + lifts[c].moved
        /\ title[c] = Claim(c) /\ task[c] > Len(B(c).tasks)
    BY <1>2 DEF Told, AtClose, Data, Lifts
  <2>2. ASSUME lifts[c].checked, NEW j \in DOMAIN B(c).tasks, B(c).tasks[j].lifts > 0 PROVE lifts[c].asked > 0
    <3>1. DOMAIN B(c).tasks = 1 .. Len(B(c).tasks) /\ Len(B(c).tasks) \in Nat /\ task[c] \in Nat
      BY BranchTyped DEF Place
    <3>2. j < task[c]
      BY <2>1, <3>1
    <3> QED BY <1>2, <2>2, <3>2 DEF Told, AtClose
  <2>3. CASE ~lifts[c].checked
    BY <2>1, <2>3 DEF Claim
  <2>4. ASSUME lifts[c].checked, LiftsAlone(B(c)) PROVE title[c] <=> lifts[c].moved > 0
    <3>1. lifts[c].asked > 0 /\ B(c).edits = {}
      BY <2>2, <2>4 DEF LiftsAlone
    <3>2. (lifts[c].left >= lifts[c].asked) <=> ~(lifts[c].moved > 0)
      BY <2>1, <2>4
    <3>3. Claim(c) <=> ~(lifts[c].left >= lifts[c].asked)
      BY <2>4, <3>1, Zenon DEF Claim
    <3> QED BY <2>1, <3>2, <3>3
  <2>5. ~(lifts[c].moved > 0) => lifts[c].moved = 0
    BY <2>1
  <2> QED BY <2>3, <2>4, <2>5
<1> HIDE DEF p
<1> QED BY <1>1, <1>3, <1>4 DEF p

Right == OnlyItsOwn /\ LockLandsToo /\ TitleTellsLifts

\* No branch carries another one's bytes, lands its manifest without its lock
\* or claims lifts it did not make, for any plan.
THEOREM PushesAreRight == Spec => []Right
<1>1. Init => Right
  BY DEF Init, Right, OnlyItsOwn, LockLandsToo, TitleTellsLifts
<1>2. TypeOK /\ Trees /\ Right /\ [Next]_vars => Right'
  <2> SUFFICES ASSUME TypeOK, Trees, Right, [Next]_vars PROVE Right'
    OBVIOUS
  <2>1. Place /\ Data
    BY Parts
  <2>2. CASE pushed' = pushed
    BY <2>2 DEF Right, OnlyItsOwn, LockLandsToo, TitleTellsLifts
  <2>3. ASSUME NEW c \in Checkouts, at[c] = "push", pushed' = pushed \cup {Pushed(c)} PROVE Right'
    BY <2>1, <2>3, PushIsRight DEF Right, OnlyItsOwn, LockLandsToo, TitleTellsLifts
  <2>4. ASSUME NEW c \in Checkouts, Step(c) PROVE Right'
    BY <2>2, <2>3, <2>4, PushesAdd
  <2>5. CASE UNCHANGED vars
    BY <2>2, <2>5 DEF vars
  <2> QED BY <2>4, <2>5 DEF Next, Step, Finished
<1> QED BY <1>1, <1>2, TypeCorrect, TreesInOrder, PTL DEF Spec

\* As long as no write, commit or discard of its checkout failed, a pushed
\* commit holds the base, its own branch's edits and what its own tasks
\* changed in their scope, whatever branches before it were refused, found
\* nothing to do or were not pushed (runner.go, pushBranch; git.go, Recreate).
THEOREM NothingLeaksIn == Spec => []OnlyItsOwn
<1>1. Right => OnlyItsOwn
  BY DEF Right
<1> QED BY <1>1, PushesAreRight, PTL

\* "A manifest never lands without its lock" (runner.go).
THEOREM NoManifestWithoutLock == Spec => []LockLandsToo
<1>1. Right => LockLandsToo
  BY DEF Right
<1> QED BY <1>1, PushesAreRight, PTL

\* A branch of lifts alone, of any number of tasks, that is pushed with its
\* [security] title made one of them or has a lock nobody could read, and one
\* pushed without it made none (lift.go).
THEOREM TitlesTellLifts == Spec => []TitleTellsLifts
<1>1. Right => TitleTellsLifts
  BY DEF Right
<1> QED BY <1>1, PushesAreRight, PTL
=============================================================================
