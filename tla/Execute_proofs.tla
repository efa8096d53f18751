---------------------------- MODULE Execute_proofs ----------------------------
(***************************************************************************)
(* runner.Execute keeps its limits, stands by what people closed and        *)
(* reverted, and prunes only what is unwanted or was not tried, for any     *)
(* branches, plans, limits and moves of people.                             *)
(***************************************************************************)
EXTENDS Execute, FiniteSetTheorems, TLAPS

-----------------------------------------------------------------------------
(* What holds while a run is at work.                                      *)

Busy == pc \in {"history", "push", "publish"}

\* The loop: what is still to do is what the plan wants written and has no
\* outcome yet; the combined branch comes after all others.
Loop ==
    /\ pc = "prune" => extended /\ todo = {}
    /\ pc # "prune" => doomed = {}
    /\ IF extended
       THEN todo \subseteq {Combined} /\ (Busy => cur = Combined)
       ELSE /\ todo \subseteq Branches /\ (Busy => cur \in Branches)
            /\ plan[Combined] = NotPlanned /\ outcome[Combined] = ""
    /\ \A n \in todo : outcome[n] = ""
    /\ Busy => cur \notin todo /\ outcome[cur] = ""
    /\ Busy /\ ~found.hasMR => ~Open(cur) \/ cur \in reopened
    /\ pc = "history" => ~found.hasMR

\* A routine branch without a request is beyond FindMergeRequest only while
\* the limits leave room.
Routine == Busy /\ ~found.hasMR /\ ~plan[cur].security
Room == Routine => ~AtLimit

CreatedNow == {n \in Names : outcome[n] = "created"}
Hourly == Cardinality(CreatedNow) <= created /\ HourlyLimitKept

\* The run's own count is never below what the platform shows, the requests
\* people reopened since the count aside.
Known == Counted \ reopened
Concurrent ==
    ~AnswersLost /\ pc # "idle" /\ limits.concurrent > 0 => Cardinality(Known) <= openNow + created

\* What History read still holds when the request is opened: while nothing is
\* open for the branch, nothing about its requests changes unless they are
\* reopened.
Read ==
    /\ ~HistoryFails /\ pc \in {"push", "publish"} /\ ~found.hasMR /\ cur \notin reopened =>
          ~ClosedBefore(cur) /\ found.mergedBefore = MergedBefore(cur)
    /\ pc = "publish" => branch[cur].owner = "none" \/ branch[cur].edits = plan[cur].edits

\* The edits of a regular branch are its own; a combined branch has those of
\* two entangled ones at least.
Whole(n, edits) ==
    IF n = Combined
    THEN \E b1, b2 \in Entangled : b1 # b2 /\ (\E c \in Contents : <<b1, c>> \in edits)
                                           /\ (\E c \in Contents : <<b2, c>> \in edits)
    ELSE edits # {} /\ edits \subseteq {n} \X Contents
PlanCarried ==
    /\ \A n \in Names : plan[n].verdict # "absent" => Whole(n, plan[n].edits)
    /\ \A n \in Names : plan[n].verdict = "absent" => plan[n].edits = {}
WorldCarried ==
    /\ \A n \in Names : branch[n].owner # "none" => Whole(n, branch[n].edits)
    /\ \A n \in Names : request[n].state # "none" => Whole(n, request[n].edits)
Carried == PlanCarried /\ WorldCarried

\* Every branch the plan wants written was tried, and one that cannot resolve
\* on its own came to nothing else.
Tried ==
    /\ plan[Combined].verdict \in {"absent", "write"}
    /\ todo \subseteq {n \in Names : plan[n].verdict = "write"}
    /\ Busy => plan[cur].verdict = "write"
    /\ pc = "publish" => ~Unresolvable(cur)
    /\ pc # "idle" => \A b \in Branches : plan[b].verdict = "write" /\ outcome[b] = "" => b \in todo \/ (Busy /\ b = cur)
    /\ unresolved \subseteq {b \in Entangled : plan[b].verdict = "write"}
    /\ \A b \in Branches : plan[b].verdict = "write" /\ Unresolvable(b) => outcome[b] \in {"", "held", "failed"}
    /\ extended /\ Cardinality(unresolved) >= 2 => plan[Combined].verdict = "write"
    /\ \A n \in doomed : ~Named(n)

IInv == TypeOK /\ Loop /\ Room /\ Hourly /\ Concurrent /\ Read /\ Carried /\ Tried

-----------------------------------------------------------------------------
(* Types.                                                                  *)

Requests == [state : States, edits : Edits, armed : BOOLEAN, retitled : BOOLEAN]
Remotes == [owner : {"none", "bot", "person"}, edits : Edits]

World ==
    /\ base \in [Branches -> Contents \cup {Old}]
    /\ want \in [Branches -> [content : Contents, verdict : Verdicts, fixes : BOOLEAN]]
    /\ branch \in [Names -> Remotes] /\ request \in [Names -> Requests]
    /\ merged \in [Names -> SUBSET Edits]
    /\ reverted \subseteq Branches \X Contents /\ reopened \subseteq Names
    /\ moves \in 0..MaxMoves

RunData ==
    /\ runs \in 0..MaxRuns
    /\ pc \in {"idle", "loop", "history", "push", "publish", "prune"}
    /\ plan \in [Names -> Planned] /\ limits \in [concurrent : Nat, hourly : Nat]
    /\ todo \subseteq Names /\ cur \in Names /\ extended \in BOOLEAN /\ unresolved \subseteq Branches
    /\ openNow \in Nat /\ created \in Nat
    /\ found \in [hasMR : BOOLEAN, mergedBefore : BOOLEAN, pushed : BOOLEAN]
    /\ doomed \subseteq Names /\ outcome \in [Names -> Outcomes]

LEMMA Parts == TypeOK <=> World /\ RunData
BY DEF TypeOK, World, RunData, Requests, Remotes

LEMMA BoundsAreNumbers == MaxRuns \in Nat /\ MaxMoves \in Nat
BY Bounds

LEMMA FiniteNames == IsFiniteSet(Names)
BY FiniteBranches, FS_AddElement DEF Names

\* How many requests are open is a number.
LEMMA CountsAreNumbers == OpenNow \in Nat /\ IsFiniteSet(Counted)
<1>1. Counted \in SUBSET Names
  BY DEF Counted
<1> QED BY <1>1, FiniteNames, FS_Subset, FS_CardinalityType DEF OpenNow

LEMMA PlanTyped ==
    ASSUME World, NEW b \in Branches
    PROVE  PlanOf(b) \in Planned
<1>1. want[b].content \in Contents /\ want[b].verdict \in Verdicts /\ want[b].fixes \in BOOLEAN
  BY DEF World
<1>2. {<<b, want[b].content>>} \in Edits
  BY <1>1 DEF Edits
<1>3. NotPlanned \in Planned
  BY DEF NotPlanned, Planned, Edits, Verdicts
<1> QED BY <1>1, <1>2, <1>3 DEF PlanOf, Planned

LEMMA CombinedTyped ==
    ASSUME RunData
    PROVE  CombinedPlan \in Planned
<1>1. \A b \in unresolved : plan[b].edits \in Edits /\ plan[b].security \in BOOLEAN
  BY DEF RunData, Planned, Names
<1>2. UNION {plan[b].edits : b \in unresolved} \in Edits
  BY <1>1 DEF Edits
<1> QED BY <1>2 DEF CombinedPlan, Planned, Verdicts

LEMMA InitTyped == Init => TypeOK
<1> SUFFICES ASSUME Init PROVE World /\ RunData
  BY Parts
<1>1. \A b \in Branches : want[b] \in [content : Contents, verdict : Verdicts, fixes : BOOLEAN]
  <2>1. PICK fixed \in SUBSET Security, to \in [Branches -> Contents] :
           want = [b \in Branches |-> [content |-> to[b], verdict |-> "write", fixes |-> b \in fixed]]
    BY DEF Init
  <2> QED BY <2>1 DEF Verdicts
<1>2. want \in [Branches -> [content : Contents, verdict : Verdicts, fixes : BOOLEAN]]
  BY <1>1 DEF Init
<1>3. branch \in [Names -> Remotes] /\ request \in [Names -> Requests] /\ merged \in [Names -> SUBSET Edits]
  BY DEF Init, Remotes, Requests, Edits, States
<1>4. plan \in [Names -> Planned]
  BY DEF Init, NotPlanned, Planned, Edits, Verdicts
<1>b. moves \in 0..MaxMoves /\ runs \in 0..MaxRuns
  <2>1. moves = 0 /\ runs = 0
    BY DEF Init
  <2> QED BY <2>1, BoundsAreNumbers
<1>5. World
  <2>1. base \in [Branches -> Contents \cup {Old}] /\ reverted \subseteq Branches \X Contents /\ reopened = {}
    BY DEF Init
  <2> QED BY <1>2, <1>3, <1>b, <2>1 DEF World
<1>6. RunData
  <2>1. limits \in [concurrent : Nat, hourly : Nat]
    BY DEF Init
  <2>2. found \in [hasMR : BOOLEAN, mergedBefore : BOOLEAN, pushed : BOOLEAN]
    BY DEF Init, NothingFound
  <2>3. outcome \in [Names -> Outcomes]
    BY DEF Init, Outcomes
  <2>4. pc = "idle" /\ todo = {} /\ cur \in Names /\ extended = FALSE /\ unresolved = {} /\ doomed = {}
        /\ openNow = 0 /\ created = 0
    BY DEF Init, Names
  <2> QED BY <1>4, <1>b, <2>1, <2>2, <2>3, <2>4 DEF RunData
<1> QED BY <1>5, <1>6

LEMMA StartRunTyped == ASSUME TypeOK, StartRun PROVE TypeOK'
<1>0. World /\ RunData
  BY Parts
<1>1. plan' \in [Names -> Planned]
  <2>1. NotPlanned \in Planned
    BY DEF NotPlanned, Planned, Edits, Verdicts
  <2> QED BY <1>0, <2>1, PlanTyped DEF StartRun
<1>2. limits' \in [concurrent : Nat, hourly : Nat]
  BY LimitsAreNumbers DEF StartRun
<1>3. openNow' \in Nat
  BY CountsAreNumbers DEF StartRun
<1>4. runs' \in 0..MaxRuns
  <2>1. runs' = runs + 1 /\ runs < MaxRuns /\ runs \in 0..MaxRuns
    BY <1>0 DEF StartRun, RunData
  <2> QED BY <2>1, BoundsAreNumbers
<1>5. found' \in [hasMR : BOOLEAN, mergedBefore : BOOLEAN, pushed : BOOLEAN] /\ outcome' \in [Names -> Outcomes]
  BY DEF StartRun, NothingFound, Outcomes
<1>6. pc' \in {"loop", "idle"} /\ todo' \subseteq Names /\ cur' = cur /\ extended' = FALSE /\ unresolved' = {} /\ doomed' = {}
      /\ created' = 0
  BY DEF StartRun, Names
<1>7. World'
  BY <1>0 DEF StartRun, World, world
<1>8. RunData'
  BY <1>0, <1>1, <1>2, <1>3, <1>4, <1>5, <1>6 DEF RunData
<1> QED BY <1>7, <1>8 DEF TypeOK, World, RunData, Requests, Remotes

LEMMA FindTyped == ASSUME TypeOK, FindMergeRequest PROVE TypeOK'
<1>0. World /\ RunData
  BY Parts
<1>1. World'
  BY <1>0 DEF FindMergeRequest, World, world
<1>2. PICK n \in todo :
         /\ cur' = n /\ todo' = todo \ {n}
         /\ \/ outcome' = [outcome EXCEPT ![n] = "held"] /\ UNCHANGED <<pc, found>>
            \/ /\ found' = [NothingFound EXCEPT !.hasMR = Open(n)]
               /\ pc' = IF Open(n) THEN "push" ELSE "history"
               /\ UNCHANGED outcome
            \/ outcome' = [outcome EXCEPT ![n] = "failed"] /\ UNCHANGED <<pc, found>>
  BY DEF FindMergeRequest
<1>3. outcome' \in [Names -> Outcomes]
  BY <1>0, <1>2 DEF RunData, Outcomes
<1>4. found' \in [hasMR : BOOLEAN, mergedBefore : BOOLEAN, pushed : BOOLEAN]
  BY <1>0, <1>2 DEF RunData, NothingFound, Open
<1>5. pc' \in {"idle", "loop", "history", "push", "publish", "prune"}
  BY <1>0, <1>2 DEF RunData
<1>6. RunData'
  BY <1>0, <1>2, <1>3, <1>4, <1>5 DEF RunData, FindMergeRequest
<1> QED BY <1>1, <1>6 DEF TypeOK, World, RunData, Requests, Remotes

LEMMA HistoryTyped == ASSUME TypeOK, History PROVE TypeOK'
<1>0. World /\ RunData
  BY Parts
<1>1. World'
  BY <1>0 DEF History, World, world
<1>2. outcome' \in [Names -> Outcomes]
  BY <1>0 DEF History, Done, RunData, Outcomes
<1>3. found' \in [hasMR : BOOLEAN, mergedBefore : BOOLEAN, pushed : BOOLEAN]
  <2>1. MergedBefore(cur) \in BOOLEAN
    BY DEF MergedBefore
  <2>2. found' = found \/ found' = [found EXCEPT !.mergedBefore = MergedBefore(cur)]
    BY DEF History
  <2> QED BY <1>0, <2>1, <2>2 DEF RunData
<1>4. pc' \in {"loop", "push"}
  BY DEF History, Done
<1>5. RunData'
  BY <1>0, <1>2, <1>3, <1>4 DEF RunData, History
<1> QED BY <1>1, <1>5 DEF TypeOK, World, RunData, Requests, Remotes

\* The current branch is dealt with.
LEMMA DoneTyped ==
    ASSUME RunData, NEW how \in Outcomes, Done(how)
    PROVE  /\ outcome' \in [Names -> Outcomes] /\ outcome'[cur] = how /\ pc' = "loop"
           /\ \A n \in Names \ {cur} : outcome'[n] = outcome[n]
BY DEF Done, RunData

LEMMA PushTyped == ASSUME TypeOK, PushBranch PROVE TypeOK'
<1>0. World /\ RunData
  BY Parts
<1>r. /\ UNCHANGED <<base, want, merged, reverted, reopened, moves>>
      /\ UNCHANGED <<runs, plan, limits, todo, cur, extended, openNow, created, doomed>>
  BY DEF PushBranch
<1>1. ASSUME branch' = [branch EXCEPT ![cur] = [owner |-> "bot", edits |-> plan[cur].edits]],
             \E baseMoved \in BOOLEAN : found' = [found EXCEPT !.pushed = baseMoved \/ branch' # branch],
             request' = IF found'.pushed THEN [request EXCEPT ![cur].armed = FALSE] ELSE request,
             pc' = "publish", UNCHANGED <<outcome, unresolved>>
      PROVE  TypeOK'
  <2>1. branch' \in [Names -> Remotes]
    BY <1>0, <1>1 DEF World, RunData, Planned, Remotes
  <2>2. found' \in [hasMR : BOOLEAN, mergedBefore : BOOLEAN, pushed : BOOLEAN]
    <3> PICK baseMoved \in BOOLEAN : found' = [found EXCEPT !.pushed = baseMoved \/ branch' # branch]
      BY <1>1
    <3> DEFINE p == baseMoved \/ branch' # branch
    <3>1. found' = [found EXCEPT !.pushed = p] /\ p \in BOOLEAN
      OBVIOUS
    <3>2. found \in [hasMR : BOOLEAN, mergedBefore : BOOLEAN, pushed : BOOLEAN]
      BY <1>0 DEF RunData
    <3> HIDE DEF p
    <3> QED BY <3>1, <3>2
  <2>3. request' \in [Names -> Requests]
    BY <1>0, <1>1 DEF World, RunData, Requests
  <2>4. World'
    BY <1>0, <1>r, <2>1, <2>3 DEF World
  <2>5. RunData'
    BY <1>0, <1>1, <1>r, <2>2 DEF RunData
  <2> QED BY <2>4, <2>5 DEF TypeOK, World, RunData, Requests, Remotes
<1>2. ASSUME unresolved' \in {unresolved, unresolved \cup {cur}}, Unresolvable(cur) \/ unresolved' = unresolved,
             Done("failed"), UNCHANGED <<branch, request, found>>
      PROVE  TypeOK'
  <2>1. World'
    BY <1>0, <1>2, <1>r DEF World
  <2>2. outcome' \in [Names -> Outcomes] /\ pc' = "loop"
    BY <1>0, <1>2, DoneTyped DEF Outcomes
  <2>3. unresolved' \subseteq Branches
    BY <1>0, <1>2, BranchKinds DEF RunData, Unresolvable
  <2>4. RunData'
    BY <1>0, <1>2, <1>r, <2>2, <2>3 DEF RunData
  <2> QED BY <2>1, <2>4 DEF TypeOK, World, RunData, Requests, Remotes
<1> QED BY <1>1, <1>2 DEF PushBranch

LEMMA UpdateTyped == ASSUME TypeOK, Update PROVE TypeOK'
<1>0. World /\ RunData
  BY Parts
<1>r. /\ UNCHANGED <<base, want, branch, merged, reverted, reopened, moves>>
      /\ UNCHANGED <<runs, plan, limits, todo, cur, extended, unresolved, openNow, created, found, doomed>>
  BY DEF Update
<1>1. request' \in [Names -> Requests]
  <2> DEFINE a == Open(cur) /\ AsksAutomerge
  <2>1. request' = request
      \/ request' = [request EXCEPT ![cur].edits = plan[cur].edits, ![cur].armed = a, ![cur].retitled = FALSE]
    BY DEF Update
  <2>2. a \in BOOLEAN /\ plan[cur].edits \in Edits
    BY <1>0 DEF RunData, Planned
  <2> HIDE DEF a
  <2> QED BY <1>0, <2>1, <2>2 DEF World, RunData, Requests
<1>2. PICK how \in Outcomes : Done(how)
  BY DEF Update, Outcomes
<1>3. outcome' \in [Names -> Outcomes] /\ pc' = "loop"
  BY <1>0, <1>2, DoneTyped
<1>4. World'
  BY <1>0, <1>1, <1>r DEF World
<1>5. RunData'
  BY <1>0, <1>3, <1>r DEF RunData
<1> QED BY <1>4, <1>5 DEF TypeOK, World, RunData, Requests, Remotes

LEMMA MergedTyped ==
    ASSUME World, NEW n \in Names
    PROVE  MergedEdits(n) \in SUBSET Edits
BY DEF World, MergedEdits, Requests

\* What opening a request leaves.
LEMMA OpensTyped ==
    ASSUME World, RunData, NEW n \in Names, Opens(n)
    PROVE  /\ request' \in [Names -> Requests] /\ merged' \in [Names -> SUBSET Edits] /\ reopened' = reopened \ {n}
           /\ request'[n].state = "opened" /\ request'[n].edits = branch[n].edits /\ request'[n].armed = AsksAutomerge
           /\ \A m \in Names \ {n} : request'[m] = request[m]
<1> DEFINE a == AsksAutomerge
<1>1. a \in BOOLEAN
  BY DEF AsksAutomerge
<1>2. /\ reopened' = reopened \ {n}
      /\ request' = [request EXCEPT ![n] = [state |-> "opened", edits |-> branch[n].edits, armed |-> a, retitled |-> FALSE]]
      /\ merged' = [merged EXCEPT ![n] = MergedEdits(n)]
  BY DEF Opens
<1>3. branch[n].edits \in Edits
  BY DEF World, Remotes
<1>4. merged' \in [Names -> SUBSET Edits]
  BY <1>2, MergedTyped DEF World
<1> HIDE DEF a
<1>5. request' \in [Names -> Requests] /\ request'[n].state = "opened" /\ request'[n].edits = branch[n].edits
      /\ request'[n].armed = a /\ \A m \in Names \ {n} : request'[m] = request[m]
  BY <1>1, <1>2, <1>3 DEF World, Requests, States
<1> QED BY <1>2, <1>4, <1>5 DEF a

LEMMA CreateTyped == ASSUME TypeOK, Create PROVE TypeOK'
<1>0. World /\ RunData /\ cur \in Names
  BY Parts DEF RunData
<1>r. /\ UNCHANGED <<base, want, branch, reverted, moves>>
      /\ UNCHANGED <<runs, plan, limits, todo, cur, extended, unresolved, openNow, found, doomed>>
  BY DEF Create
<1>1. request' \in [Names -> Requests] /\ merged' \in [Names -> SUBSET Edits] /\ reopened' \subseteq Names
  <2>1. CASE Opens(cur)
    BY <1>0, <2>1, OpensTyped DEF World
  <2>2. CASE UNCHANGED <<request, merged, reopened>>
    BY <1>0, <2>2 DEF World
  <2> QED BY <2>1, <2>2 DEF Create
<1>2. outcome' \in [Names -> Outcomes] /\ pc' = "loop"
  <2>1. PICK how \in Outcomes : Done(how)
    BY DEF Create, Outcomes
  <2> QED BY <1>0, <2>1, DoneTyped
<1>3. created' \in Nat
  BY <1>0 DEF Create, Counts, RunData
<1>4. World'
  BY <1>0, <1>1, <1>r DEF World
<1>5. RunData'
  BY <1>0, <1>2, <1>3, <1>r DEF RunData
<1> QED BY <1>4, <1>5 DEF TypeOK, World, RunData, Requests, Remotes

LEMMA AfterTyped == ASSUME TypeOK, CoResolve \/ ListOpen \/ EndRun PROVE TypeOK'
<1>0. World /\ RunData
  BY Parts
<1>1. World'
  BY <1>0 DEF CoResolve, ListOpen, EndRun, World, world
<1>2. ASSUME CoResolve PROVE RunData'
  <2>1. plan' \in [Names -> Planned] /\ todo' \subseteq Names
    <3>1. \/ plan' = plan /\ todo' = todo
          \/ plan' = [plan EXCEPT ![Combined] = CombinedPlan] /\ todo' = {Combined}
      BY <1>2 DEF CoResolve
    <3> QED BY <1>0, <3>1, CombinedTyped DEF RunData, Names
  <2>2. /\ extended' = TRUE
        /\ UNCHANGED <<runs, pc, limits, cur, unresolved, openNow, created, found, doomed, outcome>>
    BY <1>2 DEF CoResolve
  <2> QED BY <1>0, <2>1, <2>2 DEF RunData
<1>3. ASSUME ListOpen PROVE RunData'
  <2>1. /\ pc' = "prune" /\ doomed' \subseteq Names
        /\ UNCHANGED <<runs, plan, limits, todo, cur, extended, unresolved, openNow, created, found, outcome>>
    BY <1>3 DEF ListOpen
  <2> QED BY <1>0, <2>1 DEF RunData
<1>4. ASSUME EndRun PROVE RunData'
  <2>1. /\ pc' = "idle"
        /\ UNCHANGED <<runs, plan, limits, todo, cur, extended, unresolved, openNow, created, found, doomed, outcome>>
    BY <1>4 DEF EndRun
  <2> QED BY <1>0, <2>1 DEF RunData
<1>5. RunData'
  BY <1>2, <1>3, <1>4
<1> QED BY <1>1, <1>5 DEF TypeOK, World, RunData, Requests, Remotes

LEMMA PruneTyped == ASSUME TypeOK, PruneOne PROVE TypeOK'
<1>0. World /\ RunData
  BY Parts
<1>r. /\ UNCHANGED <<base, want, merged, reverted, reopened, moves>>
      /\ UNCHANGED <<runs, pc, plan, limits, todo, cur, extended, unresolved, openNow, created, found>>
  BY DEF PruneOne
<1>1. PICK n \in doomed :
         /\ doomed' = doomed \ {n}
         /\ \/ /\ request' = [request EXCEPT ![n].state = "autoclosed", ![n].armed = FALSE, ![n].retitled = TRUE]
               /\ branch' = [branch EXCEPT ![n] = [owner |-> "none", edits |-> {}]] \/ UNCHANGED branch
               /\ outcome' = [outcome EXCEPT ![n] = "autoclosed"]
            \/ outcome' = [outcome EXCEPT ![n] = "left"] /\ UNCHANGED <<request, branch>>
            \/ UNCHANGED <<request, branch, outcome>>
  BY DEF PruneOne
<1>2. request' \in [Names -> Requests]
  BY <1>0, <1>1 DEF World, Requests, States
<1>3. branch' \in [Names -> Remotes]
  BY <1>0, <1>1 DEF World, Remotes, Edits
<1>4. outcome' \in [Names -> Outcomes]
  BY <1>0, <1>1 DEF RunData, Outcomes
<1>5. World'
  BY <1>0, <1>2, <1>3, <1>r DEF World
<1>6. RunData'
  BY <1>0, <1>1, <1>4, <1>r DEF RunData
<1> QED BY <1>5, <1>6 DEF TypeOK, World, RunData, Requests, Remotes

(***************************************************************************)
(* What others do to a project: a request keeps its edits and its title,    *)
(* changes its state only if it was open or is reopened, and a branch keeps *)
(* its edits or goes.                                                       *)
(***************************************************************************)
OthersLeave ==
    /\ UNCHANGED <<merged, runs, pc, plan, limits, todo, cur, extended, unresolved, openNow, created>>
    /\ UNCHANGED <<found, doomed, outcome>>
    /\ \A n \in Names : /\ request'[n].edits = request[n].edits /\ request'[n].retitled = request[n].retitled
                        /\ (request'[n].state = "none") = (request[n].state = "none")
    /\ reopened \subseteq reopened'
    /\ \A n \in Names : \/ request'[n].state = request[n].state
                        \/ request[n].state = "opened" /\ request'[n].state # "opened"
                        \/ n \in reopened'
    /\ \A n \in Names : branch'[n].owner = "none" \/ (branch[n].owner # "none" /\ branch'[n].edits = branch[n].edits)

LEMMA LandTyped ==
    ASSUME World, NEW n \in Names, Land(n)
    PROVE  /\ base' \in [Branches -> Contents \cup {Old}] /\ branch' \in [Names -> Remotes]
           /\ request' \in [Names -> Requests] /\ want' = want /\ reopened' = reopened /\ OthersLeave
<1>1. base' \in [Branches -> Contents \cup {Old}]
  <2>1. \A b \in Branches : (\E c \in Contents : <<b, c>> \in branch[n].edits) =>
           (CHOOSE c \in Contents : <<b, c>> \in branch[n].edits) \in Contents
    OBVIOUS
  <2> QED BY <2>1 DEF Land, World
<1>2. /\ branch' = [branch EXCEPT ![n] = [owner |-> "none", edits |-> {}]]
      /\ request' = [request EXCEPT ![n].state = "merged", ![n].armed = FALSE]
      /\ request[n].state = "opened" /\ UNCHANGED <<want, merged, reopened, runVars>>
  BY DEF Land, Open
<1>3. branch' \in [Names -> Remotes] /\ branch'[n].owner = "none" /\ \A m \in Names \ {n} : branch'[m] = branch[m]
  BY <1>2 DEF World, Remotes, Edits
<1>4. /\ request' \in [Names -> Requests] /\ request'[n].state = "merged" /\ request'[n].edits = request[n].edits
      /\ request'[n].retitled = request[n].retitled /\ \A m \in Names \ {n} : request'[m] = request[m]
  BY <1>2 DEF World, Requests, States
<1>5. \A m \in Names : branch'[m].owner = "none" \/ (branch[m].owner # "none" /\ branch'[m].edits = branch[m].edits)
  BY <1>3
<1>6. OthersLeave
  BY <1>2, <1>4, <1>5 DEF OthersLeave, runVars
<1> QED BY <1>1, <1>2, <1>3, <1>4, <1>6

LEMMA OthersTyped == ASSUME TypeOK, Others PROVE TypeOK' /\ OthersLeave
<1>0. World /\ RunData
  BY Parts
<1> SUFFICES World' /\ OthersLeave
  <2>1. RunData' <=> RunData
    BY DEF Others, OthersLeave, PersonCloses, PersonReopens, PersonCommits, PersonMerges, MergesOnItsOwn, PersonReverts,
           PlanChanges, Land, runVars, RunData
  <2> QED BY <1>0, <2>1 DEF TypeOK, World, RunData, Requests, Remotes
<1>m. ASSUME Move PROVE moves' \in 0..MaxMoves
  <2>1. moves \in 0..MaxMoves /\ moves' = moves + 1 /\ moves < MaxMoves
    BY <1>0, <1>m DEF World, Move
  <2> QED BY <2>1, BoundsAreNumbers
<1>1. ASSUME NEW n \in Names, PersonCloses(n) PROVE World' /\ OthersLeave
  <2>1. /\ request' = [request EXCEPT ![n].state = "closed", ![n].armed = FALSE] /\ request[n].state = "opened"
        /\ UNCHANGED <<base, want, branch, merged, reverted, reopened, runVars>> /\ moves' \in 0..MaxMoves
    BY <1>1, <1>m DEF PersonCloses, Open
  <2>2. /\ request' \in [Names -> Requests] /\ request'[n].state = "closed" /\ request'[n].edits = request[n].edits
        /\ request'[n].retitled = request[n].retitled /\ \A m \in Names \ {n} : request'[m] = request[m]
    BY <1>0, <2>1 DEF World, Requests, States
  <2>3. World'
    BY <1>0, <2>1, <2>2 DEF World
  <2> QED BY <2>1, <2>2, <2>3 DEF OthersLeave, runVars
<1>2. ASSUME NEW n \in Names, PersonReopens(n) PROVE World' /\ OthersLeave
  <2>1. /\ request' = [request EXCEPT ![n].state = "opened"] /\ request[n].state # "none"
        /\ reopened' = reopened \cup {n}
        /\ UNCHANGED <<base, want, branch, merged, reverted, runVars>> /\ moves' \in 0..MaxMoves
    BY <1>2, <1>m DEF PersonReopens
  <2>2. /\ request' \in [Names -> Requests] /\ request'[n].state = "opened" /\ request'[n].edits = request[n].edits
        /\ request'[n].retitled = request[n].retitled /\ \A m \in Names \ {n} : request'[m] = request[m]
    BY <1>0, <2>1 DEF World, Requests, States
  <2>3. World'
    BY <1>0, <2>1, <2>2 DEF World
  <2> QED BY <2>1, <2>2, <2>3 DEF OthersLeave, runVars
<1>3. ASSUME NEW n \in Names, PersonCommits(n) PROVE World' /\ OthersLeave
  <2>1. /\ request' = [request EXCEPT ![n].armed = FALSE] /\ branch' = [branch EXCEPT ![n].owner = "person"]
        /\ branch[n].owner = "bot"
        /\ UNCHANGED <<base, want, merged, reverted, reopened, runVars>> /\ moves' \in 0..MaxMoves
    BY <1>3, <1>m DEF PersonCommits
  <2>2. /\ request' \in [Names -> Requests] /\ request'[n].state = request[n].state /\ request'[n].edits = request[n].edits
        /\ request'[n].retitled = request[n].retitled /\ \A m \in Names \ {n} : request'[m] = request[m]
    BY <1>0, <2>1 DEF World, Requests
  <2>3. /\ branch' \in [Names -> Remotes] /\ branch'[n].edits = branch[n].edits
        /\ \A m \in Names \ {n} : branch'[m] = branch[m]
    BY <1>0, <2>1 DEF World, Remotes
  <2>4. World'
    BY <1>0, <2>1, <2>2, <2>3 DEF World
  <2>5. \A m \in Names : branch'[m].owner = "none" \/ (branch[m].owner # "none" /\ branch'[m].edits = branch[m].edits)
    BY <2>1, <2>3
  <2>6. \A m \in Names : /\ request'[m].state = request[m].state /\ request'[m].edits = request[m].edits
                        /\ request'[m].retitled = request[m].retitled
    BY <2>2
  <2> QED BY <2>1, <2>4, <2>5, <2>6 DEF OthersLeave, runVars
<1>4. ASSUME NEW n \in Names, PersonMerges(n) \/ MergesOnItsOwn(n) PROVE World' /\ OthersLeave
  <2>1. Land(n) /\ moves' \in 0..MaxMoves /\ reverted' \subseteq Branches \X Contents
    BY <1>0, <1>4, <1>m DEF PersonMerges, MergesOnItsOwn, World
  <2>2. /\ base' \in [Branches -> Contents \cup {Old}] /\ branch' \in [Names -> Remotes]
        /\ request' \in [Names -> Requests] /\ want' = want /\ reopened' = reopened /\ OthersLeave
    BY <1>0, <2>1, LandTyped
  <2>3. merged' = merged
    BY <2>2 DEF OthersLeave
  <2> QED BY <1>0, <2>1, <2>2, <2>3 DEF World
<1>5. ASSUME NEW b \in Branches, PersonReverts(b) PROVE World' /\ OthersLeave
  <2>1. /\ base' = [base EXCEPT ![b] = Old] /\ reverted' = reverted \cup {<<b, base[b]>>} /\ base[b] \in Contents
        /\ UNCHANGED <<want, branch, request, merged, reopened, runVars>> /\ moves' \in 0..MaxMoves
    BY <1>0, <1>5, <1>m DEF PersonReverts, World
  <2>2. World'
    BY <1>0, <2>1 DEF World
  <2> QED BY <2>1, <2>2 DEF OthersLeave, runVars
<1>6. ASSUME NEW b \in Branches, PlanChanges(b) PROVE World' /\ OthersLeave
  <2>1. PICK c \in Contents, v \in Verdicts : want' = [want EXCEPT ![b].content = c, ![b].verdict = v]
    BY <1>6 DEF PlanChanges
  <2>2. want' \in [Branches -> [content : Contents, verdict : Verdicts, fixes : BOOLEAN]]
    BY <1>0, <2>1 DEF World
  <2>3. UNCHANGED <<base, branch, request, merged, reverted, reopened, runVars>> /\ moves' \in 0..MaxMoves
    BY <1>6, <1>m DEF PlanChanges
  <2>4. World'
    BY <1>0, <2>2, <2>3 DEF World
  <2> QED BY <2>3, <2>4 DEF OthersLeave, runVars
<1> QED BY <1>1, <1>2, <1>3, <1>4, <1>5, <1>6 DEF Others

(***************************************************************************)
(* TypeOK: in every state of every history of runs, people and plans, the   *)
(* project, the platform and the run's own variables have their types.      *)
(***************************************************************************)
THEOREM TypeCorrect == Spec => []TypeOK
<1>1. TypeOK /\ [Next]_vars => TypeOK'
  <2>1. TypeOK /\ UNCHANGED vars => TypeOK'
    BY DEF TypeOK, vars
  <2> QED BY <2>1, StartRunTyped, FindTyped, HistoryTyped, PushTyped, UpdateTyped, CreateTyped, AfterTyped, PruneTyped,
             OthersTyped DEF Next, RunStep
<1> QED BY <1>1, InitTyped, PTL DEF Spec

-----------------------------------------------------------------------------
(* The loop and the limits.                                                *)

LEMMA NamesDiffer == Combined \in Names /\ Combined \notin Branches /\ Branches \subseteq Names
BY CombinedIsItsOwn DEF Names

\* After Done nothing is in progress.
LEMMA DoneLoops ==
    ASSUME TypeOK, Loop, Busy, NEW how \in Outcomes, Done(how),
           UNCHANGED <<todo, cur, extended, plan, doomed>>
    PROVE  Loop'
<1>1. /\ pc' = "loop" /\ outcome'[cur] = how /\ \A n \in Names \ {cur} : outcome'[n] = outcome[n]
      /\ cur \in Names /\ todo \subseteq Names
  BY DoneTyped, Parts DEF RunData
<1>2. extended \/ outcome'[Combined] = ""
  BY <1>1, NamesDiffer DEF Loop
<1>3. \A n \in todo : outcome'[n] = ""
  BY <1>1 DEF Loop
<1> QED BY <1>1, <1>2, <1>3 DEF Loop, Busy

LEMMA LoopKept == ASSUME TypeOK, Loop, [Next]_vars PROVE Loop'
<1>0. World /\ RunData
  BY Parts
<1>1. CASE StartRun
  <2>1. /\ pc' \in {"idle", "loop"} /\ doomed' = {} /\ extended' = FALSE /\ todo' \subseteq Branches
        /\ plan'[Combined] = NotPlanned /\ \A n \in Names : outcome'[n] = ""
    BY <1>1, NamesDiffer DEF StartRun
  <2> QED BY <2>1, NamesDiffer DEF Loop, Busy
<1>2. CASE FindMergeRequest
  <2>1. PICK n \in todo :
           /\ cur' = n /\ todo' = todo \ {n} /\ pc = "loop"
           /\ UNCHANGED <<extended, plan, doomed, request, reopened>>
           /\ \/ outcome' = [outcome EXCEPT ![n] = "held"] /\ UNCHANGED <<pc, found>>
              \/ /\ found' = [NothingFound EXCEPT !.hasMR = Open(n)]
                 /\ pc' = IF Open(n) THEN "push" ELSE "history"
                 /\ UNCHANGED outcome
              \/ outcome' = [outcome EXCEPT ![n] = "failed"] /\ UNCHANGED <<pc, found>>
    BY <1>2 DEF FindMergeRequest, world
  <2>2. n \in Names /\ \A m \in Names \ {n} : outcome'[m] = outcome[m]
    BY <1>0, <2>1 DEF RunData
  <2>3. extended \/ (n # Combined /\ outcome'[Combined] = "")
    BY <2>1, <2>2, NamesDiffer DEF Loop
  <2>4. \A m \in todo' : outcome'[m] = ""
    BY <1>0, <2>1, <2>2 DEF Loop, RunData
  <2>5. CASE pc' = "loop"
    BY <2>1, <2>3, <2>4, <2>5 DEF Loop, Busy
  <2>6. CASE pc' # "loop"
    <3>1. found'.hasMR = Open(n) /\ pc' \in {"push", "history"} /\ (pc' = "history" => ~Open(n)) /\ outcome' = outcome
      BY <2>1, <2>6 DEF NothingFound
    <3>2. Open(n)' = Open(n)
      BY <2>1 DEF Open
    <3>3. outcome'[cur'] = "" /\ cur' \notin todo'
      BY <2>1, <3>1 DEF Loop
    <3> QED BY <2>1, <2>3, <2>4, <3>1, <3>2, <3>3 DEF Loop, Busy, Open
  <2> QED BY <2>5, <2>6
<1>3. CASE History
  <2>1. CASE Done("held")
    BY <1>3, <2>1, DoneLoops DEF History, Busy, Outcomes
  <2>2. CASE pc' = "push" /\ UNCHANGED outcome
    <3>1. found'.hasMR = found.hasMR
      BY <1>0, <1>3 DEF History, RunData
    <3>2. UNCHANGED <<request, reopened, todo, cur, extended, plan, doomed>> /\ pc = "history"
      BY <1>3 DEF History, world
    <3> QED BY <2>2, <3>1, <3>2 DEF Loop, Busy, Open
  <2> QED BY <1>3, <2>1, <2>2 DEF History
<1>4. CASE PushBranch
  <2>1. CASE Done("failed")
    BY <1>4, <2>1, DoneLoops DEF PushBranch, Busy, Outcomes
  <2>2. CASE pc' = "publish" /\ UNCHANGED outcome /\ ~Done("failed")
    <3>1. found'.hasMR = found.hasMR
      BY <1>0, <1>4, <2>2 DEF PushBranch, RunData
    <3>2. \A n \in Names : request'[n].state = request[n].state
      BY <1>0, <1>4, <2>2 DEF PushBranch, World, Requests
    <3>3. UNCHANGED <<reopened, todo, cur, extended, plan, doomed>> /\ pc = "push"
      BY <1>4 DEF PushBranch
    <3> QED BY <1>0, <2>2, <3>1, <3>2, <3>3 DEF Loop, Busy, Open, RunData
  <2> QED BY <1>4, <2>1, <2>2 DEF PushBranch
<1>5. CASE Update \/ Create
  <2>1. PICK how \in Outcomes : Done(how)
    BY <1>5 DEF Update, Create, Outcomes
  <2>2. Busy /\ UNCHANGED <<todo, cur, extended, plan, doomed>>
    BY <1>5 DEF Update, Create, Busy
  <2> QED BY <2>1, <2>2, DoneLoops
<1>6. CASE CoResolve
  <2>1. /\ pc = "loop" /\ ~extended /\ extended' = TRUE /\ todo' \subseteq {Combined}
        /\ UNCHANGED <<pc, cur, outcome, doomed>>
    BY <1>6 DEF CoResolve
  <2> QED BY <2>1 DEF Loop, Busy
<1>7. CASE ListOpen
  <2>1. /\ pc' = "prune" /\ extended /\ todo = {}
        /\ UNCHANGED <<plan, todo, cur, extended, outcome>>
    BY <1>7 DEF ListOpen
  <2> QED BY <2>1 DEF Loop, Busy
<1>8. CASE PruneOne
  <2>1. pc = "prune" /\ UNCHANGED <<pc, plan, todo, cur, extended>>
    BY <1>8 DEF PruneOne
  <2> QED BY <2>1 DEF Loop, Busy
<1>9. CASE EndRun
  <2>1. pc = "prune" /\ doomed = {} /\ pc' = "idle" /\ UNCHANGED <<plan, todo, cur, extended, outcome, doomed>>
    BY <1>9 DEF EndRun
  <2> QED BY <2>1 DEF Loop, Busy
<1>10. CASE Others
  <2>1. OthersLeave
    BY <1>10, OthersTyped
  <2>2. Busy /\ ~found.hasMR => ~Open(cur)' \/ cur \in reopened'
    BY <1>0, <2>1 DEF OthersLeave, Loop, Busy, Open, RunData
  <2> QED BY <2>1, <2>2 DEF OthersLeave, Loop, Busy
<1>11. CASE UNCHANGED vars
  BY <1>11 DEF vars, Loop, Busy, Open
<1> QED BY <1>1, <1>2, <1>3, <1>4, <1>5, <1>6, <1>7, <1>8, <1>9, <1>10, <1>11 DEF Next, RunStep

\* Room is made at FindMergeRequest and lasts until the request is opened.
LEMMA RoomKept == ASSUME TypeOK, Room, [Next]_vars PROVE Room'
<1>0. World /\ RunData
  BY Parts
<1>1. CASE StartRun \/ Update \/ Create \/ CoResolve \/ ListOpen \/ PruneOne \/ EndRun
  <2>1. ~Busy'
    BY <1>1 DEF StartRun, Update, Create, CoResolve, ListOpen, PruneOne, EndRun, Busy, Done
  <2> QED BY <2>1 DEF Room, Routine
<1>2. CASE FindMergeRequest
  <2>1. PICK n \in todo :
           /\ cur' = n /\ pc = "loop" /\ UNCHANGED <<plan, limits, openNow, created>>
           /\ \/ pc' = pc
              \/ /\ ~HeldAtLimit(n) /\ found' = [NothingFound EXCEPT !.hasMR = Open(n)]
    BY <1>2 DEF FindMergeRequest
  <2>2. CASE pc' = pc
    BY <2>1, <2>2 DEF Room, Routine, Busy
  <2>3. CASE ~HeldAtLimit(n) /\ found' = [NothingFound EXCEPT !.hasMR = Open(n)]
    <3>1. found'.hasMR = Open(n)
      BY <2>3 DEF NothingFound
    <3>2. AtLimit' = AtLimit
      BY <2>1 DEF AtLimit
    <3> QED BY <2>1, <2>3, <3>1, <3>2 DEF Room, Routine, HeldAtLimit
  <2> QED BY <2>1, <2>2, <2>3
<1>3. CASE History \/ PushBranch
  <2>1. UNCHANGED <<plan, limits, openNow, created, cur>> /\ Busy
    BY <1>3 DEF History, PushBranch, Busy
  <2>2. found'.hasMR = found.hasMR
    BY <1>0, <1>3 DEF History, PushBranch, RunData
  <2>3. AtLimit' = AtLimit
    BY <2>1 DEF AtLimit
  <2> QED BY <2>1, <2>2, <2>3 DEF Room, Routine
<1>4. CASE Others \/ UNCHANGED vars
  <2>1. UNCHANGED <<pc, plan, limits, openNow, created, cur, found>>
    BY <1>4, OthersTyped DEF OthersLeave, vars
  <2> QED BY <2>1 DEF Room, Routine, AtLimit, Busy
<1> QED BY <1>1, <1>2, <1>3, <1>4 DEF Next, RunStep

CreatedRoutine == {n \in Names : outcome[n] = "created" /\ ~plan[n].security}

LEMMA CreatedNumbers ==
    /\ IsFiniteSet(CreatedNow) /\ Cardinality(CreatedNow) \in Nat
    /\ IsFiniteSet(CreatedRoutine) /\ Cardinality(CreatedRoutine) \in Nat
    /\ Cardinality(CreatedRoutine) <= Cardinality(CreatedNow)
<1>1. CreatedNow \in SUBSET Names /\ CreatedRoutine \in SUBSET CreatedNow
  BY DEF CreatedNow, CreatedRoutine
<1>2. IsFiniteSet(CreatedNow) /\ Cardinality(CreatedNow) \in Nat
  BY <1>1, FiniteNames, FS_Subset, FS_CardinalityType
<1> QED BY <1>1, <1>2, FS_Subset, FS_CardinalityType

\* A step after which nothing more is created.
LEMMA NothingOpened ==
    ASSUME RunData, RunData', Hourly, created' = created, limits' = limits,
           \A n \in Names : outcome'[n] = "created" => outcome[n] = "created" /\ plan'[n].security = plan[n].security
    PROVE  Hourly'
<1>1. CreatedNow' \in SUBSET CreatedNow /\ CreatedRoutine' \in SUBSET CreatedRoutine
  BY DEF CreatedNow, CreatedRoutine
<1>2. Cardinality(CreatedNow') <= Cardinality(CreatedNow) /\ Cardinality(CreatedNow') \in Nat
  BY <1>1, CreatedNumbers, FS_Subset, FS_CardinalityType
<1>3. Cardinality(CreatedRoutine') <= Cardinality(CreatedRoutine) /\ Cardinality(CreatedRoutine') \in Nat
  BY <1>1, CreatedNumbers, FS_Subset, FS_CardinalityType
<1>4. created \in Nat /\ limits.hourly \in Nat
  BY DEF RunData
<1>5. Cardinality(CreatedNow') <= created'
  <2>1. Cardinality(CreatedNow) <= created
    BY DEF Hourly
  <2> QED BY <1>2, <1>4, <2>1, CreatedNumbers
<1>6. limits'.hourly > 0 => Cardinality(CreatedRoutine') <= limits'.hourly
  <2>1. limits.hourly > 0 => Cardinality(CreatedRoutine) <= limits.hourly
    BY DEF Hourly, HourlyLimitKept, CreatedRoutine
  <2> QED BY <1>3, <1>4, <2>1, CreatedNumbers
<1> QED BY <1>5, <1>6 DEF Hourly, HourlyLimitKept, CreatedRoutine

LEMMA HourlyKept == ASSUME TypeOK, TypeOK', Loop, Room, Hourly, [Next]_vars PROVE Hourly'
<1>0. World /\ RunData /\ RunData'
  BY Parts DEF TypeOK, RunData
<1>1. CASE StartRun
  <2>1. CreatedNow' = {} /\ CreatedRoutine' = {}
    BY <1>1 DEF StartRun, CreatedNow, CreatedRoutine
  <2>2. created' = 0 /\ limits'.hourly \in Nat
    BY <1>0, <1>1 DEF StartRun, RunData
  <2>3. Cardinality(CreatedNow') <= created'
    BY <2>1, <2>2, FS_EmptySet
  <2>4. limits'.hourly > 0 => Cardinality(CreatedRoutine') <= limits'.hourly
    BY <2>1, <2>2, FS_EmptySet
  <2> QED BY <2>3, <2>4 DEF Hourly, HourlyLimitKept, CreatedRoutine
<1>2. ASSUME Create, created' = Counts, Done("created") PROVE Hourly'
  <2>1. /\ outcome'[cur] = "created" /\ \A n \in Names \ {cur} : outcome'[n] = outcome[n]
        /\ outcome[cur] = "" /\ cur \in Names /\ created \in Nat /\ created' = created + 1
        /\ UNCHANGED <<plan, limits>> /\ limits \in [concurrent : Nat, hourly : Nat]
    BY <1>0, <1>2, DoneTyped DEF Create, Counts, Outcomes, Loop, Busy, RunData
  <2>2. CreatedNow' = CreatedNow \cup {cur} /\ cur \notin CreatedNow
    BY <2>1 DEF CreatedNow
  <2>3. Cardinality(CreatedNow') = Cardinality(CreatedNow) + 1
    BY <2>2, CreatedNumbers, FS_AddElement
  <2>4. Cardinality(CreatedNow) <= created
    BY DEF Hourly
  <2>n. /\ created \in Nat /\ created' = created + 1 /\ limits.hourly \in Nat
        /\ Cardinality(CreatedNow) \in Nat /\ Cardinality(CreatedRoutine) \in Nat
        /\ Cardinality(CreatedRoutine) <= Cardinality(CreatedNow)
    BY <2>1, CreatedNumbers
  <2>5. Cardinality(CreatedNow') <= created'
    BY <2>n, <2>3, <2>4
  <2>6. ASSUME limits.hourly > 0 PROVE Cardinality(CreatedRoutine') <= limits.hourly
    <3>1. Cardinality(CreatedRoutine) <= limits.hourly
      BY <2>6 DEF Hourly, HourlyLimitKept, CreatedRoutine
    <3>2. CASE plan[cur].security
      <4>1. CreatedRoutine' = CreatedRoutine
        BY <2>1, <3>2 DEF CreatedRoutine
      <4> QED BY <3>1, <4>1
    <3>3. CASE ~plan[cur].security
      <4>1. CreatedRoutine' = CreatedRoutine \cup {cur} /\ cur \notin CreatedRoutine
        BY <2>1, <3>3 DEF CreatedRoutine
      <4>2. Cardinality(CreatedRoutine') = Cardinality(CreatedRoutine) + 1
        BY <4>1, CreatedNumbers, FS_AddElement
      <4>3. ~AtLimit
        BY <1>2, <3>3 DEF Create, Room, Routine, Busy
      <4>4. ~(created >= limits.hourly)
        BY <2>6, <4>3 DEF AtLimit
      <4> QED BY <2>n, <2>4, <4>2, <4>4
    <3> QED BY <3>2, <3>3
  <2> QED BY <2>1, <2>5, <2>6 DEF Hourly, HourlyLimitKept, CreatedRoutine
<1>3. ASSUME NEW how \in Outcomes \ {"created"}, Done(how), UNCHANGED <<plan, limits, created>> PROVE Hourly'
  <2>1. \A n \in Names : outcome'[n] = "created" => outcome[n] = "created"
    BY <1>0, <1>3, DoneTyped
  <2> QED BY <1>0, <1>3, <2>1, NothingOpened
<1>4. ASSUME UNCHANGED <<plan, limits, created>>,
             \A n \in Names : outcome'[n] = "created" => outcome[n] = "created"
      PROVE  Hourly'
  BY <1>0, <1>4, NothingOpened
<1>5. CASE FindMergeRequest
  <2>1. PICK n \in todo :
           outcome' = outcome \/ outcome' = [outcome EXCEPT ![n] = "held"] \/ outcome' = [outcome EXCEPT ![n] = "failed"]
    BY <1>5 DEF FindMergeRequest
  <2>2. \A m \in Names : outcome'[m] = "created" => outcome[m] = "created"
    BY <1>0, <2>1 DEF RunData
  <2> QED BY <1>4, <1>5, <2>2 DEF FindMergeRequest
<1>6. CASE History \/ PushBranch
  <2>1. Done("held") \/ Done("failed") \/ UNCHANGED outcome
    BY <1>6 DEF History, PushBranch
  <2> QED BY <1>3, <1>4, <1>6, <2>1 DEF History, PushBranch, Outcomes
<1>7. CASE Update
  <2>1. PICK how \in {"updated", "unchanged", "failed"} : Done(how)
    BY <1>7 DEF Update
  <2> QED BY <1>3, <1>7, <2>1 DEF Update, Outcomes
<1>8. CASE Create
  BY <1>2, <1>3, <1>8 DEF Create, Outcomes
<1>9. CASE CoResolve
  <2>1. /\ plan' = plan \/ plan' = [plan EXCEPT ![Combined] = CombinedPlan]
        /\ UNCHANGED <<outcome, limits, created>> /\ outcome[Combined] = ""
    BY <1>9 DEF CoResolve, Loop
  <2>2. \A n \in Names : outcome'[n] = "created" => outcome[n] = "created" /\ plan'[n].security = plan[n].security
    BY <1>0, <2>1 DEF RunData
  <2> QED BY <1>0, <2>1, <2>2, NothingOpened
<1>10. CASE PruneOne
  <2>1. PICK n \in doomed :
           outcome' = outcome \/ outcome' = [outcome EXCEPT ![n] = "autoclosed"] \/ outcome' = [outcome EXCEPT ![n] = "left"]
    BY <1>10 DEF PruneOne
  <2>2. \A m \in Names : outcome'[m] = "created" => outcome[m] = "created"
    BY <1>0, <2>1 DEF RunData
  <2> QED BY <1>4, <1>10, <2>2 DEF PruneOne
<1>11. CASE ListOpen \/ EndRun \/ Others \/ UNCHANGED vars
  BY <1>4, <1>11, OthersTyped DEF ListOpen, EndRun, OthersLeave, vars
<1> QED BY <1>1, <1>5, <1>6, <1>7, <1>8, <1>9, <1>10, <1>11 DEF Next, RunStep

LEMMA KnownNumbers == IsFiniteSet(Known) /\ Cardinality(Known) \in Nat
<1>1. Known \in SUBSET Counted
  BY DEF Known
<1> QED BY <1>1, CountsAreNumbers, FS_Subset, FS_CardinalityType

\* A step after which no more requests are open.
LEMMA NoMoreOpen ==
    ASSUME RunData, Concurrent, pc # "idle", UNCHANGED <<limits, openNow, created>>,
           \A n \in Names : request'[n].state = "opened" /\ n \notin reopened' =>
                             request[n].state = "opened" /\ n \notin reopened
    PROVE  Concurrent'
<1> SUFFICES ASSUME ~AnswersLost, limits.concurrent > 0 PROVE Cardinality(Known') <= openNow + created
  BY DEF Concurrent
<1>1. Known' \in SUBSET Known
  BY DEF Known, Counted, Open
<1>2. Cardinality(Known') <= Cardinality(Known) /\ Cardinality(Known') \in Nat /\ Cardinality(Known) \in Nat
  BY <1>1, KnownNumbers, FS_Subset, FS_CardinalityType
<1>3. Cardinality(Known) <= openNow + created
  BY DEF Concurrent
<1>4. openNow \in Nat /\ created \in Nat
  BY DEF RunData
<1> QED BY <1>2, <1>3, <1>4

LEMMA ConcurrentKept == ASSUME TypeOK, TypeOK', Loop, Concurrent, [Next]_vars PROVE Concurrent'
<1>0. World /\ RunData
  BY Parts
<1>1. CASE StartRun
  <2> SUFFICES ASSUME limits'.concurrent > 0 PROVE Cardinality(Known') <= openNow' + created'
    BY DEF Concurrent
  <2>1. openNow' = OpenNow /\ created' = 0
    BY <1>1 DEF StartRun
  <2>2. Known' = Counted
    BY <1>1 DEF StartRun, Known, Counted, Open
  <2> QED BY <2>1, <2>2, CountsAreNumbers DEF OpenNow
<1>2. ASSUME Create, Opens(cur), created' = Counts PROVE Concurrent'
  <2> SUFFICES ASSUME ~AnswersLost, limits'.concurrent > 0 PROVE Cardinality(Known') <= openNow' + created'
    BY DEF Concurrent
  <2>1. pc # "idle" /\ limits.concurrent > 0 /\ openNow' = openNow /\ created' = created + 1
    BY <1>2 DEF Create, Counts
  <2>2. openNow \in Nat /\ created \in Nat /\ cur \in Names
    BY <1>0 DEF RunData
  <2>3. Cardinality(Known) <= openNow + created
    BY <2>1 DEF Concurrent
  <2>4. Known' \in SUBSET (Known \cup {cur})
    BY <1>0, <1>2, <2>2, OpensTyped DEF Known, Counted, Open
  <2>c. IsFiniteSet(Known) /\ Cardinality(Known) \in Nat
    BY KnownNumbers
  <2>d. IsFiniteSet(Known \cup {cur})
        /\ Cardinality(Known \cup {cur}) = IF cur \in Known THEN Cardinality(Known) ELSE Cardinality(Known) + 1
    BY <2>c, FS_AddElement
  <2>5. IsFiniteSet(Known \cup {cur}) /\ Cardinality(Known \cup {cur}) <= Cardinality(Known) + 1
        /\ Cardinality(Known) \in Nat
    BY <2>c, <2>d
  <2>6. Cardinality(Known') <= Cardinality(Known \cup {cur}) /\ Cardinality(Known') \in Nat
        /\ Cardinality(Known \cup {cur}) \in Nat
    BY <2>4, <2>5, FS_Subset, FS_CardinalityType
  <2> QED BY <2>1, <2>2, <2>3, <2>5, <2>6
<1>3. CASE Create
  <2>1. CASE UNCHANGED <<request, reopened, created>>
    BY <1>0, <1>3, <2>1, NoMoreOpen DEF Create
  <2>2. CASE AnswersLost
    BY <2>2 DEF Concurrent
  <2> QED BY <1>2, <1>3, <2>1, <2>2 DEF Create
<1>4. CASE FindMergeRequest \/ History \/ CoResolve \/ ListOpen
  <2>1. pc # "idle" /\ UNCHANGED <<limits, openNow, created, request, reopened>>
    BY <1>4 DEF FindMergeRequest, History, CoResolve, ListOpen, world
  <2> QED BY <1>0, <2>1, NoMoreOpen
<1>5. CASE PushBranch
  <2>1. pc # "idle" /\ UNCHANGED <<limits, openNow, created, reopened>>
    BY <1>5 DEF PushBranch
  <2>2. \A n \in Names : request'[n].state = request[n].state
    BY <1>0, <1>5 DEF PushBranch, World, Requests
  <2> QED BY <1>0, <2>1, <2>2, NoMoreOpen
<1>6. CASE Update
  <2>1. pc # "idle" /\ UNCHANGED <<limits, openNow, created, reopened>>
    BY <1>6 DEF Update
  <2>2. \A n \in Names : request'[n].state = request[n].state
    <3> DEFINE a == Open(cur) /\ AsksAutomerge
    <3>1. request' = request
      \/ request' = [request EXCEPT ![cur].edits = plan[cur].edits, ![cur].armed = a, ![cur].retitled = FALSE]
      BY <1>6 DEF Update
    <3> HIDE DEF a
    <3> QED BY <1>0, <3>1 DEF World, Requests
  <2> QED BY <1>0, <2>1, <2>2, NoMoreOpen
<1>7. CASE PruneOne
  <2>1. pc # "idle" /\ UNCHANGED <<limits, openNow, created, reopened>>
    BY <1>7 DEF PruneOne
  <2>2. \A n \in Names : request'[n].state = "opened" => request[n].state = "opened"
    <3>1. PICK n \in doomed :
             request' = request \/ request' = [request EXCEPT ![n].state = "autoclosed", ![n].armed = FALSE, ![n].retitled = TRUE]
      BY <1>7 DEF PruneOne
    <3> QED BY <1>0, <3>1 DEF World, Requests
  <2> QED BY <1>0, <2>1, <2>2, NoMoreOpen
<1>8. CASE EndRun
  BY <1>8 DEF EndRun, Concurrent, Known, Counted, Open
<1>9. CASE Others
  <2>1. OthersLeave
    BY <1>9, OthersTyped
  <2>2. CASE pc = "idle"
    BY <2>1, <2>2 DEF OthersLeave, Concurrent
  <2>3. CASE pc # "idle"
    BY <1>0, <2>1, <2>3, NoMoreOpen DEF OthersLeave
  <2> QED BY <2>2, <2>3
<1>10. CASE UNCHANGED vars
  BY <1>10 DEF vars, Concurrent, Known, Counted, Open
<1> QED BY <1>1, <1>3, <1>4, <1>5, <1>6, <1>7, <1>8, <1>9, <1>10 DEF Next, RunStep

-----------------------------------------------------------------------------
(* What the history said.                                                  *)

\* The history of a branch is its requests' states, edits and titles.
LEMMA HistorySame ==
    ASSUME cur' = cur, plan' = plan, merged' = merged,
           request'[cur].state = request[cur].state, request'[cur].edits = request[cur].edits,
           request'[cur].retitled = request[cur].retitled
    PROVE  ClosedBefore(cur)' = ClosedBefore(cur) /\ MergedBefore(cur)' = MergedBefore(cur)
<1>1. MergedEdits(cur)' = MergedEdits(cur)
  BY DEF MergedEdits
<1> QED BY <1>1 DEF ClosedBefore, MergedBefore

LEMMA ReadKept == ASSUME TypeOK, Loop, Read, [Next]_vars PROVE Read'
<1>0. World /\ RunData /\ cur \in Names
  BY Parts DEF RunData
<1>1. CASE StartRun \/ Update \/ Create \/ CoResolve \/ ListOpen \/ PruneOne \/ EndRun
  <2>1. pc' \notin {"push", "publish"}
    BY <1>1 DEF StartRun, Update, Create, CoResolve, ListOpen, PruneOne, EndRun, Done
  <2> QED BY <2>1 DEF Read
<1>2. CASE FindMergeRequest
  <2>1. pc' \in {"loop", "history"} \/ (pc' = "push" /\ found'.hasMR)
    <3>1. PICK n \in todo :
             \/ pc' = pc
             \/ /\ found' = [NothingFound EXCEPT !.hasMR = Open(n)]
                /\ pc' = IF Open(n) THEN "push" ELSE "history"
      BY <1>2 DEF FindMergeRequest
    <3>2. pc = "loop"
      BY <1>2 DEF FindMergeRequest
    <3> DEFINE o == Open(n)
    <3>3. o \in BOOLEAN
      BY DEF Open
    <3> HIDE DEF o
    <3>4. pc' = pc \/ (found'.hasMR = o /\ pc' = IF o THEN "push" ELSE "history")
      BY <3>1, <3>3 DEF NothingFound, o
    <3> QED BY <3>2, <3>3, <3>4
  <2> QED BY <2>1 DEF Read
<1>3. CASE History
  <2>1. CASE Done("held")
    BY <2>1 DEF Done, Read
  <2>2. ASSUME ~ClosedBefore(cur), found' = [found EXCEPT !.mergedBefore = MergedBefore(cur)], pc' = "push" PROVE Read'
    <3>1. UNCHANGED <<cur, plan, merged, request, reopened>>
      BY <1>3 DEF History, world
    <3> DEFINE m == MergedBefore(cur)
    <3>2. m \in BOOLEAN /\ found' = [found EXCEPT !.mergedBefore = m]
      BY <2>2 DEF MergedBefore
    <3> HIDE DEF m
    <3>3. found'.mergedBefore = m
      BY <1>0, <3>2 DEF RunData
    <3>4. ~ClosedBefore(cur)' /\ found'.mergedBefore = MergedBefore(cur)'
      BY <2>2, <3>1, <3>3, HistorySame DEF m
    <3> QED BY <2>2, <3>4 DEF Read
  <2>3. CASE HistoryFails /\ pc' = "push"
    BY <2>3 DEF Read
  <2> QED BY <1>3, <2>1, <2>2, <2>3 DEF History
<1>4. CASE PushBranch
  <2>1. CASE Done("failed")
    BY <2>1 DEF Done, Read
  <2>2. CASE pc' = "publish" /\ ~Done("failed")
    <3>1. /\ pc = "push" /\ UNCHANGED <<cur, plan, merged, reopened>>
          /\ branch' = [branch EXCEPT ![cur] = [owner |-> "bot", edits |-> plan[cur].edits]]
          /\ request' = request \/ request' = [request EXCEPT ![cur].armed = FALSE]
      BY <1>4, <2>2 DEF PushBranch
    <3>2. found'.hasMR = found.hasMR /\ found'.mergedBefore = found.mergedBefore
      BY <1>0, <1>4, <2>2 DEF PushBranch, RunData
    <3>3. /\ request'[cur].state = request[cur].state /\ request'[cur].edits = request[cur].edits
          /\ request'[cur].retitled = request[cur].retitled
      BY <1>0, <3>1 DEF World, Requests
    <3>4. branch'[cur].edits = plan[cur].edits
      BY <1>0, <3>1 DEF World
    <3>5. ClosedBefore(cur)' = ClosedBefore(cur) /\ MergedBefore(cur)' = MergedBefore(cur)
      BY <3>1, <3>3, HistorySame
    <3> QED BY <2>2, <3>1, <3>2, <3>4, <3>5 DEF Read
  <2> QED BY <1>4, <2>1, <2>2 DEF PushBranch
<1>5. CASE Others
  <2>1. OthersLeave
    BY <1>5, OthersTyped
  <2>2. ASSUME pc \in {"push", "publish"}, ~found.hasMR, cur \notin reopened'
        PROVE  ClosedBefore(cur)' = ClosedBefore(cur) /\ MergedBefore(cur)' = MergedBefore(cur)
    <3>1. /\ request'[cur].state = request[cur].state /\ request'[cur].edits = request[cur].edits
          /\ request'[cur].retitled = request[cur].retitled
      BY <1>0, <2>1, <2>2 DEF OthersLeave, Loop, Busy, Open
    <3>2. cur' = cur /\ plan' = plan /\ merged' = merged
      BY <2>1 DEF OthersLeave
    <3> QED BY <3>1, <3>2, HistorySame
  <2>3. branch'[cur].owner = "none" \/ (branch[cur].owner # "none" /\ branch'[cur].edits = branch[cur].edits)
    BY <1>0, <2>1 DEF OthersLeave
  <2>4. UNCHANGED <<pc, found, cur, plan>> /\ reopened \subseteq reopened'
    BY <2>1 DEF OthersLeave
  <2> QED BY <2>2, <2>3, <2>4 DEF Read
<1>6. CASE UNCHANGED vars
  <2>1. ClosedBefore(cur)' = ClosedBefore(cur) /\ MergedBefore(cur)' = MergedBefore(cur)
    BY <1>6, HistorySame DEF vars
  <2> QED BY <1>6, <2>1 DEF Read, vars
<1> QED BY <1>1, <1>2, <1>3, <1>4, <1>5, <1>6 DEF Next, RunStep

-----------------------------------------------------------------------------
(* What a branch carries.                                                  *)

LEMMA PlanOfWhole ==
    ASSUME World, NEW b \in Branches
    PROVE  /\ PlanOf(b).verdict # "absent" => Whole(b, PlanOf(b).edits)
           /\ PlanOf(b).verdict = "absent" => PlanOf(b).edits = {}
<1>1. want[b].content \in Contents
  BY DEF World
<1>2. b # Combined
  BY CombinedIsItsOwn
<1>3. CASE base[b] = want[b].content \/ want[b].verdict = "absent"
  BY <1>3 DEF PlanOf, NotPlanned
<1>4. CASE ~(base[b] = want[b].content \/ want[b].verdict = "absent")
  BY <1>1, <1>2, <1>4 DEF PlanOf, Whole
<1> QED BY <1>3, <1>4

\* Two members make a group.
LEMMA TwoMembers ==
    ASSUME NEW S, S \subseteq Branches, Cardinality(S) >= 2
    PROVE  \E b1, b2 \in S : b1 # b2
<1>0. IsFiniteSet(S)
  BY FiniteBranches, FS_Subset
<1>1. S # {}
  <2> SUFFICES ASSUME S = {} PROVE FALSE
    OBVIOUS
  <2> QED BY FS_EmptySet
<1>2. PICK b1 \in S : TRUE
  BY <1>1
<1>3. ASSUME S \subseteq {b1} PROVE FALSE
  <2>1. S = {b1}
    BY <1>2, <1>3
  <2> QED BY <2>1, FS_Singleton
<1> QED BY <1>2, <1>3

LEMMA CombinedWhole ==
    ASSUME RunData, PlanCarried, Tried, Cardinality(unresolved) >= 2
    PROVE  Whole(Combined, CombinedPlan.edits)
<1>1. PICK b1, b2 \in unresolved : b1 # b2
  BY TwoMembers DEF RunData
<1>2. ASSUME NEW b \in unresolved
      PROVE  b \in Entangled /\ \E c \in Contents : <<b, c>> \in CombinedPlan.edits
  <2>1. b \in Entangled /\ b \in Names /\ b # Combined /\ plan[b].verdict = "write"
    BY BranchKinds, NamesDiffer DEF Tried
  <2>2. plan[b].edits # {} /\ plan[b].edits \subseteq {b} \X Contents
    BY <2>1 DEF PlanCarried, Whole
  <2>3. PICK e \in plan[b].edits : e \in {b} \X Contents
    BY <2>2
  <2>4. PICK c \in Contents : e = <<b, c>>
    BY <2>3
  <2>5. e \in CombinedPlan.edits
    BY <2>3 DEF CombinedPlan
  <2> QED BY <2>1, <2>4, <2>5
<1> QED BY <1>1, <1>2 DEF Whole

LEMMA PlanCarriedKept == ASSUME TypeOK, Loop, PlanCarried, Tried, [Next]_vars PROVE PlanCarried'
<1>0. World /\ RunData
  BY Parts
<1>1. CASE StartRun
  <2>1. \A n \in Names : plan'[n] = IF n \in Branches THEN PlanOf(n) ELSE NotPlanned
    BY <1>1 DEF StartRun
  <2>2. ASSUME NEW n \in Names
        PROVE  /\ plan'[n].verdict # "absent" => Whole(n, plan'[n].edits)
               /\ plan'[n].verdict = "absent" => plan'[n].edits = {}
    <3>1. CASE n \in Branches
      BY <1>0, <2>1, <3>1, PlanOfWhole
    <3>2. CASE n \notin Branches
      BY <2>1, <3>2 DEF NotPlanned
    <3> QED BY <3>1, <3>2
  <2> QED BY <2>2 DEF PlanCarried, Whole
<1>2. CASE CoResolve
  <2>1. CASE plan' = plan
    BY <2>1 DEF PlanCarried, Whole
  <2>2. CASE plan' # plan
    <3>1. plan' = [plan EXCEPT ![Combined] = CombinedPlan] /\ Cardinality(unresolved) >= 2
      BY <1>2, <2>2 DEF CoResolve
    <3>2. Whole(Combined, CombinedPlan.edits) /\ CombinedPlan.verdict = "write"
      BY <1>0, <3>1, CombinedWhole DEF CombinedPlan
    <3>3. plan'[Combined] = CombinedPlan /\ \A n \in Names \ {Combined} : plan'[n] = plan[n]
      BY <1>0, <3>1, NamesDiffer DEF RunData
    <3>4. ASSUME NEW n \in Names
          PROVE  /\ plan'[n].verdict # "absent" => Whole(n, plan'[n].edits)
                 /\ plan'[n].verdict = "absent" => plan'[n].edits = {}
      <4>1. CASE n = Combined
        BY <3>2, <3>3, <4>1
      <4>2. CASE n # Combined
        BY <3>3, <4>2 DEF PlanCarried
      <4> QED BY <4>1, <4>2
    <3> QED BY <3>4 DEF PlanCarried, Whole
  <2> QED BY <2>1, <2>2
<1>3. CASE \/ FindMergeRequest \/ History \/ PushBranch \/ Update \/ Create \/ ListOpen \/ PruneOne \/ EndRun
           \/ Others \/ UNCHANGED vars
  <2>1. plan' = plan
    BY <1>3, OthersTyped DEF FindMergeRequest, History, PushBranch, Update, Create, ListOpen, PruneOne, EndRun,
                             OthersLeave, vars
  <2> QED BY <2>1 DEF PlanCarried, Whole
<1> QED BY <1>1, <1>2, <1>3 DEF Next, RunStep

LEMMA WorldCarriedKept == ASSUME TypeOK, PlanCarried, WorldCarried, Tried, [Next]_vars PROVE WorldCarried'
<1>0. World /\ RunData /\ cur \in Names
  BY Parts DEF RunData
<1>1. ASSUME \A n \in Names : branch'[n].owner = "none" \/ Whole(n, branch'[n].edits),
             \A n \in Names : request'[n].state = "none" \/ Whole(n, request'[n].edits)
      PROVE  WorldCarried'
  BY <1>1 DEF WorldCarried, Whole
<1>b. ASSUME branch' = branch PROVE \A n \in Names : branch'[n].owner = "none" \/ Whole(n, branch'[n].edits)
  BY <1>b DEF WorldCarried
<1>r. ASSUME \A n \in Names : request'[n].edits = request[n].edits /\ (request'[n].state = "none" \/ request[n].state # "none")
      PROVE  \A n \in Names : request'[n].state = "none" \/ Whole(n, request'[n].edits)
  BY <1>r DEF WorldCarried
<1>w. Busy => Whole(cur, plan[cur].edits)
  BY <1>0 DEF PlanCarried, Tried
<1>2. CASE StartRun \/ FindMergeRequest \/ History \/ CoResolve \/ ListOpen \/ EndRun
  <2>1. UNCHANGED <<branch, request>>
    BY <1>2 DEF StartRun, FindMergeRequest, History, CoResolve, ListOpen, EndRun, world
  <2> QED BY <2>1 DEF WorldCarried, Whole
<1>3. CASE PushBranch
  <2>1. branch' = branch \/ branch' = [branch EXCEPT ![cur] = [owner |-> "bot", edits |-> plan[cur].edits]]
    BY <1>3 DEF PushBranch
  <2>2. request' = request \/ request' = [request EXCEPT ![cur].armed = FALSE]
    BY <1>3 DEF PushBranch
  <2>3. \A n \in Names : request'[n].edits = request[n].edits /\ request'[n].state = request[n].state
    BY <1>0, <2>2 DEF World, Requests
  <2>4. Busy
    BY <1>3 DEF PushBranch, Busy
  <2>5. CASE branch' = branch
    BY <1>1, <1>b, <1>r, <2>3, <2>5
  <2>6. CASE branch' = [branch EXCEPT ![cur] = [owner |-> "bot", edits |-> plan[cur].edits]]
    <3>1. branch'[cur].edits = plan[cur].edits /\ \A n \in Names \ {cur} : branch'[n] = branch[n]
      BY <1>0, <2>6 DEF World
    <3>2. ASSUME NEW n \in Names PROVE branch'[n].owner = "none" \/ Whole(n, branch'[n].edits)
      <4>1. CASE n = cur
        BY <1>w, <2>4, <3>1, <4>1
      <4>2. CASE n # cur
        BY <3>1, <4>2 DEF WorldCarried
      <4> QED BY <4>1, <4>2
    <3> QED BY <1>1, <1>r, <2>3, <3>2
  <2> QED BY <2>1, <2>5, <2>6
<1>4. CASE Update
  <2> DEFINE a == Open(cur) /\ AsksAutomerge
  <2>1. request' = request
      \/ request' = [request EXCEPT ![cur].edits = plan[cur].edits, ![cur].armed = a, ![cur].retitled = FALSE]
    BY <1>4 DEF Update
  <2>2. branch' = branch /\ Busy
    BY <1>4 DEF Update, Busy
  <2>3. CASE request' = request
    BY <1>1, <1>b, <1>r, <2>2, <2>3
  <2>4. CASE request' = [request EXCEPT ![cur].edits = plan[cur].edits, ![cur].armed = a, ![cur].retitled = FALSE]
    <3> HIDE DEF a
    <3>1. request'[cur].edits = plan[cur].edits /\ \A n \in Names \ {cur} : request'[n] = request[n]
      BY <1>0, <2>4 DEF World, Requests
    <3>2. ASSUME NEW n \in Names PROVE request'[n].state = "none" \/ Whole(n, request'[n].edits)
      <4>1. CASE n = cur
        BY <1>w, <2>2, <3>1, <4>1
      <4>2. CASE n # cur
        BY <3>1, <4>2 DEF WorldCarried
      <4> QED BY <4>1, <4>2
    <3> QED BY <1>1, <1>b, <2>2, <3>2
  <2> QED BY <2>1, <2>3, <2>4
<1>5. CASE Create
  <2>1. branch' = branch
    BY <1>5 DEF Create
  <2>2. CASE Opens(cur)
    <3>1. request'[cur].edits = branch[cur].edits /\ \A n \in Names \ {cur} : request'[n] = request[n]
      BY <1>0, <2>2, OpensTyped
    <3>2. branch[cur].owner # "none"
      BY <2>2 DEF Opens
    <3>3. ASSUME NEW n \in Names PROVE request'[n].state = "none" \/ Whole(n, request'[n].edits)
      <4>1. CASE n = cur
        BY <1>0, <3>1, <3>2, <4>1 DEF WorldCarried
      <4>2. CASE n # cur
        BY <3>1, <4>2 DEF WorldCarried
      <4> QED BY <4>1, <4>2
    <3> QED BY <1>1, <1>b, <2>1, <3>3
  <2>3. CASE request' = request
    BY <1>1, <1>b, <1>r, <2>1, <2>3
  <2> QED BY <1>5, <2>2, <2>3 DEF Create
<1>6. CASE PruneOne
  <2>1. PICK n \in doomed :
           /\ branch' = [branch EXCEPT ![n] = [owner |-> "none", edits |-> {}]] \/ UNCHANGED branch
           /\ \/ request' = request
              \/ /\ request[n].state # "none"
                 /\ request' = [request EXCEPT ![n].state = "autoclosed", ![n].armed = FALSE, ![n].retitled = TRUE]
    BY <1>6 DEF PruneOne, Open
  <2>2. \A m \in Names : branch'[m] = branch[m] \/ branch'[m].owner = "none"
    BY <1>0, <2>1 DEF World
  <2>3. \A m \in Names : request'[m].edits = request[m].edits /\ (request'[m].state = "none" \/ request[m].state # "none")
    BY <1>0, <2>1 DEF World, Requests
  <2>4. \A m \in Names : branch'[m].owner = "none" \/ Whole(m, branch'[m].edits)
    BY <2>2 DEF WorldCarried
  <2> QED BY <1>1, <1>r, <2>3, <2>4
<1>7. CASE Others
  <2>1. OthersLeave
    BY <1>7, OthersTyped
  <2>2. \A m \in Names : branch'[m].owner = "none" \/ Whole(m, branch'[m].edits)
    BY <2>1 DEF OthersLeave, WorldCarried
  <2>3. \A m \in Names : request'[m].edits = request[m].edits /\ (request'[m].state = "none" \/ request[m].state # "none")
    BY <2>1 DEF OthersLeave
  <2> QED BY <1>1, <1>r, <2>2, <2>3
<1>8. CASE UNCHANGED vars
  BY <1>8 DEF vars, WorldCarried, Whole
<1> QED BY <1>2, <1>3, <1>4, <1>5, <1>6, <1>7, <1>8 DEF Next, RunStep

-----------------------------------------------------------------------------
(* What a run tried.                                                       *)

LEMMA UnresolvableSame ==
    ASSUME \A b \in Branches : plan'[b] = plan[b], NEW n
    PROVE  Unresolvable(n)' = Unresolvable(n)
BY BranchKinds DEF Unresolvable

LEMMA DoneTries ==
    ASSUME TypeOK, Loop, Tried, Busy, NEW how \in Outcomes \ {""}, Done(how),
           UNCHANGED <<todo, cur, extended, plan, doomed>>,
           how \in {"held", "failed"} \/ ~Unresolvable(cur),
           unresolved' = unresolved \/ (Unresolvable(cur) /\ unresolved' = unresolved \cup {cur})
    PROVE  Tried'
<1>0. World /\ RunData
  BY Parts
<1>1. /\ pc' = "loop" /\ outcome'[cur] = how /\ \A n \in Names \ {cur} : outcome'[n] = outcome[n] /\ cur \in Names
  BY <1>0, DoneTyped DEF RunData
<1>2. \A n : Unresolvable(n)' = Unresolvable(n)
  BY UnresolvableSame
<1>3. \A b \in Branches : plan[b].verdict = "write" /\ outcome'[b] = "" => b \in todo
  BY <1>1, NamesDiffer DEF Tried, Busy
<1>4. \A b \in Branches : plan[b].verdict = "write" /\ Unresolvable(b) => outcome'[b] \in {"", "held", "failed"}
  BY <1>1, NamesDiffer DEF Tried
<1>5. Unresolvable(cur) => ~extended /\ cur \in Entangled /\ plan[cur].verdict = "write"
  BY BranchKinds, NamesDiffer DEF Unresolvable, Loop, Tried
<1>6. unresolved' \subseteq {b \in Entangled : plan[b].verdict = "write"}
  BY <1>5 DEF Tried
<1>7. extended /\ Cardinality(unresolved') >= 2 => plan[Combined].verdict = "write"
  BY <1>5 DEF Tried
<1>8. \A n \in doomed : ~Named(n)'
  BY DEF Tried, Named
<1> QED BY <1>1, <1>2, <1>3, <1>4, <1>6, <1>7, <1>8 DEF Tried, Busy

LEMMA TriedKept == ASSUME TypeOK, Loop, Tried, [Next]_vars PROVE Tried'
<1>0. World /\ RunData
  BY Parts
<1>1. CASE StartRun
  <2>1. /\ \A b \in Branches : plan'[b] = PlanOf(b)
        /\ plan'[Combined].verdict = "absent" /\ todo' = {b \in Branches : PlanOf(b).verdict = "write"}
        /\ pc' \in {"loop", "idle"} /\ extended' = FALSE /\ unresolved' = {} /\ doomed' = {}
        /\ \A n \in Names : outcome'[n] = ""
    BY <1>1, NamesDiffer DEF StartRun, NotPlanned
  <2>2. todo' \subseteq {n \in Names : plan'[n].verdict = "write"}
    BY <2>1, NamesDiffer
  <2>3. \A b \in Branches : plan'[b].verdict = "write" => b \in todo'
    BY <2>1
  <2> QED BY <2>1, <2>2, <2>3, NamesDiffer DEF Tried, Busy
<1>2. CASE FindMergeRequest
  <2>1. PICK n \in todo :
           /\ cur' = n /\ todo' = todo \ {n} /\ pc = "loop"
           /\ UNCHANGED <<extended, plan, doomed, unresolved>>
           /\ \/ pc' = pc /\ \E how \in {"held", "failed"} : outcome' = [outcome EXCEPT ![n] = how]
              \/ pc' \in {"push", "history"} /\ outcome' = outcome
    BY <1>2 DEF FindMergeRequest
  <2>2. n \in Names /\ plan[n].verdict = "write"
    BY <1>0, <2>1 DEF RunData, Tried
  <2>3. \A m : Unresolvable(m)' = Unresolvable(m)
    BY <2>1, UnresolvableSame
  <2>4. \A m \in Names \ {n} : outcome'[m] = outcome[m]
    BY <1>0, <2>1 DEF RunData
  <2>5. \/ outcome'[n] \in {"held", "failed"} /\ pc' = "loop"
        \/ outcome' = outcome /\ pc' \in {"push", "history"}
    BY <1>0, <2>1, <2>2 DEF RunData
  <2>6. \A b \in Branches : plan[b].verdict = "write" /\ outcome'[b] = "" => b \in todo' \/ (Busy' /\ b = cur')
    BY <2>1, <2>4, <2>5, NamesDiffer DEF Tried, Busy
  <2>7. \A b \in Branches : plan[b].verdict = "write" /\ Unresolvable(b) => outcome'[b] \in {"", "held", "failed"}
    BY <2>4, <2>5, NamesDiffer DEF Tried
  <2>8. \A m \in doomed : ~Named(m)'
    BY <2>1 DEF Tried, Named
  <2>9. todo' \subseteq {m \in Names : plan'[m].verdict = "write"} /\ plan'[cur'].verdict = "write" /\ pc' # "publish"
    BY <2>1, <2>2 DEF Tried
  <2>10. /\ plan'[Combined].verdict \in {"absent", "write"}
         /\ unresolved' \subseteq {b \in Entangled : plan'[b].verdict = "write"}
         /\ extended' /\ Cardinality(unresolved') >= 2 => plan'[Combined].verdict = "write"
    BY <2>1 DEF Tried
  <2> QED BY <2>1, <2>3, <2>6, <2>7, <2>8, <2>9, <2>10 DEF Tried
<1>3. ASSUME pc = "history" \/ pc = "push", UNCHANGED <<plan, todo, cur, extended, unresolved, doomed, outcome>>,
             pc' = "push" \/ (pc' = "publish" /\ ~Unresolvable(cur))
      PROVE  Tried'
  <2>1. \A m : Unresolvable(m)' = Unresolvable(m)
    BY <1>3, UnresolvableSame
  <2>2. Unresolvable(cur)' = Unresolvable(cur)
    BY <1>3 DEF Unresolvable
  <2>3. Busy /\ Busy'
    BY <1>3 DEF Busy
  <2> QED BY <1>3, <2>1, <2>2, <2>3 DEF Tried, Named
<1>4. CASE History
  <2>1. CASE Done("held")
    BY <1>4, <2>1, DoneTries DEF History, Busy, Outcomes
  <2>2. CASE pc' = "push" /\ UNCHANGED outcome
    BY <1>3, <1>4, <2>2 DEF History
  <2> QED BY <1>4, <2>1, <2>2 DEF History
<1>5. CASE PushBranch
  <2>1. CASE Done("failed")
    BY <1>5, <2>1, DoneTries DEF PushBranch, Busy, Outcomes
  <2>2. CASE ~Done("failed")
    BY <1>3, <1>5, <2>2 DEF PushBranch
  <2> QED BY <2>1, <2>2
<1>6. CASE Update \/ Create
  <2>1. PICK how \in Outcomes \ {""} : Done(how)
    BY <1>6 DEF Update, Create, Outcomes
  <2>2. Busy /\ UNCHANGED <<todo, cur, extended, plan, doomed, unresolved>> /\ ~Unresolvable(cur)
    BY <1>6 DEF Update, Create, Busy, Tried
  <2> QED BY <2>1, <2>2, DoneTries
<1>7. CASE CoResolve
  <2>1. /\ pc = "loop" /\ todo = {} /\ ~extended /\ extended' = TRUE
        /\ UNCHANGED <<pc, cur, unresolved, doomed, outcome>>
        /\ IF Cardinality(unresolved) >= 2
           THEN plan' = [plan EXCEPT ![Combined] = CombinedPlan] /\ todo' = {Combined}
           ELSE UNCHANGED <<plan, todo>>
    BY <1>7 DEF CoResolve
  <2>2. \A b \in Branches : plan'[b] = plan[b]
    BY <1>0, <2>1, NamesDiffer DEF RunData
  <2>3. IF Cardinality(unresolved) >= 2 THEN plan'[Combined].verdict = "write" /\ todo' = {Combined}
        ELSE plan' = plan /\ todo' = {}
    BY <1>0, <2>1, NamesDiffer DEF RunData, CombinedPlan
  <2>4. \A m : Unresolvable(m)' = Unresolvable(m)
    BY <2>2, UnresolvableSame
  <2>5. doomed = {} /\ ~Busy'
    BY <2>1 DEF Loop, Busy
  <2>6. unresolved' \subseteq {b \in Entangled : plan'[b].verdict = "write"}
    BY <2>1, <2>2, BranchKinds DEF Tried
  <2>7. \A b \in Branches : plan'[b].verdict = "write" => outcome'[b] # ""
    BY <2>1, <2>2 DEF Tried, Busy
  <2>8. \A b \in Branches : plan'[b].verdict = "write" /\ Unresolvable(b)' => outcome'[b] \in {"", "held", "failed"}
    BY <2>1, <2>2, <2>4 DEF Tried
  <2>9. plan'[Combined].verdict \in {"absent", "write"} /\ todo' \subseteq {n \in Names : plan'[n].verdict = "write"}
    BY <2>3, NamesDiffer DEF Tried
  <2> QED BY <2>1, <2>3, <2>5, <2>6, <2>7, <2>8, <2>9 DEF Tried, Busy
<1>8. ASSUME pc' \notin {"history", "push", "publish"}, ~Busy, pc # "idle", UNCHANGED <<plan, todo, cur, extended, unresolved>>,
             \A n \in Names : plan[n].verdict = "write" => outcome'[n] = outcome[n],
             \A n \in doomed' : ~Named(n)
      PROVE  Tried'
  <2>1. \A m : Unresolvable(m)' = Unresolvable(m)
    BY <1>8, UnresolvableSame
  <2>2. \A b \in Branches : plan[b].verdict = "write" => outcome'[b] = outcome[b]
    BY <1>8, NamesDiffer
  <2>3. \A n \in doomed' : ~Named(n)'
    BY <1>8 DEF Named
  <2> QED BY <1>8, <2>1, <2>2, <2>3 DEF Tried, Busy
<1>9. CASE ListOpen
  <2>1. \A n \in doomed' : ~Named(n)
    BY <1>9 DEF ListOpen
  <2> QED BY <1>8, <1>9, <2>1 DEF ListOpen, Busy
<1>10. CASE PruneOne
  <2>1. PICK n \in doomed :
           /\ doomed' = doomed \ {n}
           /\ outcome' = outcome \/ \E how \in {"autoclosed", "left"} : outcome' = [outcome EXCEPT ![n] = how]
    BY <1>10 DEF PruneOne
  <2>2. ~Named(n) /\ \A m \in doomed' : ~Named(m)
    BY <2>1 DEF Tried
  <2>3. \A m \in Names : plan[m].verdict = "write" => outcome'[m] = outcome[m]
    BY <1>0, <2>1, <2>2 DEF Named, RunData
  <2> QED BY <1>8, <1>10, <2>2, <2>3 DEF PruneOne, Busy
<1>11. CASE EndRun
  BY <1>8, <1>11 DEF EndRun, Busy, Tried
<1>12. CASE Others \/ UNCHANGED vars
  <2>1. UNCHANGED <<pc, plan, todo, cur, extended, unresolved, doomed, outcome>>
    BY <1>12, OthersTyped DEF OthersLeave, vars
  <2>2. \A m : Unresolvable(m)' = Unresolvable(m)
    BY <2>1, UnresolvableSame
  <2>3. Unresolvable(cur)' = Unresolvable(cur)
    BY <2>1 DEF Unresolvable
  <2> QED BY <2>1, <2>2, <2>3 DEF Tried, Busy, Named
<1> QED BY <1>1, <1>2, <1>4, <1>5, <1>6, <1>7, <1>9, <1>10, <1>11, <1>12 DEF Next, RunStep

-----------------------------------------------------------------------------
(* The runs.                                                               *)

(***************************************************************************)
(* The inductive invariant: types, the order of the loop, the room the      *)
(* limits leave, the run's counts, the history as it was read, what every   *)
(* branch and request carries and what was tried (runner.go, Execute).      *)
(***************************************************************************)
THEOREM RunsInOrder == Spec => []IInv
<1>1. Init => IInv
  <2> SUFFICES ASSUME Init PROVE IInv
    OBVIOUS
  <2>1. /\ pc = "idle" /\ doomed = {} /\ todo = {} /\ extended = FALSE /\ unresolved = {} /\ created = 0
        /\ \A n \in Names : plan[n] = NotPlanned /\ outcome[n] = "" /\ branch[n].owner = "none" /\ request[n].state = "none"
    BY DEF Init
  <2>2. Loop /\ Room /\ Concurrent /\ Read
    BY <2>1, NamesDiffer DEF Loop, Room, Routine, Concurrent, Read, Busy
  <2>n. \A n \in Names : plan[n].verdict = "absent" /\ plan[n].edits = {}
    <3>1. NotPlanned.verdict = "absent" /\ NotPlanned.edits = {}
      BY DEF NotPlanned
    <3> QED BY <2>1, <3>1
  <2>3. PlanCarried /\ WorldCarried
    BY <2>1, <2>n DEF PlanCarried, WorldCarried
  <2>4. Tried
    BY <2>1, <2>n, NamesDiffer DEF Tried, Busy
  <2>5. Hourly
    <3>1. CreatedNow = {} /\ CreatedRoutine = {}
      BY <2>1 DEF CreatedNow, CreatedRoutine
    <3>2. limits.hourly = 0
      BY DEF Init
    <3>c. Cardinality(CreatedNow) = 0 /\ created = 0
      BY <2>1, <3>1, FS_EmptySet
    <3>3. Cardinality(CreatedNow) <= created
      BY <3>c
    <3>4. ~(limits.hourly > 0)
      BY <3>2
    <3> QED BY <3>3, <3>4 DEF Hourly, HourlyLimitKept
  <2> QED BY InitTyped, <2>2, <2>3, <2>4, <2>5 DEF IInv, Carried
<1>2. IInv /\ [Next]_vars => IInv'
  <2> SUFFICES ASSUME IInv, [Next]_vars PROVE IInv'
    OBVIOUS
  <2>1. TypeOK'
    <3>1. TypeOK /\ UNCHANGED vars => TypeOK'
      BY DEF TypeOK, vars
    <3> QED BY <3>1, StartRunTyped, FindTyped, HistoryTyped, PushTyped, UpdateTyped, CreateTyped, AfterTyped, PruneTyped,
               OthersTyped DEF Next, RunStep, IInv
  <2> QED BY <2>1, LoopKept, RoomKept, HourlyKept, ConcurrentKept, ReadKept, PlanCarriedKept, WorldCarriedKept, TriedKept
          DEF IInv, Carried
<1> QED BY <1>1, <1>2, PTL DEF Spec

(***************************************************************************)
(* HourlyLimitKept: a run opens at most prHourlyLimit routine requests,     *)
(* whatever the limit, the number of branches and the advisories among      *)
(* them, the combined branch included (runner.go, Execute).                 *)
(***************************************************************************)
THEOREM HourlyLimit == Spec => []HourlyLimitKept
<1>1. IInv => HourlyLimitKept
  BY DEF IInv, Hourly
<1> QED BY <1>1, RunsInOrder, PTL

(***************************************************************************)
(* ConcurrentLimitKept, as long as the answer to a create is never lost: a  *)
(* routine request is opened only while fewer than prConcurrentLimit        *)
(* counted ones are open at that moment, those that people reopened since   *)
(* the run counted them aside, whatever merged, closed or was opened since  *)
(* (runner.go, Execute).  Both conditions are the code's: it counts once,   *)
(* and a create whose answer is lost is not counted.                        *)
(***************************************************************************)
THEOREM ConcurrentLimit == ASSUME AnswersLost = FALSE PROVE Spec => ConcurrentLimitKept
<1>1. IInv /\ [Next]_vars =>
        [Created /\ limits.concurrent > 0 /\ ~plan[cur].security
           => Cardinality((Counted \ reopened) \cup {cur}) <= limits.concurrent]_vars
  <2> SUFFICES ASSUME IInv, Created, limits.concurrent > 0, ~plan[cur].security
               PROVE  Cardinality(Known \cup {cur}) <= limits.concurrent
    BY DEF Known
  <2>1. pc = "publish" /\ ~found.hasMR
    BY DEF Created, Create
  <2>2. ~AtLimit
    BY <2>1 DEF IInv, Room, Routine, Busy
  <2>3. ~(openNow + created >= limits.concurrent)
    BY <2>2 DEF AtLimit
  <2>4. Cardinality(Known) <= openNow + created
    BY <2>1 DEF IInv, Concurrent
  <2>5. IsFiniteSet(Known) /\ Cardinality(Known) \in Nat
    BY KnownNumbers
  <2>6. Cardinality(Known \cup {cur}) = IF cur \in Known THEN Cardinality(Known) ELSE Cardinality(Known) + 1
    BY <2>5, FS_AddElement
  <2>7. openNow \in Nat /\ created \in Nat /\ limits.concurrent \in Nat
    BY DEF IInv, TypeOK
  <2> QED BY <2>3, <2>4, <2>5, <2>6, <2>7
<1> QED BY <1>1, RunsInOrder, PTL DEF Spec, ConcurrentLimitKept

(***************************************************************************)
(* ClosedUnderItsTitleStands, as long as the history can be read: no        *)
(* request is opened for edits a person closed, however often people close  *)
(* and commit while the run is at work, unless the request was reopened     *)
(* under this run or still bears the title a prune gave it (runner.go,      *)
(* closedBefore, takes that title for a close of its own).                  *)
(***************************************************************************)
THEOREM ClosedByHand == ASSUME HistoryFails = FALSE PROVE Spec => ClosedUnderItsTitleStands
<1>1. IInv /\ [Next]_vars =>
        [Created /\ cur \notin reopened /\ ~request[cur].retitled
           => ~(request[cur].state = "closed" /\ request[cur].edits = request'[cur].edits)]_vars
  <2> SUFFICES ASSUME IInv, Created, cur \notin reopened, ~request[cur].retitled,
                      request[cur].state = "closed", request[cur].edits = request'[cur].edits
               PROVE  FALSE
    OBVIOUS
  <2>1. pc = "publish" /\ ~found.hasMR /\ World /\ RunData /\ cur \in Names
    BY Parts DEF Created, Create, IInv, RunData
  <2>2. Opens(cur)
    BY DEF Created, Create, Open
  <2>3. request'[cur].edits = branch[cur].edits /\ branch[cur].owner # "none"
    BY <2>1, <2>2, OpensTyped DEF Opens
  <2>4. request[cur].edits = plan[cur].edits
    BY <2>1, <2>3 DEF IInv, Read
  <2> QED BY <2>1, <2>4 DEF IInv, Read, ClosedBefore
<1> QED BY <1>1, RunsInOrder, PTL DEF Spec, ClosedUnderItsTitleStands

(***************************************************************************)
(* RevertNotArmedAtOpening, as long as the history can be read: a request   *)
(* opened for edits some earlier request of the branch merged does not ask  *)
(* for automerge, unless one of the branch's requests was reopened under    *)
(* this run (runner.go, mergedBefore).                                      *)
(***************************************************************************)
THEOREM RevertNotArmed == ASSUME HistoryFails = FALSE PROVE Spec => RevertNotArmedAtOpening
<1>1. IInv /\ [Next]_vars =>
        [Created /\ cur \notin reopened /\ request'[cur].edits \in MergedEdits(cur) => ~request'[cur].armed]_vars
  <2> SUFFICES ASSUME IInv, Created, cur \notin reopened, request'[cur].edits \in MergedEdits(cur)
               PROVE  ~request'[cur].armed
    OBVIOUS
  <2>1. pc = "publish" /\ ~found.hasMR /\ World /\ RunData /\ cur \in Names
    BY Parts DEF Created, Create, IInv, RunData
  <2>2. Opens(cur)
    BY DEF Created, Create, Open
  <2>3. /\ request'[cur].edits = branch[cur].edits /\ branch[cur].owner # "none"
        /\ request'[cur].armed = AsksAutomerge
    BY <2>1, <2>2, OpensTyped DEF Opens
  <2>4. plan[cur].edits \in MergedEdits(cur)
    BY <2>1, <2>3 DEF IInv, Read
  <2>5. found.mergedBefore
    BY <2>1, <2>4 DEF IInv, Read, MergedBefore
  <2> QED BY <2>1, <2>3, <2>5 DEF AsksAutomerge
<1> QED BY <1>1, RunsInOrder, PTL DEF Spec, RevertNotArmedAtOpening

\* An edit some branch writes is that branch's own.
LEMMA WantedIsOwn ==
    ASSUME Carried, NEW b, NEW c, Wanted(<<b, c>>)
    PROVE  b \in Branches /\ plan[b].verdict = "write"
<1>1. PICK d \in Branches : plan[d].verdict = "write" /\ <<b, c>> \in plan[d].edits
  BY DEF Wanted
<1>2. d \in Names /\ d # Combined
  BY NamesDiffer
<1>3. plan[d].edits \subseteq {d} \X Contents
  BY <1>1, <1>2 DEF Carried, PlanCarried, Whole
<1> QED BY <1>1, <1>3

(***************************************************************************)
(* PrunedIsUnwantedOrUntried: a prune closes a request only if the plan     *)
(* stopped asking for some of its edits, or a member of a combined branch   *)
(* was held or failed before its lock refresh, for any number of entangled  *)
(* branches (runner.go, prune; coresolve.go).                               *)
(***************************************************************************)
THEOREM PrunedForAReason == Spec => PrunedIsUnwantedOrUntried
<1>1. IInv /\ [Next]_vars =>
        [\A n \in Names : Closes(n) =>
           \/ \E e \in request[n].edits : ~Wanted(e)
           \/ \E e \in request[n].edits, b \in Branches : e \in plan[b].edits /\ NotTried(b)]_vars
  <2> SUFFICES ASSUME IInv, NEW n \in Names, PruneOne, Open(n), request'[n].state = "autoclosed",
                      \A e \in request[n].edits : Wanted(e)
               PROVE  \E e \in request[n].edits, b \in Branches : e \in plan[b].edits /\ NotTried(b)
    BY DEF Closes
  <2>0. World /\ RunData /\ Loop /\ Carried /\ Tried /\ pc = "prune" /\ extended /\ todo = {} /\ ~Busy
    BY Parts DEF IInv, PruneOne, Loop, Busy
  <2>1. n \in doomed
    <3>1. PICK m \in doomed : request' = request \/ request' = [request EXCEPT ![m].state = "autoclosed", ![m].armed = FALSE, ![m].retitled = TRUE]
      BY DEF PruneOne
    <3> QED BY <2>0, <3>1 DEF World, Open
  <2>2. ~Named(n) /\ Whole(n, request[n].edits)
    BY <2>0, <2>1 DEF Tried, Carried, WorldCarried, Open
  <2>3. CASE n # Combined
    <3>1. PICK e \in request[n].edits : e \in {n} \X Contents
      BY <2>2, <2>3 DEF Whole
    <3>2. PICK c \in Contents : e = <<n, c>>
      BY <3>1
    <3>3. plan[n].verdict = "write"
      BY <2>0, <3>1, <3>2, WantedIsOwn
    <3> QED BY <2>2, <3>3 DEF Named
  <2>4. CASE n = Combined
    <3>1. PICK b1, b2 \in Entangled : b1 # b2 /\ (\E c \in Contents : <<b1, c>> \in request[n].edits)
                                              /\ (\E c \in Contents : <<b2, c>> \in request[n].edits)
      BY <2>2, <2>4 DEF Whole
    <3>2. \A b \in {b1, b2} : b \in Branches /\ plan[b].verdict = "write" /\ Unresolvable(b)
      <4>1. \A b \in {b1, b2} : b \in Branches /\ plan[b].verdict = "write"
        BY <2>0, <3>1, WantedIsOwn
      <4> QED BY <3>1, <4>1 DEF Unresolvable
    <3>3. \A b \in {b1, b2} : outcome[b] \in {"held", "failed"}
      BY <2>0, <3>2 DEF Tried
    <3>4. ~(b1 \in unresolved /\ b2 \in unresolved)
      <4> SUFFICES ASSUME b1 \in unresolved, b2 \in unresolved PROVE FALSE
        OBVIOUS
      <4>1. IsFiniteSet(unresolved) /\ Cardinality(unresolved) \in Nat
        BY <2>0, FiniteBranches, FS_Subset, FS_CardinalityType DEF RunData
      <4>2. Cardinality(unresolved) # 0 /\ Cardinality(unresolved) # 1
        BY <3>1, <4>1, FS_EmptySet, FS_Singleton
      <4>3. Cardinality(unresolved) >= 2
        BY <4>1, <4>2
      <4>4. plan[Combined].verdict = "write"
        BY <2>0, <4>3 DEF Tried
      <4> QED BY <2>2, <2>4, <4>4 DEF Named
    <3>5. PICK b \in {b1, b2} : b \notin unresolved
      BY <3>4
    <3>6. PICK c \in Contents : <<b, c>> \in request[n].edits
      BY <3>1, <3>5
    <3>7. <<b, c>> \in plan[b].edits
      <4>1. PICK d \in Branches : plan[d].verdict = "write" /\ <<b, c>> \in plan[d].edits
        BY <3>6 DEF Wanted
      <4>2. plan[d].edits \subseteq {d} \X Contents
        BY <2>0, <4>1, NamesDiffer DEF Carried, PlanCarried, Whole
      <4> QED BY <4>1, <4>2
    <3> QED BY <3>2, <3>3, <3>5, <3>6, <3>7 DEF NotTried
  <2> QED BY <2>3, <2>4
<1> QED BY <1>1, RunsInOrder, PTL DEF Spec, PrunedIsUnwantedOrUntried
=============================================================================
