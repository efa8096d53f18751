--------------------------- MODULE Automerge_proofs ---------------------------
(***************************************************************************)
(* Type correctness of Automerge, that the arm watch never arms or merges  *)
(* a person's head, and that a run that pushed arms its own push only, for *)
(* every number of heads, runs and failures.                               *)
(*                                                                         *)
(* The watch reads the authors of whatever GitLab records at that moment   *)
(* and arms the head it listed: two different heads, perhaps.  The         *)
(* argument is that the bot pushes only over its own head, so that once a  *)
(* head is the bot's every earlier one is, and that GitLab's head moves    *)
(* forward only.                                                           *)
(***************************************************************************)
EXTENDS Automerge, TLAPS

-----------------------------------------------------------------------------
(* Type correctness.                                                       *)

\* The Boolean part of TypeOK, and the rest.
Flags ==
    /\ marker \in BOOLEAN /\ canceled \in BOOLEAN
    /\ want \in BOOLEAN /\ hasMR \in BOOLEAN /\ again \in BOOLEAN

Data ==
    /\ state \in {"none", "opened", "merged", "closed"}
    /\ head \in Heads
    /\ by \in [Heads -> {"nobody", "bot", "person"}]
    /\ recorded \in Heads
    /\ pipeline \in [sha : Heads, status : {"none", "running", "success", "failed"}]
    /\ armed \in Heads
    /\ runs \in 0..MaxRuns
    /\ run \in [pc : RunPcs, pushed : Heads, sha : Heads]
    /\ watch \in [pc : WatchPcs, sha : Heads]
    /\ failures \in 0..MaxFailures

LEMMA TypeParts == TypeOK <=> Flags /\ Data
BY DEF TypeOK, Flags, Data

\* What a run does next after the description.
LEMMA AfterDescriptionTyped == \A b \in BOOLEAN : AfterDescription(b) \in {"idle", "arm", "cancel"}
BY DEF AfterDescription

\* The Booleans stay Booleans.
LEMMA FlagsTyped == ASSUME Flags, [Next]_vars PROVE Flags'
<1> USE DEF Flags
<1>1. CASE RunStart
  <2>1. (state = "opened") \in BOOLEAN /\ (state = "none") \in BOOLEAN
    OBVIOUS
  <2>2. marker' = marker /\ canceled' = canceled /\ want' \in BOOLEAN /\ hasMR' = (state = "opened")
    BY <1>1, Zenon DEF RunStart, request
  <2>3. again' \in BOOLEAN
    BY <1>1, Zenon DEF RunStart
  <2> QED BY <2>1, <2>2, <2>3, Zenon
<1>2. CASE Create
  BY <1>2, Zenon DEF Create, request
<1>3. CASE Update
  BY <1>3, Zenon DEF Update, decision
<1>4. CASE RunArms \/ RunMergesNow
  BY <1>4, Zenon DEF RunArms, RunMergesNow, Arms, Merges, Refuses, AcceptsOnly, request, decision
<1>5. CASE RunCancels
  BY <1>5, Zenon DEF RunCancels, decision
<1>6. CASE List \/ HeadPipeline \/ CommitAuthors \/ AutomergeCanceledBy
  BY <1>6, Zenon DEF List, HeadPipeline, CommitAuthors, AutomergeCanceledBy, request, decision
<1>7. CASE ArmAutomerge \/ WatchMergesNow
  BY <1>7, Zenon DEF ArmAutomerge, WatchMergesNow, Arms, Merges, Refuses, AcceptsOnly, request, decision
<1>8. CASE GitLab
  BY <1>8, Zenon DEF GitLab, SeesPush, PipelineStarts, PipelineEnds, MergesArmed, Merges, decision
<1>9. CASE People
  BY <1>9, Zenon DEF People, PersonPushes, PersonCancels, PersonEnds, request, decision
<1>10. CASE UNCHANGED vars
  BY <1>10, Zenon DEF vars
<1> QED
  BY <1>1, <1>2, <1>3, <1>4, <1>5, <1>6, <1>7, <1>8, <1>9, <1>10 DEF Next, RunStep, WatchStep

\* A run that goes on to another call, with a head it was told.
LEMMA RunMovesTyped ==
    ASSUME run \in [pc : RunPcs, pushed : Heads, sha : Heads], NEW pc \in RunPcs, NEW sha \in Heads
    PROVE  [run EXCEPT !.pc = pc, !.sha = sha] \in [pc : RunPcs, pushed : Heads, sha : Heads]
OBVIOUS

\* What is in the run's record after it.
LEMMA RunMovesFields ==
    ASSUME run \in [pc : RunPcs, pushed : Heads, sha : Heads], NEW pc, NEW sha,
           run' = [run EXCEPT !.pc = pc, !.sha = sha]
    PROVE  run'.pc = pc /\ run'.sha = sha /\ run'.pushed = run.pushed
OBVIOUS

\* A run that is done.
LEMMA RunDoneTyped == ASSUME RunDone PROVE run' \in [pc : RunPcs, pushed : Heads, sha : Heads]
BY Bounds DEF RunDone, RunPcs, Heads, None

\* The calls of a run keep the rest typed.
LEMMA RunTyped == ASSUME Data, RunStep PROVE Data'
<1> USE DirectIsSwitch, Bounds DEF Data, Heads, None
<1>1. CASE RunStart
  <2>1. /\ run' \in [pc : RunPcs, pushed : Heads, sha : Heads]
        /\ by' \in [Heads -> {"nobody", "bot", "person"}] /\ head' \in Heads
    BY <1>1 DEF RunStart, PushedBy, RunPcs
  <2>2. runs' \in 0..MaxRuns
    BY <1>1 DEF RunStart
  <2> QED BY <1>1, <2>1, <2>2 DEF RunStart, request
<1>2. CASE Create
  <2>1. AfterDescription(FALSE) \in RunPcs
    BY AfterDescriptionTyped DEF RunPcs
  <2>3. [run EXCEPT !.pc = AfterDescription(FALSE), !.sha = head]
          \in [pc : RunPcs, pushed : Heads, sha : Heads]
    BY <2>1, RunMovesTyped
  <2>4. run' \in [pc : RunPcs, pushed : Heads, sha : Heads]
    <3>1. RunDone \/ run' = [run EXCEPT !.pc = AfterDescription(FALSE), !.sha = head]
      BY <1>2, Zenon DEF Create
    <3> QED BY <3>1, <2>3, RunDoneTyped, Zenon
  <2>5. failures' \in 0..MaxFailures
    BY <1>2 DEF Create, Fails
  <2> QED BY <1>2, <2>4, <2>5 DEF Create, request
<1>3. CASE Update
  <2>1. AfterDescription(armed # None) \in RunPcs
    BY AfterDescriptionTyped, (armed # None) \in BOOLEAN DEF RunPcs
  <2>3. [run EXCEPT !.pc = AfterDescription(armed # None), !.sha = recorded]
          \in [pc : RunPcs, pushed : Heads, sha : Heads]
    BY <2>1, RunMovesTyped
  <2>4. run' \in [pc : RunPcs, pushed : Heads, sha : Heads]
    <3>1. RunDone \/ run' = [run EXCEPT !.pc = AfterDescription(armed # None), !.sha = recorded]
      BY <1>3, Zenon DEF Update
    <3> QED BY <3>1, <2>3, RunDoneTyped, Zenon
  <2>5. failures' \in 0..MaxFailures
    BY <1>3 DEF Update, Fails
  <2> QED BY <1>3, <2>4, <2>5 DEF Update
<1>4. CASE RunArms
  <2>1. {"idle", "publish"} \subseteq RunPcs /\ (MergesOutright => "mergeNow" \in RunPcs)
    BY DEF RunPcs, MergesOutright
  <2>2. run' \in [pc : RunPcs, pushed : Heads, sha : Heads]
    <3>1. MergesOutright => [run EXCEPT !.pc = "mergeNow", !.sha = recorded]
                              \in [pc : RunPcs, pushed : Heads, sha : Heads]
      BY <2>1, RunMovesTyped
    <3>2. [run EXCEPT !.pc = "publish"] \in [pc : RunPcs, pushed : Heads, sha : Heads]
      BY <2>1
    <3>3. \/ RunDone \/ run' = [run EXCEPT !.pc = "publish"]
          \/ MergesOutright /\ run' = [run EXCEPT !.pc = "mergeNow", !.sha = recorded]
      BY <1>4, Zenon DEF RunArms, NotYet
    <3> QED BY <3>1, <3>2, <3>3, RunDoneTyped, Zenon
  <2>3. failures' \in 0..MaxFailures
    BY <1>4 DEF RunArms, Fails
  <2> QED BY <1>4, <2>2, <2>3 DEF RunArms, Arms, Merges, Refuses, AcceptsOnly, request
<1>5. CASE RunMergesNow
  <2>1. {"idle", "publish"} \subseteq RunPcs
    BY DEF RunPcs
  <2>2. run' \in [pc : RunPcs, pushed : Heads, sha : Heads]
    BY <1>5, <2>1, SMTT(30) DEF RunMergesNow, NotYet, RunDone
  <2>3. failures' \in 0..MaxFailures
    BY <1>5 DEF RunMergesNow, Fails
  <2> QED BY <1>5, <2>2, <2>3 DEF RunMergesNow, Merges, request
<1>6. CASE RunCancels
  <2>1. "idle" \in RunPcs
    BY DEF RunPcs
  <2> QED BY <1>6, <2>1 DEF RunCancels, RunDone, Fails
<1> QED BY <1>1, <1>2, <1>3, <1>4, <1>5, <1>6 DEF RunStep

\* So do the calls of the watch.
LEMMA WatchTyped == ASSUME Data, WatchStep PROVE Data'
<1> USE DirectIsSwitch, Bounds DEF Data, Heads, None
<1>1. {"idle", "pipeline", "authors", "notes", "arm"} \subseteq WatchPcs
      /\ (MergesOutright => "mergeNow" \in WatchPcs)
  BY DEF WatchPcs, MergesOutright
<1>2. CASE List
  BY <1>1, <1>2 DEF List, request
<1>3. CASE HeadPipeline
  BY <1>1, <1>3 DEF HeadPipeline, GoesOn, Skips, WatchFails, WatchDone, Fails, request
<1>4. CASE CommitAuthors
  BY <1>1, <1>4 DEF CommitAuthors, GoesOn, Skips, WatchFails, WatchDone, Fails, request
<1>5. CASE AutomergeCanceledBy
  BY <1>1, <1>5 DEF AutomergeCanceledBy, GoesOn, Skips, WatchFails, WatchDone, Fails, request
<1>6. CASE ArmAutomerge
  BY <1>1, <1>6, SMTT(30) DEF ArmAutomerge, Arms, Merges, Refuses, AcceptsOnly, GoesOn, Skips, WatchFails,
                    WatchDone, Fails, request
<1>7. CASE WatchMergesNow
  BY <1>1, <1>7 DEF WatchMergesNow, Merges, Skips, WatchFails, WatchDone, Fails, request
<1> QED BY <1>2, <1>3, <1>4, <1>5, <1>6, <1>7 DEF WatchStep

\* Type correctness of every state variable.
THEOREM TypeCorrect == Spec => []TypeOK
<1>1. Init => TypeOK
  <2> SUFFICES ASSUME Init PROVE Flags /\ Data
    BY TypeParts
  <2>1. Flags
    BY DEF Init, Flags
  <2>2. Data
    BY DirectIsSwitch, Bounds DEF Init, Data, Heads, None, RunPcs, WatchPcs
  <2> QED BY <2>1, <2>2
<1>2. TypeOK /\ [Next]_vars => TypeOK'
  <2> SUFFICES ASSUME TypeOK, [Next]_vars PROVE TypeOK'
    OBVIOUS
  <2>1. Flags /\ Data
    BY TypeParts
  <2>2. Flags'
    BY <2>1, FlagsTyped
  <2>3. Data'
    <3>1. CASE RunStep
      BY <2>1, <3>1, RunTyped
    <3>2. CASE WatchStep
      BY <2>1, <3>2, WatchTyped
    <3>3. CASE GitLab
      BY <2>1, <3>3, Bounds DEF GitLab, SeesPush, PipelineStarts, PipelineEnds, MergesArmed, Merges,
                        Data, Heads, None
    <3>4. CASE People
      BY <2>1, <3>4, Bounds, SMTT(30) DEF People, PersonPushes, PersonCancels, PersonEnds, PushedBy, request,
                        Data, Heads, None
    <3>5. CASE UNCHANGED vars
      BY <2>1, <3>5 DEF vars, Data
    <3> QED BY <3>1, <3>2, <3>3, <3>4, <3>5 DEF Next
  <2>4. TypeOK' <=> Flags' /\ Data'
    BY DEF TypeOK, Flags, Data
  <2> QED BY <2>2, <2>3, <2>4
<1> QED
  BY <1>1, <1>2, PTL DEF Spec

-----------------------------------------------------------------------------
(* What the watch and the runs arm.                                        *)

\* Heads are pushed in order, a person's stays a person's, GitLab is never
\* ahead of the remote, and what the watch listed is never ahead of GitLab.
InOrder ==
    /\ \A h \in Heads : h = None => by[h] = "nobody"
    /\ \A h \in Heads : h # None /\ h <= head => by[h] # "nobody"
    /\ \A g, h \in Heads : g <= h /\ h <= head /\ by[g] = "person" => by[h] = "person"

Order ==
    /\ InOrder
    /\ recorded <= head
    /\ state # "none" => recorded # None
    /\ run.pc # "idle" => head # None

Seen ==
    /\ watch.pc # "idle" => watch.sha # None /\ watch.sha <= recorded
    /\ watch.pc \in {"notes", "arm", "mergeNow"} => by[watch.sha] = "bot"

MergesPush == run.pc = "mergeNow" /\ run.pushed # None => run.sha = run.pushed

\* A push keeps the order when it is the bot's over its own or a person's.
LEMMA PushKeepsOrder ==
    ASSUME TypeOK, Order, NEW who \in {"bot", "person"}, PushedBy(who),
           who = "bot" => by[head] # "person"
    PROVE  /\ InOrder'
           /\ head <= head' /\ head' # None
           /\ \A h \in Heads : h <= head => by'[h] = by[h]
<1>1. /\ head \in Nat /\ MaxHeads \in Nat /\ head < MaxHeads /\ head' = head + 1
      /\ \A h \in Heads : h \in Nat
      /\ \A h \in Heads : by'[h] = IF h = head + 1 THEN who ELSE by[h]
  BY Bounds DEF PushedBy, TypeOK, Heads
<1>2. \A h \in Heads : h <= head => by'[h] = by[h]
  BY <1>1
<1>3. \A h \in Heads : /\ h = None => by'[h] = "nobody"
                       /\ h # None /\ h <= head' => by'[h] # "nobody"
  BY <1>1 DEF Order, InOrder, None
<1>4. ASSUME NEW g \in Heads, NEW h \in Heads, g <= h, h <= head', by'[g] = "person"
      PROVE  by'[h] = "person"
  <2>1. CASE h <= head
    BY <1>1, <1>2, <1>4, <2>1 DEF Order, InOrder
  <2>2. CASE h = head + 1 /\ who = "person"
    BY <1>1, <2>2
  <2>3. CASE h = head + 1 /\ who = "bot"
    <3>1. g <= head /\ by[g] = "person" /\ head \in Heads
      BY <1>1, <1>4, <2>3 DEF TypeOK
    <3> QED BY <1>1, <2>3, <3>1 DEF Order, InOrder
  <2> QED BY <1>1, <1>4, <2>1, <2>2, <2>3
<1>5. InOrder'
  BY <1>3, <1>4 DEF InOrder
<1>6. head <= head' /\ head' # None
  BY <1>1 DEF None
<1> QED BY <1>2, <1>5, <1>6

\* Who moves the branch, the recorded head, the state and the run's call.
LEMMA OrderKept == ASSUME TypeOK, TypeOK', Order, [Next]_vars PROVE Order'
<1> USE DEF None
<1>1. head \in Nat /\ recorded \in Nat /\ \A h \in Heads : h \in Nat
  BY DEF TypeOK, Heads
<1>2. CASE RunStart
  <2>1. CASE PushedBy("bot") /\ by[head] # "person"
    <3>1. /\ InOrder'
          /\ head <= head' /\ head' # None
      BY <2>1, PushKeepsOrder
    <3>2. UNCHANGED <<recorded, state>> /\ recorded <= head'
      BY <1>1, <1>2, <2>1, <3>1 DEF RunStart, Order, InOrder, request, PushedBy
    <3> QED BY <3>1, <3>2 DEF Order, InOrder
  <2>2. CASE by[head] = "bot" /\ UNCHANGED <<head, by>>
    <3>1. head # None
      BY <2>2 DEF Order, InOrder, TypeOK
    <3> QED BY <1>2, <2>2, <3>1 DEF RunStart, Order, InOrder, request
  <2>3. CASE UNCHANGED <<head, by, run>>
    BY <1>2, <2>3 DEF RunStart, Order, InOrder, request
  <2> QED BY <1>2, <2>1, <2>2, <2>3 DEF RunStart
<1>3. CASE Create
  BY <1>1, <1>3 DEF Create, Order, InOrder, request, RunDone
<1>4. CASE Update
  <2>1. UNCHANGED <<state, head, by, recorded>> /\ run.pc # "idle"
    BY <1>4 DEF Update
  <2> QED BY <2>1 DEF Order, InOrder
<1>5. CASE RunArms \/ RunMergesNow \/ RunCancels
  <2>1. UNCHANGED <<head, by, recorded>> /\ run.pc # "idle" /\ (state' # "none" => state # "none")
    BY <1>5 DEF RunArms, RunMergesNow, RunCancels, Arms, Merges, Refuses, AcceptsOnly, OnHead, request
  <2> QED BY <2>1 DEF Order, InOrder
<1>6. CASE WatchStep
  <2>1. UNCHANGED <<head, by, recorded, run>> /\ (state' # "none" => state # "none")
    BY <1>6 DEF WatchStep, List, HeadPipeline, CommitAuthors, AutomergeCanceledBy, ArmAutomerge,
                WatchMergesNow, Arms, Merges, Refuses, AcceptsOnly, OnHead, request
  <2> QED BY <2>1 DEF Order, InOrder
<1>7. CASE SeesPush
  BY <1>1, <1>7 DEF SeesPush, Order, InOrder
<1>8. CASE PipelineStarts \/ PipelineEnds \/ MergesArmed \/ PersonCancels \/ PersonEnds
  <2>1. UNCHANGED <<head, by, recorded, run>> /\ (state' # "none" => state # "none")
    BY <1>8 DEF PipelineStarts, PipelineEnds, MergesArmed, PersonCancels, PersonEnds, Merges, OnHead
  <2> QED BY <2>1 DEF Order, InOrder
<1>9. CASE PersonPushes
  <2>1. /\ InOrder'
        /\ head <= head' /\ head' # None
    BY <1>9, PushKeepsOrder DEF PersonPushes
  <2>2. UNCHANGED <<recorded, state, run>> /\ recorded <= head'
    BY <1>1, <1>9, <2>1 DEF PersonPushes, Order, InOrder, request, PushedBy
  <2> QED BY <2>1, <2>2 DEF Order, InOrder
<1>10. CASE UNCHANGED vars
  BY <1>10 DEF vars, Order, InOrder
<1> QED
  BY <1>2, <1>3, <1>4, <1>5, <1>6, <1>7, <1>8, <1>9, <1>10 DEF Next, RunStep, GitLab, People

\* What the watch has seen stays so: only later heads are pushed and recorded.
LEMMA SeenKept == ASSUME TypeOK, TypeOK', Order, Seen, [Next]_vars PROVE Seen'
<1> USE DEF None
<1>1. /\ head \in Nat /\ recorded \in Nat /\ watch.sha \in Heads /\ recorded \in Heads /\ watch.sha \in Nat
      /\ \A h \in Heads : h \in Nat
  BY DEF TypeOK, Heads
<1>2. CASE WatchStep
  <2>1. UNCHANGED <<by, recorded>>
    BY <1>2 DEF WatchStep, List, HeadPipeline, CommitAuthors, AutomergeCanceledBy, ArmAutomerge,
                WatchMergesNow, Arms, Merges, Refuses, AcceptsOnly, request
  <2>2. CASE List
    BY <1>1, <2>1, <2>2 DEF List, Seen, Order, InOrder
  <2>3. CASE HeadPipeline
    BY <2>1, <2>3 DEF HeadPipeline, GoesOn, Skips, WatchFails, WatchDone, Seen, TypeOK
  <2>4. CASE CommitAuthors
    <3>1. by[recorded] = "bot" /\ watch.pc = "authors" => by[watch.sha] = "bot"
      <4>1. watch.pc = "authors" => watch.sha # None /\ watch.sha <= recorded /\ watch.sha <= head
        BY <1>1 DEF Seen, Order, InOrder
      <4>2. by[watch.sha] \in {"nobody", "bot", "person"}
        BY <1>1 DEF TypeOK
      <4> QED BY <1>1, <4>1, <4>2 DEF Order, InOrder
    <3>2. CASE AllByBot /\ GoesOn("notes")
      BY <2>1, <2>4, <3>1, <3>2 DEF CommitAuthors, AllByBot, GoesOn, Seen, TypeOK
    <3>3. CASE WatchDone
      BY <3>3 DEF WatchDone, Seen
    <3> QED BY <2>4, <3>2, <3>3 DEF CommitAuthors, Skips, WatchFails
  <2>5. CASE AutomergeCanceledBy
    BY <2>1, <2>5 DEF AutomergeCanceledBy, GoesOn, Skips, WatchFails, WatchDone, Seen, TypeOK
  <2>6. CASE ArmAutomerge
    BY <2>1, <2>6 DEF ArmAutomerge, GoesOn, Skips, WatchFails, WatchDone, Seen, TypeOK
  <2>7. CASE WatchMergesNow
    BY <2>1, <2>7 DEF WatchMergesNow, Skips, WatchFails, WatchDone, Seen
  <2> QED BY <1>2, <2>2, <2>3, <2>4, <2>5, <2>6, <2>7 DEF WatchStep
<1>3. CASE RunStart \/ PersonPushes
  <2>1. UNCHANGED <<watch, recorded>>
    BY <1>3 DEF RunStart, PersonPushes, request
  <2>2. \A h \in Heads : h <= head => by'[h] = by[h]
    BY <1>1, <1>3, PushKeepsOrder DEF RunStart, PersonPushes
  <2>3. watch.pc # "idle" => watch.sha <= head
    BY <1>1 DEF Seen, Order, InOrder
  <2>4. watch.pc # "idle" => by'[watch.sha] = by[watch.sha]
    BY <1>1, <2>2, <2>3
  <2> QED BY <2>1, <2>4 DEF Seen
<1>4. CASE Create
  <2>1. UNCHANGED <<watch, by>> /\ (recorded' = recorded \/ recorded' = head)
    BY <1>4 DEF Create, request
  <2> QED BY <1>1, <2>1 DEF Seen, Order, InOrder
<1>5. CASE Update \/ RunArms \/ RunMergesNow \/ RunCancels
  <2>1. UNCHANGED <<watch, by, recorded>>
    BY <1>5 DEF Update, RunArms, RunMergesNow, RunCancels, Arms, Merges, Refuses, AcceptsOnly, request
  <2> QED BY <2>1 DEF Seen
<1>6. CASE GitLab \/ PersonCancels \/ PersonEnds
  <2>1. UNCHANGED <<watch, by>> /\ (recorded' = recorded \/ recorded' = head)
    BY <1>6 DEF GitLab, SeesPush, PipelineStarts, PipelineEnds, MergesArmed, Merges, PersonCancels, PersonEnds
  <2> QED BY <1>1, <2>1 DEF Seen, Order, InOrder
<1>7. CASE UNCHANGED vars
  BY <1>7 DEF vars, Seen
<1> QED
  BY <1>2, <1>3, <1>4, <1>5, <1>6, <1>7 DEF Next, RunStep, People

\* The two together.
WatchInv == TypeOK /\ Order /\ Seen

THEOREM WatchIsInOrder == Spec => []WatchInv
<1>1. Init => Order /\ Seen
  BY Bounds DEF Init, Order, InOrder, Seen, Heads, None
<1>2. TypeOK /\ TypeOK' /\ Order /\ Seen /\ [Next]_vars => Order' /\ Seen'
  BY OrderKept, SeenKept
<1> QED
  BY <1>1, <1>2, TypeCorrect, PTL DEF Spec, WatchInv

\* The arm watch arms and merges heads of the bot only.
THEOREM WatchNeverArmsPeople == Spec => WatchLeavesPeople
<1>1. ASSUME WatchInv, ArmAutomerge \/ WatchMergesNow, Took PROVE by[recorded] = "bot"
  <2>1. watch.pc \in {"arm", "mergeNow"}
    BY <1>1 DEF ArmAutomerge, WatchMergesNow
  <2>2. watch.sha = recorded
    BY <1>1 DEF ArmAutomerge, WatchMergesNow, Arms, Merges, Refuses, AcceptsOnly, OnHead, Took, request
  <2> QED BY <1>1, <2>1, <2>2 DEF WatchInv, Seen
<1>2. WatchInv /\ [Next]_vars => [(ArmAutomerge \/ WatchMergesNow) /\ Took => by[recorded] = "bot"]_vars
  BY <1>1
<1> QED
  BY <1>2, WatchIsInOrder, PTL DEF Spec, WatchLeavesPeople

\* A run goes to the outright merge with its own push or, without one, with
\* the head GitLab recorded.
LEMMA MergesPushKept == ASSUME TypeOK, MergesPush, [Next]_vars PROVE MergesPush'
<1>1. CASE RunStart
  BY <1>1 DEF RunStart, MergesPush
<1>2. CASE Create
  <2>1. PICK pc \in {"idle", "arm", "cancel"} : pc = AfterDescription(FALSE)
    BY AfterDescriptionTyped
  <2>2. RunDone \/ run' = [run EXCEPT !.pc = pc, !.sha = head]
    BY <1>2, <2>1, Zenon DEF Create
  <2>3. RunDone \/ run'.pc = pc
    BY <2>2, RunMovesFields DEF TypeOK
  <2> QED
    <3>1. CASE RunDone
      BY <3>1 DEF RunDone, MergesPush
    <3>2. CASE run'.pc = pc
      BY <2>1, <3>2 DEF MergesPush
    <3> QED BY <2>3, <3>1, <3>2
<1>3. CASE Update
  <2>1. PICK pc \in {"idle", "arm", "cancel"} : pc = AfterDescription(armed # None)
    BY AfterDescriptionTyped, (armed # None) \in BOOLEAN
  <2>2. RunDone \/ run' = [run EXCEPT !.pc = pc, !.sha = recorded]
    BY <1>3, <2>1, Zenon DEF Update
  <2>3. RunDone \/ run'.pc = pc
    BY <2>2, RunMovesFields DEF TypeOK
  <2> QED
    <3>1. CASE RunDone
      BY <3>1 DEF RunDone, MergesPush
    <3>2. CASE run'.pc = pc
      BY <2>1, <3>2 DEF MergesPush
    <3> QED BY <2>3, <3>1, <3>2
<1>4. CASE RunArms
  <2>1. \/ RunDone \/ run' = [run EXCEPT !.pc = "publish"]
        \/ AcceptsOnly(HeadFor) /\ run' = [run EXCEPT !.pc = "mergeNow", !.sha = recorded]
    BY <1>4, Zenon DEF RunArms, NotYet
  <2>2. CASE RunDone \/ run' = [run EXCEPT !.pc = "publish"]
    BY <2>2 DEF RunDone, MergesPush, TypeOK
  <2>3. CASE AcceptsOnly(HeadFor) /\ run' = [run EXCEPT !.pc = "mergeNow", !.sha = recorded]
    <3>1. run'.sha = recorded /\ run'.pushed = run.pushed
      BY <2>3, RunMovesFields DEF TypeOK
    <3> QED BY <2>3, <3>1 DEF MergesPush, AcceptsOnly, OnHead, HeadFor
  <2> QED BY <2>1, <2>2, <2>3
<1>5. CASE RunMergesNow \/ RunCancels
  BY <1>5 DEF RunMergesNow, RunCancels, NotYet, RunDone, MergesPush, TypeOK
<1>6. CASE WatchStep
  BY <1>6 DEF WatchStep, List, HeadPipeline, CommitAuthors, AutomergeCanceledBy, ArmAutomerge,
              WatchMergesNow, MergesPush
<1>7. CASE GitLab \/ People
  BY <1>7 DEF GitLab, SeesPush, PipelineStarts, PipelineEnds, MergesArmed, People, PersonPushes,
              PersonCancels, PersonEnds, MergesPush
<1>8. CASE UNCHANGED vars
  BY <1>8 DEF vars, MergesPush
<1> QED
  BY <1>1, <1>2, <1>3, <1>4, <1>5, <1>6, <1>7, <1>8 DEF Next, RunStep

\* A run that pushed arms and merges that push only.
THEOREM RunsArmTheirPush == Spec => RunArmsItsPush
<1>1. Init => MergesPush
  BY DEF Init, MergesPush
<1>2. TypeOK /\ MergesPush /\ [Next]_vars => MergesPush'
  BY MergesPushKept
<1>3. ASSUME TypeOK, MergesPush, RunArms \/ RunMergesNow, Took, run.pushed # None
      PROVE  recorded = run.pushed
  BY <1>3 DEF RunArms, RunMergesNow, Arms, Merges, Refuses, AcceptsOnly, OnHead, HeadFor, Took,
              MergesPush, request
<1>4. TypeOK /\ MergesPush /\ [Next]_vars
        => [(RunArms \/ RunMergesNow) /\ Took /\ run.pushed # None => recorded = run.pushed]_vars
  BY <1>3
<1> QED
  BY <1>1, <1>2, <1>4, TypeCorrect, PTL DEF Spec, RunArmsItsPush

=============================================================================
