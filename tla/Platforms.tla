----------------------------- MODULE Platforms ------------------------------
(***************************************************************************)
(* The clients of platform/gitlab and platform/github for one branch's      *)
(* merge request: the HTTP calls an open, an update and a close are made    *)
(* of, each of which may fail before or after the server acted, or be       *)
(* answered 2xx without having taken effect.  A run asks again until the    *)
(* request shows what the plan wants.  Requests states what the calls       *)
(* promise; Promised is that this module keeps it.                          *)
(***************************************************************************)
EXTENDS Naturals

CONSTANTS Texts, Unset,
          Wants,         \* what plans want: [planned, title, description, labels, armed]
          MaxFaults,     \* bound: lost answers, refused and unapplied calls, meddling
          MaxPlans       \* bound: how often the plan changes

ASSUME BoundsAssumption ==
    /\ Unset \notin Texts /\ MaxFaults \in Nat /\ MaxPlans \in Nat
    /\ Wants \subseteq [planned : BOOLEAN, title : Texts, description : Texts, labels : Texts, armed : BOOLEAN]

VARIABLES
    host,      \* "gitlab" or "github"
    request,   \* the branch's newest request as the platform holds it
    want,      \* what the plan wants; not planned any more, the request is closed
    asked,     \* the call of publish.Platform at work
    step,      \* the HTTP call that comes next
    seen,      \* cur: the request as last read
    kept,      \* descStale: the new description did not take
    answer,    \* what the call returned
    meddled,   \* history: somebody else touched the request since the call began
    faults,    \* bounded: what went wrong
    plans      \* bounded: how often the plan changed

call == <<asked, step, seen, kept, answer>>
vars == <<host, request, want, call, meddled, faults, plans>>

NoAnswer == [result |-> "none", kept |-> FALSE, claims |-> FALSE]
\* GitLab answers an arming with the request, GitHub only that it took the call.
Promise == INSTANCE Requests WITH reads <- host = "gitlab"
Parts == {"title", "description", "labels"}
Kind(w) == [kind |-> "none", title |-> w.title, description |-> w.description,
            labels |-> w.labels, armed |-> w.armed]

Init ==
    /\ host \in {"gitlab", "github"}
    /\ want \in Wants
    /\ \E t \in Texts : request = [state |-> "none", title |-> t, description |-> t,
                                   labels |-> Unset, armed |-> FALSE]
    /\ asked = Kind(want)
    /\ step = "idle" /\ seen = request /\ kept = FALSE
    /\ answer = NoAnswer /\ meddled = FALSE /\ faults = 0 /\ plans = 0

------------------------------------------------------------------------------
\* Execute: the open request is looked for, then opened or brought in line;
\* prune closes what is planned no longer.
Wanted ==
    \/ want.planned
    \/ request.state = "opened"
Ask ==
    /\ step = "idle" /\ Wanted
    /\ LET kind == IF ~want.planned THEN "close"
                   ELSE IF request.state = "opened" THEN "update" ELSE "open"
       IN /\ asked' = [Kind(want) EXCEPT !.kind = kind]
          /\ step' = CASE kind = "close" -> "close" [] kind = "open" -> "post" [] OTHER -> "get"
    /\ kept' = FALSE /\ answer' = NoAnswer /\ meddled' = FALSE
    /\ UNCHANGED <<host, request, want, seen, faults, plans>>

To(next) == step' = next /\ UNCHANGED <<asked, answer>>

Fails ==
    /\ asked' = [asked EXCEPT !.kind = "none"]
    /\ answer' = [NoAnswer EXCEPT !.result = "failed"]
    /\ step' = "idle"

(***************************************************************************)
(* A call whose answer does not come, or is an error: it may or may not     *)
(* have turned the request into r.                                          *)
(***************************************************************************)
Lost(r) ==
    /\ faults < MaxFaults /\ faults' = faults + 1
    /\ request' \in {request, r}
    /\ Fails /\ UNCHANGED <<seen, kept>>

Frame == UNCHANGED <<host, want, meddled, plans>>
Sound == UNCHANGED faults

\* The request after an answered call that was to make it r: r, or r with
\* some parts left as they were under a 2xx.
Applied(r, parts) ==
    \/ request' = r /\ Sound
    \/ /\ faults < MaxFaults /\ faults' = faults + 1
       /\ \E old \in (SUBSET parts) \ {{}} :
             request' = [p \in DOMAIN r |-> IF p \in old THEN request[p] ELSE r[p]]

\* What follows once title, description and labels are in line.
MutThenArm(r) == IF asked.armed THEN "arm" ELSE "answer"
ThenArm(r) ==
    IF asked.armed /\ ~r.armed THEN "arm"
    ELSE IF ~asked.armed /\ r.armed THEN "disarm" ELSE "answer"

------------------------------------------------------------------------------
\* Opening.  GitLab takes the labels with the request, GitHub in a second call.
Opened ==
    [state |-> "opened", title |-> asked.title, description |-> asked.description,
     labels |-> IF host = "gitlab" THEN asked.labels ELSE Unset, armed |-> FALSE]

\* The request a 2xx create left: as asked, or with texts and labels the
\* platform made of it.  The client takes it as it comes and compares nothing.
Created ==
    \/ request' = Opened /\ Sound
    \/ /\ faults < MaxFaults /\ faults' = faults + 1
       /\ \E t, d \in Texts, l \in {Opened.labels, Unset} :
             request' = [Opened EXCEPT !.title = t, !.description = d, !.labels = l]

Post ==
    /\ step = "post" /\ Frame
    /\ \/ /\ request.state # "opened" /\ Created /\ seen' = request'
          /\ To(IF host = "github" THEN "label" ELSE IF asked.armed THEN "arm" ELSE "answer")
          /\ UNCHANGED kept
       \/ request.state # "opened" /\ Lost(Opened)

(***************************************************************************)
(* GitLab does not see the branch yet: asked again three times inside the   *)
(* client and five by createWithRetry, then given up for this run.          *)
(***************************************************************************)
NotVisible ==
    /\ step = "post" /\ host = "gitlab"
    /\ faults < MaxFaults /\ faults' = faults + 1
    /\ (UNCHANGED <<asked, answer, step>> \/ Fails)
    /\ Frame /\ UNCHANGED <<request, seen, kept>>

------------------------------------------------------------------------------
\* Updating: read, write what differs, compare what came back.
Get ==
    /\ step = "get" /\ Frame
    /\ \/ /\ seen' = request /\ To("write") /\ Sound
          /\ UNCHANGED <<request, kept>>
       \/ Lost(request)

Written == IF host = "gitlab" THEN Parts ELSE {"title", "description"}
Differing(parts) == {p \in parts : seen[p] # asked[p]}
MutStale(r, parts) == {}
Stale(r, parts) == {p \in parts : r[p] # asked[p]}

AfterText(r) == IF host = "github" THEN "label" ELSE ThenArm(r)

Write ==
    LET parts == Differing(Written)
        r == [p \in DOMAIN request |-> IF p \in parts THEN asked[p] ELSE request[p]]
    IN /\ step = "write" /\ Frame
       /\ \/ /\ parts = {} /\ To(AfterText(seen)) /\ Sound
             /\ UNCHANGED <<request, seen, kept>>
          \/ /\ parts # {} /\ Applied(r, parts) /\ seen' = request'
             /\ LET stale == Stale(request', IF host = "gitlab" THEN Written ELSE parts)
                IN /\ kept' = (stale = {"description"})
                   /\ IF stale \subseteq {"description"} THEN To(AfterText(request')) ELSE Fails
          \/ parts # {} /\ Lost(r)

\* GitHub: the labels, replaced as a set; after an open the answer is taken
\* as it comes, after an update it is compared.
Label ==
    LET r == [request EXCEPT !.labels = asked.labels]
    IN /\ step = "label" /\ Frame
       /\ \/ /\ seen.labels = asked.labels /\ To(ThenArm(seen)) /\ Sound
             /\ UNCHANGED <<request, seen, kept>>
          \/ /\ seen.labels # asked.labels
             /\ Applied(r, {"labels"})
             /\ seen' = [seen EXCEPT !.labels = request'.labels]
             /\ IF asked.kind = "open" \/ Stale(request', {"labels"}) = {}
                THEN To(ThenArm(seen)) ELSE Fails
             /\ UNCHANGED kept
          \/ seen.labels # asked.labels /\ Lost(r)

------------------------------------------------------------------------------
Armed == [request EXCEPT !.armed = TRUE]
Merged == [request EXCEPT !.state = "merged"]

(***************************************************************************)
(* trySetAutomerge, setAutomerge.  GitLab answers with the request: it is   *)
(* armed, merged outright, or neither, after which a mergeable request is   *)
(* merged directly.  GitHub's 2xx is taken for armed and not read back.     *)
(* Either says not yet, or refuses.                                         *)
(***************************************************************************)
Arm ==
    /\ step = "arm" /\ Frame /\ UNCHANGED kept
    /\ \/ /\ host = "gitlab" /\ request.state = "opened" /\ request' = Armed /\ seen' = Armed
          /\ To("answer") /\ Sound
       \/ /\ host = "github" /\ request.state = "opened" /\ Applied(Armed, {"armed"})
          /\ seen' = [seen EXCEPT !.armed = TRUE] /\ To("answer")
       \/ /\ host = "gitlab" /\ request.state = "opened" /\ request' = Merged /\ seen' = Merged
          /\ To("answer") /\ Sound
       \/ /\ To("answer") /\ Sound /\ UNCHANGED <<request, seen>>
       \/ /\ host = "gitlab" /\ To("mergenow") /\ Sound /\ UNCHANGED <<request, seen>>
       \/ request.state = "opened" /\ Lost(Armed)

MergeNow ==
    /\ step = "mergenow" /\ Frame /\ UNCHANGED kept
    /\ \/ /\ request.state = "opened" /\ request' = Merged /\ seen' = Merged
          /\ To("answer") /\ Sound
       \/ To("answer") /\ Sound /\ UNCHANGED <<request, seen>>
       \/ request.state = "opened" /\ Lost(Merged)

(***************************************************************************)
(* cancelAutomerge: GitLab's newer endpoint answers with the request, the   *)
(* older one and GitHub's mutation have to be read back.                    *)
(***************************************************************************)
Disarm ==
    LET r == [request EXCEPT !.armed = FALSE]
    IN /\ step = "disarm" /\ Frame /\ UNCHANGED kept
       /\ \/ /\ Applied(r, {"armed"})
             /\ \/ /\ host = "gitlab" /\ seen' = [seen EXCEPT !.armed = FALSE]
                   /\ IF request'.armed THEN Fails ELSE To("answer")
                \/ To("readback") /\ UNCHANGED seen
          \/ Lost(r)

MutReadBack ==
    /\ step = "readback" /\ Frame /\ UNCHANGED <<kept, request>>
    /\ \/ To("answer") /\ seen' = [seen EXCEPT !.armed = FALSE] /\ Sound
       \/ Lost(request) /\ UNCHANGED seen
ReadBack ==
    /\ step = "readback" /\ Frame /\ UNCHANGED <<kept, request>>
    /\ \/ /\ seen' = [seen EXCEPT !.armed = FALSE] /\ Sound
          /\ IF request.armed THEN Fails ELSE To("answer")
       \/ Lost(request)

Close ==
    LET r == [request EXCEPT !.state = IF @ = "opened" THEN "closed" ELSE @, !.title = asked.title]
    IN /\ step = "close" /\ Frame /\ UNCHANGED kept
       /\ \/ /\ Applied(r, {"state"}) /\ seen' = request'
             /\ IF request'.state = "closed" THEN To("answer") ELSE Fails
          \/ Lost(r)

Answer ==
    /\ step = "answer"
    /\ answer' = [result |-> "done", kept |-> kept,
                  claims |-> asked.kind # "close" /\ asked.armed
                             /\ (seen.armed \/ seen.state = "merged")]
    /\ asked' = [asked EXCEPT !.kind = "none"]
    /\ step' = "idle"
    /\ UNCHANGED <<seen, kept, request, faults>> /\ Frame

------------------------------------------------------------------------------
\* A person merges, closes, arms or cancels; a push cancels an automerge.
Meddle ==
    /\ faults < MaxFaults /\ faults' = faults + 1
    /\ request.state = "opened"
    /\ \/ \E s \in {"merged", "closed"} : request' = [request EXCEPT !.state = s]
       \/ request' = [request EXCEPT !.armed = ~@]
    /\ meddled' = TRUE
    /\ UNCHANGED <<host, want, call, plans>>

\* The next plan wants something else.
Replan ==
    /\ step = "idle" /\ plans < MaxPlans
    /\ plans' = plans + 1
    /\ want' \in Wants \ {want}
    /\ UNCHANGED <<host, request, call, meddled, faults>>

Step ==
    \/ Ask \/ Post \/ NotVisible \/ Get \/ Write \/ Label \/ Arm \/ MergeNow
    \/ Disarm \/ ReadBack \/ Close \/ Answer
Idle == step = "idle" /\ ~Wanted /\ UNCHANGED vars
Next == Step \/ Meddle \/ Replan \/ Idle
Spec == Init /\ [][Next]_vars
\* The next run asks again, and a call is answered or times out.
FairSpec == Spec /\ WF_vars(Step)
------------------------------------------------------------------------------
Request == [state : {"none", "opened", "merged", "closed"}, title : Texts,
            description : Texts, labels : Texts \cup {Unset}, armed : BOOLEAN]

Asked == [kind : {"none", "open", "update", "close"}, title : Texts, description : Texts,
          labels : Texts, armed : BOOLEAN]
Steps == {"idle", "post", "get", "write", "label", "arm", "mergenow", "disarm", "readback", "close", "answer"}

TypeOK ==
    /\ host \in {"gitlab", "github"} /\ want \in Wants
    /\ request \in Request /\ seen \in Request
    /\ asked \in Asked /\ step \in Steps
    /\ (step = "idle") = (asked.kind = "none")
    /\ kept \in BOOLEAN /\ meddled \in BOOLEAN
    /\ answer \in [result : {"none", "failed", "done"}, kept : BOOLEAN, claims : BOOLEAN]
    /\ faults \in 0 .. MaxFaults /\ plans \in 0 .. MaxPlans

(***************************************************************************)
(* The clients keep what publish.Platform promises: whatever is lost,       *)
(* refused or answered 2xx without effect, an open request only moves       *)
(* towards what was asked and an update, a close and a disarming answer     *)
(* success for what the request shows (gitlab.go:319, :349, :418;           *)
(* github.go:306, :319, :354, :383).  What a create left, and an arming on  *)
(* GitHub, is compared with nothing and so promised nowhere.                *)
(***************************************************************************)
Promised == Promise!Spec

(***************************************************************************)
(* Run after run, the open request comes to show what the last plan wants,  *)
(* and is closed when nothing is wanted: a request opened whose labels call *)
(* was lost is found by the next run and brought in line.  Automerge is     *)
(* taken back for certain and armed when the platform will.                 *)
(***************************************************************************)
Converges ==
    <>[](/\ want.planned /\ request.state = "opened" /\ step = "idle"
            => /\ \A p \in Parts : request[p] = want[p]
               /\ request.armed => want.armed
         /\ ~want.planned => request.state # "opened")
=============================================================================
