-------------------------- MODULE Platforms_proofs --------------------------
(***************************************************************************)
(* The clients of GitLab and GitHub keep what publish.Platform promises:    *)
(* every HTTP call of theirs is a step of Requests or none, for any texts,  *)
(* plans and number of faults.                                              *)
(***************************************************************************)
EXTENDS Platforms, TLAPS

-----------------------------------------------------------------------------
(* What a call in progress knows.                                          *)

\* title, labels and description are as asked, or the description is kept.
TextSettled == request.title = asked.title /\ (request.description = asked.description \/ kept)
Settled == TextSettled /\ request.labels = asked.labels

Reading == {"write", "label", "arm", "mergenow", "disarm", "readback", "answer"}
Arming == {"arm", "mergenow"}
Disarming == {"disarm", "readback"}

\* A step belongs to a kind of call.
Kinds ==
    /\ step = "close" => asked.kind = "close"
    /\ step = "post" => asked.kind = "open"
    /\ step \in {"get", "write"} => asked.kind = "update"
    /\ step \in Reading \ {"answer"} => asked.kind \in {"open", "update"}
    /\ step = "label" => host = "github"
    /\ step \in Arming => asked.armed
    /\ step \in Disarming => ~asked.armed
    /\ step \in {"post", "get", "write"} => ~kept

\* An arming that GitHub answered is not read back.
Unread == host = "github" /\ asked.armed /\ step = "answer"

\* The copy shows the request's texts, and its state too unless somebody else
\* touched it since.
Copied ==
    asked.kind # "close" =>
        /\ step \in Reading => \A p \in Parts : seen[p] = request[p]
        /\ step \in Reading /\ ~meddled => seen.state = request.state
        /\ step \in Reading \ {"readback"} /\ ~meddled /\ ~Unread => seen.armed = request.armed

\* How far the call has got.
Progress ==
    /\ asked.kind = "update" =>
          /\ step = "label" => TextSettled
          /\ step \in Arming \cup Disarming \cup {"answer"} => Settled
    /\ asked.kind = "open" /\ step \in Reading /\ ~meddled => request.state \in {"opened", "merged"}
    /\ step = "answer" /\ asked.kind # "close" /\ ~asked.armed /\ ~meddled => ~request.armed
    /\ step = "answer" /\ asked.kind = "close" /\ ~meddled => request.state = "closed"

CallInv == TypeOK /\ Kinds /\ Copied /\ Progress

\* What an answered call leaves of every part: the new value, or the old one
\* if it is among those that may not have been applied.
Between(old, new, parts, s) ==
    /\ s \in Request
    /\ s.state = new.state \/ ("state" \in parts /\ s.state = old.state)
    /\ s.title = new.title \/ ("title" \in parts /\ s.title = old.title)
    /\ s.description = new.description \/ ("description" \in parts /\ s.description = old.description)
    /\ s.labels = new.labels \/ ("labels" \in parts /\ s.labels = old.labels)
    /\ s.armed = new.armed \/ ("armed" \in parts /\ s.armed = old.armed)

LEMMA AppliedBetween ==
    ASSUME request \in Request, faults \in 0 .. MaxFaults, NEW r \in Request, NEW parts, Applied(r, parts)
    PROVE  Between(request, r, parts, request') /\ faults' \in 0 .. MaxFaults
<1>1. faults' \in 0 .. MaxFaults
  BY BoundsAssumption DEF Applied, Sound
<1>2. CASE request' = r
  BY <1>1, <1>2 DEF Between
<1>3. CASE request' # r
  <2> PICK old \in SUBSET parts : request' = [p \in DOMAIN r |-> IF p \in old THEN request[p] ELSE r[p]]
    BY <1>3 DEF Applied
  <2>1. DOMAIN r = {"state", "title", "description", "labels", "armed"}
    BY DEF Request
  <2>2. request' = [state |-> IF "state" \in old THEN request.state ELSE r.state,
                    title |-> IF "title" \in old THEN request.title ELSE r.title,
                    description |-> IF "description" \in old THEN request.description ELSE r.description,
                    labels |-> IF "labels" \in old THEN request.labels ELSE r.labels,
                    armed |-> IF "armed" \in old THEN request.armed ELSE r.armed]
    BY <2>1
  <2> QED BY <1>1, <2>2 DEF Between, Request
<1> QED BY <1>2, <1>3

\* A lost call did nothing or all of it.
LEMMA LostTyped ==
    ASSUME TypeOK, NEW r, Lost(r)
    PROVE  /\ request' \in {request, r} /\ faults' \in 0 .. MaxFaults
           /\ step' = "idle" /\ asked' = [asked EXCEPT !.kind = "none"] /\ asked' \in Asked /\ asked'.kind = "none"
           /\ answer' = [NoAnswer EXCEPT !.result = "failed"] /\ answer'.result = "failed"
           /\ answer' \in [result : {"none", "failed", "done"}, kept : BOOLEAN, claims : BOOLEAN]
           /\ seen' = seen /\ kept' = kept
<1>1. faults' \in 0 .. MaxFaults
  BY BoundsAssumption DEF Lost, TypeOK
<1>2. asked' = [asked EXCEPT !.kind = "none"] /\ asked' \in Asked /\ asked'.kind = "none"
  BY DEF Lost, Fails, TypeOK, Asked
<1>3. answer' \in [result : {"none", "failed", "done"}, kept : BOOLEAN, claims : BOOLEAN] /\ answer'.result = "failed"
  BY DEF Lost, Fails, NoAnswer
<1> QED BY <1>1, <1>2, <1>3 DEF Lost, Fails

LEMMA FailsTyped ==
    ASSUME TypeOK, Fails
    PROVE  /\ step' = "idle" /\ asked' \in Asked /\ asked'.kind = "none"
           /\ answer' \in [result : {"none", "failed", "done"}, kept : BOOLEAN, claims : BOOLEAN]
BY DEF Fails, TypeOK, Asked, NoAnswer

\* Between two calls nothing is known.
LEMMA IdleKnows ==
    ASSUME step' = "idle"
    PROVE  Kinds' /\ Copied' /\ Progress'
BY DEF Kinds, Copied, Progress, Reading, Arming, Disarming

LEMMA WantTyped ==
    ASSUME want \in Wants
    PROVE  Kind(want) \in Asked /\ Kind(want).kind = "none" /\ want.planned \in BOOLEAN
BY BoundsAssumption DEF Kind, Asked

LEMMA AskKept == ASSUME CallInv, Ask PROVE CallInv'
<1>1. PICK kind \in {"open", "update", "close"} :
         /\ asked' = [Kind(want) EXCEPT !.kind = kind]
         /\ step' = CASE kind = "close" -> "close" [] kind = "open" -> "post" [] OTHER -> "get"
  BY DEF Ask
<1>2. asked' \in Asked /\ asked'.kind = kind
  BY <1>1, WantTyped DEF CallInv, TypeOK, Asked
<1>3. step' \in {"close", "post", "get"} /\ (step' = "close") = (kind = "close") /\ (step' = "post") = (kind = "open")
  BY <1>1
<1>4. answer' \in [result : {"none", "failed", "done"}, kept : BOOLEAN, claims : BOOLEAN]
  BY DEF Ask, NoAnswer
<1>5. TypeOK'
  BY <1>2, <1>3, <1>4 DEF Ask, CallInv, TypeOK, Steps
<1>6. Kinds' /\ Copied' /\ Progress'
  BY <1>2, <1>3 DEF Ask, Kinds, Copied, Progress, Reading, Arming, Disarming
<1> QED BY <1>5, <1>6 DEF CallInv

LEMMA CreatedIs ==
    ASSUME TypeOK, Created
    PROVE  /\ request' \in Request /\ request'.state = "opened" /\ request'.armed = FALSE
           /\ faults' \in 0 .. MaxFaults
<1>1. Opened \in Request /\ Opened.state = "opened" /\ Opened.armed = FALSE
  BY DEF Opened, Request, TypeOK, Asked
<1>2. CASE request' = Opened /\ Sound
  BY <1>1, <1>2 DEF Sound, TypeOK
<1>3. CASE faults < MaxFaults /\ faults' = faults + 1
  <2>1. ASSUME NEW t \in Texts, NEW d \in Texts, NEW l \in {Opened.labels, Unset},
               request' = [Opened EXCEPT !.title = t, !.description = d, !.labels = l]
        PROVE  request' \in Request /\ request'.state = "opened" /\ request'.armed = FALSE
    <3> HIDE DEF Opened
    <3> QED BY <1>1, <2>1 DEF Request
  <2>2. faults' \in 0 .. MaxFaults
    BY <1>3, BoundsAssumption DEF TypeOK
  <2>3. request' \in Request /\ request'.state = "opened" /\ request'.armed = FALSE
    BY <1>1, <2>1 DEF Created
  <2> QED BY <2>2, <2>3
<1> QED BY <1>2, <1>3 DEF Created

LEMMA PostKept == ASSUME CallInv, Post PROVE CallInv'
<1>0. TypeOK /\ step = "post" /\ asked.kind = "open" /\ ~kept /\ Frame
  BY DEF CallInv, Kinds, Post
<1>1. ASSUME Created, seen' = request', kept' = kept,
             To(IF host = "github" THEN "label" ELSE IF asked.armed THEN "arm" ELSE "answer")
      PROVE  CallInv'
  <2>1. request' \in Request /\ request'.state = "opened" /\ request'.armed = FALSE /\ faults' \in 0 .. MaxFaults
    BY <1>0, <1>1, CreatedIs
  <2>2. step' \in {"label", "arm", "answer"} /\ UNCHANGED <<asked, answer, host, want, meddled, plans>>
        /\ (step' = "label") = (host = "github") /\ (step' = "arm" => asked.armed)
    BY <1>0, <1>1 DEF To, Frame
  <2>3. TypeOK'
    BY <1>0, <1>1, <2>1, <2>2 DEF TypeOK, Steps
  <2>4. Kinds'
    BY <1>0, <1>1, <2>2 DEF Kinds, Reading, Arming, Disarming
  <2>5. Copied'
    BY <1>1, <2>1, <2>2 DEF Copied, Unread, Reading
  <2>6. Progress'
    BY <1>0, <1>1, <2>1, <2>2 DEF Progress
  <2> QED BY <2>3, <2>4, <2>5, <2>6 DEF CallInv
<1>2. ASSUME Lost(Opened) PROVE CallInv'
  <2>1. Opened \in Request
    BY <1>0 DEF Opened, Request, TypeOK, Asked
  <2>2. TypeOK'
    BY <1>0, <1>2, <2>1, LostTyped DEF TypeOK, Frame, Steps
  <2> QED BY <1>0, <1>2, <2>2, LostTyped, IdleKnows DEF CallInv
<1> QED BY <1>1, <1>2 DEF Post

LEMMA NotVisibleKept == ASSUME CallInv, NotVisible PROVE CallInv'
<1>0. TypeOK /\ Frame /\ UNCHANGED <<request, seen, kept>> /\ faults' \in 0 .. MaxFaults
  BY BoundsAssumption DEF CallInv, NotVisible, TypeOK
<1>1. CASE UNCHANGED <<asked, answer, step>>
  BY <1>0, <1>1 DEF CallInv, TypeOK, Kinds, Copied, Unread, Progress, Frame, TextSettled, Settled
<1>2. CASE Fails
  <2>1. TypeOK'
    BY <1>0, <1>2, FailsTyped DEF TypeOK, Frame, Steps
  <2> QED BY <1>2, <2>1, FailsTyped, IdleKnows DEF CallInv
<1> QED BY <1>1, <1>2 DEF NotVisible

LEMMA GetKept == ASSUME CallInv, Get PROVE CallInv'
<1>0. TypeOK /\ step = "get" /\ asked.kind = "update" /\ ~kept /\ Frame
  BY DEF CallInv, Kinds, Get
<1>1. ASSUME seen' = request, To("write"), Sound, UNCHANGED <<request, kept>> PROVE CallInv'
  <2>1. TypeOK'
    BY <1>0, <1>1 DEF TypeOK, Steps, To, Sound, Frame
  <2>2. Kinds' /\ Copied' /\ Progress'
    BY <1>0, <1>1 DEF Kinds, Copied, Progress, Reading, Arming, Disarming, To, Frame
  <2> QED BY <2>1, <2>2 DEF CallInv
<1>2. ASSUME Lost(request) PROVE CallInv'
  <2>1. TypeOK'
    BY <1>0, <1>2, LostTyped DEF TypeOK, Frame, Steps
  <2> QED BY <1>0, <1>2, <2>1, LostTyped, IdleKnows DEF CallInv
<1> QED BY <1>1, <1>2 DEF Get

\* Where a call goes on once all texts are settled, the copy shows the armed
\* flag: to arm, to disarm, or to the answer if it is as asked.
LEMMA ThenArmRight ==
    ASSUME NEW r \in Request, asked \in Asked
    PROVE  /\ ThenArm(r) \in {"arm", "disarm", "answer"}
           /\ ThenArm(r) = "arm" => asked.armed
           /\ ThenArm(r) = "disarm" => ~asked.armed
           /\ ThenArm(r) = "answer" /\ ~asked.armed => ~r.armed
BY DEF ThenArm, Asked, Request

\* Writing what differs leaves every part as asked, except a description the
\* answer shows to have been kept.
LEMMA WriteSettles ==
    ASSUME TypeOK, step = "write", asked.kind = "update", ~kept, \A p \in Parts : seen[p] = request[p], 
           NEW parts, parts = Differing(Written), parts # {},
           NEW r, r = [p \in DOMAIN request |-> IF p \in parts THEN asked[p] ELSE request[p]]
    PROVE  /\ r \in Request /\ r.state = request.state /\ r.armed = request.armed
           /\ r.title = asked.title /\ r.description = asked.description
           /\ r.labels = (IF host = "gitlab" THEN asked.labels ELSE request.labels)
           /\ parts \subseteq Written
<1>1. DOMAIN request = {"state", "title", "description", "labels", "armed"}
  BY DEF TypeOK, Request
<1>2. parts \subseteq Written /\ \A p \in Written \ parts : request[p] = asked[p]
  BY DEF Differing, Written, Parts
<1>3. parts \subseteq Parts
  BY <1>2 DEF Written, Parts
<1>4. r.state = request.state /\ r.armed = request.armed
  BY <1>1, <1>3 DEF Parts
<1>5. r.title = asked.title /\ r.description = asked.description
  BY <1>1, <1>2 DEF Written, Parts
<1>6. r.labels = (IF host = "gitlab" THEN asked.labels ELSE request.labels)
  <2>1. CASE host = "gitlab"
    BY <1>1, <1>2, <2>1 DEF Written, Parts
  <2>2. CASE host # "gitlab"
    <3>1. "labels" \notin parts
      BY <1>2, <2>2 DEF Written
    <3> QED BY <1>1, <2>2, <3>1
  <2> QED BY <2>1, <2>2
<1>7. r = [state |-> r.state, title |-> r.title, description |-> r.description, labels |-> r.labels, armed |-> r.armed]
  BY <1>1
<1>8. r \in Request
  BY <1>4, <1>5, <1>6, <1>7 DEF TypeOK, Request, Asked
<1> QED BY <1>2, <1>4, <1>5, <1>6, <1>8

LEMMA WriteKept == ASSUME CallInv, Write PROVE CallInv'
<1> DEFINE parts == Differing(Written)
           r == [p \in DOMAIN request |-> IF p \in parts THEN asked[p] ELSE request[p]]
           some == IF host = "gitlab" THEN Written ELSE parts
<1>0. /\ TypeOK /\ step = "write" /\ asked.kind = "update" /\ ~kept /\ Frame
      /\ \A p \in Parts : seen[p] = request[p]
      /\ ~meddled => seen.state = request.state /\ seen.armed = request.armed
  BY DEF CallInv, Kinds, Copied, Unread, Write, Reading
<1>1. ASSUME parts = {}, To(AfterText(seen)), Sound, UNCHANGED <<request, seen, kept>> PROVE CallInv'
  <2>1. \A p \in Written : request[p] = asked[p]
    BY <1>0, <1>1 DEF Differing, Written, Parts
  <2>2. request.title = asked.title /\ request.description = asked.description
        /\ (host = "gitlab" => request.labels = asked.labels)
    BY <2>1 DEF Written, Parts
  <2>3. AfterText(seen) \in {"label", "arm", "disarm", "answer"} /\ (AfterText(seen) = "label") = (host = "github")
        /\ (host = "gitlab" => AfterText(seen) = ThenArm(seen))
    BY <1>0, ThenArmRight DEF AfterText, TypeOK
  <2>4. TypeOK'
    BY <1>0, <1>1, <2>3 DEF TypeOK, Steps, To, Sound, Frame
  <2>5. Kinds'
    BY <1>0, <1>1, <2>3, ThenArmRight DEF Kinds, Reading, Arming, Disarming, To, Frame, TypeOK
  <2>6. Copied'
    BY <1>0, <1>1 DEF Copied, Unread, To, Frame, Reading
  <2>7. Progress'
    BY <1>0, <1>1, <2>2, <2>3, ThenArmRight DEF Progress, TextSettled, Settled, To, Frame, TypeOK, Arming, Disarming, Reading
  <2> QED BY <2>4, <2>5, <2>6, <2>7 DEF CallInv
<1>2. ASSUME parts # {}, Applied(r, parts), seen' = request', kept' = (Stale(request', some) = {"description"}),
             Stale(request', some) \subseteq {"description"}, To(AfterText(request'))
      PROVE  CallInv'
  <2>1. r \in Request /\ r.state = request.state /\ r.armed = request.armed
        /\ r.title = asked.title /\ r.description = asked.description
        /\ r.labels = (IF host = "gitlab" THEN asked.labels ELSE request.labels) /\ parts \subseteq Written
    BY <1>0, <1>2, WriteSettles
  <2>2. Between(request, r, parts, request') /\ faults' \in 0 .. MaxFaults
    BY <1>0, <1>2, <2>1, AppliedBetween DEF TypeOK
  <2>3. request' \in Request /\ request'.state = request.state /\ request'.armed = request.armed
    BY <2>1, <2>2 DEF Between, Written, Parts
  <2>4. request'.title = asked.title
    <3>1. "title" \in some => request'["title"] = asked["title"]
      BY <1>2 DEF Stale
    <3>2. "title" \notin some => "title" \notin parts
      BY <1>0 DEF TypeOK, Written, Parts
    <3> QED BY <2>1, <2>2, <3>1, <3>2 DEF Between
  <2>5. request'.description = asked.description \/ kept'
    <3>1. "description" \in some /\ request'["description"] # asked["description"] => "description" \in Stale(request', some)
      BY DEF Stale
    <3>2. "description" \notin some => "description" \notin parts
      BY <1>0 DEF TypeOK, Written, Parts
    <3> QED BY <1>2, <2>1, <2>2, <3>1, <3>2 DEF Between
  <2>6. host = "gitlab" => request'.labels = asked.labels
    <3>1. "labels" \in some => request'["labels"] = asked["labels"]
      BY <1>2 DEF Stale
    <3> QED BY <3>1 DEF Written, Parts
  <2>7. AfterText(request') \in {"label", "arm", "disarm", "answer"} /\ (AfterText(request') = "label") = (host = "github")
        /\ (host = "gitlab" => AfterText(request') = ThenArm(request'))
    BY <1>0, <2>3, ThenArmRight DEF AfterText, TypeOK
  <2>8. TypeOK'
    BY <1>0, <1>2, <2>2, <2>3, <2>7 DEF TypeOK, Steps, To, Frame
  <2>9. Kinds'
    BY <1>0, <1>2, <2>3, <2>7, ThenArmRight DEF Kinds, Reading, Arming, Disarming, To, Frame, TypeOK
  <2>10. Copied'
    BY <1>2 DEF Copied
  <2>11. Progress'
    BY <1>0, <1>2, <2>3, <2>4, <2>5, <2>6, <2>7, ThenArmRight
       DEF Progress, TextSettled, Settled, To, Frame, TypeOK, Arming, Disarming, Reading
  <2> QED BY <2>8, <2>9, <2>10, <2>11 DEF CallInv
<1>3. ASSUME parts # {}, Applied(r, parts), seen' = request', kept' \in BOOLEAN, Fails PROVE CallInv'
  <2>1. r \in Request
    BY <1>0, <1>3, WriteSettles
  <2>2. request' \in Request /\ faults' \in 0 .. MaxFaults
    BY <1>0, <1>3, <2>1, AppliedBetween DEF TypeOK, Between
  <2>3. TypeOK'
    BY <1>0, <1>3, <2>2, FailsTyped DEF TypeOK, Frame, Steps
  <2> QED BY <1>0, <1>3, <2>3, FailsTyped, IdleKnows DEF CallInv
<1>4. ASSUME parts # {}, Lost(r) PROVE CallInv'
  <2>1. r \in Request
    BY <1>0, <1>4, WriteSettles
  <2>2. TypeOK'
    BY <1>0, <1>4, <2>1, LostTyped DEF TypeOK, Frame, Steps
  <2> QED BY <1>0, <1>4, <2>2, LostTyped, IdleKnows DEF CallInv
<1> QED BY <1>1, <1>2, <1>3, <1>4 DEF Write

LEMMA LabelKept == ASSUME CallInv, Label PROVE CallInv'
<1> DEFINE r == [request EXCEPT !.labels = asked.labels]
<1>0. /\ TypeOK /\ step = "label" /\ asked.kind \in {"open", "update"} /\ host = "github" /\ Frame
      /\ asked.kind = "update" => TextSettled
      /\ asked.kind = "open" /\ ~meddled => request.state \in {"opened", "merged"}
      /\ \A p \in Parts : seen[p] = request[p]
      /\ ~meddled => seen.state = request.state /\ seen.armed = request.armed
  BY DEF CallInv, Kinds, Copied, Unread, Progress, Label, Reading
<1>r. /\ r \in Request /\ r.state = request.state /\ r.armed = request.armed /\ r.labels = asked.labels
      /\ r.title = request.title /\ r.description = request.description
  BY <1>0 DEF TypeOK, Request, Asked
<1>t. seen.labels = request.labels /\ seen.title = request.title /\ seen.description = request.description
  BY <1>0 DEF Parts
<1>1. ASSUME seen.labels = asked.labels, To(ThenArm(seen)), Sound, UNCHANGED <<request, seen, kept>> PROVE CallInv'
  <2>1. TypeOK'
    BY <1>0, <1>1, ThenArmRight DEF TypeOK, Steps, To, Sound, Frame
  <2>2. Kinds'
    BY <1>0, <1>1, ThenArmRight DEF Kinds, Reading, Arming, Disarming, To, Frame, TypeOK
  <2>3. Copied'
    BY <1>0, <1>1 DEF Copied, Unread, To, Frame, Reading
  <2>4. Progress'
    BY <1>0, <1>1, <1>t, ThenArmRight DEF Progress, TextSettled, Settled, To, Frame, TypeOK, Arming, Disarming, Reading
  <2> QED BY <2>1, <2>2, <2>3, <2>4 DEF CallInv
<1>2. ASSUME Applied(r, {"labels"}), seen' = [seen EXCEPT !.labels = request'.labels],
             UNCHANGED kept
      PROVE  /\ request' \in Request /\ faults' \in 0 .. MaxFaults /\ seen' \in Request
             /\ request'.state = request.state /\ request'.armed = request.armed
             /\ request'.title = request.title /\ request'.description = request.description
             /\ seen'.state = seen.state /\ seen'.armed = seen.armed /\ \A p \in Parts : seen'[p] = request'[p]
  <2>1. Between(request, r, {"labels"}, request') /\ faults' \in 0 .. MaxFaults
    BY <1>0, <1>r, <1>2, AppliedBetween DEF TypeOK
  <2>2. /\ request' \in Request
        /\ request'.state = request.state /\ request'.armed = request.armed
        /\ request'.title = request.title /\ request'.description = request.description
    BY <1>r, <2>1 DEF Between
  <2>3. seen' \in Request /\ seen'.state = seen.state /\ seen'.armed = seen.armed /\ seen'.labels = request'.labels
        /\ seen'.title = seen.title /\ seen'.description = seen.description
    BY <1>0, <1>2, <2>2 DEF TypeOK, Request
  <2> QED BY <1>t, <2>1, <2>2, <2>3 DEF Parts
<1>3. ASSUME Applied(r, {"labels"}), seen' = [seen EXCEPT !.labels = request'.labels],
             UNCHANGED kept, asked.kind = "open" \/ Stale(request', {"labels"}) = {},
             To(ThenArm(seen))
      PROVE  CallInv'
  <2>1. asked.kind = "update" => request'.labels = asked.labels
    BY <1>3 DEF Stale
  <2>2. /\ request' \in Request /\ faults' \in 0 .. MaxFaults /\ seen' \in Request
        /\ request'.state = request.state /\ request'.armed = request.armed
        /\ request'.title = request.title /\ request'.description = request.description
        /\ seen'.state = seen.state /\ seen'.armed = seen.armed /\ \A p \in Parts : seen'[p] = request'[p]
    BY <1>2, <1>3
  <2>3. TypeOK'
    BY <1>0, <1>3, <2>2, ThenArmRight DEF TypeOK, Steps, To, Frame
  <2>4. Kinds'
    BY <1>0, <1>3, ThenArmRight DEF Kinds, Reading, Arming, Disarming, To, Frame, TypeOK
  <2>5. Copied'
    BY <1>0, <1>3, <2>2 DEF Copied, Unread, To, Frame, Reading
  <2>6. Progress'
    BY <1>0, <1>3, <2>1, <2>2, ThenArmRight DEF Progress, TextSettled, Settled, To, Frame, TypeOK, Arming, Disarming, Reading
  <2> QED BY <2>3, <2>4, <2>5, <2>6 DEF CallInv
<1>4. ASSUME Applied(r, {"labels"}), seen' = [seen EXCEPT !.labels = request'.labels],
             UNCHANGED kept, Fails
      PROVE  CallInv'
  <2>1. TypeOK'
    BY <1>0, <1>2, <1>4, FailsTyped DEF TypeOK, Frame, Steps
  <2> QED BY <1>0, <1>4, <2>1, FailsTyped, IdleKnows DEF CallInv
<1>5. ASSUME Lost(r) PROVE CallInv'
  <2>1. TypeOK'
    BY <1>0, <1>r, <1>5, LostTyped DEF TypeOK, Frame, Steps
  <2> QED BY <1>0, <1>5, <2>1, LostTyped, IdleKnows DEF CallInv
<1> QED BY <1>1, <1>3, <1>4, <1>5 DEF Label

\* Arming and merging leave the texts alone.
LEMMA ArmKept == ASSUME CallInv, Arm \/ MergeNow PROVE CallInv'
<1>0. /\ TypeOK /\ step \in Arming /\ asked.kind \in {"open", "update"} /\ asked.armed /\ Frame /\ kept' = kept
      /\ asked.kind = "update" => Settled
      /\ asked.kind = "open" /\ ~meddled => request.state \in {"opened", "merged"}
      /\ \A p \in Parts : seen[p] = request[p]
      /\ ~meddled => seen.state = request.state /\ seen.armed = request.armed
  BY DEF CallInv, Kinds, Copied, Unread, Progress, Arm, MergeNow, Reading, Arming
<1>1. \A r \in {Armed, Merged} : r \in Request /\ r.title = request.title /\ r.description = request.description
                                  /\ r.labels = request.labels /\ r.state \in {request.state, "merged"}
  BY <1>0 DEF Armed, Merged, TypeOK, Request
<1>2. ASSUME NEW next \in {"answer", "mergenow"}, To(next), Sound,
             \/ request' \in {Armed, Merged} /\ seen' = request'
             \/ UNCHANGED <<request, seen>>
      PROVE  CallInv'
  <2>1. request' \in Request /\ seen' \in Request /\ request'.title = request.title
        /\ request'.description = request.description /\ request'.labels = request.labels
        /\ request'.state \in {request.state, "merged"} /\ \A p \in Parts : seen'[p] = request'[p]
    BY <1>0, <1>1, <1>2 DEF TypeOK
  <2>2. ~meddled => seen'.state = request'.state /\ seen'.armed = request'.armed
    BY <1>0, <1>2
  <2>3. TypeOK'
    BY <1>0, <1>2, <2>1 DEF TypeOK, Steps, To, Sound, Frame, Arming
  <2>4. Kinds'
    BY <1>0, <1>2 DEF Kinds, Reading, Arming, Disarming, To, Frame
  <2>5. Copied'
    BY <1>0, <1>2, <2>1, <2>2 DEF Copied, Unread, To, Frame, Reading
  <2>6. Progress'
    BY <1>0, <1>2, <2>1 DEF Progress, TextSettled, Settled, To, Frame, Arming, Disarming, Reading
  <2> QED BY <2>3, <2>4, <2>5, <2>6 DEF CallInv
<1>3. ASSUME NEW r \in {Armed, Merged}, Lost(r) PROVE CallInv'
  <2>1. TypeOK'
    BY <1>0, <1>1, <1>3, LostTyped DEF TypeOK, Frame, Steps
  <2> QED BY <1>0, <1>3, <2>1, LostTyped, IdleKnows DEF CallInv
<1>4. ASSUME host = "github", Applied(Armed, {"armed"}), seen' = [seen EXCEPT !.armed = TRUE], To("answer")
      PROVE  CallInv'
  <2>1. Between(request, Armed, {"armed"}, request') /\ faults' \in 0 .. MaxFaults
    BY <1>0, <1>1, <1>4, AppliedBetween DEF TypeOK
  <2>2. /\ request' \in Request /\ request'.title = request.title /\ request'.description = request.description
        /\ request'.labels = request.labels /\ request'.state = request.state
    BY <1>0, <1>1, <2>1 DEF Between, Armed, TypeOK, Request
  <2>3. /\ seen' \in Request /\ seen'.title = seen.title /\ seen'.description = seen.description
        /\ seen'.labels = seen.labels /\ seen'.state = seen.state
    BY <1>0, <1>4 DEF TypeOK, Request
  <2>4. \A p \in Parts : seen'[p] = request'[p]
    BY <1>0, <2>2, <2>3 DEF Parts
  <2>5. TypeOK'
    BY <1>0, <1>4, <2>1, <2>2, <2>3 DEF TypeOK, Steps, To, Frame, Arming
  <2>6. Kinds'
    BY <1>0, <1>4 DEF Kinds, Reading, Arming, Disarming, To, Frame
  <2>7. Copied'
    BY <1>0, <1>4, <2>2, <2>3, <2>4 DEF Copied, Unread, To, Frame, Reading
  <2>8. Progress'
    BY <1>0, <1>4, <2>2 DEF Progress, TextSettled, Settled, To, Frame, Arming, Disarming, Reading
  <2> QED BY <2>5, <2>6, <2>7, <2>8 DEF CallInv
<1> QED BY <1>2, <1>3, <1>4 DEF Arm, MergeNow

LEMMA DisarmKept == ASSUME CallInv, Disarm \/ ReadBack PROVE CallInv'
<1> DEFINE r == [request EXCEPT !.armed = FALSE]
           s == [seen EXCEPT !.armed = FALSE]
<1>0. /\ TypeOK /\ step \in Disarming /\ asked.kind \in {"open", "update"} /\ ~asked.armed /\ Frame /\ kept' = kept
      /\ asked.kind = "update" => Settled
      /\ asked.kind = "open" /\ ~meddled => request.state \in {"opened", "merged"}
      /\ \A p \in Parts : seen[p] = request[p]
      /\ ~meddled => seen.state = request.state
  BY DEF CallInv, Kinds, Copied, Unread, Progress, Disarm, ReadBack, Reading, Disarming
<1>r. /\ r \in Request /\ r.state = request.state /\ r.armed = FALSE /\ r.labels = request.labels
      /\ r.title = request.title /\ r.description = request.description
  BY <1>0 DEF TypeOK, Request
<1>s. /\ s \in Request /\ s.state = seen.state /\ s.armed = FALSE /\ s.labels = seen.labels
      /\ s.title = seen.title /\ s.description = seen.description
  BY <1>0 DEF TypeOK, Request
<1>1. ASSUME Applied(r, {"armed"}) \/ (request' = request /\ Sound)
      PROVE  /\ request' \in Request /\ faults' \in 0 .. MaxFaults
             /\ request'.state = request.state /\ request'.labels = request.labels
             /\ request'.title = request.title /\ request'.description = request.description
  <2>1. CASE Applied(r, {"armed"})
    <3>1. Between(request, r, {"armed"}, request') /\ faults' \in 0 .. MaxFaults
      BY <1>0, <1>r, <2>1, AppliedBetween DEF TypeOK
    <3> QED BY <1>r, <3>1 DEF Between
  <2>2. CASE request' = request /\ Sound
    BY <1>0, <2>2 DEF TypeOK, Sound
  <2> QED BY <1>1, <2>1, <2>2
<1>2. ASSUME Applied(r, {"armed"}) \/ (request' = request /\ Sound), seen' = s, ~request'.armed, To("answer") PROVE CallInv'
  <2>1. TypeOK'
    BY <1>0, <1>1, <1>2, <1>s DEF TypeOK, Steps, To, Frame, Disarming
  <2>2. Kinds'
    BY <1>0, <1>2 DEF Kinds, Reading, Arming, Disarming, To, Frame
  <2>3. \A p \in Parts : seen'[p] = request'[p]
    BY <1>0, <1>1, <1>2, <1>s DEF Parts
  <2>4. Copied'
    BY <1>0, <1>1, <1>2, <1>s, <2>1, <2>3 DEF Copied, Unread, To, Frame, Reading, TypeOK, Request
  <2>5. Progress'
    BY <1>0, <1>1, <1>2 DEF Progress, TextSettled, Settled, To, Frame, Arming, Disarming, Reading
  <2> QED BY <2>1, <2>2, <2>4, <2>5 DEF CallInv
<1>3. ASSUME Applied(r, {"armed"}), To("readback"), UNCHANGED seen PROVE CallInv'
  <2>1. TypeOK'
    BY <1>0, <1>1, <1>3 DEF TypeOK, Steps, To, Frame, Disarming
  <2>2. Kinds'
    BY <1>0, <1>3 DEF Kinds, Reading, Arming, Disarming, To, Frame
  <2>3. \A p \in Parts : seen'[p] = request'[p]
    BY <1>0, <1>1, <1>3 DEF Parts
  <2>4. Copied'
    BY <1>0, <1>1, <1>3, <2>3 DEF Copied, Unread, To, Frame, Reading
  <2>5. Progress'
    BY <1>0, <1>1, <1>3 DEF Progress, TextSettled, Settled, To, Frame, Arming, Disarming, Reading
  <2> QED BY <2>1, <2>2, <2>4, <2>5 DEF CallInv
<1>4. ASSUME Applied(r, {"armed"}) \/ (request' = request /\ Sound), seen' = s, Fails PROVE CallInv'
  <2>1. TypeOK'
    BY <1>0, <1>1, <1>4, <1>s, FailsTyped DEF TypeOK, Frame, Steps
  <2> QED BY <1>0, <1>4, <2>1, FailsTyped, IdleKnows DEF CallInv
<1>5. ASSUME Lost(r) \/ Lost(request) PROVE CallInv'
  <2>1. TypeOK'
    BY <1>0, <1>r, <1>5, LostTyped DEF TypeOK, Frame, Steps
  <2> QED BY <1>0, <1>5, <2>1, LostTyped, IdleKnows DEF CallInv
<1> QED BY <1>2, <1>3, <1>4, <1>5 DEF Disarm, ReadBack

LEMMA CloseKept == ASSUME CallInv, Close PROVE CallInv'
<1> DEFINE r == [request EXCEPT !.state = IF @ = "opened" THEN "closed" ELSE @, !.title = asked.title]
<1>0. TypeOK /\ step = "close" /\ asked.kind = "close" /\ Frame /\ kept' = kept
  BY DEF CallInv, Kinds, Close
<1> DEFINE s == IF request.state = "opened" THEN "closed" ELSE request.state
           t == asked.title
<1>s. /\ request \in Request /\ s \in {"none", "opened", "merged", "closed"} /\ t \in Texts
      /\ r = [request EXCEPT !.state = s, !.title = t]
  BY <1>0 DEF TypeOK, Request, Asked
<1>r. r \in Request
  <2> HIDE DEF r, s, t
  <2> QED BY <1>s DEF Request
<1>1. ASSUME Applied(r, {"state"}) PROVE request' \in Request /\ faults' \in 0 .. MaxFaults
  BY <1>0, <1>r, <1>1, AppliedBetween DEF TypeOK, Between
<1>2. ASSUME Applied(r, {"state"}), seen' = request', request'.state = "closed", To("answer") PROVE CallInv'
  <2>1. TypeOK'
    BY <1>0, <1>1, <1>2 DEF TypeOK, Steps, To, Frame
  <2>2. Kinds' /\ Copied' /\ Progress'
    BY <1>0, <1>2 DEF Kinds, Copied, Progress, Reading, Arming, Disarming, To
  <2> QED BY <2>1, <2>2 DEF CallInv
<1>3. ASSUME Applied(r, {"state"}), seen' = request', Fails PROVE CallInv'
  <2>1. TypeOK'
    BY <1>0, <1>1, <1>3, FailsTyped DEF TypeOK, Frame, Steps
  <2> QED BY <1>0, <1>3, <2>1, FailsTyped, IdleKnows DEF CallInv
<1>4. ASSUME Lost(r) PROVE CallInv'
  <2>1. TypeOK'
    BY <1>0, <1>r, <1>4, LostTyped DEF TypeOK, Frame, Steps
  <2> QED BY <1>0, <1>4, <2>1, LostTyped, IdleKnows DEF CallInv
<1> QED BY <1>2, <1>3, <1>4 DEF Close

LEMMA AnswerKept == ASSUME CallInv, Answer PROVE CallInv'
<1>0. TypeOK /\ step' = "idle" /\ UNCHANGED <<seen, kept, request, faults, host, want, meddled, plans>>
  BY DEF CallInv, Answer, Frame
<1>1. asked' \in Asked /\ asked'.kind = "none"
  BY <1>0 DEF Answer, TypeOK, Asked
<1>2. answer' \in [result : {"none", "failed", "done"}, kept : BOOLEAN, claims : BOOLEAN]
  BY <1>0 DEF Answer, TypeOK
<1>3. TypeOK'
  BY <1>0, <1>1, <1>2 DEF TypeOK, Steps
<1> QED BY <1>0, <1>3, IdleKnows DEF CallInv

\* Whoever meddles leaves the texts, and what the call knows of the rest is
\* void from then on.
LEMMA MeddleKept == ASSUME CallInv, Meddle PROVE CallInv'
<1>0. TypeOK /\ meddled' = TRUE /\ UNCHANGED <<host, want, asked, step, seen, kept, answer, plans>>
  BY DEF CallInv, Meddle, call
<1>1. request' \in Request /\ request'.title = request.title /\ request'.description = request.description
      /\ request'.labels = request.labels
  BY <1>0 DEF Meddle, TypeOK, Request
<1>2. faults' \in 0 .. MaxFaults
  BY <1>0, BoundsAssumption DEF Meddle, TypeOK
<1>3. TypeOK'
  BY <1>0, <1>1, <1>2 DEF TypeOK
<1>4. Kinds'
  BY <1>0 DEF CallInv, Kinds
<1>5. Copied'
  BY <1>0, <1>1 DEF CallInv, Copied, Unread, Parts
<1>6. Progress'
  BY <1>0, <1>1 DEF CallInv, Progress, TextSettled, Settled
<1> QED BY <1>3, <1>4, <1>5, <1>6 DEF CallInv

LEMMA ReplanKept == ASSUME CallInv, Replan PROVE CallInv'
<1>0. TypeOK /\ step' = "idle" /\ UNCHANGED <<host, request, call, meddled, faults>>
  BY DEF CallInv, Replan, call
<1>1. TypeOK'
  BY <1>0, BoundsAssumption DEF Replan, TypeOK, call
<1> QED BY <1>0, <1>1, IdleKnows DEF CallInv

LEMMA StutterKept == ASSUME CallInv, UNCHANGED vars PROVE CallInv'
BY DEF CallInv, TypeOK, Kinds, Copied, Unread, Progress, TextSettled, Settled, vars, call

(***************************************************************************)
(* At every step of a call the client knows what it acts on: the copy it    *)
(* compares against shows the request's texts, arming and disarming come    *)
(* only after title, labels and description are in line, and an answer      *)
(* comes only when the rest is (gitlab.go:295, :339; github.go:326, :359).  *)
(***************************************************************************)
THEOREM CallsInOrder == Spec => []CallInv
<1>1. Init => CallInv
  <2> SUFFICES ASSUME Init PROVE CallInv
    OBVIOUS
  <2>1. request \in Request
    BY DEF Init, Request
  <2>2. asked \in Asked /\ asked.kind = "none"
    BY WantTyped DEF Init
  <2>3. TypeOK
    <3>1. answer \in [result : {"none", "failed", "done"}, kept : BOOLEAN, claims : BOOLEAN]
      BY DEF Init, NoAnswer
    <3>2. faults \in 0 .. MaxFaults /\ plans \in 0 .. MaxPlans
      BY BoundsAssumption DEF Init
    <3>3. host \in {"gitlab", "github"} /\ want \in Wants /\ seen \in Request /\ step = "idle"
          /\ kept \in BOOLEAN /\ meddled \in BOOLEAN
      BY <2>1 DEF Init
    <3> QED BY <2>1, <2>2, <3>1, <3>2, <3>3 DEF TypeOK, Steps
  <2>4. Kinds /\ Copied /\ Progress
    BY DEF Init, Kinds, Copied, Progress, Reading, Arming, Disarming
  <2> QED BY <2>3, <2>4 DEF CallInv
<1>2. CallInv /\ [Next]_vars => CallInv'
  BY AskKept, PostKept, NotVisibleKept, GetKept, WriteKept, LabelKept, ArmKept, DisarmKept, CloseKept, AnswerKept,
     MeddleKept, ReplanKept, StutterKept DEF Next, Step, Idle
<1> QED BY <1>1, <1>2, PTL DEF Spec

\* TypeOK: the types of the request, of the call at work and of its answer.
THEOREM TypeCorrect == Spec => []TypeOK
<1>1. CallInv => TypeOK
  BY DEF CallInv
<1> QED BY <1>1, CallsInOrder, PTL

-----------------------------------------------------------------------------
(* The calls are steps of Requests, or none.                               *)

Promises == Promise!Next \/ UNCHANGED Promise!vars

\* A request whose parts are each as before or as asked has only moved
\* towards what was asked.
LEMMA TowardsMoves ==
    ASSUME asked.kind \in {"open", "update"}, NEW s,
           \/ s.state = request.state
           \/ request.state = "opened" /\ s.state = "merged" /\ asked.armed,
           s.title \in {request.title, asked.title}, s.description \in {request.description, asked.description},
           s.labels \in {request.labels, asked.labels}, s.armed \in {request.armed, asked.armed}
    PROVE  Promise!Moves(request, s)
BY DEF Promise!Moves, Promise!Brings

LEMMA FailPromised ==
    ASSUME asked.kind # "none", Fails, UNCHANGED <<host, meddled>>,
           request' = request \/ Promise!Moves(request, request')
    PROVE  Promises
BY DEF Promises, Promise!Next, Promise!Fail, Promise!Asking, Fails, NoAnswer, Promise!NoAnswer

LEMMA MovePromised ==
    ASSUME asked.kind # "none", UNCHANGED <<asked, answer, host, meddled>>,
           request' = request \/ Promise!Moves(request, request')
    PROVE  Promises
BY DEF Promises, Promise!Next, Promise!Move, Promise!Asking, Promise!vars

LEMMA AskPromised == ASSUME CallInv, Ask PROVE Promises
<1>1. PICK kind \in {"open", "update", "close"} : asked' = [Kind(want) EXCEPT !.kind = kind]
  BY DEF Ask
<1>2. asked'.kind = kind
  BY <1>1 DEF Kind
<1>3. asked.kind = "none"
  BY DEF CallInv, TypeOK, Ask
<1> QED BY <1>2, <1>3 DEF Ask, Promises, Promise!Next, Promise!Ask, Promise!Asking, NoAnswer, Promise!NoAnswer

LEMMA PostPromised == ASSUME CallInv, Post \/ NotVisible PROVE Promises
<1>0. TypeOK /\ asked.kind = "open" /\ UNCHANGED <<host, meddled>>
  BY DEF CallInv, Kinds, Post, NotVisible, Frame
<1>o. Opened \in Request /\ Opened.state = "opened" /\ ~Opened.armed
  BY <1>0 DEF Opened, Request, TypeOK, Asked
<1>1. ASSUME request.state # "opened", NEW s \in Request, s.state = "opened", ~s.armed
      PROVE  Promise!Moves(request, s)
  BY <1>0, <1>1 DEF Promise!Moves, Promise!Appears, Request
<1>2. CASE Post
  <2>1. ASSUME request.state # "opened", Created, UNCHANGED <<asked, answer>> PROVE Promises
    BY <1>0, <1>1, <2>1, CreatedIs, MovePromised
  <2>2. ASSUME request.state # "opened", Lost(Opened) PROVE Promises
    BY <1>0, <1>1, <1>o, <2>2, FailPromised DEF Lost
  <2> QED BY <1>2, <2>1, <2>2 DEF Post, To
<1>3. CASE NotVisible
  BY <1>0, <1>3, FailPromised, MovePromised DEF NotVisible
<1> QED BY <1>2, <1>3

LEMMA GetPromised == ASSUME CallInv, Get PROVE Promises
<1>0. TypeOK /\ asked.kind = "update" /\ UNCHANGED <<host, meddled>>
  BY DEF CallInv, Kinds, Get, Frame
<1> QED BY <1>0, FailPromised, MovePromised DEF Get, To, Lost

LEMMA WritePromised == ASSUME CallInv, Write PROVE Promises
<1> DEFINE parts == Differing(Written)
           r == [p \in DOMAIN request |-> IF p \in parts THEN asked[p] ELSE request[p]]
<1>0. /\ TypeOK /\ step = "write" /\ asked.kind = "update" /\ ~kept /\ UNCHANGED <<host, meddled>>
      /\ \A p \in Parts : seen[p] = request[p]
  BY DEF CallInv, Kinds, Copied, Unread, Write, Reading, Frame
<1>1. CASE parts = {} /\ To(AfterText(seen)) /\ UNCHANGED request
  BY <1>0, <1>1, MovePromised DEF To
<1>2. ASSUME parts # {} PROVE
         /\ r \in Request /\ r.state = request.state /\ r.armed = request.armed
         /\ r.title = asked.title /\ r.description = asked.description
         /\ r.labels \in {request.labels, asked.labels} /\ parts \subseteq Parts
  BY <1>0, <1>2, WriteSettles DEF Written, Parts
<1>3. ASSUME parts # {}, Applied(r, parts), Fails \/ To(AfterText(request')) PROVE Promises
  <2>1. Between(request, r, parts, request')
    BY <1>0, <1>2, <1>3, AppliedBetween DEF TypeOK
  <2>2. Promise!Moves(request, request')
    BY <1>0, <1>2, <1>3, <2>1, TowardsMoves DEF Between, Parts
  <2> QED BY <1>0, <1>3, <2>2, FailPromised, MovePromised DEF To
<1>4. ASSUME parts # {}, Lost(r) PROVE Promises
  <2>1. Promise!Moves(request, r)
    BY <1>0, <1>2, <1>4, TowardsMoves
  <2> QED BY <1>0, <1>4, <2>1, FailPromised DEF Lost
<1> QED BY <1>1, <1>3, <1>4 DEF Write

LEMMA LabelPromised == ASSUME CallInv, Label PROVE Promises
<1> DEFINE r == [request EXCEPT !.labels = asked.labels]
<1>0. TypeOK /\ asked.kind \in {"open", "update"} /\ UNCHANGED <<host, meddled>>
  BY DEF CallInv, Kinds, Label, Frame, Reading
<1>r. /\ r \in Request /\ r.state = request.state /\ r.armed = request.armed /\ r.labels = asked.labels
      /\ r.title = request.title /\ r.description = request.description
  BY <1>0 DEF TypeOK, Request, Asked
<1>1. Promise!Moves(request, r)
  BY <1>0, <1>r, TowardsMoves
<1>2. ASSUME Applied(r, {"labels"}) PROVE Promise!Moves(request, request')
  <2>1. Between(request, r, {"labels"}, request')
    BY <1>0, <1>r, <1>2, AppliedBetween DEF TypeOK
  <2> QED BY <1>0, <1>r, <2>1, TowardsMoves DEF Between
<1>3. request' = request \/ Promise!Moves(request, request')
  BY <1>1, <1>2 DEF Label, Lost
<1>4. Fails \/ UNCHANGED <<asked, answer>>
  BY DEF Label, Lost, To
<1> QED BY <1>0, <1>3, <1>4, FailPromised, MovePromised

LEMMA ArmPromised == ASSUME CallInv, Arm \/ MergeNow PROVE Promises
<1>0. TypeOK /\ asked.kind \in {"open", "update"} /\ asked.armed /\ UNCHANGED <<host, meddled>>
  BY DEF CallInv, Kinds, Arm, MergeNow, Frame, Reading, Arming
<1>1. asked.armed = TRUE
  BY <1>0 DEF TypeOK, Asked
<1>2. Promise!Moves(request, Armed)
  <2>1. Armed.state = request.state /\ Armed.title = request.title /\ Armed.description = request.description
        /\ Armed.labels = request.labels /\ Armed.armed = TRUE
    BY <1>0 DEF Armed, TypeOK, Request
  <2> QED BY <1>0, <1>1, <2>1, TowardsMoves
<1>3. ASSUME request.state = "opened" PROVE Promise!Moves(request, Merged)
  <2>1. Merged.state = "merged" /\ Merged.title = request.title /\ Merged.description = request.description
        /\ Merged.labels = request.labels /\ Merged.armed = request.armed
    BY <1>0 DEF Merged, TypeOK, Request
  <2> QED BY <1>0, <1>3, <2>1, TowardsMoves
<1>a. ASSUME Applied(Armed, {"armed"}) PROVE Promise!Moves(request, request')
  <2>1. /\ Armed \in Request /\ Armed.state = request.state /\ Armed.title = request.title
        /\ Armed.description = request.description /\ Armed.labels = request.labels /\ Armed.armed = TRUE
    BY <1>0 DEF Armed, TypeOK, Request
  <2>2. Between(request, Armed, {"armed"}, request')
    BY <1>0, <1>a, <2>1, AppliedBetween DEF TypeOK
  <2> QED BY <1>0, <1>1, <2>1, <2>2, TowardsMoves DEF Between
<1>4. request' = request \/ Promise!Moves(request, request')
  BY <1>2, <1>3, <1>a DEF Arm, MergeNow, Lost
<1>5. Fails \/ UNCHANGED <<asked, answer>>
  BY DEF Arm, MergeNow, Lost, To
<1> QED BY <1>0, <1>4, <1>5, FailPromised, MovePromised

LEMMA DisarmPromised == ASSUME CallInv, Disarm \/ ReadBack PROVE Promises
<1> DEFINE r == [request EXCEPT !.armed = FALSE]
<1>0. TypeOK /\ asked.kind \in {"open", "update"} /\ asked.armed = FALSE /\ UNCHANGED <<host, meddled>>
  BY DEF CallInv, Kinds, TypeOK, Asked, Disarm, ReadBack, Frame, Reading, Disarming
<1>r. /\ r \in Request /\ r.state = request.state /\ r.armed = FALSE /\ r.labels = request.labels
      /\ r.title = request.title /\ r.description = request.description
  BY <1>0 DEF TypeOK, Request
<1>1. Promise!Moves(request, r)
  BY <1>0, <1>r, TowardsMoves
<1>2. ASSUME Applied(r, {"armed"}) PROVE Promise!Moves(request, request')
  <2>1. Between(request, r, {"armed"}, request')
    BY <1>0, <1>r, <1>2, AppliedBetween DEF TypeOK
  <2> QED BY <1>0, <1>r, <2>1, TowardsMoves DEF Between
<1>3. request' = request \/ Promise!Moves(request, request')
  BY <1>1, <1>2 DEF Disarm, ReadBack, Lost
<1>4. Fails \/ UNCHANGED <<asked, answer>>
  BY DEF Disarm, ReadBack, Lost, To
<1> QED BY <1>0, <1>3, <1>4, FailPromised, MovePromised

LEMMA ClosePromised == ASSUME CallInv, Close PROVE Promises
<1> DEFINE r == [request EXCEPT !.state = IF @ = "opened" THEN "closed" ELSE @, !.title = asked.title]
<1>0. TypeOK /\ asked.kind = "close" /\ UNCHANGED <<host, meddled>>
  BY DEF CallInv, Kinds, Close, Frame
<1> DEFINE s == IF request.state = "opened" THEN "closed" ELSE request.state
           t == asked.title
<1>s. /\ request \in Request /\ s \in {"none", "opened", "merged", "closed"} /\ t \in Texts
      /\ r = [request EXCEPT !.state = s, !.title = t]
  BY <1>0 DEF TypeOK, Request, Asked
<1>t. /\ r \in Request /\ r.state = s /\ r.title = t
      /\ r.description = request.description /\ r.labels = request.labels /\ r.armed = request.armed
  <2> HIDE DEF r, s, t
  <2> QED BY <1>s DEF Request
<1>r. r.state \in {request.state, "closed"}
  BY <1>t
<1> HIDE DEF r, s
<1>1. Promise!Moves(request, r)
  BY <1>0, <1>r, <1>t DEF Promise!Moves, Promise!Closes
<1>2. ASSUME Applied(r, {"state"}) PROVE Promise!Moves(request, request')
  <2>1. Between(request, r, {"state"}, request')
    BY <1>0, <1>t, <1>2, AppliedBetween DEF TypeOK
  <2> QED BY <1>0, <1>r, <1>t, <2>1 DEF Between, Promise!Moves, Promise!Closes
<1>3. request' = request \/ Promise!Moves(request, request')
  BY <1>1, <1>2 DEF Close, Lost, r
<1>4. Fails \/ UNCHANGED <<asked, answer>>
  BY DEF Close, Lost, To
<1> QED BY <1>0, <1>3, <1>4, FailPromised, MovePromised

\* Success is truthful: what Progress knows of the request is what is promised.
LEMMA AnswerPromised == ASSUME CallInv, Answer PROVE Promises
<1>0. /\ TypeOK /\ step = "answer" /\ asked.kind # "none" /\ UNCHANGED <<request, host, meddled>>
      /\ asked' = [asked EXCEPT !.kind = "none"]
  BY DEF CallInv, TypeOK, Answer, Frame
<1>1. answer'.result = "done" /\ answer'.kept = kept
  BY DEF Answer
<1>2. answer'.claims = (asked.kind # "close" /\ asked.armed /\ (seen.armed \/ seen.state = "merged"))
  BY DEF Answer
<1>3. Promise!Truthful(answer')
  <2>1. asked.kind = "close" => meddled \/ request.state = "closed"
    BY <1>0 DEF CallInv, Progress
  <2>2. asked.kind = "open" => meddled \/ request.state \in {"opened", "merged"}
    BY <1>0 DEF CallInv, Progress, Reading
  <2>3. asked.kind = "update" => /\ request.title = asked.title /\ request.labels = asked.labels
                                 /\ request.description = asked.description \/ answer'.kept
    BY <1>0, <1>1 DEF CallInv, Progress, Settled, TextSettled
  <2>4. answer'.claims => /\ asked.armed
                          /\ host = "gitlab" => meddled \/ request.armed \/ request.state = "merged"
    <3>1. asked.kind # "close" /\ ~meddled => seen.state = request.state
      BY <1>0 DEF CallInv, Copied, Reading
    <3>2. asked.kind # "close" /\ ~meddled /\ host = "gitlab" => seen.armed = request.armed
      BY <1>0 DEF CallInv, Copied, Unread, Reading
    <3> QED BY <1>2, <3>1, <3>2
  <2>5. asked.kind # "close" /\ ~asked.armed => meddled \/ ~request.armed
    BY <1>0 DEF CallInv, Progress
  <2> QED BY <2>1, <2>2, <2>3, <2>4, <2>5 DEF Promise!Truthful
<1> QED BY <1>0, <1>1, <1>3 DEF Promises, Promise!Next, Promise!Succeed, Promise!Asking

LEMMA MeddlePromised == ASSUME CallInv, Meddle PROVE Promises
<1>0. request \in Request /\ request.state = "opened" /\ UNCHANGED <<asked, answer, host>> /\ meddled' = TRUE
  BY DEF CallInv, TypeOK, Meddle, call
<1>1. /\ request'.state \in {"opened", "merged", "closed"} /\ request'.title = request.title
      /\ request'.description = request.description /\ request'.labels = request.labels
  BY <1>0 DEF Meddle, Request
<1> QED BY <1>0, <1>1 DEF Promises, Promise!Next, Promise!Meddle

LEMMA RestPromised == ASSUME Replan \/ UNCHANGED vars PROVE Promises
BY DEF Promises, Replan, call, vars, Promise!vars

(***************************************************************************)
(* The clients implement publish.Platform.  Whichever platform answers and  *)
(* whatever is lost, refused, answered 2xx without effect or changed by     *)
(* somebody else in between, each HTTP call of CreateOrUpdate, Update and   *)
(* Close is a step of Requests or none: an open request only moves towards  *)
(* what was asked, and an update, a close or a disarming that answers       *)
(* success has got there or says where it has not (gitlab.go:319, :349,     *)
(* :418; github.go:306, :319, :354, :383).  A create that answers success   *)
(* has opened a request, whatever it shows; an arming that does has armed   *)
(* it on GitLab, on GitHub nothing says so.                                 *)
(***************************************************************************)
THEOREM ClientsKeepPromise == Spec => Promised
<1>1. Init => Promise!Init
  <2> SUFFICES ASSUME Init PROVE Promise!Init
    OBVIOUS
  <2>1. asked.kind = "none"
    BY DEF Init, Kind
  <2> QED BY <2>1 DEF Init, Promise!Init, Promise!Asking, NoAnswer, Promise!NoAnswer
<1>2. CallInv /\ [Next]_vars => [Promise!Next]_(Promise!vars)
  BY AskPromised, PostPromised, GetPromised, WritePromised, LabelPromised, ArmPromised, DisarmPromised,
     ClosePromised, AnswerPromised, MeddlePromised, RestPromised DEF Next, Step, Idle, Promises
<1> QED BY <1>1, <1>2, CallsInOrder, PTL DEF Spec, Promised, Promise!Spec
=============================================================================
