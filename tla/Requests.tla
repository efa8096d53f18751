------------------------------ MODULE Requests ------------------------------
(***************************************************************************)
(* What publish.Platform promises its caller about one branch's merge       *)
(* request, whichever platform answers.  A call asks for a request that     *)
(* shows certain things.  While it runs, an open request only moves towards *)
(* what was asked.  An update that answers success has got there, or says   *)
(* where it has not; an open promises that there is a request, not what it  *)
(* shows; a call that fails promises no more than that nothing moved        *)
(* anywhere else.  People and the platform itself act in between.           *)
(***************************************************************************)
EXTENDS Naturals

CONSTANTS Texts,     \* titles, descriptions, label lists: what a request shows
          Unset      \* the labels of a request just opened

VARIABLES
    request,   \* [state, title, description, labels, armed]
    asked,     \* the call at work: [kind, title, description, labels, armed], kind "none"
    answer,    \* [result, kept, claims]: kept, the description did not take;
               \* claims, automerge was reported armed
    reads,     \* the platform answers an arming with the request as it is now
    meddled    \* somebody else touched the request since the call began

vars == <<request, asked, answer, reads, meddled>>

NoAnswer == [result |-> "none", kept |-> FALSE, claims |-> FALSE]
Asking == asked.kind # "none"

Init ==
    /\ request.state \in {"none", "opened"} /\ ~request.armed
    /\ ~Asking
    /\ answer = NoAnswer
    /\ reads \in BOOLEAN
    /\ meddled = FALSE

\* A request for the branch is opened, brought in line, or closed.
Ask ==
    /\ ~Asking
    /\ asked'.kind \in {"open", "update", "close"}
    /\ answer' = NoAnswer /\ meddled' = FALSE
    /\ UNCHANGED <<request, reads>>

\* A closing call changes the state and the title.
Closes(r, s) ==
    /\ s.state \in {r.state, "closed"}
    /\ s.title \in {r.title, asked.title}
    /\ s.description = r.description /\ s.labels = r.labels /\ s.armed = r.armed

\* A request comes into being unarmed, with texts and labels as the platform
\* makes them of what was sent.
Appears(r, s) ==
    /\ asked.kind = "open" /\ r.state # "opened" /\ s.state = "opened"
    /\ s.title \in Texts /\ s.description \in Texts /\ s.labels \in Texts \cup {Unset}
    /\ ~s.armed

\* Otherwise each part stays or becomes what was asked; arming a green request
\* merges it.
Brings(r, s) ==
    /\ \/ s.state = r.state
       \/ r.state = "opened" /\ s.state = "merged" /\ asked.armed
    /\ s.title \in {r.title, asked.title}
    /\ s.description \in {r.description, asked.description}
    /\ s.labels \in {r.labels, asked.labels}
    /\ s.armed \in {r.armed, asked.armed}

Moves(r, s) == IF asked.kind = "close" THEN Closes(r, s) ELSE Appears(r, s) \/ Brings(r, s)

Move ==
    /\ Asking /\ Moves(request, request')
    /\ UNCHANGED <<asked, answer, reads, meddled>>

(***************************************************************************)
(* Success is what the request shows, not what a 2xx promised: for a close, *)
(* for the texts and labels of an update, for a disarming, and for an       *)
(* arming where the platform answers with the request.                      *)
(***************************************************************************)
Truthful(a) ==
    /\ asked.kind = "close" => meddled \/ request.state = "closed"
    /\ asked.kind = "open" => meddled \/ request.state \in {"opened", "merged"}
    /\ asked.kind = "update" => /\ request.title = asked.title /\ request.labels = asked.labels
                                /\ request.description = asked.description \/ a.kept
    /\ a.claims => /\ asked.armed
                   /\ reads => meddled \/ request.armed \/ request.state = "merged"
    /\ asked.kind # "close" /\ ~asked.armed => meddled \/ ~request.armed

Succeed ==
    /\ Asking
    /\ answer'.result = "done" /\ Truthful(answer')
    /\ asked' = [asked EXCEPT !.kind = "none"]
    /\ UNCHANGED <<request, reads, meddled>>

\* The call that failed may have reached the server.
Fail ==
    /\ Asking /\ (request' = request \/ Moves(request, request'))
    /\ answer' = [NoAnswer EXCEPT !.result = "failed"]
    /\ asked' = [asked EXCEPT !.kind = "none"]
    /\ UNCHANGED <<reads, meddled>>

\* A person merges, closes, arms or disarms; GitLab cancels an automerge.
Meddle ==
    /\ request.state = "opened"
    /\ request'.state \in {"opened", "merged", "closed"}
    /\ request'.title = request.title /\ request'.description = request.description
    /\ request'.labels = request.labels
    /\ meddled' = TRUE
    /\ UNCHANGED <<asked, answer, reads>>

Next == Ask \/ Move \/ Succeed \/ Fail \/ Meddle
Spec == Init /\ [][Next]_vars
=============================================================================
