------------------------------ MODULE Client ------------------------------
(***************************************************************************)
(* The HTTP client every reader of a registry shares (httpx): a gate per    *)
(* host, attempts with a wait between them, and a credential that goes      *)
(* where its rule admits it and nowhere a redirect leads.                   *)
(***************************************************************************)
EXTENDS Integers, Sequences, FiniteSets

CONSTANTS
    Callers,       \* goroutines with one call each
    HostRules,     \* function: <<host, port>> or <<host>> -> [max, paths, header]
    MaxRetries,    \* Options.MaxRetries
    MaxRedirects,  \* defaultMaxRedirects
    DefaultMax,    \* defaultMaxConcurrent
    Answers,       \* [kind, after]: what a server may say
    Now            \* the clock, for a Retry-After that is a date

VARIABLES calls \* caller -> [pc, verb, urls, gate, attempt, wait, canceled, result, told]

\* ruleFor: host[:port] first, the bare host second.
None == [max |-> 0, paths |-> {}, header |-> "none"]
RuleFor(u) ==
  IF <<u.host, u.port>> \in DOMAIN HostRules THEN HostRules[<<u.host, u.port>>]
  ELSE IF <<u.host>> \in DOMAIN HostRules THEN HostRules[<<u.host>>] ELSE None
HasRule(u) == RuleFor(u) /= None

\* pathAllowed: over TLS or to a loopback address, no dot segments, and a
\* path of the pattern where the rule has one.
PathAllowed(r, u) ==
  /\ u.scheme = "https" \/ u.loopback
  /\ "any" \in r.paths \/ (~u.dots /\ u.path \in r.paths)

\* Which hops of a redirect see the credential: net/http copies the headers
\* of the first request to each, Authorization no further than its host, and
\* checkRedirect takes them off again.
SameHost(u, v) == u.host = v.host /\ u.port = v.port
Copied(us, i) == RuleFor(us[1]).header = "own" \/ \A j \in 1 .. i : us[j].host = us[1].host
MutCheckRedirect(us, i) == SameHost(us[i], us[1]) /\ HasRule(us[i])
CheckRedirect(us, i) == SameHost(us[i], us[1]) /\ HasRule(us[i]) /\ PathAllowed(RuleFor(us[i]), us[i])
Told(us) ==
  IF ~HasRule(us[1]) \/ ~PathAllowed(RuleFor(us[1]), us[1]) THEN {}
  ELSE {us[1]} \cup {us[i] : i \in {k \in 2 .. Len(us) : Copied(us, k) /\ CheckRedirect(us, k)}}

\* parseRetryAfter and backoffDuration, in fifths of a second.
ParseRetryAfter(v) ==
  CASE v.form = "seconds" -> IF v.n < 0 THEN 0 ELSE 5 * v.n
    [] v.form = "date"    -> IF v.n > Now THEN 5 * (v.n - Now) ELSE 0
    [] OTHER              -> 0
BackoffDuration(attempt) == attempt + 1

\* semFor: a gate per host as it was written, its width fixed by who came first.
Gate(u) == <<u.written, u.port>>
Width(u) == IF RuleFor(u).max <= 0 THEN DefaultMax ELSE RuleFor(u).max
MutInside(g) == {c \in Callers : calls[c].verb = "get" /\ calls[c].gate = g /\ (calls[c].pc \in {"trying", "asleep"} \/ calls[c].result = "status")}
Inside(g) == {c \in Callers : calls[c].verb = "get" /\ calls[c].gate = g /\ calls[c].pc \in {"trying", "asleep"}}

Call(verb, urls) ==
  [pc |-> IF verb = "get" THEN "waiting" ELSE "trying", verb |-> verb, urls |-> urls, gate |-> Gate(urls[1]),
   attempt |-> 0, wait |-> 0, canceled |-> FALSE, result |-> "none", told |-> {}]
Started(load) == [c \in Callers |-> Call(load[c].verb, load[c].urls)]

Ends(c, result, told) == calls' = [calls EXCEPT ![c].pc = "done", ![c].result = result, ![c].told = @ \cup told]

\* The select of Get: a slot or the end of the context, whichever is taken
\* when both are there.
Enter(c) ==
  /\ calls[c].pc = "waiting"
  /\ Cardinality(Inside(calls[c].gate)) < Width(calls[c].urls[1])
  /\ calls' = [calls EXCEPT ![c].pc = "trying"]
GiveUp(c) == calls[c].pc = "waiting" /\ calls[c].canceled /\ Ends(c, "canceled", {})

\* attempt: one round trip.  A context that ended and too many redirects are
\* failures of the network like any other, and worth a retry.
Success == {"ok", "notModified"}
Outcome(c, a) == IF calls[c].canceled \/ Len(calls[c].urls) > MaxRedirects THEN "network" ELSE a.kind
Retryable(kind) == kind \in {"network", "busy"}
Wait(kind, a, attempt) ==
  IF kind = "busy" /\ ParseRetryAfter(a.after) > 0 THEN ParseRetryAfter(a.after) ELSE BackoffDuration(attempt)
OutOfRetries(c) == calls[c].attempt >= MaxRetries

\* What the network saw before it failed cannot be known: all hops or none.
Reached(c) == IF Len(calls[c].urls) > MaxRedirects THEN SubSeq(calls[c].urls, 1, MaxRedirects) ELSE calls[c].urls
Attempt(c) ==
  /\ calls[c].pc = "trying"
  /\ \E a \in Answers :
       LET kind == Outcome(c, a) told == Told(Reached(c))
       IN CASE kind \in Success -> Ends(c, "ok", told)
            [] calls[c].verb = "get" /\ Retryable(kind) /\ ~OutOfRetries(c) ->
                 calls' = [calls EXCEPT ![c].pc = "asleep", ![c].wait = Wait(kind, a, calls[c].attempt), ![c].told = @ \cup told]
            [] OTHER -> Ends(c, kind, told)

\* The slot is kept through the sleep, however long the server asked for.
Wake(c) ==
  /\ calls[c].pc = "asleep"
  /\ calls' = [calls EXCEPT ![c].pc = "trying", ![c].attempt = @ + 1, ![c].wait = 0]

Step(c) == Enter(c) \/ GiveUp(c) \/ Attempt(c) \/ Wake(c)

\* The caller's deadline passes.
Cancel(c) == calls[c].pc /= "done" /\ ~calls[c].canceled /\ calls' = [calls EXCEPT ![c].canceled = TRUE]

(***************************************************************************)
(* What the callers may rely on.                                            *)
(***************************************************************************)
\* No more Gets at once ask a host spelled one way than its rule allows; a
\* Stream takes no slot and comes on top.
HostSpared == \A c \in Callers : Cardinality(Inside(calls[c].gate)) <= Width(calls[c].urls[1])

\* The rule that speaks for u: the one of its host and port, or of its host
\* where no rule names the port.
Speaks(k, u) == k = <<u.host, u.port>> \/ (k = <<u.host>> /\ <<u.host, u.port>> \notin DOMAIN HostRules)

\* A credential is seen at the host and port it was made for, over a safe
\* line, and there only where the rule that speaks for the hop admits its path.
CredentialStays ==
  \A c \in Callers : \A u \in calls[c].told :
    /\ u.host = calls[c].urls[1].host /\ u.port = calls[c].urls[1].port
    /\ u.scheme = "https" \/ u.loopback
    /\ \E k \in DOMAIN HostRules :
         Speaks(k, u) /\ ("any" \in HostRules[k].paths \/ (u.path \in HostRules[k].paths /\ ~u.dots))

\* A call fails on an answer that will not change, or was tried to the end.
FailsForAReason ==
  \A c \in Callers : calls[c].pc = "done" /\ calls[c].verb = "get" /\ Retryable(calls[c].result) => calls[c].attempt = MaxRetries

GetsDone == \A c \in Callers : calls[c].verb = "get" => calls[c].pc = "done"
=============================================================================
