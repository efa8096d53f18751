------------------------------- MODULE Calls -------------------------------
(***************************************************************************)
(* The lookups that share something: HTTP callers on the gates of one       *)
(* client, and lookups of images on one token cache.  A behaviour is one    *)
(* set of callers, side by side, to their end.                              *)
(***************************************************************************)
EXTENDS Integers, Sequences, FiniteSets

CONSTANTS
    Loads,           \* caller -> [verb, urls]: HTTP calls made at once
    Callers, HostRules, MaxRetries, MaxRedirects, DefaultMax, Replies, Now,
    Lookups,         \* [wants, world, tags]: lookups at registries, made at once
    Seekers, PageSize, MaxFaults, Fresh, Hub, Hosts

VARIABLES topic, input, calls, lookups, tokens, withdrawals, hub
registry == <<lookups, tokens, withdrawals, hub>>
callVars == <<topic, input, calls, registry>>

H == INSTANCE Client WITH Answers <- Replies
D == INSTANCE Registry

\* A call has an address, each redirect one more, and hosts that are written
\* the same are the same host (a rule is found in lower case).
UrlsOf(load, c) == {load[c].urls[i] : i \in DOMAIN load[c].urls}
ASSUME LoadsAssumption ==
  /\ IsFiniteSet(Callers) /\ MaxRetries \in Nat /\ MaxRedirects \in Nat \ {0} /\ DefaultMax \in Nat
  /\ \A k \in DOMAIN HostRules : HostRules[k].max \in Int
  /\ \A load \in Loads : \A c \in Callers :
       /\ load[c].urls \in Seq(UrlsOf(load, c)) /\ load[c].urls /= <<>>
       /\ \A d \in Callers : \A u \in UrlsOf(load, c), v \in UrlsOf(load, d) : u.written = v.written => u.host = v.host

\* A registry serves its tags in an order, a page holds at least one, and a
\* list is there or not, signed or not, under one of three policies.
ASSUME LookupsAssumption ==
  /\ PageSize \in Nat \ {0} /\ MaxFaults \in Nat /\ Fresh \subseteq Nat
  /\ \A l \in Lookups :
       /\ \A c \in Seekers : D!Resolve(l.wants[c].ref) \in DOMAIN l.tags
       /\ \A k \in DOMAIN l.tags : IsFiniteSet(l.tags[k]) /\ l.tags[k] \subseteq Nat \ {0}
       /\ l.world.list.found \in {"yes", "no", "unreadable"}
       /\ l.world.list.mode \in {"off", "warn", "require"}
       /\ l.world.list.named \in BOOLEAN

NoCalls ==
  /\ topic = "none" /\ input = <<>> /\ calls = <<>>
  /\ lookups = <<>> /\ tokens = <<>> /\ withdrawals = D!Unread /\ hub = <<>>

Open == topic = "none"
AskHTTP == Open /\ \E l \in Loads : topic' = "http" /\ input' = l /\ calls' = H!Started(l) /\ UNCHANGED registry
Running == topic = "http" /\ UNCHANGED <<topic, input, registry>>
Entered == Running /\ \E c \in Callers : H!Enter(c)
GaveUp == Running /\ \E c \in Callers : H!GiveUp(c)
Attempted == Running /\ \E c \in Callers : H!Attempt(c)
Woke == Running /\ \E c \in Callers : H!Wake(c)
Canceled == Running /\ \E c \in Callers : H!Cancel(c)

AskRegistry ==
  /\ Open /\ \E l \in Lookups :
       topic' = "registry" /\ input' = l /\ lookups' = D!Looking(l.wants) /\ hub' = D!Outside(l.tags)
  /\ UNCHANGED <<calls, tokens, withdrawals>>
Seeking == topic = "registry" /\ UNCHANGED <<topic, input, calls>>
Got == Seeking /\ \E c \in Seekers : D!Get(input.world, c)
Authenticated == Seeking /\ \E c \in Seekers : D!Authenticate(input.world, c)
Retried == Seeking /\ \E c \in Seekers : D!Retry(input.world, c)
WithdrawalsRead == Seeking /\ \E c \in Seekers : D!Withdrawals(input.world, c)
Expired == Seeking /\ D!Expire
Pushed == Seeking /\ D!Push
Deleted == Seeking /\ D!Delete

CallNext ==
  \/ AskHTTP \/ Entered \/ GaveUp \/ Attempted \/ Woke \/ Canceled
  \/ AskRegistry \/ Got \/ Authenticated \/ Retried \/ WithdrawalsRead \/ Expired \/ Pushed \/ Deleted

\* A goroutine that can go on is scheduled, and an attempt of Get is answered
\* or ended by Options.Timeout.  A Stream and the client of dockerds have no
\* timeout of their own and a caller's deadline need not pass: nothing says
\* that they end.
CallFairness == \A c \in Callers : WF_callVars(Running /\ calls[c].verb = "get" /\ H!Step(c))

\* Any other question (Answers) leaves the callers alone.
Question == Open /\ topic' \notin {"http", "registry"} /\ UNCHANGED <<calls, registry>>
CallSpec == NoCalls /\ [][CallNext \/ Question]_callVars

(***************************************************************************)
(* However many callers wait for a host and whatever it answers, no more    *)
(* Gets are at it at once than its rule says, no credential is seen on a    *)
(* hop the rule that speaks for it does not admit, and a Get fails for a    *)
(* reason (httpx.go:234, :402).                                             *)
(***************************************************************************)
Polite == topic = "http" => H!HostSpared /\ H!CredentialStays /\ H!FailsForAReason

(***************************************************************************)
(* A lookup that succeeds names every tag that was there throughout but     *)
(* what was withdrawn, its token is seen by its own repository alone, and   *)
(* one that fails has a reason (dockerds).                                  *)
(***************************************************************************)
SourcesAreHonest == topic = "registry" => D!SourceIsHonest(input.world)

(***************************************************************************)
(* Every Get ends, through waits, retries and redirects, whatever the       *)
(* others hold and even if a Stream at the same host never does.            *)
(***************************************************************************)
EveryGetEnds == topic = "http" ~> topic = "http" /\ H!GetsDone
=============================================================================
