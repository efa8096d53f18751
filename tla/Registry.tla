------------------------------ MODULE Registry ------------------------------
(***************************************************************************)
(* The docker datasource: lookups that share one token cache and one        *)
(* withdrawal list, against registries that page their tags, challenge for  *)
(* a token of one repository and may fail (datasource/dockerds).            *)
(*                                                                         *)
(* A repository is a key <<registry, path>>.  A token is [key, serial,      *)
(* known]: whose scope it was minted for, and whether credentials were      *)
(* shown.  hub is what lies outside: [tags (key -> set), always (the tags   *)
(* there all along), valid (tokens), spent, sent, shown].  world, fixed,    *)
(* is [private, absent (keys), credentials, foreign, https (registries),    *)
(* list].  Tags are numbers, served in their order.                         *)
(***************************************************************************)
EXTENDS Integers, Sequences, FiniteSets, FiniteSetsExt

CONSTANTS
    Seekers,    \* lookups made side by side
    PageSize,   \* tags the registry puts on one page
    MaxFaults,  \* failed answers, expired tokens, tags pushed and deleted
    Fresh,      \* the tags that may be pushed meanwhile
    Hub, Hosts  \* the registry of a bare name; the segments that name one

VARIABLES
    lookups,      \* seeker -> where its lookup stands and what it has read
    tokens,       \* key -> the token the lookups share
    withdrawals,  \* the list, once read
    hub           \* what lies outside

registryVars == <<lookups, tokens, withdrawals, hub>>

NoToken == [key |-> <<>>, serial |-> 0, known |-> FALSE]
Unread == [read |-> FALSE, err |-> FALSE, warn |-> FALSE, gone |-> {}, hosts |-> {}]
Nothing == [ok |-> FALSE, why |-> "", tags |-> {}, withdrawn |-> {}, listErr |-> FALSE, warn |-> FALSE, speaks |-> FALSE]

\* An image is named by its segments; the first may be a host, and a registry
\* configured for it comes before what the name says.
Parse(name) ==
  CASE Len(name) = 1 -> <<Hub, <<"library">> \o name>>
    [] Len(name) > 1 /\ name[1] = "docker.io" -> <<Hub, Tail(name)>>
    [] Len(name) > 1 /\ name[1] \in Hosts \ {"docker.io"} -> <<name[1], Tail(name)>>
    [] OTHER -> <<Hub, name>>
Resolve(ref) == <<IF ref.registry = "" THEN Parse(ref.name)[1] ELSE ref.registry, Parse(ref.name)[2]>>

\* wants: seeker -> [ref, op ("tags", "digest" or "blob")].
Looking(wants) ==
  [c \in Seekers |-> [key |-> Resolve(wants[c].ref), op |-> wants[c].op, pc |-> "get", last |-> 0, tags |-> {}, token |-> NoToken, answer |-> Nothing]]
Outside(tags) == [tags |-> tags, always |-> tags, valid |-> {}, spent |-> 0, sent |-> {}, shown |-> {}, serial |-> 0]

\* A token serves one repository of one registry.
MutTokenKey(key) == <<key[1]>>
TokenKey(key) == key
TokenFor(key) == IF TokenKey(key) \in DOMAIN tokens THEN tokens[TokenKey(key)] ELSE NoToken
SetToken(key, t) == tokens' = [k \in DOMAIN tokens \cup {TokenKey(key)} |-> IF k = TokenKey(key) THEN t ELSE tokens[k]]

To(c, change) == lookups' = [lookups EXCEPT ![c] = change]
Answered(c, answer) == To(c, [lookups[c] EXCEPT !.pc = "done", !.answer = answer])
Failed(c, why) == Answered(c, [Nothing EXCEPT !.why = why])

\* ------------------------------------------------------- the far side
Serves(w, key, t) == key \notin w.private \/ (t \in hub.valid /\ t.key = key /\ t.known)
Faulty == hub.spent < MaxFaults
Fault(w) == [hub EXCEPT !.spent = @ + 1]
Sent(h, key, t) == [h EXCEPT !.sent = @ \cup {<<key, t>>}]

Above(key, last) == {t \in hub.tags[key] : t > last}
PageAfter(key, last) == {t \in Above(key, last) : Cardinality({u \in Above(key, last) : u < t}) < PageSize}

\* ----------------------------------------------------------- one request
\* A page brings its tags and, while there are more, the link to the next;
\* a manifest or a blob is the answer.
Paged(c) ==
  LET key == lookups[c].key
      page == PageAfter(key, lookups[c].last)
      more == Above(key, lookups[c].last) /= page
  IN IF lookups[c].op /= "tags" THEN Answered(c, [Nothing EXCEPT !.ok = TRUE])
     ELSE To(c, [lookups[c] EXCEPT !.tags = @ \cup page, !.pc = IF more THEN "get" ELSE "list", !.last = IF more THEN Max(page) ELSE @, !.token = NoToken])

\* Whatever is left after the one retry: a page, or what the error says.
Classified(w, c, t) ==
  LET key == lookups[c].key
  IN \/ key \notin w.absent /\ Serves(w, key, t) /\ Paged(c) /\ hub' = Sent(hub, key, t)
     \/ key \in w.absent /\ Serves(w, key, t) /\ Failed(c, "not found, or the credentials cannot pull it") /\ hub' = Sent(hub, key, t)
     \/ Faulty /\ (\E why \in {"rate limited", "unexpected status", "transport"} : Failed(c, why)) /\ hub' = Sent(Fault(w), key, t)

\* authenticatedGet: the cached token first, a challenge leads to another.
Get(w, c) ==
  /\ lookups[c].pc = "get"
  /\ LET key == lookups[c].key
         t == TokenFor(key)
     IN \/ Classified(w, c, t)
        \/ /\ ~Serves(w, key, t)
           /\ To(c, [lookups[c] EXCEPT !.pc = "challenged"]) /\ hub' = Sent(hub, key, t)
  /\ UNCHANGED <<tokens, withdrawals>>

\* The scope asked for is pull on this repository whatever the challenge
\* names; credentials are shown over TLS, for that scope, to the realm of
\* their own registry.
WantScope(key) == <<"pull", key>>
Shows(w, key) == w.credentials = key[1] /\ key \notin w.foreign /\ key[1] \in w.https
Minted(w, key) == [key |-> key, serial |-> hub.serial + 1, known |-> Shows(w, key)]
Authenticate(w, c) ==
  /\ lookups[c].pc = "challenged"
  /\ LET key == lookups[c].key
         t == Minted(w, key)
     IN \/ /\ SetToken(key, t)
           /\ To(c, [lookups[c] EXCEPT !.pc = "retry", !.token = t])
           /\ hub' = [hub EXCEPT !.valid = @ \cup {t}, !.serial = @ + 1, !.shown = @ \cup (IF Shows(w, key) THEN {<<WantScope(key), key>>} ELSE {})]
        \/ Faulty /\ Failed(c, "no token") /\ hub' = Fault(w) /\ UNCHANGED tokens
  /\ UNCHANGED withdrawals

\* Once, with the token just obtained, whatever the cache holds by now.
Retry(w, c) ==
  /\ lookups[c].pc = "retry"
  /\ LET key == lookups[c].key
         t == lookups[c].token
     IN \/ Classified(w, c, t)
        \/ ~Serves(w, key, t) /\ Failed(c, "authentication") /\ hub' = Sent(hub, key, t)
  /\ UNCHANGED <<tokens, withdrawals>>

\* ------------------------------------------------- the withdrawal list
\* world.list is [named, found ("yes", "no", "unreadable"), signature
\* ("good", "none", "bad"), mode, entries {<<key, tag>>}, scope (keys)].
Doubted(l) == l.mode /= "off" /\ l.signature /= "good"
Read(l) ==
  CASE l.found = "no" -> [Unread EXCEPT !.read = TRUE]
    [] l.found = "unreadable" \/ (l.found = "yes" /\ Doubted(l) /\ l.mode = "require") -> [Unread EXCEPT !.read = TRUE, !.err = TRUE]
    [] OTHER -> [read |-> TRUE, err |-> FALSE, warn |-> Doubted(l), gone |-> l.entries, hosts |-> {e[1][1] : e \in l.entries}]
SpeaksFor(l, v, key) == key[1] \in v.hosts \/ key \in l.scope

\* The list is read by the first to ask and kept, its failure too.
Releases(w, c, v) ==
  LET key == lookups[c].key
      gone == {e[2] : e \in {e \in v.gone : e[1] = key}}
  IN IF v.err THEN [Nothing EXCEPT !.ok = TRUE, !.tags = lookups[c].tags, !.listErr = TRUE]
     ELSE [Nothing EXCEPT !.ok = TRUE, !.tags = lookups[c].tags \ gone, !.withdrawn = gone, !.warn = v.warn, !.speaks = w.list.named /\ SpeaksFor(w.list, v, key)]
Withdrawals(w, c) ==
  /\ lookups[c].pc = "list"
  /\ LET v == IF withdrawals.read \/ ~w.list.named THEN withdrawals ELSE Read(w.list)
     IN withdrawals' = v /\ Answered(c, Releases(w, c, v))
  /\ UNCHANGED <<tokens, hub>>

\* ------------------------------------------------ what others do meanwhile
Expire == /\ Faulty /\ \E t \in hub.valid : hub' = [hub EXCEPT !.valid = @ \ {t}, !.spent = @ + 1]
          /\ UNCHANGED <<lookups, tokens, withdrawals>>
Push == /\ Faulty /\ \E k \in DOMAIN hub.tags, t \in Fresh : t \notin hub.tags[k] /\ hub' = [hub EXCEPT !.tags[k] = @ \cup {t}, !.spent = @ + 1]
        /\ UNCHANGED <<lookups, tokens, withdrawals>>
Delete == /\ Faulty /\ \E k \in DOMAIN hub.tags : \E t \in hub.tags[k] :
               hub' = [hub EXCEPT !.tags[k] = @ \ {t}, !.always[k] = @ \ {t}, !.spent = @ + 1]
          /\ UNCHANGED <<lookups, tokens, withdrawals>>

\* ---------------------------------------------------------------- reference
Done(c) == lookups[c].pc = "done"
Trusted(l) == l.named /\ l.found = "yes" /\ (l.mode = "require" => l.signature = "good")
GoneFrom(l, key) == IF Trusted(l) THEN {e[2] : e \in {e \in l.entries : e[1] = key}} ELSE {}

\* A lookup that succeeds lists every tag that was there all along, but for
\* those a list the installation may trust withdraws, and each of those it
\* names; whoever asks hears the same of the list.
ListedWhole(w) ==
  \A c \in Seekers : Done(c) /\ lookups[c].answer.ok /\ lookups[c].op = "tags" =>
    LET a == lookups[c].answer
        key == lookups[c].key
    IN /\ hub.always[key] \ GoneFrom(w.list, key) \subseteq a.tags
       /\ a.tags \cap GoneFrom(w.list, key) = {} /\ a.withdrawn = GoneFrom(w.list, key)
       /\ a.listErr <=> w.list.named /\ w.list.found /= "no" /\ ~Trusted(w.list)
       /\ a.warn => w.list.mode = "warn" /\ w.list.signature /= "good"

\* A token is sent where it was minted for, credentials are shown for pull
\* on the repository looked up and nothing else.
TokensStayHome(w) ==
  /\ \A s \in hub.sent : s[2] = NoToken \/ s[2].key = s[1]
  /\ \A s \in hub.shown : s[1] = <<"pull", s[2]>> /\ s[2][1] = w.credentials

\* A lookup fails for a reason: the repository or the right to it is missing,
\* or something failed or expired meanwhile.
FailsForAReason(w) ==
  \A c \in Seekers : Done(c) /\ ~lookups[c].answer.ok =>
    \/ lookups[c].key \in w.absent \/ hub.spent > 0
    \/ lookups[c].key \in w.private /\ ~Shows(w, lookups[c].key)

SourceIsHonest(w) == ListedWhole(w) /\ TokensStayHome(w) /\ FailsForAReason(w)
=============================================================================
