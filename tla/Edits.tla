------------------------------- MODULE Edits -------------------------------
(***************************************************************************)
(* From updates to bytes: what a text manager answers for an update          *)
(* (extract.EditRefs), what a branch makes of its updates' answers           *)
(* (editsFor), and what is written (apply).                                  *)
(*                                                                           *)
(* A file is a sequence of tokens, "@" among them; ranges are half open and  *)
(* count from 0, as in the code.  <<>> is an empty string.                   *)
(***************************************************************************)
EXTENDS Integers, Sequences, FiniteSets

LOCAL INSTANCE SequencesExt

NoDigest == -1
Bytes(src, start, end) == SubSeq(src, start + 1, end)

(***************************************************************************)
(* extract: one update, the bytes its dependency was read from.             *)
(***************************************************************************)
Refused == [refused |-> TRUE, edits |-> <<>>]
Moves(up, spans) ==
  [refused |-> FALSE,
   edits |-> [i \in DOMAIN spans |-> [file |-> up.file, start |-> spans[i].start, end |-> spans[i].end,
                                      old |-> spans[i].old, new |-> spans[i].new]]]

\* verify: the bytes are still what was extracted.
Verified(src, s) == 0 <= s.start /\ s.start <= s.end /\ s.end <= Len(src) /\ Bytes(src, s.start, s.end) = s.old

HasDigest(up) == up.locus.ds /= NoDigest /\ up.locus.de /= NoDigest /\ up.digest /= <<>>
ValueChanges(up) == up.newValue /= <<>> /\ up.newValue /= up.value
DigestChanges(up) == up.newDigest /= <<>> /\ up.newDigest /= up.digest
ValueSpan(up, new) == [start |-> up.locus.vs, end |-> up.locus.ve, old |-> up.value, new |-> new]
DigestSpan(up) == [start |-> up.locus.ds, end |-> up.locus.de, old |-> up.digest, new |-> up.newDigest]
OneSpan(up, src, s) == IF Verified(src, s) THEN Moves(up, <<s>>) ELSE Refused

\* value@digest is one span; written apart they are two, in file order.
Together(up, src) == up.locus.ds = up.locus.ve + 1 /\ src[up.locus.ve + 1] = "@"
JoinedSpan(up) == [start |-> up.locus.vs, end |-> up.locus.de,
                   old |-> up.value \o <<"@">> \o up.digest, new |-> up.newValue \o <<"@">> \o up.newDigest]
BothSpans(up, src, v, d) ==
  CASE ~Verified(src, v) \/ ~Verified(src, d) -> Refused
    [] Together(up, src)                      -> Moves(up, <<JoinedSpan(up)>>)
    [] v.end > d.start /\ d.end > v.start     -> Refused
    [] d.start < v.start                      -> Moves(up, <<d, v>>)
    [] OTHER                                  -> Moves(up, <<v, d>>)

MutEditRefs(src, up) ==
  CASE HasDigest(up) /\ ValueChanges(up) /\ DigestChanges(up) -> BothSpans(up, src, ValueSpan(up, up.newValue), DigestSpan(up))
    [] HasDigest(up) /\ DigestChanges(up)     -> OneSpan(up, src, DigestSpan(up))
    [] ValueChanges(up)                       -> OneSpan(up, src, ValueSpan(up, up.newValue))
    [] OTHER                                  -> Refused
EditRefs(src, up) ==
  CASE HasDigest(up) /\ ValueChanges(up) /\ up.newDigest = <<>> -> Refused
    [] HasDigest(up) /\ ValueChanges(up) /\ ~DigestChanges(up)  -> OneSpan(up, src, ValueSpan(up, up.newValue))
    [] HasDigest(up) /\ ValueChanges(up)      -> BothSpans(up, src, ValueSpan(up, up.newValue), DigestSpan(up))
    [] HasDigest(up) /\ DigestChanges(up)     -> OneSpan(up, src, DigestSpan(up))
    [] ~HasDigest(up) /\ up.type = "pinDigest" /\ up.newDigest /= <<>>
         -> OneSpan(up, src, ValueSpan(up, (IF ValueChanges(up) THEN up.newValue ELSE up.value) \o <<"@">> \o up.newDigest))
    [] ValueChanges(up) /\ up.locus.vs < up.locus.ve -> OneSpan(up, src, ValueSpan(up, up.newValue))
    [] OTHER                                  -> Refused

\* EditsOf: a manager that can hand back two spans, or one that takes one.
One(answer) == IF Len(answer.edits) = 1 THEN answer ELSE Refused
EditsOf(src, up) == IF up.multi THEN EditRefs(src, up) ELSE One(EditRefs(src, up))

(***************************************************************************)
(* apply: the edits of a branch.                                            *)
(***************************************************************************)
Overlaps(e, o) == e.file = o.file /\ e.start < o.end /\ o.start < e.end
Dedupe(edits) == FoldLeft(LAMBDA out, e : IF e \in ToSet(out) THEN out ELSE Append(out, e), <<>>, edits)
Conflicting(edits) == \E i, j \in DOMAIN edits : i < j /\ Overlaps(edits[i], edits[j])

\* editsFor: every update of the branch that writes manifest bytes.  A
\* refusal holds the branch (realise), which then carries no edits.
Writes(up) == ~up.blocked /\ ~up.lockOnly /\ up.type /= "lockFileMaintenance"
Gathered(contents, ups) ==
  FoldLeft(LAMBDA g, a : [refused |-> g.refused \/ a.refused, edits |-> g.edits \o a.edits], [refused |-> FALSE, edits |-> <<>>],
           [i \in DOMAIN ups |-> EditsOf(contents[ups[i].file], ups[i])])
Checked(g, edits) == IF g.refused \/ Conflicting(edits) THEN Refused ELSE [refused |-> FALSE, edits |-> edits]
WithoutRepeats(g) == Checked(g, Dedupe(g.edits))
EditsFor(contents, updates) ==
  WithoutRepeats(Gathered(contents, SelectSeq(updates, LAMBDA up : Writes(up) /\ up.file \in DOMAIN contents)))

\* Apply: from the end of the file backwards, so that offsets stay valid.
Replace(src, e) == Bytes(src, 0, e.start) \o e.new \o Bytes(src, e.end, Len(src))
ApplyOne(r, e) ==
  IF r.ok /\ 0 <= e.start /\ e.end <= Len(r.src) /\ e.start <= e.end /\ Bytes(r.src, e.start, e.end) = e.old
  THEN [ok |-> TRUE, src |-> Replace(r.src, e)] ELSE [ok |-> FALSE, src |-> r.src]
Backwards(edits) == SetToSortSeq(edits, LAMBDA a, b : a.start > b.start)
Apply(src, edits) ==
  IF Conflicting(Dedupe(edits)) THEN [ok |-> FALSE, src |-> src]
  ELSE FoldLeft(ApplyOne, [ok |-> TRUE, src |-> src], Backwards(ToSet(edits)))

\* WriteFiles: every file is computed before the first is written; a write
\* that fails leaves the files before it written.
Written(disk, applied, failing) ==
  CASE \E f \in DOMAIN applied : ~applied[f].ok -> [ok |-> FALSE, tree |-> disk]
    [] failing \in DOMAIN applied /\ applied[failing].src /= disk[failing]
         -> [ok |-> FALSE, tree |-> [f \in DOMAIN disk |-> IF f \in DOMAIN applied /\ f < failing THEN applied[f].src ELSE disk[f]]]
    [] OTHER -> [ok |-> TRUE, tree |-> [f \in DOMAIN disk |-> IF f \in DOMAIN applied THEN applied[f].src ELSE disk[f]]]
WriteFiles(disk, edits, failing) ==
  Written(disk, [f \in {edits[i].file : i \in DOMAIN edits} |-> Apply(disk[f], SelectSeq(edits, LAMBDA e : e.file = f))], failing)

(***************************************************************************)
(* The reference.  A layout is a sequence of items: a value and, gap tokens  *)
(* after or before it, its digest.                                          *)
(***************************************************************************)
Spelled(it) ==
  IF it.digest = <<>> THEN it.value
  ELSE IF it.first THEN it.digest \o it.gap \o it.value ELSE it.value \o it.gap \o it.digest
Spell(items) == FlattenSeq([i \in DOMAIN items |-> Spelled(items[i])])
At(items, i) == Len(Spell(SubSeq(items, 1, i - 1)))
Spot(it, at) ==
  IF it.digest = <<>> THEN [vs |-> at, ve |-> at + Len(it.value), ds |-> NoDigest, de |-> NoDigest]
  ELSE IF it.first THEN [vs |-> at + Len(it.digest \o it.gap), ve |-> at + Len(it.digest \o it.gap \o it.value), ds |-> at, de |-> at + Len(it.digest)]
  ELSE [vs |-> at, ve |-> at + Len(it.value), ds |-> at + Len(it.value \o it.gap), de |-> at + Len(it.value \o it.gap \o it.digest)]

\* What the updates of a branch make of an item.
AboutItem(ups, f, i) == {ups[k] : k \in {k \in DOMAIN ups : Writes(ups[k]) /\ ups[k].file = f /\ ups[k].item = i}}
Values(ups) == {up.newValue : up \in {up \in ups : ValueChanges(up)}}
Digests(ups) == {up.newDigest : up \in {up \in ups : DigestChanges(up) /\ (HasDigest(up) \/ up.type = "pinDigest")}}
Sole(S, otherwise) == IF S = {} THEN otherwise ELSE CHOOSE x \in S : TRUE
NewItem(it, ups) == [it EXCEPT !.value = Sole(Values(ups), @), !.digest = Sole(Digests(ups), @),
                               !.gap = IF it.digest = <<>> THEN <<"@">> ELSE @]
Expected(layout, ups, f) == Spell([i \in DOMAIN layout |-> NewItem(layout[i], AboutItem(ups, f, i))])
Agree(ups) == Cardinality(Values(ups)) <= 1 /\ Cardinality(Digests(ups)) <= 1
SameAsk(ups) == Cardinality({<<up.digest, up.newValue, up.newDigest>> : up \in ups}) <= 1

(***************************************************************************)
(* A branch is written whole or not at all.  planned is what was extracted, *)
(* there what the checkout holds now.                                       *)
(***************************************************************************)
MovesWhole(planned, there, ups, answer, result, failing) ==
  \* Nothing to write is left of a branch that is refused, ...
  /\ answer.refused => answer.edits = <<>>
  \* ... and what is written is every item as asked, every other byte as found, ...
  /\ ~answer.refused /\ result.ok =>
       \A f \in DOMAIN there :
         /\ \A i \in DOMAIN planned[f] : Agree(AboutItem(ups, f, i))
         /\ result.tree[f] = Expected(there[f], ups, f)
  \* ... a pin by digest never left behind its value, ...
  /\ ~answer.refused => \A k \in DOMAIN ups : Writes(ups[k]) /\ HasDigest(ups[k]) /\ ValueChanges(ups[k]) => ups[k].newDigest /= <<>>
  \* ... and a value that somebody changed since not overwritten.
  /\ ~answer.refused /\ (\E f \in DOMAIN there : \E i \in DOMAIN there[f] : \E up \in AboutItem(ups, f, i) :
                           \/ ValueChanges(up) /\ there[f][i].value /= planned[f][i].value
                           \/ HasDigest(up) /\ DigestChanges(up) /\ there[f][i].digest /= planned[f][i].digest) => ~result.ok
  /\ ~result.ok /\ failing = 0 => result.tree = [f \in DOMAIN there |-> Spell(there[f])]
  \* Updates that agree and come with their digests are not refused.
  /\ (/\ \A k \in DOMAIN ups : Writes(ups[k]) => /\ ups[k].multi
                                                 /\ ValueChanges(ups[k]) \/ (HasDigest(ups[k]) /\ DigestChanges(ups[k]))
                                                 /\ HasDigest(ups[k]) /\ ValueChanges(ups[k]) => ups[k].newDigest /= <<>>
      /\ \A f \in DOMAIN planned : \A i \in DOMAIN planned[f] : SameAsk(AboutItem(ups, f, i)))
       => ~answer.refused
Applied(planned, there, ups, answer, disk, failing) ==
  MovesWhole(planned, there, ups, answer, IF answer.refused THEN [ok |-> TRUE, tree |-> disk] ELSE WriteFiles(disk, answer.edits, failing), failing)
Whole(planned, there, ups, failing) ==
  Applied(planned, there, ups, EditsFor([f \in DOMAIN planned |-> Spell(planned[f])], ups), [f \in DOMAIN there |-> Spell(there[f])], failing)
=============================================================================
