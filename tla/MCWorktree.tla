---- MODULE MCWorktree ----
(* Two checkouts and one slot.  The first pushes a version bump with its    *)
(* lock refresh, a bump of another file with a command of its own, and a    *)
(* branch that edits both; the second a branch of two lifting refreshes.    *)
EXTENDS Worktree

CONSTANTS a, b, bump, doc, rest, lifting, M, L, D

Refresh(n) == [kind |-> "lock", scope |-> {L}, lifts |-> n]
Command == [kind |-> "upgrade", scope |-> {D}, lifts |-> 0]

MCCheckouts == {a, b}
MCFiles == {M, L, D}
MCPlan ==
    [c \in {a, b} |->
        IF c = a
        THEN << [name |-> bump, edits |-> {M}, tasks |-> <<Refresh(0)>>],
                [name |-> doc, edits |-> {D}, tasks |-> <<Command>>],
                [name |-> rest, edits |-> {M, D}, tasks |-> <<>>] >>
        ELSE << [name |-> lifting, edits |-> {}, tasks |-> <<Refresh(1), Refresh(1)>>] >>]

\* The runs in which Discard, whose error pushBranch drops, does its work.
DiscardWorks == Init /\ [][Next /\ \A c \in Checkouts : ~DiscardFails(c) \/ TaskFails(c)]_vars
====
