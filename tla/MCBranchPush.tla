---------------------------- MODULE MCBranchPush ----------------------------
(* Two overlapping runs, and commits by people nobody tells apart.         *)
EXTENDS BranchPush, TLC

CONSTANTS r1, r2, p1, p2, v1, v2

Symmetry == Permutations(Runs) \cup Permutations(PersonCommits)

=============================================================================
