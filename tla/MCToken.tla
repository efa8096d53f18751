------------------------------- MODULE MCToken -------------------------------
EXTENDS Token, TLC

CONSTANTS self, reader, own1, own2, ro1, ro2, j1, j2

\* The run's own token serves two projects, the read-only token two more.
TwoJobs == Permutations({j1, j2})
TwoTokens == <<reader>>
TwoEach == (self :> <<own1, own2>>) @@ (reader :> <<ro1, ro2>>)
=============================================================================
