------------------------------ MODULE MCExecute ------------------------------
(* Up to three branches, and what coResolve makes of a and b.  The constants *)
(* each configuration sets choose which of them are entangled, may fix an    *)
(* advisory, automerge or are ignored by the concurrent limit.               *)
EXTENDS Execute

CONSTANTS a, b, c, ab, v1, v2, old

Unlimited == {[concurrent |-> 0, hourly |-> 0]}
OneOpen == {[concurrent |-> 1, hourly |-> 0]}
OneOfEach == Unlimited \cup OneOpen \cup {[concurrent |-> 0, hourly |-> 1]}

=============================================================================
