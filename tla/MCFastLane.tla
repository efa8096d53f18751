----------------------------- MODULE MCFastLane -----------------------------
(* One scheduled run and one fast lane, with one cache or one each.        *)
EXTENDS FastLane

CONSTANTS wave, lane, a, b, one, other

SharedCache == [j \in Jobs |-> one]
OwnCaches == [j \in Jobs |-> IF j \in Lanes THEN other ELSE one]
NewRelease == {<<a, 2>>}
AnyTrigger == {<<a, 0>>, <<a, 2>>}

=============================================================================
