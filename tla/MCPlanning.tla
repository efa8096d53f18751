----------------------------- MODULE MCPlanning -----------------------------
EXTENDS Planning

Number(a, b, c) == [op |-> "", n |-> <<a, b, c>>, pre |-> <<>>]
Pinned == [cur |-> Number(1, 0, 0), digest |-> 0, locked |-> NoValue, scheme |-> "semver", strategy |-> "auto",
            allowed |-> {}, limited |-> FALSE, filter |-> "strict", age |-> 1, optional |-> FALSE, unstable |-> FALSE,
            bound |-> NoValue, pinDigests |-> FALSE]
Ranged == [Pinned EXCEPT !.cur = [op |-> "~", n |-> <<1, 0>>, pre |-> <<>>], !.scheme = "npm", !.age = 1]
TwoDeps == <<Pinned, Ranged>>
ThreeReleases == <<<<Number(1, 0, 0), Number(1, 0, 1)>>, <<Number(1, 0, 0), Number(1, 1, 0), Number(1, 2, 0)>>>>
OneDep == <<[Pinned EXCEPT !.age = 2]>>
OptionalDep == <<[Pinned EXCEPT !.age = 2, !.optional = TRUE]>>
OneMore == <<<<Number(1, 0, 0), Number(1, 0, 1)>>>>
=============================================================================
