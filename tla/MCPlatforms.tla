---- MODULE MCPlatforms ----
(* Two plans for one branch that differ in everything, and one that drops it. *)
EXTENDS Platforms
CONSTANTS t1, t2

MCTexts == {t1, t2}
MCWants ==
    {[planned |-> p, title |-> t, description |-> t, labels |-> t, armed |-> a] :
        p \in {TRUE}, t \in {t1, t2}, a \in BOOLEAN}
    \cup {[planned |-> FALSE, title |-> t1, description |-> t1, labels |-> t1, armed |-> FALSE]}
====
