------------------------------ MODULE MCTraffic ------------------------------
EXTENDS Traffic

\* Two agents: both active, one of them cordoned, none selected.
MCNodes == 1..2
MCFleets == {[n \in 1..2 |-> "active"], [n \in 1..2 |-> IF n = 1 THEN "cordoned" ELSE "active"], Empty}
MCSlices == {"svc"}
MCProxies == {"lb"}
==============================================================================
