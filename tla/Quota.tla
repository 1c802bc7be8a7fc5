-------------------------------- MODULE Quota --------------------------------
(* What a rate limit promises each key: a level that every moment raises by *)
(* the rate, up to the burst, and that every granted request lowers by one. *)
(* A key that asks nothing for a while may start anew.                      *)
EXTENDS Integers

CONSTANTS Key, Rates, Burst, Cost, Ttl

VARIABLES level, idle, rate, verdict

vars == <<level, idle, rate, verdict>>

Capped(n) == IF n < Burst THEN n ELSE Burst

Init ==
    /\ level = [k \in Key |-> Burst]
    /\ idle = [k \in Key |-> 0]
    /\ rate \in Rates
    /\ verdict = [k \in Key |-> "none"]

\* The levels once the keys F have been forgotten.
Without(F) == [k \in Key |-> IF k \in F THEN Burst ELSE level[k]]

Grant(k, F) ==
    /\ Without(F)[k] >= Cost
    /\ level' = [Without(F) EXCEPT ![k] = @ - Cost]
    /\ verdict' = [verdict EXCEPT ![k] = "granted"]

Deny(k, F) ==
    /\ Without(F)[k] < Cost
    /\ level' = Without(F)
    /\ verdict' = [verdict EXCEPT ![k] = "denied"]

Ask(k) ==
    /\ \E F \in SUBSET {b \in Key : idle[b] > Ttl} : Grant(k, F) \/ Deny(k, F)
    /\ idle' = [idle EXCEPT ![k] = 0]
    /\ UNCHANGED rate

Change ==
    /\ rate' \in Rates
    /\ UNCHANGED <<level, idle, verdict>>

Pass ==
    /\ level' = [k \in Key |-> Capped(level[k] + rate)]
    /\ idle' = [k \in Key |-> idle[k] + 1]
    /\ UNCHANGED <<rate, verdict>>

Next == (\E k \in Key : Ask(k)) \/ Change \/ Pass

Spec == Init /\ [][Next]_vars
=============================================================================
