------------------------------- MODULE LiveCache -------------------------------
(* What an AsyncTTLCache promises: every value can be read for exactly its     *)
(* time, but for at most MaxEntries at once; the first to go makes room.       *)
EXTENDS Naturals, FiniteSets

CONSTANTS Keys, Values, MaxEntries, TTL

VARIABLES
    live,   \* what can be read: a value for each key, and the time it has left
    now     \* the clock

vars == <<live, now>>

Init == live = <<>> /\ now = 0

Put(kept, k, v) ==
    live' = [other \in kept \cup {k} |->
                IF other = k THEN [value |-> v, left |-> TTL] ELSE live[other]]

FirstToGo(k) == \A other \in DOMAIN live : live[k].left <= live[other].left

\* Only a new key that finds the cache full of live values displaces one.
Set(k, v) ==
    /\ IF k \in DOMAIN live \/ Cardinality(DOMAIN live) < MaxEntries
       THEN Put(DOMAIN live, k, v)
       ELSE \E old \in DOMAIN live : FirstToGo(old) /\ Put(DOMAIN live \ {old}, k, v)
    /\ UNCHANGED now

Delete(keys) == live' = [k \in DOMAIN live \ keys |-> live[k]] /\ UNCHANGED now

Tick ==
    /\ now' = now + 1
    /\ live' = [k \in {k \in DOMAIN live : live[k].left > 1} |->
                   [live[k] EXCEPT !.left = @ - 1]]

Next ==
    \/ \E k \in Keys : Delete({k}) \/ \E v \in Values : Set(k, v)
    \/ Delete(Keys)
    \/ Tick

Spec == Init /\ [][Next]_vars
=============================================================================
