---------------------------- MODULE TalkerCache ----------------------------
(***************************************************************************)
(* What the registrar of srp.c promises, without its slots: a cache of at  *)
(* most CAPACITY talkers with the time since each was heard.  One that is  *)
(* heard is in it, at the cost of one heard no later than any other when   *)
(* it is full; one that was not heard for AGE ticks is dropped, at most    *)
(* LATE ticks late; nothing else leaves it.  Srp implements it.            *)
(***************************************************************************)
EXTENDS Naturals, FiniteSets

CONSTANTS Sids, CAPACITY, AGE, LATE

VARIABLE cache   \* the age of every talker that is known

Known == DOMAIN cache

Refreshed(s) == [t \in Known \cup {s} |-> IF t = s THEN 0 ELSE cache[t]]
Replaced(old, s) == [t \in (Known \ {old}) \cup {s} |-> IF t = s THEN 0 ELSE cache[t]]

Init == cache = [t \in {} |-> 0]

Hear(s) ==
    \/ s \in Known /\ cache' = Refreshed(s)
    \/ s \notin Known /\ Cardinality(Known) < CAPACITY /\ cache' = Refreshed(s)
    \/ /\ s \notin Known /\ Cardinality(Known) = CAPACITY
       /\ \E old \in Known :
            /\ \A t \in Known : cache[t] <= cache[old]
            /\ cache' = Replaced(old, s)

Forget == cache' = [t \in {t \in Known : cache[t] < AGE} |-> cache[t]]

Elapse ==
    /\ \A t \in Known : cache[t] + 1 < AGE + LATE
    /\ cache' = [t \in Known |-> cache[t] + 1]

Next == Forget \/ Elapse \/ \E s \in Sids : Hear(s)

Spec == Init /\ [][Next]_cache
=============================================================================
