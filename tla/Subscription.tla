---------------------------- MODULE Subscription ----------------------------
(***************************************************************************)
(* What a registered controller may rely on, without slots, edge detectors  *)
(* and baselines: every change of a pair of counters is pushed to every    *)
(* subscriber, the pushes of one subscription are numbered from 0 without a *)
(* gap, and what was pushed are the counts as they are.  Counters           *)
(* implements it.                                                          *)
(***************************************************************************)
EXTENDS Naturals, FiniteSets

CONSTANTS
    Ctrls, Descs,  \* controllers; descriptors with a pair of counters
    CAPACITY,      \* subscriptions at once
    SEQ,           \* number of sequence ids
    MOST           \* pushes of one event

VARIABLES
    tally,  \* the two counts of every descriptor
    subs    \* for each subscriber the id of its next push and the counts it was told

vars == <<tally, subs>>

Subscribers == DOMAIN subs

Init ==
    /\ tally = [d \in Descs |-> <<0, 0>>]
    /\ subs = [c \in {} |-> 0]

(* The two counts of an edge detector (Milan: |LOCKED - UNLOCKED| <= 1). *)
Near(k) == k[1] <= k[2] + 1 /\ k[2] <= k[1] + 1

(* Of every descriptor in ds one count goes up; n pushes tell of it. *)
Publish(ds, n) ==
    /\ \E way \in [ds -> {1, 2}] :
          tally' = [d \in Descs |-> IF d \in ds THEN [tally[d] EXCEPT ![way[d]] = @ + 1]
                                    ELSE tally[d]]
    /\ \A d \in ds : Near(tally'[d])
    /\ subs' = [c \in Subscribers |-> [seq |-> (subs[c].seq + n) % SEQ, told |-> tally']]

Join(c) ==
    /\ c \notin Subscribers /\ Cardinality(Subscribers) < CAPACITY
    /\ subs' = [k \in Subscribers \cup {c} |-> IF k = c THEN [seq |-> 0, told |-> tally] ELSE subs[k]]
    /\ UNCHANGED tally

Leave(c) ==
    /\ subs' = [k \in Subscribers \ {c} |-> subs[k]]
    /\ UNCHANGED tally

Next ==
    \/ \E ds \in SUBSET Descs : \E n \in Cardinality(ds)..MOST : Publish(ds, n)
    \/ \E c \in Ctrls : Join(c) \/ Leave(c)

Spec == Init /\ [][Next]_vars
=============================================================================
