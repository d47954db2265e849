----------------------------- MODULE Discipline -----------------------------
(***************************************************************************)
(* What the clock servo promises, without its ring buffer, its sort and    *)
(* its time stamps: offsets are judged by the median of the last WINDOW of *)
(* them; a huge median sets the clock, any other tunes it, and a row of    *)
(* good ones is needed for a lock.  Gptp implements it.                    *)
(***************************************************************************)
EXTENDS Integers, Sequences, FiniteSets

CONSTANTS Offsets, WINDOW, GOOD, BAD, BIG, LOCK

VARIABLES
    window,  \* the last offsets, oldest first
    good,    \* good medians in a row, counted while there is no lock
    locked,
    did      \* what the last step did to the clock

vars == <<window, good, locked, did>>

Size(d) == IF d < 0 THEN -d ELSE d

Middle(w) ==
    CHOOSE v \in Offsets :
        /\ \E i \in DOMAIN w : w[i] = v
        /\ Cardinality({i \in DOMAIN w : w[i] < v}) <= Len(w) \div 2
        /\ Cardinality({i \in DOMAIN w : w[i] > v}) < Len(w) - Len(w) \div 2

Slid(w, off) == Append(IF Len(w) < WINDOW THEN w ELSE Tail(w), off)

Init ==
    /\ window = <<>>
    /\ good = 0 /\ locked = FALSE
    /\ did = "none"

(* Setting the clock says nothing about the lock. *)
Set(m) ==
    /\ window = <<>> \/ Size(m) > BIG
    /\ did' = "step"
    /\ UNCHANGED <<good, locked>>

Tune(m) ==
    /\ window # <<>> /\ Size(m) <= BIG
    /\ did' = "tune"
    /\ \/ ~ locked /\ Size(m) < GOOD /\ good < LOCK /\ good' = good + 1 /\ UNCHANGED locked
       \/ ~ locked /\ Size(m) < GOOD /\ good = LOCK /\ locked' = TRUE /\ UNCHANGED good
       \/ ~ locked /\ Size(m) >= GOOD /\ good' = 0 /\ UNCHANGED locked
       \/ locked /\ Size(m) > BAD /\ locked' = FALSE /\ good' = 0
       \/ locked /\ Size(m) <= BAD /\ UNCHANGED <<good, locked>>

Observe(off) ==
    /\ window' = Slid(window, off)
    /\ Set(Middle(window')) \/ Tune(Middle(window'))

(* No offset for some time: the lock may go. *)
Silence ==
    /\ locked' \in {FALSE, locked}
    /\ did' = "none"
    /\ UNCHANGED <<window, good>>

Next == Silence \/ \E off \in Offsets : Observe(off)

Spec == Init /\ [][Next]_vars
=============================================================================
