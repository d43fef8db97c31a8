------------------------------- MODULE RWLock -------------------------------
(***************************************************************************)
(* What a lightweight lock of PostgreSQL promises its callers: a set of    *)
(* readers-writer locks, each held either by one exclusive holder or by    *)
(* any number of shared ones.  lwlock.c is shown to implement it.          *)
(***************************************************************************)
CONSTANTS Backends, Locks

VARIABLE grant   \* grant[p][l]: the mode in which p holds l, or "none"

Modes == {"exclusive", "shared"}

Init == grant = [p \in Backends |-> [l \in Locks |-> "none"]]

\* m may be granted beside every hold of another backend.
Compatible(p, l, m) ==
    \A q \in Backends \ {p} :
        /\ m = "exclusive" => grant[q][l] = "none"
        /\ grant[q][l] # "exclusive"

Acquire(p, l, m) ==
    /\ grant[p][l] = "none"
    /\ Compatible(p, l, m)
    /\ grant' = [grant EXCEPT ![p][l] = m]

Release(p, l) ==
    /\ grant[p][l] # "none"
    /\ grant' = [grant EXCEPT ![p][l] = "none"]

Next == \E p \in Backends, l \in Locks :
            \/ \E m \in Modes : Acquire(p, l, m)
            \/ Release(p, l)

Spec == Init /\ [][Next]_grant
=============================================================================
