------------------------------ MODULE MCLWLock ------------------------------
(* LWLock with the sets that TLC needs.                                     *)
EXTENDS LWLock, TLC

CONSTANTS p1, p2, p3

ThreeBackends == {p1, p2, p3}
OneLock == {1}
=============================================================================
