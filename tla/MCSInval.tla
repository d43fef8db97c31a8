------------------------------ MODULE MCSInval ------------------------------
(* SInval with the sets that TLC needs.                                     *)
EXTENDS SInval

CONSTANTS p1, p2, m1, m2

TwoProcs == {p1, p2}
TwoMessages == {m1, m2}
=============================================================================
