----------------------------- MODULE MCLockMgr -----------------------------
(* LockMgr with the sets that TLC needs.                                    *)
EXTENDS LockMgr

CONSTANTS p1, p2, p3, a, b

ThreeProcs == {p1, p2, p3}
OneProc == {p1}
TwoTags == {a, b}
Xact == {"xact"}
ReadWrite == {1, 8}
SharedAndExclusive == {<<a, 1>>, <<a, 8>>, <<b, 8>>}

\* The processes that get no interrupts are interchangeable.
ProcSymmetry == Permutations(Procs \ Cancellable)
=============================================================================
