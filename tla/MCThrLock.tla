----------------------------- MODULE MCThrLock -----------------------------
(* An instance of ThrLock for TLC. *)
EXTENDS ThrLock

On(l, ty) == [lock |-> l, type |-> ty]

\* A concurrent insert, and two tables in any order, one of them with a read
\* lock that forbids inserts.
Mixed ==
    {<<On(1, TL_WRITE_CONCURRENT_INSERT)>>,
     <<On(1, TL_READ_NO_INSERT), On(2, TL_WRITE)>>, <<On(2, TL_READ), On(1, TL_WRITE)>>}
=============================================================================
