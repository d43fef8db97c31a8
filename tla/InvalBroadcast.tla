--------------------------- MODULE InvalBroadcast ---------------------------
(***************************************************************************)
(* What the shared invalidation queue of PostgreSQL promises: "any message *)
(* sent by any backend must be delivered to all already-running backends", *)
(* once, in the order of sending, unless the backend is told to discard    *)
(* all of its invalidatable state instead.  sinvaladt.c and sinval.c are   *)
(* shown to implement it.                                                  *)
(***************************************************************************)
EXTENDS Naturals, Sequences

CONSTANTS
    Procs,      \* the processes that may become backends
    Messages,
    Capacity    \* how far the slowest backend may fall behind

VARIABLES
    pending,    \* what each process has yet to read: a sequence of messages,
                \* or "reset", or "out" if it is not a running backend
    data        \* what each process has read last

Out == <<"out">>        \* not a running backend
Reset == <<"reset">>    \* everything must be discarded

Running(p) == pending[p] # Out

Init ==
    /\ pending = [p \in Procs |-> Out]
    /\ data = [p \in Procs |-> "none"]

\* "With all extant messages already read."
Join(p) ==
    /\ pending[p] = Out
    /\ pending' = [pending EXCEPT ![p] = <<>>]
    /\ UNCHANGED data

Leave(p) ==
    /\ Running(p)
    /\ pending' = [pending EXCEPT ![p] = Out]
    /\ UNCHANGED data

Send(m) ==
    /\ pending' = [p \in Procs |-> IF pending[p] \in {Out, Reset}
                                   THEN pending[p]
                                   ELSE Append(pending[p], m)]
    /\ UNCHANGED data

\* A message may replace the queues only when a backend is a full buffer behind
\* or has not yet read the last reset.
Overflow ==
    /\ \E p \in Procs : pending[p] = Reset \/ Len(pending[p]) = Capacity
    /\ pending' = [p \in Procs |-> IF Running(p) THEN Reset ELSE Out]
    /\ UNCHANGED data

Receive(p) ==
    /\ Running(p)
    /\ pending[p] # <<>>
    /\ data' = [data EXCEPT ![p] = Head(pending[p])]
    /\ pending' = [pending EXCEPT ![p] = Tail(@)]

Next ==
    \/ Overflow
    \/ \E m \in Messages : Send(m)
    \/ \E p \in Procs : Join(p) \/ Leave(p) \/ Receive(p)

Spec == Init /\ [][Next]_<<pending, data>>
=============================================================================
