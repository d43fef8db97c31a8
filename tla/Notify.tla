------------------------------- MODULE Notify -------------------------------
(***************************************************************************)
(* LISTEN and NOTIFY in PostgreSQL 7.4.2 (commands/async.c), for one       *)
(* notification name: the rows of pg_listener, the lock on it, SIGUSR2 and *)
(* the two flags that a backend shares with its signal handler.            *)
(*                                                                         *)
(* SIGUSR2 is blocked while its handler runs (libpq/pqsignal.c), so that   *)
(* the loop of the handler makes one turn.                                 *)
(***************************************************************************)
EXTENDS Naturals, FiniteSets

CONSTANTS
    Backends,
    Clients,     \* those whose clients send commands
    Nobody,
    Plans       \* what may happen besides NOTIFY: a set of subsets of Events

Events == {"listen", "unlisten", "exit", "cancel", "error"}
ASSUME ClientsAreBackends == Clients \subseteq Backends
ASSUME PlansKnown == Plans \subseteq SUBSET Events
ASSUME NobodyIsNoBackend == Nobody # "none" /\ Nobody \notin Backends /\ "none" \notin Backends

VARIABLES
    row,       \* pg_listener as committed: "none", or whose notification is pending for a backend
    mine,      \* what a transaction has done to its own row: "same", "listen" or "unlisten"
    pending,   \* pendingNotifies is not NIL
    marks,     \* the rows that the commit of a backend has set
    lock,      \* who has AccessExclusiveLock on pg_listener
    signal,    \* SIGUSR2 is on its way
    enabled,   \* notifyInterruptEnabled
    occurred,  \* notifyInterruptOccurred
    pc,        \* the main loop
    proc,      \* ProcessIncomingNotify
    handler,   \* the handler is what runs it
    seen,      \* what the scan of ProcessIncomingNotify has found
    owed,      \* history: a NOTIFY has committed that the client has not been told about
    plan       \* what may happen in this behaviour
notifyVars == <<row, mine, pending, marks, lock, signal, enabled, occurred, pc, proc, handler, seen, owed, plan>>

xact == <<mine, pending, marks>>
flags == <<signal, enabled, occurred>>
inbound == <<proc, handler, seen>>

NotifyInit ==
    /\ row \in [Backends -> {"none", Nobody}]
    /\ mine = [b \in Backends |-> "same"] /\ pending = [b \in Backends |-> FALSE]
    /\ marks = [b \in Backends |-> {}] /\ lock = Nobody
    /\ signal = [b \in Backends |-> FALSE]
    /\ enabled = [b \in Backends |-> FALSE] /\ occurred = [b \in Backends |-> FALSE]
    /\ pc = [b \in Backends |-> "enable"] /\ proc = [b \in Backends |-> "none"]
    /\ handler = [b \in Backends |-> FALSE] /\ seen = [b \in Backends |-> Nobody]
    /\ owed = [b \in Backends |-> FALSE]
    /\ plan \in Plans

Goto(b, l) == pc' = [pc EXCEPT ![b] = l]
At(b, l) == pc[b] = l /\ ~handler[b]
RowPending(b) == row[b] \in Backends
-----------------------------------------------------------------------------
(***************************************************************************)
(* The commands of a transaction.  It does one LISTEN or UNLISTEN at most. *)
(* Both give up the lock on pg_listener long before they commit.           *)
(***************************************************************************)
Async_Notify(b) ==
    /\ At(b, "busy") /\ ~pending[b]
    /\ pending' = [pending EXCEPT ![b] = TRUE]
    /\ UNCHANGED <<row, mine, marks, lock, flags, pc, inbound, owed>>

Async_Listen(b) ==
    /\ "listen" \in plan /\ At(b, "busy") /\ mine[b] = "same" /\ lock = Nobody
    /\ row[b] = "none"
    /\ mine' = [mine EXCEPT ![b] = "listen"]
    /\ UNCHANGED <<row, pending, marks, lock, flags, pc, inbound, owed>>

Async_Unlisten(b) ==
    /\ "unlisten" \in plan /\ At(b, "busy") /\ mine[b] = "same" /\ lock = Nobody
    /\ row[b] # "none"
    /\ mine' = [mine EXCEPT ![b] = "unlisten"]
    /\ UNCHANGED <<row, pending, marks, lock, flags, pc, inbound, owed>>

\* AtAbort_Notify.
Abort(b) ==
    /\ At(b, "busy")
    /\ mine' = [mine EXCEPT ![b] = "same"] /\ pending' = [pending EXCEPT ![b] = FALSE]
    /\ Goto(b, "enable")
    /\ UNCHANGED <<row, marks, lock, flags, inbound, owed>>
-----------------------------------------------------------------------------
(***************************************************************************)
(* The commit.                                                             *)
(***************************************************************************)
\* What the commit of b makes of its own row.
OwnRow(b) == CASE mine[b] = "listen" -> Nobody
               [] mine[b] = "unlisten" -> "none"
               [] OTHER -> row[b]

CommitQuietly(b) ==
    /\ At(b, "busy") /\ ~pending[b]
    /\ row' = [row EXCEPT ![b] = OwnRow(b)]
    /\ owed' = [owed EXCEPT ![b] = @ /\ OwnRow(b) # "none"]
    /\ mine' = [mine EXCEPT ![b] = "same"]
    /\ Goto(b, "enable")
    /\ UNCHANGED <<pending, marks, lock, flags, inbound>>

Listeners(b) == {l \in Backends \ {b} : row[l] # "none"}

\* A row with an uncommitted UNLISTEN is left as it is (HeapTupleBeingUpdated).
AtCommit_Notify(b) ==
    /\ At(b, "busy") /\ pending[b] /\ lock = Nobody
    /\ lock' = b
    /\ signal' = [l \in Backends |-> signal[l] \/ l \in Listeners(b)]
    /\ marks' = [marks EXCEPT ![b] = {l \in Listeners(b) : row[l] = Nobody /\ mine[l] # "unlisten"}]
    /\ pending' = [pending EXCEPT ![b] = FALSE]
    /\ Goto(b, "commit")
    /\ UNCHANGED <<row, mine, enabled, occurred, inbound, owed>>

RecordCommit(b) ==
    /\ At(b, "commit")
    /\ row' = [l \in Backends |-> CASE l \in marks[b] -> b
                                    [] l = b -> OwnRow(b)
                                    [] OTHER -> row[l]]
    /\ owed' = [l \in Backends |-> IF l = b THEN owed[l] /\ OwnRow(b) # "none"
                                            ELSE owed[l] \/ row[l] # "none"]
    /\ mine' = [mine EXCEPT ![b] = "same"] /\ marks' = [marks EXCEPT ![b] = {}]
    /\ Goto(b, "unlock")
    /\ UNCHANGED <<pending, lock, flags, inbound>>

Unlock(b) ==
    /\ At(b, "unlock")
    /\ lock' = IF lock = b THEN Nobody ELSE lock
    /\ Goto(b, "enable")
    /\ UNCHANGED <<row, xact, flags, inbound, owed>>

\* An error between AtCommit_Notify and RecordTransactionCommit.
FailedCommit(b) ==
    /\ "error" \in plan /\ At(b, "commit")
    /\ mine' = [mine EXCEPT ![b] = "same"] /\ marks' = [marks EXCEPT ![b] = {}]
    /\ lock' = Nobody
    /\ Goto(b, "enable")
    /\ UNCHANGED <<row, pending, flags, inbound, owed>>
-----------------------------------------------------------------------------
(***************************************************************************)
(* ProcessIncomingNotify, for the main loop or for the handler.            *)
(***************************************************************************)
StartProcess(b) ==
    /\ occurred' = [occurred EXCEPT ![b] = FALSE]
    /\ proc' = [proc EXCEPT ![b] = "lock"]

\* Mutant: the lock is given up with the scan.
Scan_Unlocks(b) ==
    /\ proc[b] = "lock" /\ lock = Nobody
    /\ seen' = [seen EXCEPT ![b] = row[b]]
    /\ owed' = [owed EXCEPT ![b] = FALSE]
    /\ proc' = [proc EXCEPT ![b] = "commit"]
    /\ UNCHANGED <<row, xact, lock, flags, pc, handler>>

Scan(b) ==
    /\ proc[b] = "lock" /\ lock = Nobody
    /\ lock' = b
    /\ seen' = [seen EXCEPT ![b] = row[b]]
    /\ owed' = [owed EXCEPT ![b] = FALSE]
    /\ proc' = [proc EXCEPT ![b] = "commit"]
    /\ UNCHANGED <<row, xact, flags, pc, handler>>

Finish(b) ==
    /\ proc[b] = "commit"
    /\ row' = [row EXCEPT ![b] = IF seen[b] \in Backends THEN Nobody ELSE @]
    /\ lock' = IF lock = b THEN Nobody ELSE lock
    /\ proc' = [proc EXCEPT ![b] = "none"] /\ handler' = [handler EXCEPT ![b] = FALSE]
    /\ enabled' = [enabled EXCEPT ![b] = handler[b]]
    /\ IF handler[b] THEN UNCHANGED pc ELSE Goto(b, "enable")
    /\ UNCHANGED <<xact, signal, occurred, seen, owed>>

\* A query cancel while it waits for the lock: back to the top of the main loop.
Cancel(b) ==
    /\ "cancel" \in plan /\ proc[b] = "lock" /\ lock # Nobody
    /\ proc' = [proc EXCEPT ![b] = "none"] /\ handler' = [handler EXCEPT ![b] = FALSE]
    /\ enabled' = [enabled EXCEPT ![b] = FALSE]
    /\ Goto(b, "enable")
    /\ UNCHANGED <<row, xact, lock, signal, occurred, seen, owed>>
-----------------------------------------------------------------------------
(***************************************************************************)
(* The main loop around EnableNotifyInterrupt, and the signal handler,     *)
(* which may come between any two of its steps.                            *)
(***************************************************************************)
SetEnabled(b) ==
    /\ At(b, "enable")
    /\ enabled' = [enabled EXCEPT ![b] = TRUE]
    /\ Goto(b, "test")
    /\ UNCHANGED <<row, xact, lock, signal, occurred, inbound, owed>>

\* Mutant: the flag is not looked at after the handler has been enabled.
TestOccurred_Not(b) ==
    /\ At(b, "test")
    /\ Goto(b, "idle")
    /\ UNCHANGED <<row, xact, lock, flags, inbound, owed>>

TestOccurred(b) ==
    /\ At(b, "test")
    /\ Goto(b, IF occurred[b] THEN "disable" ELSE "idle")
    /\ UNCHANGED <<row, xact, lock, flags, inbound, owed>>

ClearEnabled(b) ==
    /\ At(b, "disable")
    /\ enabled' = [enabled EXCEPT ![b] = FALSE]
    /\ Goto(b, "retest")
    /\ UNCHANGED <<row, xact, lock, signal, occurred, inbound, owed>>

Retest(b) ==
    /\ At(b, "retest")
    /\ IF occurred[b] THEN Goto(b, "process") /\ StartProcess(b)
                      ELSE Goto(b, "enable") /\ UNCHANGED <<occurred, proc>>
    /\ UNCHANGED <<row, xact, lock, signal, enabled, handler, seen, owed>>

\* ReadCommand returns, and DisableNotifyInterrupt.
ReceiveCommand(b) ==
    /\ b \in Clients /\ At(b, "idle")
    /\ enabled' = [enabled EXCEPT ![b] = FALSE]
    /\ Goto(b, "busy")
    /\ UNCHANGED <<row, xact, lock, signal, occurred, inbound, owed>>

\* Mutant: the handler does nothing while it is disabled.
Handle_Drops(b) ==
    /\ signal[b] /\ ~handler[b] /\ pc[b] # "exit"
    /\ signal' = [signal EXCEPT ![b] = FALSE]
    /\ IF enabled[b]
       THEN /\ enabled' = [enabled EXCEPT ![b] = FALSE]
            /\ handler' = [handler EXCEPT ![b] = TRUE]
            /\ StartProcess(b)
       ELSE UNCHANGED <<occurred, enabled, handler, proc>>
    /\ UNCHANGED <<row, xact, lock, pc, seen, owed>>

\* Async_NotifyHandler.
Handle(b) ==
    /\ signal[b] /\ ~handler[b] /\ pc[b] # "exit"
    /\ signal' = [signal EXCEPT ![b] = FALSE]
    /\ IF enabled[b]
       THEN /\ enabled' = [enabled EXCEPT ![b] = FALSE]
            /\ handler' = [handler EXCEPT ![b] = TRUE]
            /\ StartProcess(b)
       ELSE occurred' = [occurred EXCEPT ![b] = TRUE] /\ UNCHANGED <<enabled, handler, proc>>
    /\ UNCHANGED <<row, xact, lock, pc, seen, owed>>

\* The backend ends; its handler does nothing from now on.
Exit(b) ==
    /\ "exit" \in plan /\ (At(b, "busy") \/ At(b, "idle"))
    /\ mine' = [mine EXCEPT ![b] = "same"] /\ pending' = [pending EXCEPT ![b] = FALSE]
    /\ owed' = [owed EXCEPT ![b] = FALSE]
    /\ enabled' = [enabled EXCEPT ![b] = FALSE]
    /\ Goto(b, "exit")
    /\ UNCHANGED <<row, marks, lock, signal, occurred, inbound>>

\* Async_UnlistenOnExit; another backend takes its place.
UnlistenOnExit(b) ==
    /\ pc[b] = "exit" /\ lock = Nobody
    /\ row' = [row EXCEPT ![b] = "none"] /\ owed' = [owed EXCEPT ![b] = FALSE]
    /\ signal' = [signal EXCEPT ![b] = FALSE] /\ occurred' = [occurred EXCEPT ![b] = FALSE]
    /\ Goto(b, "enable")
    /\ UNCHANGED <<xact, lock, enabled, inbound>>
-----------------------------------------------------------------------------
EndXact(b) == CommitQuietly(b) \/ AtCommit_Notify(b) \/ Abort(b)
Loop(b) ==
    \/ RecordCommit(b) \/ Unlock(b) \/ Finish(b)
    \/ SetEnabled(b) \/ TestOccurred(b) \/ ClearEnabled(b) \/ Retest(b)

NotifyNext ==
    /\ \E b \in Backends :
        \/ Async_Notify(b) \/ Async_Listen(b) \/ Async_Unlisten(b) \/ EndXact(b)
        \/ FailedCommit(b) \/ Loop(b) \/ Scan(b) \/ Cancel(b)
        \/ ReceiveCommand(b) \/ Handle(b) \/ Exit(b) \/ UnlistenOnExit(b)
    /\ UNCHANGED plan

NotifySpec == NotifyInit /\ [][NotifyNext]_notifyVars

(***************************************************************************)
(* A backend runs, a client ends its transactions, and the lock on         *)
(* pg_listener, which has a queue, is granted to everybody.                *)
(***************************************************************************)
NotifyFairSpec ==
    /\ NotifySpec
    /\ \A b \in Backends :
        /\ WF_notifyVars(Loop(b) /\ UNCHANGED plan) /\ WF_notifyVars(Handle(b) /\ UNCHANGED plan)
        /\ SF_notifyVars((EndXact(b) \/ Scan(b) \/ UnlistenOnExit(b)) /\ UNCHANGED plan)
-----------------------------------------------------------------------------
Places == {"enable", "test", "disable", "retest", "process", "idle", "busy", "commit", "unlock", "exit"}

\* A backend for which a notification is pending knows or will be told, unless queries are
\* cancelled: a signal is on its way, the flag is set, or it has yet to scan pg_listener.
PendingIsSignalled ==
    "cancel" \notin plan =>
        \A b \in Backends : RowPending(b) /\ pc[b] # "exit" => signal[b] \/ occurred[b] \/ proc[b] # "none"

\* Incoming notifies are processed between transactions only, and never by the handler while
\* the main loop does it.
NotReentered ==
    \A b \in Backends : /\ handler[b] => pc[b] \in {"test", "disable", "idle"}
                        /\ proc[b] # "none" /\ ~handler[b] <=> pc[b] = "process"

\* Where nobody begins or ceases to listen and no query is cancelled: who is a listener when a
\* NOTIFY commits has it in its row until its client is told, "sends a notification event to
\* each client application that has previously executed LISTEN".
ListenersReached ==
    plan \cap {"listen", "unlisten", "cancel"} = {} =>
        \A b \in Backends : owed[b] => RowPending(b)

\* A pending notification reaches the client, if that one does not stay in a transaction and no
\* query is cancelled.
Delivered == \A b \in Backends : (RowPending(b) /\ "cancel" \notin plan) ~> ~RowPending(b)
=============================================================================
