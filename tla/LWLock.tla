------------------------------- MODULE LWLock -------------------------------
(***************************************************************************)
(* The lightweight locks of PostgreSQL 7.4.2                               *)
(* (backend/storage/lmgr/lwlock.c) on top of the per-backend process       *)
(* semaphore (backend/port/sysv_sema.c).                                   *)
(*                                                                         *)
(* A section between SpinLockAcquire and SpinLockRelease is one action;    *)
(* everything outside of it is a step of its own, so that the steps of     *)
(* several backends interleave exactly where the code lets them.  The      *)
(* process semaphore is shared with the lock manager and the signal        *)
(* manager: their use of it is modelled by SemPost, SemTake and SemReset,  *)
(* which may happen at any moment the code allows.                         *)
(***************************************************************************)
EXTENDS Integers, Sequences, FiniteSets, Functions

CONSTANTS
    Backends,   \* the processes that have a PGPROC
    Locks,      \* the LWLockIds, numbered in the order callers nest them
    MaxOwed     \* bound on signals sent to a backend and not yet consumed

ASSUME BackendsFinite == IsFiniteSet(Backends)
ASSUME LocksNat == Locks \subseteq Nat /\ Locks # {}
ASSUME MaxOwedNat == MaxOwed \in Nat

VARIABLES
    \* the LWLock structure
    exclusive, shared,   \* number of exclusive and shared holders
    releaseOK,           \* T if ok to release waiters
    queue,               \* the list from head over lwWaitLink to tail
    \* the PGPROC fields and the local variables of each backend
    pc,
    req,                 \* the arguments of the LWLockAcquire in progress
    lwWaiting, lwExclusive,
    sem,                 \* count of the process semaphore
    extraWaits,
    held,                \* held_lwlocks[0 .. num_held_lwlocks - 1]
    holdoff,             \* InterruptHoldoffCount
    inError,             \* in error recovery: LWLockReleaseAll is running
    chain,               \* waiters a releaser has cut off and not yet woken
    woken,               \* the waiter whose semaphore it is about to unlock
    \* history variables
    owed,                \* signals of other modules sent to p, not consumed
    grant                \* the mode in which p holds l, or "none"

lockVars == <<exclusive, shared, releaseOK, queue>>
waitVars == <<req, lwWaiting, lwExclusive>>
semVars  == <<sem, extraWaits, owed>>
heldVars == <<held, holdoff, inError, grant>>
wakeVars == <<chain, woken>>
vars == <<lockVars, pc, waitVars, semVars, heldVars, wakeVars>>

Modes == {"exclusive", "shared"}
Request == [lock : Locks, mode : Modes]

\* The value of req[p] outside of LWLockAcquire, where it means nothing.
NoRequest == CHOOSE r \in Request : TRUE

Init ==
    /\ exclusive = [l \in Locks |-> 0]
    /\ shared = [l \in Locks |-> 0]
    /\ releaseOK = [l \in Locks |-> TRUE]
    /\ queue = [l \in Locks |-> <<>>]
    /\ pc = [p \in Backends |-> "run"]
    /\ req = [p \in Backends |-> NoRequest]
    /\ lwWaiting = [p \in Backends |-> FALSE]
    /\ lwExclusive = [p \in Backends |-> FALSE]
    /\ sem = [p \in Backends |-> 0]
    /\ extraWaits = [p \in Backends |-> 0]
    /\ held = [p \in Backends |-> <<>>]
    /\ holdoff = [p \in Backends |-> 0]
    /\ inError = [p \in Backends |-> FALSE]
    /\ chain = [p \in Backends |-> <<>>]
    /\ woken = [p \in Backends |-> p]
    /\ owed = [p \in Backends |-> 0]
    /\ grant = [p \in Backends |-> [l \in Locks |-> "none"]]
-----------------------------------------------------------------------------
\* Mutant: an exclusive request overlooks the shared holders.
Free_IgnoresShared(l, m) == exclusive[l] = 0

\* "If I can get the lock, do so quickly."
Free(l, m) ==
    /\ exclusive[l] = 0
    /\ m = "exclusive" => shared[l] = 0

\* lock->exclusive++ or lock->shared++.
Count(l, m) ==
    /\ exclusive' = IF m = "exclusive" THEN [exclusive EXCEPT ![l] = @ + 1]
                                       ELSE exclusive
    /\ shared' = IF m = "shared" THEN [shared EXCEPT ![l] = @ + 1]
                                 ELSE shared

\* held_lwlocks[num_held_lwlocks++] = lockid, with the mode remembered.
Hold(p, l, m) ==
    /\ held' = [held EXCEPT ![p] = Append(@, l)]
    /\ grant' = [grant EXCEPT ![p][l] = m]

\* "Add myself to wait queue."
Enqueue(p, l, m) ==
    /\ lwWaiting' = [lwWaiting EXCEPT ![p] = TRUE]
    /\ lwExclusive' = [lwExclusive EXCEPT ![p] = (m = "exclusive")]
    /\ queue' = [queue EXCEPT ![l] = Append(@, p)]

\* One pass of the outer loop of LWLockAcquire over the locked section: p
\* leaves with the lock, or joins the tail of the queue.
Section(p, l, m) ==
    \/ /\ Free(l, m)
       /\ Count(l, m)
       /\ Hold(p, l, m)
       /\ req' = [req EXCEPT ![p] = NoRequest]
       /\ pc' = [pc EXCEPT ![p] = IF extraWaits[p] > 0 THEN "repost" ELSE "run"]
       /\ UNCHANGED <<queue, lwWaiting, lwExclusive>>
    \/ /\ ~Free(l, m)
       /\ Enqueue(p, l, m)
       /\ req' = [req EXCEPT ![p] = [lock |-> l, mode |-> m]]
       /\ pc' = [pc EXCEPT ![p] = "wait"]
       /\ UNCHANGED <<exclusive, shared, held, grant>>

\* The callers nest their locks in one order: there is no deadlock detection.
InOrder(p, l) == \A k \in Range(held[p]) : k < l

\* LWLockAcquire up to the end of the first locked section.
LWLockAcquire(p, l, m) ==
    /\ pc[p] = "run"
    /\ InOrder(p, l)
    /\ holdoff' = [holdoff EXCEPT ![p] = @ + 1]
    /\ Section(p, l, m)
    /\ UNCHANGED <<releaseOK, semVars, inError, wakeVars>>

\* Mutant: every wakeup is taken for one of LWLockRelease.
AwaitWakeup_NoRecheck(p) ==
    /\ pc[p] = "wait"
    /\ sem[p] > 0
    /\ sem' = [sem EXCEPT ![p] = @ - 1]
    /\ pc' = [pc EXCEPT ![p] = "retry"]
    /\ UNCHANGED <<lockVars, waitVars, extraWaits, owed, heldVars, wakeVars>>

\* Mutant: absorbed wakeups are not counted.
AwaitWakeup_Forgets(p) ==
    /\ pc[p] = "wait"
    /\ sem[p] > 0
    /\ sem' = [sem EXCEPT ![p] = @ - 1]
    /\ pc' = [pc EXCEPT ![p] = IF lwWaiting[p] THEN "wait" ELSE "retry"]
    /\ UNCHANGED <<lockVars, waitVars, extraWaits, owed, heldVars, wakeVars>>

\* PGSemaphoreLock in the inner loop: leave it only if lwWaiting is clear.
AwaitWakeup(p) ==
    /\ pc[p] = "wait"
    /\ sem[p] > 0
    /\ sem' = [sem EXCEPT ![p] = @ - 1]
    /\ \/ /\ lwWaiting[p]
          /\ extraWaits' = [extraWaits EXCEPT ![p] = @ + 1]
          /\ UNCHANGED pc
       \/ /\ ~lwWaiting[p]
          /\ pc' = [pc EXCEPT ![p] = "retry"]
          /\ UNCHANGED extraWaits
    /\ UNCHANGED <<lockVars, waitVars, owed, heldVars, wakeVars>>

\* Mutant: wakeups are enabled again only by a retry that gets the lock.
Retry_KeepsDisabled(p) ==
    /\ pc[p] = "retry"
    /\ releaseOK' = [releaseOK EXCEPT ![req[p].lock] =
                        @ \/ Free(req[p].lock, req[p].mode)]
    /\ Section(p, req[p].lock, req[p].mode)
    /\ UNCHANGED <<semVars, holdoff, inError, wakeVars>>

\* "If retrying, allow LWLockRelease to release waiters again."
Retry(p) ==
    /\ pc[p] = "retry"
    /\ releaseOK' = [releaseOK EXCEPT ![req[p].lock] = TRUE]
    /\ Section(p, req[p].lock, req[p].mode)
    /\ UNCHANGED <<semVars, holdoff, inError, wakeVars>>

\* "Fix the process wait semaphore's count for any absorbed wakeups."
Repost(p) ==
    /\ pc[p] = "repost"
    /\ extraWaits' = [extraWaits EXCEPT ![p] = @ - 1]
    /\ sem' = [sem EXCEPT ![p] = @ + 1]
    /\ pc' = [pc EXCEPT ![p] = IF extraWaits[p] > 1 THEN "repost" ELSE "run"]
    /\ UNCHANGED <<lockVars, waitVars, owed, heldVars, wakeVars>>

\* LWLockConditionalAcquire: on failure the holdoff is undone, so nothing changes.
LWLockConditionalAcquire(p, l, m) ==
    /\ pc[p] = "run"
    /\ l \notin Range(held[p])
    /\ Free(l, m)
    /\ Count(l, m)
    /\ Hold(p, l, m)
    /\ holdoff' = [holdoff EXCEPT ![p] = @ + 1]
    /\ UNCHANGED <<releaseOK, queue, pc, waitVars, semVars, inError, wakeVars>>
-----------------------------------------------------------------------------
\* The list of held locks without its i-th member.
Without(s, i) == [j \in 1..(Len(s) - 1) |-> IF j < i THEN s[j] ELSE s[j + 1]]

\* The numbers of waiters a releaser takes off the front of a nonempty queue:
\* one exclusive waiter, or the longest prefix of shared ones.
WakeCounts(q) ==
    {n \in 1..Len(q) :
        \/ lwExclusive[q[1]] /\ n = 1
        \/ /\ \A i \in 1..n : ~lwExclusive[q[i]]
           /\ n < Len(q) => lwExclusive[q[n + 1]]}

\* "Now okay to allow cancel/die interrupts": return from LWLockRelease, which
\* was entered with the holdoff count h, to its caller.
Return(p, h) ==
    /\ pc' = [pc EXCEPT ![p] = IF inError[p] THEN "cleanup" ELSE "run"]
    /\ holdoff' = [holdoff EXCEPT ![p] = h - 1]

\* "See if I need to awaken any waiters", and cut them off the queue.
CutWaiters(p, l, h) ==
    IF queue[l] # <<>> /\ exclusive'[l] = 0 /\ shared'[l] = 0 /\ releaseOK[l]
    THEN /\ \E n \in WakeCounts(queue[l]) :
              /\ chain' = [chain EXCEPT ![p] = SubSeq(queue[l], 1, n)]
              /\ queue' = [queue EXCEPT ![l] = SubSeq(@, n + 1, Len(@))]
         /\ releaseOK' = [releaseOK EXCEPT ![l] = FALSE]
         /\ pc' = [pc EXCEPT ![p] = "wake"]
         /\ holdoff' = [holdoff EXCEPT ![p] = h]
    ELSE /\ Return(p, h)
         /\ UNCHANGED <<chain, queue, releaseOK>>

\* "Release my hold on lock", whose mode only the counters tell.
Uncount(l) ==
    IF exclusive[l] > 0
    THEN exclusive' = [exclusive EXCEPT ![l] = @ - 1] /\ UNCHANGED shared
    ELSE shared' = [shared EXCEPT ![l] = @ - 1] /\ UNCHANGED exclusive

\* LWLockRelease(held_lwlocks[i]) up to the end of the locked section.
ReleaseHeld(p, i, h) ==
    LET l == held[p][i] IN
    /\ held' = [held EXCEPT ![p] = Without(@, i)]
    /\ grant' = [grant EXCEPT ![p][l] = "none"]
    /\ Uncount(l)
    /\ CutWaiters(p, l, h)
    /\ UNCHANGED <<waitVars, semVars, woken>>

LWLockRelease(p, i) ==
    /\ pc[p] = "run"
    /\ i \in 1..Len(held[p])
    /\ ReleaseHeld(p, i, holdoff[p])
    /\ UNCHANGED inError

\* proc = head; head = proc->lwWaitLink; proc->lwWaiting = false
WakeFirst(p) ==
    /\ pc[p] = "wake"
    /\ woken' = [woken EXCEPT ![p] = Head(chain[p])]
    /\ chain' = [chain EXCEPT ![p] = Tail(@)]
    /\ lwWaiting' = [lwWaiting EXCEPT ![Head(chain[p])] = FALSE]
    /\ pc' = [pc EXCEPT ![p] = "post"]
    /\ UNCHANGED <<lockVars, req, lwExclusive, semVars, heldVars>>

\* Mutant: only the first waiter of the list is awakened.
PostWoken_FirstOnly(p) ==
    /\ pc[p] = "post"
    /\ sem' = [sem EXCEPT ![woken[p]] = @ + 1]
    /\ woken' = [woken EXCEPT ![p] = p]
    /\ chain' = [chain EXCEPT ![p] = <<>>]
    /\ Return(p, holdoff[p])
    /\ UNCHANGED <<lockVars, waitVars, extraWaits, owed, held, inError, grant>>

\* PGSemaphoreUnlock(&proc->sem), and back to the head of the loop.
PostWoken(p) ==
    /\ pc[p] = "post"
    /\ sem' = [sem EXCEPT ![woken[p]] = @ + 1]
    /\ woken' = [woken EXCEPT ![p] = p]
    /\ \/ /\ chain[p] # <<>>
          /\ pc' = [pc EXCEPT ![p] = "wake"]
          /\ UNCHANGED holdoff
       \/ /\ chain[p] = <<>>
          /\ Return(p, holdoff[p])
    /\ UNCHANGED <<lockVars, waitVars, extraWaits, owed, held, inError, grant, chain>>
-----------------------------------------------------------------------------
\* ereport(ERROR) outside of this module: control passes to the error recovery
\* of the main loop, which sets the holdoff count to 1.
Error(p) ==
    /\ pc[p] = "run"
    /\ inError' = [inError EXCEPT ![p] = TRUE]
    /\ holdoff' = [holdoff EXCEPT ![p] = 1]
    /\ pc' = [pc EXCEPT ![p] = "cleanup"]
    /\ UNCHANGED <<lockVars, waitVars, semVars, held, grant, wakeVars>>

\* One pass of the loop of LWLockReleaseAll: HOLD_INTERRUPTS() and LWLockRelease
\* of the lock acquired last.
LWLockReleaseAll(p) ==
    /\ pc[p] = "cleanup"
    /\ held[p] # <<>>
    /\ ReleaseHeld(p, Len(held[p]), holdoff[p] + 1)
    /\ UNCHANGED inError

\* No lock is held: the main loop leaves its holdoff section.
EndRecovery(p) ==
    /\ pc[p] = "cleanup"
    /\ held[p] = <<>>
    /\ inError' = [inError EXCEPT ![p] = FALSE]
    /\ holdoff' = [holdoff EXCEPT ![p] = @ - 1]
    /\ pc' = [pc EXCEPT ![p] = "run"]
    /\ UNCHANGED <<lockVars, waitVars, semVars, held, grant, wakeVars>>
-----------------------------------------------------------------------------
(***************************************************************************)
(* The other users of the process semaphore.                               *)
(***************************************************************************)
\* ProcSendSignal, or a grant by ProcWakeup: whatever p is doing.
SemPost(p) ==
    /\ owed[p] < MaxOwed
    /\ sem' = [sem EXCEPT ![p] = @ + 1]
    /\ owed' = [owed EXCEPT ![p] = @ + 1]
    /\ UNCHANGED <<lockVars, pc, waitVars, extraWaits, heldVars, wakeVars>>

\* The PGSemaphoreLock of ProcWaitForSignal or ProcSleep returns.
SemTake(p) ==
    /\ pc[p] = "run"
    /\ sem[p] > 0
    /\ sem' = [sem EXCEPT ![p] = @ - 1]
    /\ owed' = [owed EXCEPT ![p] = @ - 1]
    /\ UNCHANGED <<lockVars, pc, waitVars, extraWaits, heldVars, wakeVars>>

\* The PGSemaphoreReset of ProcCancelWaitForSignal or LockWaitCancel.
SemReset(p) ==
    /\ pc[p] = "run"
    /\ sem' = [sem EXCEPT ![p] = 0]
    /\ owed' = [owed EXCEPT ![p] = @ - sem[p]]
    /\ UNCHANGED <<lockVars, pc, waitVars, extraWaits, heldVars, wakeVars>>
-----------------------------------------------------------------------------
\* The steps that a backend inside this module takes by itself.
Step(p) ==
    \/ AwaitWakeup(p) \/ Retry(p) \/ Repost(p)
    \/ WakeFirst(p) \/ PostWoken(p)
    \/ LWLockReleaseAll(p) \/ EndRecovery(p)

\* The calls that the rest of the backend makes.
Call(p) ==
    \/ \E l \in Locks, m \in Modes :
          LWLockAcquire(p, l, m) \/ LWLockConditionalAcquire(p, l, m)
    \/ \E i \in 1..Len(held[p]) : LWLockRelease(p, i)
    \/ Error(p)
    \/ SemPost(p) \/ SemTake(p) \/ SemReset(p)

Next == \E p \in Backends : Step(p) \/ Call(p)

Spec == Init /\ [][Next]_vars

\* A process that can run does, and every critical section ends.
ReleaseLock(p, l) == \E i \in 1..Len(held[p]) :
                        held[p][i] = l /\ LWLockRelease(p, i)

Fairness == \A p \in Backends :
    /\ WF_vars(Step(p))
    /\ \A l \in Locks : SF_vars(ReleaseLock(p, l))

FairSpec == Spec /\ Fairness
-----------------------------------------------------------------------------
PCs == {"run", "wait", "retry", "repost", "wake", "post", "cleanup"}

TypeOK ==
    /\ exclusive \in [Locks -> Nat] /\ shared \in [Locks -> Nat]
    /\ releaseOK \in [Locks -> BOOLEAN]
    /\ queue \in [Locks -> Seq(Backends)]
    /\ pc \in [Backends -> PCs]
    /\ req \in [Backends -> Request]
    /\ lwWaiting \in [Backends -> BOOLEAN]
    /\ lwExclusive \in [Backends -> BOOLEAN]
    /\ sem \in [Backends -> Nat] /\ extraWaits \in [Backends -> Nat]
    /\ held \in [Backends -> Seq(Locks)]
    /\ holdoff \in [Backends -> Nat]
    /\ inError \in [Backends -> BOOLEAN]
    /\ chain \in [Backends -> Seq(Backends)]
    /\ woken \in [Backends -> Backends]
    /\ owed \in [Backends -> Nat]
    /\ grant \in [Backends -> [Locks -> Modes \union {"none"}]]

Holders(l, m) == {p \in Backends : grant[p][l] = m}

CountersExact ==
    \A l \in Locks :
        /\ exclusive[l] = Cardinality(Holders(l, "exclusive"))
        /\ shared[l] = Cardinality(Holders(l, "shared"))
        /\ exclusive[l] + shared[l] > 1 => exclusive[l] = 0

HeldListed ==
    \A p \in Backends :
        /\ IsInjective(held[p])
        /\ \A l \in Locks : l \in Range(held[p]) <=> grant[p][l] # "none"

\* held_lwlocks and the counters of the LWLock agree: the counters are the
\* numbers of backends that were granted the lock and have not released it,
\* an exclusive holder is alone, and the list of each backend, from which
\* error recovery releases, names each of its locks once.  LWLockRelease keeps
\* no mode: it infers from the counters which of the two it must decrement.
HoldersCounted == CountersExact /\ HeldListed

\* InterruptHoldoffCount counts one for each lock held or being acquired or
\* released, so cancel and die interrupts are accepted only outside of them;
\* error recovery leaves it at exactly 1 however many locks it releases.
HoldoffCounted ==
    \A p \in Backends :
        holdoff[p] = (IF inError[p] THEN 1 ELSE Len(held[p]))
                   + (IF pc[p] \in {"wait", "retry", "wake", "post"} THEN 1 ELSE 0)

\* The posts to p's semaphore that a releaser has announced by clearing
\* lwWaiting and has yet to make.
PostsDue(p) == {r \in Backends : pc[r] = "post" /\ woken[r] = p}

\* No wakeup of the lock manager or the signal manager is lost or invented by
\* a backend that waits for an LWLock on the same semaphore: what is in the
\* semaphore, absorbed, or due is what the others are owed, and one more for a
\* sleeper whose lwWaiting is already clear.
SemaphoreAccounting ==
    \A p \in Backends :
        sem[p] + extraWaits[p] + Cardinality(PostsDue(p)) =
            owed[p] + (IF pc[p] = "wait" /\ ~lwWaiting[p] THEN 1 ELSE 0)

\* p is in LWLockAcquire of l and no longer in the queue: it has been cut off
\* by a releaser and has not yet tried again.
Retryer(p, l) == /\ pc[p] \in {"wait", "retry"}
                 /\ req[p].lock = l
                 /\ p \notin Range(queue[l])

\* A waiter is never forgotten: wakeups of a lock are disabled only as long as
\* a backend is on its way to enable them again, and a lock with waiters and
\* enabled wakeups has a holder, whose release will see them.
NoLostWaiter ==
    \A l \in Locks :
        /\ ~releaseOK[l] => \E p \in Backends : Retryer(p, l)
        /\ releaseOK[l] /\ queue[l] # <<>> => exclusive[l] + shared[l] > 0

\* lwWaitLink is one field, used by the queue and by the list a releaser has
\* cut off: a sleeper whose lwWaiting is set is in exactly one of these lists,
\* once, and nobody else is in any.
OneList ==
    /\ \A l \in Locks : IsInjective(queue[l])
    /\ \A r \in Backends : IsInjective(chain[r])
    /\ \A p \in Backends :
          Cardinality({l \in Locks : p \in Range(queue[l])})
        + Cardinality({r \in Backends : p \in Range(chain[r])}) =
            IF pc[p] = "wait" /\ lwWaiting[p] THEN 1 ELSE 0

\* The locks behave as the readers-writer locks their callers think they are.
RW == INSTANCE RWLock WITH Backends <- Backends, Locks <- Locks, grant <- grant
RWSpec == RW!Spec

Waits(p, l) == pc[p] \in {"wait", "retry"} /\ req[p].lock = l

\* A wakeup is a hint: a waiter that finds the lock taken again goes back to
\* the tail of the queue and may be overtaken for ever, but only by others that
\* really get this lock, or one a holder of it may wait for.  No backend sleeps
\* for ever while the lock it wants is not being granted.
StarvedOnlyByOthers ==
    \A p \in Backends, l \in Locks :
        <>[]Waits(p, l) =>
            []<><<\E q \in Backends, k \in Locks :
                    k >= l /\ grant[q][k] = "none" /\ grant'[q][k] # "none">>_vars
=============================================================================
