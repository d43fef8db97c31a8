------------------------------ MODULE LockMgr ------------------------------
(***************************************************************************)
(* The regular locks of PostgreSQL 7.4.2: the lock table of                *)
(* backend/storage/lmgr/lock.c and the wait queues of proc.c.              *)
(*                                                                         *)
(* Everything that a backend does while it holds LockMgrLock is one        *)
(* action, except for LockReleaseAll, which posts to semaphores between    *)
(* two PROCLOCKs and is one action per PROCLOCK.  A waiter sleeps outside  *)
(* of LockMgrLock: there its wakeup, its deadlock timeout and a cancel or  *)
(* die interrupt race with each other.  LOCK objects are named by their    *)
(* place in shared memory, which is used again after they are freed.       *)
(***************************************************************************)
EXTENDS Integers, Sequences, FiniteSets, SequencesExt

CONSTANTS
    Procs,          \* the processes that have a PGPROC
    Tags,           \* the lockable objects
    NumSlots,       \* number of places for LOCK objects in shared memory
    Modes,          \* the lock modes in use, among 1 .. 8
    Requests,       \* the pairs <<tag, mode>> that transactions ask for
    Xids,           \* "xact": the current transaction's xid, "session": xid 0
    MaxProclocks,   \* bound on the PROCLOCK objects that requests create
    MaxHold,        \* bound on the holds of one mode by one PROCLOCK
    Cancellable,    \* the processes that get cancel and die interrupts
    CreateWhileDangling  \* bound: if FALSE, no LOCK is created while a PROCLOCK
                         \* is left of a LOCK that has been freed

ASSUME ProcsFinite == IsFiniteSet(Procs)
ASSUME MaxHoldNat == MaxHold \in Nat
ASSUME NumSlotsNat == NumSlots \in Nat
ASSUME ModesRange == Modes \subseteq 1..8
ASSUME RequestsRange == Requests \subseteq Tags \X Modes
ASSUME XidsRange == Xids \subseteq {"xact", "session"}
ASSUME CancellableProcs == Cancellable \subseteq Procs
ASSUME CreateWhileDanglingBool == CreateWhileDangling \in BOOLEAN

Slots == 1..NumSlots

\* The lock and the key fields of a PROCLOCK, and the elements of the lists
\* that are threaded through lockLink: <<s>> is the head in the LOCK at s.
Key  == Slots \X Procs \X Xids
Node == {<<s>> : s \in Slots} \union Key

VARIABLES
    lockHash,       \* the lock table: the place of the LOCK with this tag, or 0
    freeLocks,      \* the free LOCK elements, the one freed last first
    lock,           \* the LOCK objects
    proclockHash,   \* the keys of the PROCLOCK objects in their table
    proclock,       \* holding and nHolding of each PROCLOCK
    lockLink,       \* next and prev in the lockHolders lists
    procHolders,    \* the PROCLOCKs of each process
    wait,           \* the fields of the PGPROC that describe its wait
    sem,            \* count of the process semaphore
    alarm,          \* the deadlock timer is running
    pc,
    rest            \* PROCLOCKs that the LockReleaseAll in progress has yet to see

tableVars == <<lockHash, freeLocks, proclockHash, lockLink, procHolders>>
vars == <<tableVars, lock, proclock, wait, sem, alarm, pc, rest>>

\* LockConflicts: the modes that conflict with mode m.
ConflictTab ==
    << {8}, {7, 8}, {5, 6, 7, 8}, {4, 5, 6, 7, 8}, {3, 4, 6, 7, 8},
       {3, 4, 5, 6, 7, 8}, 2..8, 1..8 >>

Zero == [m \in Modes |-> 0]

\* A LOCK as LockAcquire initializes it.
NewLock(t) ==
    [tag |-> t, nRequested |-> 0, nGranted |-> 0, requested |-> Zero,
     granted |-> Zero, grantMask |-> {}, waitMask |-> {}, waitProcs |-> <<>>]

NewProclock == [holding |-> Zero, nHolding |-> 0]

\* The wait fields outside of LockAcquire, where nothing reads them.
NoWait == [lock |-> 0, holder |-> <<>>, mode |-> 0, heldLocks |-> {}, errType |-> "ok"]

Invalid == [next |-> <<>>, prev |-> <<>>]

Init ==
    /\ lockHash = [t \in Tags |-> 0]
    /\ freeLocks = [i \in Slots |-> i]
    /\ lock = [s \in Slots |-> NewLock(CHOOSE t \in Tags : TRUE)]
    /\ proclockHash = {}
    /\ proclock = [k \in Key |-> NewProclock]
    /\ lockLink = [n \in Node |-> Invalid]
    /\ procHolders = [p \in Procs |-> <<>>]
    /\ wait = [p \in Procs |-> NoWait]
    /\ sem = [p \in Procs |-> 0]
    /\ alarm = [p \in Procs |-> FALSE]
    /\ pc = [p \in Procs |-> "run"]
    /\ rest = <<>>
-----------------------------------------------------------------------------

\* The shared memory lists: SHMQueueInit, SHMQueueInsertBefore, SHMQueueDelete.
SHMQueueInit(q, h) == [q EXCEPT ![h] = [next |-> h, prev |-> h]]

SHMQueueInsertBefore(q, h, e) ==
    LET last == q[h].prev IN
    [q EXCEPT ![e] = [next |-> q[last].next, prev |-> last],
              ![h].prev = e,
              ![last].next = e]

SHMQueueDelete(q, e) ==
    [q EXCEPT ![q[e].prev].next = q[e].next,
              ![q[e].next].prev = q[e].prev,
              ![e] = Invalid]

\* The PROCLOCKs that a scan of the lockHolders list of the LOCK at s meets.
LockHolders(s) ==
    LET at[i \in 0..Cardinality(Procs \X Xids)] ==
            IF i = 0 THEN lockLink[<<s>>].next
            ELSE LET n == at[i - 1] IN IF n = <<s>> THEN n ELSE lockLink[n].next
    IN  Range(at) \ {<<s>>}

\* What the PROCLOCKs in K hold, if their state is pl: <<k, m, 1>>, <<k, m, 2>> ...
\* for the times that k holds mode m (at most MaxHold).
Holds(pl, K) == {h \in K \X Modes \X (1..MaxHold) : h[3] <= pl[h[1]].holding[h[2]]}
HoldsOf(pl, K, m) == {h \in Holds(pl, K) : h[2] = m}

\* LockCountMyLocks: what p holds of the LOCK at s, under any xid.
LockCountMyLocks(p, s) ==
    [m \in Modes |->
        Cardinality(HoldsOf(proclock, {k \in ToSet(procHolders[p]) : k[1] = s}, m))]

\* Mutant: a mode that I hold is taken for held by me alone.
LockCheckConflicts_Alone(L, m, myHolding) ==
    \/ ConflictTab[m] \intersect L.grantMask = {}
    \/ \A i \in ConflictTab[m] \intersect Modes : L.granted[i] > 0 => myHolding[i] > 0

\* LockCheckConflicts: mode m does not conflict with what others hold of L.
LockCheckConflicts(L, m, myHolding) ==
    \/ ConflictTab[m] \intersect L.grantMask = {}
    \/ \A i \in ConflictTab[m] \intersect Modes : L.granted[i] = myHolding[i]

\* GrantLock, its part for the LOCK: the requests G, pairs of a process and a
\* mode, are granted.
GrantLock(L, G) ==
    LET n == [i \in Modes |-> Cardinality({g \in G : g[2] = i})]
        granted == [i \in Modes |-> L.granted[i] + n[i]] IN
    [L EXCEPT !.nGranted = @ + Cardinality(G),
              !.granted = granted,
              !.grantMask = @ \union {i \in Modes : n[i] > 0},
              !.waitMask = @ \ {i \in Modes : n[i] > 0 /\ granted[i] = L.requested[i]}]

\* GrantLock, its part for the PROCLOCK; and the converse.
Hold(pl, m)   == [pl EXCEPT !.holding[m] = @ + 1, !.nHolding = @ + 1]
Unhold(pl, m) == [pl EXCEPT !.holding[m] = @ - 1, !.nHolding = @ - 1]

\* The sequence of the elements of q that are not in W: SHMQueueDelete, for the
\* lists that nothing but their order matters of.
Without(q, W) ==
    IF ~\E i \in DOMAIN q : q[i] \in W THEN q
    ELSE LET kept == {i \in DOMAIN q : q[i] \notin W} IN
         [i \in 1..Cardinality(kept) |->
            q[CHOOSE j \in kept : Cardinality({h \in kept : h <= j}) = i]]

\* L after the members W of its wait queue got what they wait for.
GrantWaiters(L, W) ==
    [GrantLock(L, {<<w, wait[w].mode>> : w \in W}) EXCEPT !.waitProcs = Without(@, W)]

\* The requests of the first n waiters of L that are not in W.
AheadRequests(L, n, W) ==
    {wait[L.waitProcs[j]].mode : j \in {j \in 1..n : L.waitProcs[j] \notin W}}

\* ProcLockWakeup, its scan of the wait queue of the LOCK L at s: W are the waiters
\* that conflict neither with an earlier waiter that stays nor with the locks that
\* are held when it is their turn.
Wakable(s, L, W) ==
    /\ W \subseteq ToSet(L.waitProcs)
    /\ \A i \in 1..Len(L.waitProcs) :
        LET p == L.waitProcs[i]
            m == wait[p].mode
            before == {L.waitProcs[j] : j \in 1..(i - 1)} IN
        p \in W <=>
            /\ ConflictTab[m] \intersect AheadRequests(L, i - 1, W) = {}
            /\ LockCheckConflicts(GrantWaiters(L, W \intersect before), m,
                                  LockCountMyLocks(p, s))

\* Mutant: a waiter that is awakened is left to record the grant for itself.
ProcLockWakeup_WaiterGrants(S, Ls, pl, wt, sm) ==
    \E W \in [S -> SUBSET Procs] :
        LET woken == UNION {W[s] : s \in S} IN
        /\ \A s \in S : Wakable(s, Ls[s], W[s])
        /\ lock' = [s \in Slots |-> IF s \in S THEN GrantWaiters(Ls[s], W[s]) ELSE Ls[s]]
        /\ proclock' = pl
        /\ wait' = [p \in Procs |-> IF p \in woken THEN [wt[p] EXCEPT !.lock = 0, !.errType = "ok"]
                                    ELSE wt[p]]
        /\ sem' = [p \in Procs |-> IF p \in woken THEN sm[p] + 1 ELSE sm[p]]

\* ProcLockWakeup on the LOCKs at S, whose state is Ls, with ProcWakeup of each
\* waiter that is served.  The other arguments are what the rest of the action
\* makes of the PROCLOCKs, the waits and the semaphores.
ProcLockWakeup(S, Ls, pl, wt, sm) ==
    \E W \in [S -> SUBSET Procs] :
        LET woken == UNION {W[s] : s \in S} IN
        /\ \A s \in S : Wakable(s, Ls[s], W[s])
        /\ lock' = [s \in Slots |-> IF s \in S THEN GrantWaiters(Ls[s], W[s]) ELSE Ls[s]]
        /\ proclock' = [k \in Key |-> IF k[2] \in woken /\ k = wait[k[2]].holder
                                      THEN Hold(pl[k], wait[k[2]].mode) ELSE pl[k]]
        /\ wait' = [p \in Procs |-> IF p \in woken THEN [wt[p] EXCEPT !.lock = 0, !.errType = "ok"]
                                    ELSE wt[p]]
        /\ sem' = [p \in Procs |-> IF p \in woken THEN sm[p] + 1 ELSE sm[p]]

\* Mutant: "don't forget to clear waitMask bit if appropriate".
Dequeue_KeepsMask(L, p, m) ==
    [L EXCEPT !.waitProcs = Without(@, {p}),
              !.nRequested = @ - 1, !.requested[m] = @ - 1]

\* RemoveFromWaitQueue, its effect on the LOCK L: p no longer requests mode m.
Dequeue(L, p, m) ==
    [L EXCEPT !.waitProcs = Without(@, {p}),
              !.nRequested = @ - 1,
              !.requested[m] = @ - 1,
              !.waitMask = IF L.granted[m] = L.requested[m] - 1 THEN @ \ {m} ELSE @]
-----------------------------------------------------------------------------
\* Nobody is inside of LockReleaseAll, the only user of LockMgrLock that takes
\* more than one step.
LockMgrLockFree == \A p \in Procs : pc[p] # "release"

\* LockAcquire may grant at once: p holds mode m of the object under some xid,
\* or m conflicts neither with what is waited for nor with what others hold.
GrantAtOnce(L, m, myHolding) ==
    \/ myHolding[m] > 0
    \/ /\ ConflictTab[m] \intersect L.waitMask = {}
       /\ LockCheckConflicts(L, m, myHolding)

\* p gets the mode it has asked for without waiting.
GrantNow(k, L, m, pl) ==
    /\ lock' = [lock EXCEPT ![k[1]] = GrantLock(L, {<<k[2], m>>})]
    /\ proclock' = [pl EXCEPT ![k] = Hold(@, m)]
    /\ UNCHANGED <<wait, sem, alarm, pc>>

\* ProcSleep up to its sleep.  A process that already holds some of the object
\* goes before the first waiter that must wait for it: "Must he wait for me?"
ProcSleep(p, k, L, m, myHolding, pl) ==
    LET q == L.waitProcs
        held == {i \in Modes : myHolding[i] > 0}
        mustWaitForMe == {i \in 1..Len(q) : ConflictTab[wait[q[i]].mode] \intersect held # {}}
        ahead == mustWaitForMe # {}
        at == IF ahead THEN Min(mustWaitForMe) ELSE Len(q) + 1
        earlyDeadlock == ahead /\ ConflictTab[m] \intersect wait[q[at]].heldLocks # {}
        skipWait == /\ ahead /\ ~earlyDeadlock
                    /\ ConflictTab[m] \intersect AheadRequests(L, at - 1, {}) = {}
                    /\ LockCheckConflicts(L, m, myHolding)
        queued == [L EXCEPT !.waitProcs = InsertAt(q, at, p), !.waitMask = @ \union {m}]
    IN
    \/ /\ skipWait
       /\ GrantNow(k, L, m, pl)
    \/ /\ earlyDeadlock
       /\ ProcLockWakeup({k[1]}, [lock EXCEPT ![k[1]] = Dequeue(queued, p, m)],
                         pl, wait, sem)
       /\ pc' = [pc EXCEPT ![p] = "abort"]
       /\ UNCHANGED alarm
    \/ /\ ~skipWait /\ ~earlyDeadlock
       /\ lock' = [lock EXCEPT ![k[1]] = queued]
       /\ wait' = [wait EXCEPT ![p] = [lock |-> k[1], holder |-> k, mode |-> m,
                                       heldLocks |-> held, errType |-> "ok"]]
       /\ alarm' = [alarm EXCEPT ![p] = TRUE]
       /\ pc' = [pc EXCEPT ![p] = "wait"]
       /\ proclock' = pl
       /\ UNCHANGED sem

\* There is a place for a new LOCK.
CanCreateLock ==
    /\ freeLocks # <<>>
    /\ CreateWhileDangling \/ \A k \in proclockHash : k[1] \notin ToSet(freeLocks)

\* LockAcquire, until it returns or sleeps.  With dontWait it returns FALSE
\* where it would sleep, after it has undone the request: no change.
LockAcquire(p, t, x, m) ==
    LET found == lockHash[t] # 0
        s == IF found THEN lockHash[t] ELSE Head(freeLocks)
        k == <<s, p, x>>
        L == IF found THEN lock[s] ELSE NewLock(t)
        requested == [L EXCEPT !.nRequested = @ + 1, !.requested[m] = @ + 1]
        lists == IF found THEN lockLink ELSE SHMQueueInit(lockLink, <<s>>)
        new == k \notin proclockHash
        pl == IF new THEN [proclock EXCEPT ![k] = NewProclock] ELSE proclock
        myHolding == LockCountMyLocks(p, s)
    IN
    /\ pc[p] = "run" /\ LockMgrLockFree
    /\ <<t, m>> \in Requests
    /\ found \/ CanCreateLock
    /\ ~new \/ Cardinality(proclockHash) < MaxProclocks
    /\ pl[k].holding[m] < MaxHold
    /\ lockHash' = [lockHash EXCEPT ![t] = s]
    /\ freeLocks' = IF found THEN freeLocks ELSE Tail(freeLocks)
    /\ proclockHash' = proclockHash \union {k}
    /\ lockLink' = IF new THEN SHMQueueInsertBefore(lists, <<s>>, k) ELSE lists
    /\ procHolders' = IF new THEN [procHolders EXCEPT ![p] = Append(@, k)]
                             ELSE procHolders
    /\ IF GrantAtOnce(requested, m, myHolding)
       THEN GrantNow(k, requested, m, pl)
       ELSE ProcSleep(p, k, requested, m, myHolding, pl)
    /\ UNCHANGED rest

\* LockAcquire finds no room: "out of shared memory".  The hash tables share what
\* is left of it, so this may happen to any request for a new LOCK or PROCLOCK.
\* A LOCK that was created for the request stays in the table.
LockAcquireFails(p, t, x) ==
    /\ pc[p] = "run" /\ LockMgrLockFree
    /\ \/ /\ <<lockHash[t], p, x>> \notin proclockHash
          /\ UNCHANGED <<tableVars, lock>>
       \/ /\ lockHash[t] = 0 /\ CanCreateLock
          /\ lockHash' = [lockHash EXCEPT ![t] = Head(freeLocks)]
          /\ freeLocks' = Tail(freeLocks)
          /\ lock' = [lock EXCEPT ![Head(freeLocks)] = NewLock(t)]
          /\ lockLink' = SHMQueueInit(lockLink, <<Head(freeLocks)>>)
          /\ UNCHANGED <<proclockHash, procHolders>>
    /\ pc' = [pc EXCEPT ![p] = "abort"]
    /\ UNCHANGED <<proclock, wait, sem, alarm, rest>>
-----------------------------------------------------------------------------
\* The PROCLOCK with key k leaves its lists and its table.
DeleteProclock(k) ==
    /\ lockLink' = SHMQueueDelete(lockLink, k)
    /\ procHolders' = [procHolders EXCEPT ![k[2]] = Without(@, {k})]
    /\ proclockHash' = proclockHash \ {k}

\* hash_search(HASH_REMOVE) of the LOCK with tag t, which is in the table.
FreeLock(t) ==
    /\ lockHash' = [lockHash EXCEPT ![t] = 0]
    /\ freeLocks' = <<lockHash[t]>> \o freeLocks

\* Mutant: the check that was right "before MVCC".
WakeupNeeded_LastHold(L, m) ==
    L.granted[m] = 0 /\ ConflictTab[m] \intersect L.waitMask # {}

\* A released mode m may let a waiter of L go on: it conflicts with a request.
WakeupNeeded(L, m) == ConflictTab[m] \intersect L.waitMask # {}

\* LockRelease of a mode that p holds; of any other it only warns.
LockRelease(p, t, x, m) ==
    LET s == lockHash[t]
        k == <<s, p, x>>
        L == [lock[s] EXCEPT !.nRequested = @ - 1, !.requested[m] = @ - 1,
                             !.nGranted = @ - 1, !.granted[m] = @ - 1,
                             !.grantMask = IF lock[s].granted[m] = 1 THEN @ \ {m} ELSE @]
        wakeupNeeded == WakeupNeeded(L, m) /\ L.nRequested # 0
    IN
    /\ pc[p] = "run" /\ LockMgrLockFree
    /\ s # 0 /\ k \in proclockHash
    /\ proclock[k].holding[m] > 0
    /\ IF L.nRequested = 0 THEN FreeLock(t) ELSE UNCHANGED <<lockHash, freeLocks>>
    /\ IF proclock[k].nHolding = 1 THEN DeleteProclock(k)
       ELSE UNCHANGED <<lockLink, procHolders, proclockHash>>
    /\ ProcLockWakeup(IF wakeupNeeded THEN {s} ELSE {}, [lock EXCEPT ![s] = L],
                      [proclock EXCEPT ![k] = Unhold(@, m)], wait, sem)
    /\ UNCHANGED <<alarm, pc, rest>>

\* LockReleaseAll is entered for the PROCLOCKs of p with an xid in X.
StartReleaseAll(p, X) ==
    LET mine == Without(procHolders[p], {k \in Key : k[3] \notin X}) IN
    /\ LockMgrLockFree
    /\ rest' = mine
    /\ pc' = [pc EXCEPT ![p] = IF mine = <<>> THEN "run" ELSE "release"]
    /\ UNCHANGED <<tableVars, lock, proclock, wait, sem, alarm>>

\* ProcReleaseLocks at commit: session locks are kept.
Commit(p) == pc[p] = "run" /\ StartReleaseAll(p, {"xact"})

\* ProcReleaseLocks at abort.
Abort(p) == pc[p] = "abort" /\ StartReleaseAll(p, Xids)

\* LockReleaseAll, "fix the general lock stats" of the LOCK L for a PROCLOCK pl.
Unrequest(L, pl) ==
    IF L.nRequested = pl.nHolding
    THEN [L EXCEPT !.nRequested = 0, !.nGranted = 0,
                   !.requested = Zero, !.granted = Zero]
    ELSE [L EXCEPT !.nRequested = @ - pl.nHolding, !.nGranted = @ - pl.nHolding,
                   !.requested = [i \in Modes |-> @[i] - pl.holding[i]],
                   !.granted = [i \in Modes |-> @[i] - pl.holding[i]],
                   !.grantMask = @ \ {i \in Modes : /\ pl.holding[i] > 0
                                                    /\ L.granted[i] = pl.holding[i]}]

\* One pass of the loop of LockReleaseAll.  It stops early, with a warning,
\* when the LOCK it wants to remove from the table is not there.
LockReleaseAll(p) ==
    LET k == Head(rest)
        s == k[1]
        L == Unrequest(lock[s], proclock[k])
        wakeupNeeded == /\ L.nRequested # 0
                        /\ \E i \in Modes : proclock[k].holding[i] > 0 /\ WakeupNeeded(L, i)
        missing == L.nRequested = 0 /\ lockHash[L.tag] = 0
    IN
    /\ pc[p] = "release"
    /\ DeleteProclock(k)
    /\ IF L.nRequested = 0 /\ ~missing THEN FreeLock(L.tag)
       ELSE UNCHANGED <<lockHash, freeLocks>>
    /\ ProcLockWakeup(IF wakeupNeeded THEN {s} ELSE {}, [lock EXCEPT ![s] = L],
                      [proclock EXCEPT ![k] = NewProclock], wait, sem)
    /\ rest' = IF missing THEN <<>> ELSE Tail(rest)
    /\ pc' = [pc EXCEPT ![p] = IF rest' = <<>> THEN "run" ELSE "release"]
    /\ UNCHANGED alarm
-----------------------------------------------------------------------------
\* PGSemaphoreLock in ProcSleep returns.
AwaitGrant(p) ==
    /\ pc[p] = "wait"
    /\ sem[p] > 0
    /\ sem' = [sem EXCEPT ![p] = @ - 1]
    /\ pc' = [pc EXCEPT ![p] = "woken"]
    /\ UNCHANGED <<tableVars, lock, proclock, wait, alarm, rest>>

\* The grant that p's wait ended with is there.
IsGranted(p) == proclock[wait[p].holder].holding[wait[p].mode] > 0

\* The rest of ProcSleep, WaitOnLock and LockAcquire.  A deadlock error, and a
\* result FALSE ("INCONSISTENT"), make the caller raise an error.
Resume(p) ==
    /\ pc[p] = "woken" /\ LockMgrLockFree
    /\ alarm' = [alarm EXCEPT ![p] = FALSE]
    /\ pc' = [pc EXCEPT ![p] = IF wait[p].errType = "ok" /\ IsGranted(p)
                               THEN "run" ELSE "abort"]
    /\ wait' = [wait EXCEPT ![p] = NoWait]
    /\ UNCHANGED <<tableVars, lock, proclock, sem, rest>>

\* A cancel or die interrupt is accepted inside of PGSemaphoreLock, up to a few
\* instructions after the semop; or an error is raised outside of a wait.
Cancel(p) ==
    /\ p \in Cancellable
    /\ \/ pc[p] \in {"wait", "woken"} /\ pc' = [pc EXCEPT ![p] = "cancel"]
       \/ pc[p] = "run" /\ pc' = [pc EXCEPT ![p] = "abort"]
    /\ UNCHANGED <<tableVars, lock, proclock, wait, sem, alarm, rest>>

\* RemoveFromWaitQueue(p); err and sm as p's caller leaves them.
RemoveFromWaitQueue(p, err, sm) ==
    LET s == wait[p].lock IN
    ProcLockWakeup({s}, [lock EXCEPT ![s] = Dequeue(@, p, wait[p].mode)], proclock,
                   [wait EXCEPT ![p].lock = 0, ![p].errType = err], sm)

\* LockWaitCancel: timer off, then "unlink myself from the wait queue, if on it".
LockWaitCancel(p) ==
    /\ pc[p] = "cancel" /\ LockMgrLockFree
    /\ alarm' = [alarm EXCEPT ![p] = FALSE]
    /\ IF wait[p].lock # 0 THEN RemoveFromWaitQueue(p, wait[p].errType, sem)
       ELSE UNCHANGED <<lock, proclock, wait, sem>>
    /\ pc' = [pc EXCEPT ![p] = "reset"]
    /\ UNCHANGED <<tableVars, rest>>

\* "Reset the proc wait semaphore to zero."
ResetSemaphore(p) ==
    /\ pc[p] = "reset"
    /\ sem' = [sem EXCEPT ![p] = 0]
    /\ wait' = [wait EXCEPT ![p] = NoWait]
    /\ pc' = [pc EXCEPT ![p] = "abort"]
    /\ UNCHANGED <<tableVars, lock, proclock, alarm, rest>>
-----------------------------------------------------------------------------
(***************************************************************************)
(* The deadlock check.  Its search is described here by what it may        *)
(* answer, not by how it looks for it.                                     *)
(***************************************************************************)
Orders == [s \in Slots |-> lock[s].waitProcs]

\* The processes p waits for if the wait queues are O: holders of conflicting
\* modes (hard edges), and earlier waiters with conflicting requests (soft).
WaitsFor(O) ==
    [p \in Procs |->
        IF wait[p].lock = 0 THEN {}
        ELSE LET s == wait[p].lock
                 conflicts == ConflictTab[wait[p].mode]
             IN  {q \in Procs \ {p} :
                    \/ \E k \in LockHolders(s), i \in conflicts \intersect Modes :
                          k[2] = q /\ proclock[k].holding[i] > 0
                    \/ \E i, j \in 1..Len(O[s]) :
                          /\ i < j /\ O[s][i] = q /\ O[s][j] = p
                          /\ wait[q].mode \in conflicts}]

\* The processes reached from p along the edges E.
Reach(E, p) ==
    LET reach[n \in Nat] ==
            IF n = 0 THEN E[p]
            ELSE LET R == reach[n - 1] IN R \union UNION {E[q] : q \in R}
    IN  reach[Cardinality(Procs)]

OnCycle(E, p) == p \in Reach(E, p)

Reorderings ==
    {O \in [Slots -> UNION {SetToSeqs(ToSet(Orders[s])) : s \in Slots}] :
        \A s \in Slots : ToSet(O[s]) = ToSet(Orders[s])}

\* Mutant: a rearrangement is tested for the hard edges only.
Solutions_HardEdges(p) ==
    IF OnCycle(WaitsFor([s \in Slots |-> <<>>]), p) THEN {} ELSE Reorderings

\* The rearrangements that take p off all cycles and close no new one.
Solutions(p) ==
    {O \in Reorderings :
        /\ ~OnCycle(WaitsFor(O), p)
        /\ \A a \in Procs : \A b \in WaitsFor(O)[a] \ WaitsFor(Orders)[a] :
              a \notin {b} \union Reach(WaitsFor(O), b)}

\* No rearrangement leaves a state without deadlocks.
Unsolvable == \A O \in Reorderings : \E q \in Procs : OnCycle(WaitsFor(O), q)

\* CheckDeadLock, the handler of the deadlock timeout.
CheckDeadLock(p) ==
    /\ alarm[p] /\ pc[p] \in {"wait", "woken", "cancel"} /\ LockMgrLockFree
    /\ alarm' = [alarm EXCEPT ![p] = FALSE]
    /\ \/ /\ wait[p].lock = 0 \/ ~OnCycle(WaitsFor(Orders), p)
          /\ UNCHANGED <<lock, proclock, wait, sem>>
       \/ /\ wait[p].lock # 0 /\ OnCycle(WaitsFor(Orders), p)
          /\ \E O \in Solutions(p) :
                ProcLockWakeup({s \in Slots : O[s] # Orders[s]},
                               [s \in Slots |-> [lock[s] EXCEPT !.waitProcs = O[s]]],
                               proclock, wait, sem)
       \/ /\ wait[p].lock # 0 /\ OnCycle(WaitsFor(Orders), p)
          /\ Unsolvable
          /\ RemoveFromWaitQueue(p, "error", [sem EXCEPT ![p] = @ + 1])
    /\ UNCHANGED <<tableVars, pc, rest>>
-----------------------------------------------------------------------------
\* The steps by which a process leaves the lock manager.
Step(p) ==
    \/ AwaitGrant(p) \/ Resume(p)
    \/ LockWaitCancel(p) \/ ResetSemaphore(p)
    \/ Abort(p) \/ LockReleaseAll(p)

\* The calls of the rest of the backend, and its signals.
Call(p) ==
    \/ \E t \in Tags, x \in Xids :
          \/ LockAcquireFails(p, t, x)
          \/ \E m \in Modes : LockAcquire(p, t, x, m) \/ LockRelease(p, t, x, m)
    \/ Commit(p)
    \/ Cancel(p)
    \/ CheckDeadLock(p)

Next == \E p \in Procs : Step(p) \/ Call(p)

Spec == Init /\ [][Next]_vars
-----------------------------------------------------------------------------
\* mvcc.sgml: "Two transactions cannot hold locks of conflicting modes on the
\* same table at the same time."  Grants come from LockAcquire, from the special
\* case of ProcSleep, and from whoever awakens a waiter.
NoConflict ==
    \A k, l \in proclockHash : lock[k[1]].tag = lock[l[1]].tag /\ k[2] # l[2] =>
        \A i, j \in Modes :
            proclock[k].holding[i] > 0 /\ proclock[l].holding[j] > 0 =>
                j \notin ConflictTab[i]

Waiters(s) == {p \in Procs : wait[p].lock = s}

\* The counts and masks of a LOCK in the table, against the PROCLOCKs for it
\* and the processes that wait for it.
CountsOf(s) ==
    LET L == lock[s]
        K == {k \in proclockHash : k[1] = s}
    IN
    /\ \A m \in Modes :
          /\ L.granted[m] = Cardinality(HoldsOf(proclock, K, m))
          /\ L.requested[m] = L.granted[m]
                            + Cardinality({p \in Waiters(s) : wait[p].mode = m})
          /\ m \in L.grantMask <=> L.granted[m] > 0
          /\ m \in L.waitMask <=> L.requested[m] > L.granted[m]
    /\ L.nGranted = Cardinality(Holds(proclock, K))
    /\ L.nRequested = L.nGranted + Cardinality(Waiters(s))

\* lmgr/README, fields of LOCK and PROCLOCK: what the code derives from counts
\* and masks that it updates at many places is what the holders and the waiters
\* really have.  Each place is in the table or free, never both.
CountsExact ==
    /\ \A t \in Tags : lockHash[t] # 0 =>
          /\ lock[lockHash[t]].tag = t
          /\ CountsOf(lockHash[t])
    /\ \A k \in proclockHash : proclock[k].nHolding = Cardinality(Holds(proclock, {k}))
    /\ ToSet(freeLocks) = Slots \ Range(lockHash)

\* The grantor does all the work: whenever a waiter is awakened without an
\* error, the mode it waits for is already held in its name, and it stays so
\* until the waiter gets to run, whatever others do in between.
GrantKept ==
    \A p \in Procs :
        /\ pc[p] \in {"wait", "woken", "cancel"}
        /\ wait[p].lock = 0 /\ wait[p].errType = "ok"
        => IsGranted(p)

\* lmgr/README, note 3: no wakable process is left in a wait queue.  LockRelease
\* looks for waiters only if the released mode conflicts with one of theirs.
NoMissedWakeup ==
    \A t \in Tags : lockHash[t] # 0 => Wakable(lockHash[t], lock[lockHash[t]], {})

\* p may still check for deadlocks, or is about to leave its queue.
Doomed(p) == alarm[p] \/ pc[p] = "cancel"

\* lmgr/README, note 1: "no deadlock will be missed".  Each cycle of processes
\* that wait for each other has one that has yet to check for deadlocks, or is
\* about to leave its queue.
NoMissedDeadlock ==
    LET E == WaitsFor(Orders)
        undetected == [p \in Procs |-> IF Doomed(p) THEN {} ELSE E[p]]
    IN  \A p \in Procs : ~OnCycle(undetected, p)
=============================================================================
