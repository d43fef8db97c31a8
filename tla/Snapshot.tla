------------------------------ MODULE Snapshot ------------------------------
(***************************************************************************)
(* Transaction ids and snapshots of PostgreSQL 7.4.2: GetNewTransactionId  *)
(* (varsup.c), GetSnapshotData, GetOldestXmin and TransactionIdIsInProgress*)
(* (storage/ipc/sinval.c), the order of the steps of commit and abort      *)
(* (xact.c), and what they are for: the visibility rules of tqual.c, under *)
(* which one row is updated, vacuumed and removed from an index.           *)
(*                                                                         *)
(* SInvalLock and XidGenLock are the readers-writer locks of RWLock, which *)
(* lwlock.c implements.  Each PGPROC is read in a step of its own, since   *)
(* its xid is stored under XidGenLock and read under SInvalLock.           *)
(***************************************************************************)
EXTENDS Integers, Sequences, FiniteSets, Functions

CONSTANTS
    Backends,
    \* bounds: the backends that update the row, once in a transaction; that lock
    \* it for update; and that vacuum or read by an index
    Updaters, Markers, Cleaners,
    MaxXid      \* bound: the xids that are assigned, far from wraparound

ASSUME KindsBackends == Updaters \union Markers \union Cleaners \subseteq Backends
ASSUME MaxXidNat == MaxXid \in Nat

Xids == 0..MaxXid      \* 0: InvalidTransactionId, and the row's first inserter

VARIABLES
    \* shared memory
    nextXid,            \* ShmemVariableCache->nextXid
    xid, xmin,          \* the fields of each PGPROC
    grant,              \* the holders of SInvalLock and XidGenLock
    xlock,              \* the xids whose lock in XactLockTable is held
    clog,               \* the status of each xid in pg_clog
    heap,               \* the versions of the row, by inserter: their xmax
    \* local variables of each backend
    pc,
    myXid,              \* GetCurrentTransactionId()
    madeEntry,          \* MyXactMadeXLogEntry
    work,               \* of a scan of the PGPROCs
    firstSnap,          \* SerializableSnapshot
    querySnap,          \* the snapshot of the current query
    oldestXmin,         \* the cutoff of VACUUM, 0 if none
    recentGlobalXmin,
    version,            \* the version that is being updated or vacuumed
    xwait,              \* the xid whose end an updater waits for
    \* history
    exited,             \* the xids that have left the PGPROCs, in order
    killer              \* who removed a version from the index

clockVars == <<nextXid, xid, xmin, grant, xlock>>
rowVars == <<clog, heap, killer>>
snapVars == <<work, firstSnap, querySnap, oldestXmin, recentGlobalXmin>>
xactVars == <<myXid, madeEntry>>
updVars == <<version, xwait>>
vars == <<clockVars, rowVars, pc, xactVars, snapVars, updVars, exited>>

LWLocks == {"SInvalLock", "XidGenLock"}
Lock == INSTANCE RWLock WITH Backends <- Backends, Locks <- LWLocks, grant <- grant

NoSnapshot == [xmin |-> 0, xmax |-> 0, xip |-> {}]
NoWork == [todo |-> {}, xmin |-> 0, xmax |-> 0, xip |-> {}, oldest |-> 0]

Init ==
    /\ nextXid = 1
    /\ xid = [b \in Backends |-> 0] /\ xmin = [b \in Backends |-> 0]
    /\ grant = [b \in Backends |-> [l \in LWLocks |-> "none"]]
    /\ xlock = {}
    /\ clog = [x \in Xids |-> IF x = 0 THEN "committed" ELSE "running"]
    /\ heap = [x \in {0} |-> [xmax |-> 0, marked |-> FALSE]]
    /\ pc = [b \in Backends |-> "idle"]
    /\ myXid = [b \in Backends |-> 0]
    /\ madeEntry = [b \in Backends |-> FALSE]
    /\ work = [b \in Backends |-> NoWork]
    /\ firstSnap = [b \in Backends |-> NoSnapshot]
    /\ querySnap = [b \in Backends |-> NoSnapshot]
    /\ oldestXmin = [b \in Backends |-> 0]
    /\ recentGlobalXmin = [b \in Backends |-> 0]
    /\ version = [b \in Backends |-> 0]
    /\ xwait = [b \in Backends |-> 0]
    /\ exited = <<>>
    /\ killer = [x \in {} |-> 0]

Goto(b, l) == pc' = [pc EXCEPT ![b] = l]
Lesser(x, y) == IF x < y THEN x ELSE y
-----------------------------------------------------------------------------
(***************************************************************************)
(* Start of a transaction.                                                 *)
(***************************************************************************)
\* GetNewTransactionId up to the store into MyProc.
GetNewTransactionId(b) ==
    /\ pc[b] = "idle"
    /\ nextXid <= MaxXid
    /\ Lock!Acquire(b, "XidGenLock", "exclusive")
    /\ myXid' = [myXid EXCEPT ![b] = nextXid]
    /\ nextXid' = nextXid + 1
    /\ Goto(b, "newxid")
    /\ UNCHANGED <<xid, xmin, xlock, rowVars, madeEntry, snapVars, updVars, exited>>

\* "Must set MyProc->xid before releasing XidGenLock."
StoreXid(b) ==
    /\ pc[b] = "newxid"
    /\ xid' = [xid EXCEPT ![b] = myXid[b]]
    /\ Lock!Release(b, "XidGenLock")
    /\ Goto(b, "newlock")
    /\ UNCHANGED <<nextXid, xmin, xlock, rowVars, xactVars, snapVars, updVars, exited>>

XactLockTableInsert(b) ==
    /\ pc[b] = "newlock"
    /\ xlock' = xlock \union {myXid[b]}
    /\ Goto(b, "run")
    /\ UNCHANGED <<nextXid, xid, xmin, grant, rowVars, xactVars, snapVars,
                   updVars, exited>>
-----------------------------------------------------------------------------
(***************************************************************************)
(* Snapshots.                                                              *)
(***************************************************************************)
First(b) == firstSnap[b] = NoSnapshot

\* SetQuerySnapshot: the first snapshot of a transaction takes SInvalLock
\* exclusively, since it sets MyProc->xmin; later ones, of a transaction in Read
\* Committed mode, take it shared.
SetQuerySnapshot(b) ==
    /\ pc[b] = "run"
    /\ Lock!Acquire(b, "SInvalLock", IF First(b) THEN "exclusive" ELSE "shared")
    /\ Goto(b, "xmax")
    /\ UNCHANGED <<nextXid, xid, xmin, xlock, rowVars, xactVars, snapVars,
                   updVars, exited>>

ReadNewTransactionId(b) ==
    /\ pc[b] = "xmax"
    /\ Lock!Compatible(b, "XidGenLock", "shared")
    /\ work' = [work EXCEPT ![b] =
                    [todo |-> Backends \ {b}, xmin |-> myXid[b],
                     xmax |-> nextXid, xip |-> {}, oldest |-> myXid[b]]]
    /\ Goto(b, "scan")
    /\ UNCHANGED <<clockVars, rowVars, xactVars, firstSnap, querySnap, oldestXmin,
                   recentGlobalXmin, updVars, exited>>

\* Mutant: the snapshots of the other transactions are overlooked.
ScanProc_IgnoresXmin(b, q) ==
    /\ pc[b] = "scan"
    /\ q \in work[b].todo
    /\ LET w == [work[b] EXCEPT !.todo = @ \ {q}] IN
       work' = [work EXCEPT ![b] =
            IF xid[q] = 0 \/ xid[q] >= w.xmax THEN w
            ELSE [w EXCEPT !.xmin = Lesser(@, xid[q]),
                           !.xip = @ \union {xid[q]}]]
    /\ UNCHANGED <<clockVars, rowVars, pc, xactVars, firstSnap, querySnap,
                   oldestXmin, recentGlobalXmin, updVars, exited>>

\* One PGPROC in the loop of GetSnapshotData; "fetch xid just once".
ScanProc(b, q) ==
    /\ pc[b] = "scan"
    /\ q \in work[b].todo
    /\ LET w == [work[b] EXCEPT !.todo = @ \ {q}] IN
       work' = [work EXCEPT ![b] =
            IF xid[q] = 0 \/ xid[q] >= w.xmax THEN w
            ELSE [w EXCEPT !.xmin = Lesser(@, xid[q]),
                           !.xip = @ \union {xid[q]},
                           !.oldest = IF xmin[q] = 0 THEN @ ELSE Lesser(@, xmin[q])]]
    /\ UNCHANGED <<clockVars, rowVars, pc, xactVars, firstSnap, querySnap,
                   oldestXmin, recentGlobalXmin, updVars, exited>>

\* The end of GetSnapshotData.
EndSnapshot(b) ==
    /\ pc[b] = "scan"
    /\ work[b].todo = {}
    /\ LET s == [xmin |-> work[b].xmin, xmax |-> work[b].xmax, xip |-> work[b].xip] IN
          /\ querySnap' = [querySnap EXCEPT ![b] = s]
          /\ firstSnap' = [firstSnap EXCEPT ![b] = IF First(b) THEN s ELSE @]
          /\ xmin' = [xmin EXCEPT ![b] = IF First(b) THEN s.xmin ELSE @]
          /\ recentGlobalXmin' = [recentGlobalXmin EXCEPT ![b] =
                                      Lesser(work[b].oldest, s.xmin)]
    /\ Lock!Release(b, "SInvalLock")
    /\ work' = [work EXCEPT ![b] = NoWork]
    /\ Goto(b, "run")
    /\ UNCHANGED <<nextXid, xid, xlock, rowVars, xactVars, oldestXmin, updVars, exited>>

\* GetOldestXmin, which VACUUM of the row's table calls; all databases are one.
GetOldestXmin(b) ==
    /\ pc[b] = "run"
    /\ b \in Cleaners
    /\ ~First(b)
    /\ Lock!Acquire(b, "SInvalLock", "shared")
    /\ work' = [work EXCEPT ![b] = [NoWork EXCEPT !.todo = Backends,
                                                  !.oldest = myXid[b]]]
    /\ Goto(b, "oldest")
    /\ UNCHANGED <<nextXid, xid, xmin, xlock, rowVars, xactVars, firstSnap, querySnap,
                   oldestXmin, recentGlobalXmin, updVars, exited>>

\* Mutant: the xmin of the other transactions is overlooked.
OldestOf_IgnoresXmin(q, x) == IF xid[q] = 0 THEN x ELSE Lesser(xid[q], x)

\* One PGPROC in the loop of GetOldestXmin.
OldestOf(q, x) ==
    IF xid[q] = 0 THEN x
    ELSE IF xmin[q] = 0 THEN Lesser(xid[q], x)
    ELSE Lesser(Lesser(xid[q], xmin[q]), x)

ScanOldest(b, q) ==
    /\ pc[b] = "oldest"
    /\ q \in work[b].todo
    /\ work' = [work EXCEPT ![b].todo = @ \ {q},
                            ![b].oldest = OldestOf(q, @)]
    /\ UNCHANGED <<clockVars, rowVars, pc, xactVars, firstSnap, querySnap,
                   oldestXmin, recentGlobalXmin, updVars, exited>>

EndOldest(b) ==
    /\ pc[b] = "oldest"
    /\ work[b].todo = {}
    /\ oldestXmin' = [oldestXmin EXCEPT ![b] = work[b].oldest]
    /\ Lock!Release(b, "SInvalLock")
    /\ work' = [work EXCEPT ![b] = NoWork]
    /\ Goto(b, "run")
    /\ UNCHANGED <<nextXid, xid, xmin, xlock, rowVars, xactVars, firstSnap, querySnap,
                   recentGlobalXmin, updVars, exited>>
-----------------------------------------------------------------------------
(***************************************************************************)
(* The row.                                                                *)
(***************************************************************************)
DidCommit(x) == clog[x] = "committed"
DidAbort(x) == clog[x] = "aborted"

\* Transaction x had ended when snapshot s was taken.
EndedFor(s, x) == x < s.xmin \/ (x < s.xmax /\ x \notin s.xip)

\* b's transaction takes the changes of x into account under snapshot s.
Sees(b, s, x) == x = myXid[b] \/ (DidCommit(x) /\ EndedFor(s, x))

\* HeapTupleSatisfiesSnapshot for the version that x has inserted.
SatisfiesSnapshot(b, s, x) ==
    /\ Sees(b, s, x)
    /\ ~(/\ heap[x].xmax # 0
         /\ ~heap[x].marked
         /\ Sees(b, s, heap[x].xmax))

\* TransactionIdIsInProgress: the PGPROCs under SInvalLock.
IsInProgress(x) == x # 0 /\ \E q \in Backends : xid[q] = x

\* The executor comes to a version that its query sees.
ChooseVersion(b, x) ==
    /\ pc[b] = "run"
    /\ b \in Markers \/ (b \in Updaters /\ myXid[b] \notin DOMAIN heap)
    /\ ~First(b)
    /\ x \in DOMAIN heap
    /\ SatisfiesSnapshot(b, querySnap[b], x)
    /\ version' = [version EXCEPT ![b] = x]
    /\ Goto(b, "update")
    /\ UNCHANGED <<clockVars, rowVars, xactVars, snapVars, xwait, exited>>

\* HeapTupleSatisfiesUpdate: nobody holds the version, or a hold has expired.
MayBeUpdated(b, x) ==
    \/ heap[x].xmax = 0
    \/ DidAbort(heap[x].xmax)
    \/ heap[x].marked /\ (DidCommit(heap[x].xmax) \/ heap[x].xmax = myXid[b])

Updated(b, x) ==
    /\ ~MayBeUpdated(b, x)
    /\ DidCommit(heap[x].xmax)

BeingUpdated(b, x) ==
    /\ ~MayBeUpdated(b, x)
    /\ ~DidCommit(heap[x].xmax)
    /\ heap[x].xmax # myXid[b]

\* While VACUUM has the page, nobody else reads or writes it.
PageFree == \A q \in Backends : pc[q] # "vacuum"

BackToQuery(b) == Goto(b, "run") /\ version' = [version EXCEPT ![b] = 0]

\* heap_update: a new version, inserted by this transaction.
Update(b) ==
    /\ b \in Updaters
    /\ MayBeUpdated(b, version[b])
    /\ myXid[b] \notin DOMAIN heap
    /\ heap' = [x \in DOMAIN heap \union {myXid[b]} |->
                    IF x = version[b] THEN [xmax |-> myXid[b], marked |-> FALSE]
                    ELSE IF x = myXid[b] THEN [xmax |-> 0, marked |-> FALSE]
                    ELSE heap[x]]
    /\ madeEntry' = [madeEntry EXCEPT ![b] = TRUE]
    /\ BackToQuery(b)
    /\ UNCHANGED xwait

\* heap_mark4update: no log entry is made.
MarkForUpdate(b) ==
    /\ b \in Markers
    /\ MayBeUpdated(b, version[b])
    /\ heap' = [heap EXCEPT ![version[b]] = [xmax |-> myXid[b], marked |-> TRUE]]
    /\ BackToQuery(b)
    /\ UNCHANGED <<madeEntry, xwait>>

\* The row has a newer version: a serializable transaction fails, another one
\* goes on to that version.
FollowUpdate(b) ==
    /\ Updated(b, version[b])
    /\ \/ Goto(b, "failed") /\ version' = [version EXCEPT ![b] = 0]
       \/ /\ version' = [version EXCEPT ![b] = heap[@].xmax]
          /\ UNCHANGED pc
    /\ UNCHANGED <<heap, madeEntry, xwait>>

WaitForUpdate(b) ==
    /\ BeingUpdated(b, version[b])
    /\ xwait' = [xwait EXCEPT ![b] = heap[version[b]].xmax]
    /\ Goto(b, "wait")
    /\ UNCHANGED <<heap, madeEntry, version>>

\* The version is gone, or is the one this transaction has replaced or inserted.
NothingToDo(b) ==
    /\ version[b] \in DOMAIN heap => myXid[b] \in {version[b], heap[version[b]].xmax}
    /\ BackToQuery(b)
    /\ UNCHANGED <<heap, madeEntry, xwait>>

ExamineVersion(b) ==
    /\ pc[b] = "update"
    /\ PageFree
    /\ \/ NothingToDo(b)
       \/ /\ version[b] \in DOMAIN heap
          /\ Update(b) \/ MarkForUpdate(b) \/ FollowUpdate(b) \/ WaitForUpdate(b)
    /\ UNCHANGED <<clockVars, clog, killer, myXid, snapVars, exited>>

\* XactLockTableWait: "we have to update pg_clog if transaction is still marked
\* as running."
XactLockTableWait(b) ==
    /\ pc[b] = "wait"
    /\ xwait[b] \notin xlock
    /\ clog' = [clog EXCEPT ![xwait[b]] =
                    IF DidCommit(xwait[b]) \/ DidAbort(xwait[b]) THEN @ ELSE "aborted"]
    /\ xwait' = [xwait EXCEPT ![b] = 0]
    /\ Goto(b, "update")
    /\ UNCHANGED <<clockVars, heap, killer, xactVars, snapVars, version, exited>>
-----------------------------------------------------------------------------
(***************************************************************************)
(* Removal of dead versions.                                               *)
(***************************************************************************)
\* The end of HeapTupleSatisfiesVacuum: the deleter of version x committed
\* before the cutoff.
DeadBefore(x, cutoff) ==
    /\ heap[x].xmax # 0 /\ ~heap[x].marked
    /\ ~IsInProgress(heap[x].xmax) /\ DidCommit(heap[x].xmax)
    /\ heap[x].xmax < cutoff

\* VACUUM gets the page for itself and finds the inserter of x not in progress.
VacuumPage(b, x) ==
    /\ pc[b] = "run"
    /\ oldestXmin[b] # 0
    /\ x \in DOMAIN heap
    /\ PageFree
    /\ \A q \in Backends : pc[q] # "wait"
    /\ Lock!Compatible(b, "SInvalLock", "shared")
    /\ ~IsInProgress(x)
    /\ version' = [version EXCEPT ![b] = x]
    /\ Goto(b, "vacuum")
    /\ UNCHANGED <<clockVars, rowVars, xactVars, snapVars, xwait, exited>>

\* "Not in Progress, Not Committed, so either Aborted or crashed", or deleted.
VacuumVersion(b) ==
    /\ pc[b] = "vacuum"
    /\ LET x == version[b] IN
       heap' = IF ~DidCommit(x) \/ DeadBefore(x, oldestXmin[b])
               THEN [y \in DOMAIN heap \ {x} |-> heap[y]]
               ELSE heap
    /\ BackToQuery(b)
    /\ UNCHANGED <<clockVars, clog, killer, xactVars, snapVars, xwait, exited>>

\* index_getnext: "If we can't see it, maybe no one else can either."
KillPriorTuple(b, x) ==
    /\ pc[b] = "run"
    /\ b \in Cleaners
    /\ ~First(b)
    /\ PageFree
    /\ x \in DOMAIN heap \ DOMAIN killer
    /\ ~SatisfiesSnapshot(b, querySnap[b], x)
    /\ Lock!Compatible(b, "SInvalLock", "shared")
    /\ ~IsInProgress(x)
    /\ ~DidCommit(x) \/ DeadBefore(x, recentGlobalXmin[b])
    /\ killer' = [y \in DOMAIN killer \union {x} |-> IF y = x THEN b ELSE killer[y]]
    /\ UNCHANGED <<clockVars, clog, heap, pc, xactVars, snapVars, updVars, exited>>
-----------------------------------------------------------------------------
(***************************************************************************)
(* End of a transaction.                                                   *)
(***************************************************************************)
\* The snapshots are not used any more.
ForgetSnapshots(b) ==
    /\ firstSnap' = [firstSnap EXCEPT ![b] = NoSnapshot]
    /\ querySnap' = [querySnap EXCEPT ![b] = NoSnapshot]
    /\ oldestXmin' = [oldestXmin EXCEPT ![b] = 0]
    /\ recentGlobalXmin' = [recentGlobalXmin EXCEPT ![b] = 0]
    /\ UNCHANGED work

\* RecordTransactionCommit and RecordTransactionAbort: pg_clog is written only
\* for a transaction that has made log entries.
Record(b, status) ==
    /\ clog' = IF madeEntry[b] THEN [clog EXCEPT ![myXid[b]] = status] ELSE clog
    /\ ForgetSnapshots(b)
    /\ Goto(b, "exit")
    /\ UNCHANGED <<clockVars, heap, killer, xactVars, updVars, exited>>

RecordTransactionCommit(b) == pc[b] = "run" /\ Record(b, "committed")

RecordTransactionAbort(b) == pc[b] \in {"run", "failed"} /\ Record(b, "aborted")

\* Mutant: SInvalLock is not acquired to leave the PGPROCs.
LeaveProcArray_NoLock(b) ==
    /\ pc[b] = "exit"
    /\ xid' = [xid EXCEPT ![b] = 0]
    /\ xmin' = [xmin EXCEPT ![b] = 0]
    /\ exited' = Append(exited, myXid[b])
    /\ Goto(b, "unlock")
    /\ UNCHANGED <<nextXid, grant, xlock, rowVars, xactVars, snapVars, updVars>>

\* "Let others know about no transaction in progress by me."
LeaveProcArray(b) ==
    /\ pc[b] = "exit"
    /\ Lock!Compatible(b, "SInvalLock", "exclusive")
    /\ xid' = [xid EXCEPT ![b] = 0]
    /\ xmin' = [xmin EXCEPT ![b] = 0]
    /\ exited' = Append(exited, myXid[b])
    /\ Goto(b, "unlock")
    /\ UNCHANGED <<nextXid, grant, xlock, rowVars, xactVars, snapVars, updVars>>

\* AtCommit_Locks, AtAbort_Locks.
ReleaseLocks(b) ==
    /\ pc[b] = "unlock"
    /\ xlock' = xlock \ {myXid[b]}
    /\ myXid' = [myXid EXCEPT ![b] = 0]
    /\ madeEntry' = [madeEntry EXCEPT ![b] = FALSE]
    /\ Goto(b, "idle")
    /\ UNCHANGED <<nextXid, xid, xmin, grant, rowVars, snapVars, updVars, exited>>
-----------------------------------------------------------------------------
\* The steps inside of the functions that hold or wait for a lightweight lock.
Step(b) ==
    \/ StoreXid(b) \/ XactLockTableInsert(b)
    \/ ReadNewTransactionId(b) \/ EndSnapshot(b) \/ EndOldest(b)
    \/ \E q \in Backends : ScanProc(b, q) \/ ScanOldest(b, q)
    \/ ExamineVersion(b) \/ XactLockTableWait(b) \/ VacuumVersion(b)
    \/ LeaveProcArray(b) \/ ReleaseLocks(b)

Call(b) ==
    \/ GetNewTransactionId(b) \/ SetQuerySnapshot(b) \/ GetOldestXmin(b)
    \/ \E x \in Xids : \/ ChooseVersion(b, x) \/ VacuumPage(b, x)
                       \/ KillPriorTuple(b, x)
    \/ RecordTransactionCommit(b) \/ RecordTransactionAbort(b)

Next == \E b \in Backends : Step(b) \/ Call(b)

Spec == Init /\ [][Next]_vars
-----------------------------------------------------------------------------
\* The snapshots a backend may still use: those of open cursors, the first one
\* among them, and that of the current query.
InUse(b) == {firstSnap[b], querySnap[b]} \ {NoSnapshot}

\* What a snapshot takes for ended has ended, and is a prefix of the order in
\* which transactions have ended: "no transactions exit the set of currently-
\* running transactions between the time we fetch xmax and the time we finish
\* building our snapshot", and none that was assigned an xid is overlooked.
SnapshotIsPrefix ==
    \A b \in Backends : \A s \in InUse(b) :
        /\ \A x \in 1..(nextXid - 1) \ {myXid[b]} :
              EndedFor(s, x) => x \in Range(exited)
        /\ \A j \in 1..Len(exited) : \A i \in 1..j :
              EndedFor(s, exited[j]) => EndedFor(s, exited[i])

\* VACUUM removes no version that an open snapshot still needs, although a
\* snapshot that is being taken has not yet published its xmin: every snapshot
\* sees a version of the row (GetOldestXmin, HeapTupleSatisfiesVacuum).
NoVersionLost ==
    \A b \in Backends : \A s \in InUse(b) :
        \E x \in DOMAIN heap : SatisfiesSnapshot(b, s, x)

Seen(b, s, x) == x \in DOMAIN heap /\ SatisfiesSnapshot(b, s, x)

\* A version that was removed from the index is seen by no other transaction,
\* and not by the current query of the one that removed it (index_getnext).
KilledUnseen ==
    \A x \in DOMAIN killer : \A b \in Backends :
        /\ querySnap[b] # NoSnapshot => ~Seen(b, querySnap[b], x)
        /\ b # killer[x] /\ firstSnap[b] # NoSnapshot => ~Seen(b, firstSnap[b], x)
=============================================================================
