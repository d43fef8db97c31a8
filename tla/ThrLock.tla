------------------------------ MODULE ThrLock ------------------------------
(***************************************************************************)
(* The table locks of MySQL 4.1.1 (mysys/thr_lock.c): every lock has lists *)
(* of read and write locks that are held and that wait.  A thread gets the *)
(* locks of a statement one after the other (thr_multi_lock); the handler  *)
(* of INSERT DELAYED has a lock that gives way to others.                  *)
(*                                                                         *)
(* A section under lock->mutex is one action.  data->cond, which is set    *)
(* while a lock is in a wait list, is left out: every move out of those    *)
(* lists resets it and signals.                                            *)
(***************************************************************************)
EXTENDS Integers, Sequences, SequencesExt, FiniteSets

CONSTANTS
    Threads,
    Handlers,           \* the threads of INSERT DELAYED
    Locks,              \* 1..n, as their addresses
    Delayed,            \* those of the tables that a handler inserts into
    MaxLocks,           \* bound: how many locks a statement needs
    Requests,           \* what a statement may lock: sequences of [lock, type]
    Upgraded,           \* thr_upgraded_concurrent_insert_lock
    MaxWriteLockCount   \* max_write_lock_count

\* thr_lock_type.
TL_UNLOCK == 0
TL_READ == 1
TL_READ_HIGH_PRIORITY == 3
TL_READ_NO_INSERT == 4
TL_WRITE_ALLOW_WRITE == 5
TL_WRITE_ALLOW_READ == 6
TL_WRITE_CONCURRENT_INSERT == 7
TL_WRITE_DELAYED == 8
TL_WRITE_LOW_PRIORITY == 9
TL_WRITE == 10
TL_WRITE_ONLY == 11
Types == TL_UNLOCK..TL_WRITE_ONLY

ASSUME LocksAreAddresses == Locks \subseteq Nat
ASSUME MaxLocksNatural == MaxLocks \in Nat \ {0}
ASSUME RequestsTyped ==
    /\ Requests \subseteq Seq([lock : Locks, type : Types \ {TL_UNLOCK}])
    /\ \A r \in Requests : Len(r) \in 1..MaxLocks
ASSUME HandlersAreThreads == Handlers \subseteq Threads
ASSUME DelayedAreLocks == Delayed \subseteq Locks
ASSUME DelayedByHandlers == \A r \in Requests : \A i \in DOMAIN r : r[i].type # TL_WRITE_DELAYED
ASSUME UpgradedTyped == Upgraded \in {TL_WRITE_LOW_PRIORITY, TL_WRITE}
ASSUME MaxWriteLockCountNatural == MaxWriteLockCount \in Nat

VARIABLES
    lock,   \* THR_LOCK: its lists, read_no_write_count and write_lock_count
    type,   \* data->type
    want,   \* the locks of the statement of a thread, sorted
    pos,    \* the one that the thread is at
    last,   \* the last one that it has to unlock
    pc,
    aborts  \* whether other threads abort locks in this behaviour
vars == <<lock, type, want, pos, last, pc, aborts>>

\* A THR_LOCK_DATA is named by its thread and its place in the statement.
Data == Threads \X (1..MaxLocks)
LockOf(d) == want[d[1]][d[2]].lock
IsRead(ty) == ty <= TL_READ_NO_INSERT
Here(t) == <<t, pos[t]>>

Init ==
    /\ lock = [l \in Locks |-> [read |-> <<>>, readWait |-> <<>>, write |-> <<>>, writeWait |-> <<>>,
                                noInsert |-> 0, writeCount |-> 0]]
    /\ type = [d \in Data |-> TL_UNLOCK]
    /\ want = [t \in Threads |-> <<>>] /\ pos = [t \in Threads |-> 1] /\ last = [t \in Threads |-> 0]
    /\ pc = [t \in Threads |-> "idle"]
    /\ aborts \in BOOLEAN

Goto(t, l) == pc' = [pc EXCEPT ![t] = l]
-----------------------------------------------------------------------------
(***************************************************************************)
(* The lists of a lock.                                                    *)
(***************************************************************************)
\* What a list keeps when the elements of W are taken off it.
Rest(s, W) ==
    IF ~\E i \in DOMAIN s : s[i] \in W THEN s
    ELSE LET kept == {i \in DOMAIN s : s[i] \notin W} IN
         [i \in 1..Cardinality(kept) |->
            s[CHOOSE j \in kept : Cardinality({h \in kept : h <= j}) = i]]

\* Those of a set of locks that forbid concurrent inserts.
NoInserts(D) == {d \in D : type[d] = TL_READ_NO_INSERT}

\* The lock d is taken off the list it is on.
Without(k, d) ==
    [k EXCEPT !.read = Rest(@, {d}), !.readWait = Rest(@, {d}),
              !.write = Rest(@, {d}), !.writeWait = Rest(@, {d}),
              !.noInsert = IF d \in NoInserts(Range(k.read)) THEN @ - 1 ELSE @]

\* The lock d is put at the end of a list.
AddedRead(k, d, ty) ==
    [k EXCEPT !.read = Append(@, d), !.noInsert = IF ty = TL_READ_NO_INSERT THEN @ + 1 ELSE @]
AddedReadWait(k, d) == [k EXCEPT !.readWait = Append(@, d)]
AddedWrite(k, d) == [k EXCEPT !.write = Append(@, d)]
AddedWriteWait(k, d) == [k EXCEPT !.writeWait = Append(@, d)]

\* The lock d, which is held, goes back to the front of those that wait.
Back(k, d) == [k EXCEPT !.write = Rest(@, {d}), !.writeWait = <<d>> \o @]

\* Those of W wait no more.
Aborted(k, W) == [k EXCEPT !.readWait = Rest(@, W), !.writeWait = Rest(@, W)]

\* Mutant: TL_READ_NO_INSERT locks are released next to a concurrent insert.
FreeAllReadLocks_Blind(k, inserting) ==
    [k EXCEPT !.read = @ \o k.readWait, !.readWait = <<>>,
              !.noInsert = @ + Cardinality(NoInserts(Range(k.readWait)))]

\* free_all_read_locks: all waiting read locks are given, but for those that
\* do not go with a concurrent insert.
FreeAllReadLocks(k, inserting) ==
    LET waiting == Range(k.readWait)
        stay == IF inserting THEN NoInserts(waiting) ELSE {} IN
    [k EXCEPT !.read = @ \o Rest(k.readWait, stay), !.readWait = Rest(@, waiting \ stay),
              !.noInsert = @ + Cardinality(NoInserts(waiting \ stay)),
              !.writeCount = IF waiting # {} /\ stay = {} THEN 0 ELSE @]

\* How many locks of write_wait start together: the first one, or all the
\* TL_WRITE_ALLOW_WRITE ones at the front.
Together(k) ==
    LET n == Len(k.writeWait) IN
    CHOOSE m \in 1..n :
        /\ \A i \in 1..m : i = 1 \/ \A j \in 1..i : type[k.writeWait[j]] = TL_WRITE_ALLOW_WRITE
        /\ m = n \/ type[k.writeWait[m]] # TL_WRITE_ALLOW_WRITE \/ type[k.writeWait[m + 1]] # TL_WRITE_ALLOW_WRITE

StartWrites(k) ==
    [k EXCEPT !.write = @ \o SubSeq(k.writeWait, 1, Together(k)),
              !.writeWait = SubSeq(@, Together(k) + 1, Len(@))]

Inserting(ty) == ty \in {TL_WRITE_CONCURRENT_INSERT, TL_WRITE_ALLOW_WRITE}

\* Mutant: read locks are not looked at.
WithReads_Any(k, ty) == TRUE

\* Whether a write lock can go together with the read locks there are.
WithReads(k, ty) == ty <= TL_WRITE_DELAYED /\ (Inserting(ty) => k.noInsert = 0)

\* Whether the first waiting write lock comes before the waiting read locks.
WriteTurn(k) ==
    /\ k.writeWait # <<>>
    /\ \/ type[Head(k.writeWait)] # TL_WRITE_LOW_PRIORITY
       \/ k.readWait = <<>>
       \/ type[Head(k.readWait)] < TL_READ_HIGH_PRIORITY

TooMany(k) == k.writeCount > MaxWriteLockCount

\* Write locks in a row are counted; there are not too many.
Counted(k) == [k EXCEPT !.writeCount = IF TooMany(k) THEN 0 ELSE @ + 1]

\* The new state of a lock and the type that its first waiting write lock gets,
\* after d is unlocked; full: what check_status says.
Freed(k, full) ==
    LET head == Head(k.writeWait)
        asks == type[head]
        gets == IF asks = TL_WRITE_CONCURRENT_INSERT /\ full THEN TL_WRITE ELSE asks IN
    CASE k.write # <<>> -> [lock |-> k, up |-> FALSE]
      [] k.write = <<>> /\ k.read = <<>> /\ WriteTurn(k) ->
            IF TooMany(k) /\ k.readWait # <<>>
            THEN [lock |-> FreeAllReadLocks(Counted(k), FALSE), up |-> FALSE]
            ELSE [lock |-> IF gets >= TL_WRITE_LOW_PRIORITY THEN StartWrites(Counted(k))
                           ELSE FreeAllReadLocks(StartWrites(Counted(k)), Inserting(gets)),
                  up |-> gets # asks]
      [] k.write = <<>> /\ k.read = <<>> /\ ~WriteTurn(k) ->
            [lock |-> FreeAllReadLocks(k, FALSE), up |-> FALSE]
      [] k.write = <<>> /\ k.read # <<>> /\ k.writeWait = <<>> ->
            [lock |-> FreeAllReadLocks(k, FALSE), up |-> FALSE]
      [] k.write = <<>> /\ k.read # <<>> /\ k.writeWait # <<>> ->
            IF ~WithReads(k, asks) THEN [lock |-> k, up |-> FALSE]
            ELSE IF gets # asks THEN [lock |-> FreeAllReadLocks(k, FALSE), up |-> TRUE]
            ELSE [lock |-> FreeAllReadLocks(StartWrites(k), Inserting(asks)), up |-> FALSE]
-----------------------------------------------------------------------------
(***************************************************************************)
(* thr_lock.                                                               *)
(***************************************************************************)
ReadAllowed(k, d, ty) ==
    IF k.write # <<>>
    THEN LET w == Head(k.write) IN
         \/ w[1] = d[1]
         \/ /\ type[w] <= TL_WRITE_DELAYED
            /\ ty <= TL_READ_HIGH_PRIORITY \/ type[w] \notin {TL_WRITE_CONCURRENT_INSERT, TL_WRITE_ALLOW_READ}
    ELSE k.writeWait # <<>> =>
            \/ type[Head(k.writeWait)] <= TL_WRITE_LOW_PRIORITY
            \/ ty = TL_READ_HIGH_PRIORITY
            \/ \E e \in Range(k.read) : e[1] = d[1]

WriteAllowed(k, d, ty) ==
    IF k.write # <<>>
    THEN \/ Head(k.write)[1] = d[1]
         \/ ty = TL_WRITE_ALLOW_WRITE /\ k.writeWait = <<>> /\ type[Head(k.write)] = TL_WRITE_ALLOW_WRITE
    ELSE k.writeWait = <<>> /\ (k.read = <<>> \/ WithReads(k, ty))

\* Nobody may get the lock any more.
Only(k) == k.write # <<>> /\ type[Head(k.write)] = TL_WRITE_ONLY

\* A delayed write lock is put on write_wait, and its thread goes on.
DelayedQueues(k, ty) ==
    /\ ty = TL_WRITE_DELAYED
    /\ k.write # <<>> => type[Head(k.write)] # TL_WRITE_ALLOW_READ
    /\ \A e \in Range(k.writeWait) : type[e] # TL_WRITE_ALLOW_READ
    /\ k.write # <<>> \/ k.read # <<>>

\* The next lock of the statement, if there is one.
Advance(t) ==
    IF pos[t] = Len(want[t]) THEN Goto(t, "locked") /\ UNCHANGED pos
    ELSE pos' = [pos EXCEPT ![t] = @ + 1] /\ Goto(t, "lock")

\* thr_multi_lock: unlocks what it has got, the first n locks.
UnlockFirst(t, n) ==
    /\ pos' = [pos EXCEPT ![t] = 1] /\ last' = [last EXCEPT ![t] = n]
    /\ Goto(t, "unlock")

\* LOCK_CMP.
LockCmp(a, b) == a.lock < b.lock \/ (a.lock = b.lock /\ a.type > b.type)

\* sort_locks: the orders in which r is sorted.
SortLocks(r) ==
    {s \in {[i \in DOMAIN r |-> r[f[i]]] : f \in Bijection(DOMAIN r, DOMAIN r)} :
        \A i, j \in DOMAIN r : i < j => ~LockCmp(s[j], s[i])}

\* Mutant: the locks are not sorted.
ThrMultiLock_Unsorted(t, r) ==
    /\ pc[t] = "idle"
    /\ want' = [want EXCEPT ![t] = r] /\ pos' = [pos EXCEPT ![t] = 1]
    /\ Goto(t, "lock")
    /\ UNCHANGED <<lock, type, last>>

ThrMultiLock(t, r) ==
    /\ pc[t] = "idle"
    /\ \E s \in SortLocks(r) : want' = [want EXCEPT ![t] = s]
    /\ pos' = [pos EXCEPT ![t] = 1]
    /\ Goto(t, "lock")
    /\ UNCHANGED <<lock, type, last>>

ThrLockRead(t) ==
    LET d == Here(t)  ty == want[t][pos[t]].type  l == LockOf(d)  k == lock[l] IN
    /\ pc[t] = "lock" /\ IsRead(ty)
    /\ \/ /\ ReadAllowed(k, d, ty)
          /\ lock' = [lock EXCEPT ![l] = AddedRead(@, d, ty)]
          /\ type' = [type EXCEPT ![d] = ty]
          /\ Advance(t) /\ UNCHANGED last
       \/ /\ ~ReadAllowed(k, d, ty) /\ Only(k)
          /\ UnlockFirst(t, pos[t] - 1)
          /\ UNCHANGED <<lock, type>>
       \/ /\ ~ReadAllowed(k, d, ty) /\ ~Only(k)
          /\ lock' = [lock EXCEPT ![l] = AddedReadWait(@, d)]
          /\ type' = [type EXCEPT ![d] = ty]
          /\ Goto(t, "wait") /\ UNCHANGED <<pos, last>>
    /\ UNCHANGED want

ThrLockWrite(t) ==
    LET d == Here(t)  asks == want[t][pos[t]].type  l == LockOf(d)  k == lock[l] IN
    /\ pc[t] = "lock" /\ ~IsRead(asks)
    /\ \E full \in BOOLEAN :
        LET free == k.write = <<>> /\ k.writeWait = <<>>
            ty == IF asks = TL_WRITE_CONCURRENT_INSERT /\ free /\ full THEN Upgraded ELSE asks IN
        \/ /\ Only(k)
           /\ UnlockFirst(t, pos[t] - 1)
           /\ UNCHANGED <<lock, type>>
        \/ /\ ~Only(k) /\ ~DelayedQueues(k, ty) /\ WriteAllowed(k, d, ty)
           /\ lock' = [lock EXCEPT ![l] = AddedWrite(@, d)]
           /\ type' = [type EXCEPT ![d] = ty]
           /\ Advance(t) /\ UNCHANGED last
        \/ /\ ~Only(k) /\ DelayedQueues(k, ty)
           /\ lock' = [lock EXCEPT ![l] = AddedWriteWait(@, d)]
           /\ type' = [type EXCEPT ![d] = ty]
           /\ Advance(t) /\ UNCHANGED last
        \/ /\ ~Only(k) /\ ~DelayedQueues(k, ty) /\ ~WriteAllowed(k, d, ty)
           /\ lock' = [lock EXCEPT ![l] = AddedWriteWait(@, d)]
           /\ type' = [type EXCEPT ![d] = ty]
           /\ Goto(t, "wait") /\ UNCHANGED <<pos, last>>
    /\ UNCHANGED want

Waits(d) == d \in Range(lock[LockOf(d)].readWait) \union Range(lock[LockOf(d)].writeWait)

\* wait_for_lock: the thread has been given the lock, or it was aborted.
Wakeup(t) ==
    /\ pc[t] = "wait" /\ ~Waits(Here(t))
    /\ IF type[Here(t)] = TL_UNLOCK
       THEN UnlockFirst(t, pos[t] - 1)
       ELSE Advance(t) /\ UNCHANGED last
    /\ UNCHANGED <<lock, type, want>>

\* wait_for_lock: the thread is killed; the lock is taken off its list.
Killed(t) ==
    LET d == Here(t) IN
    /\ pc[t] = "wait" /\ Waits(d)
    /\ lock' = [lock EXCEPT ![LockOf(d)] = Without(@, d)]
    /\ type' = [type EXCEPT ![d] = TL_UNLOCK]
    /\ UnlockFirst(t, pos[t] - 1)
    /\ UNCHANGED want
-----------------------------------------------------------------------------
(***************************************************************************)
(* thr_unlock and thr_multi_unlock.                                        *)
(***************************************************************************)
MultiUnlock(t) ==
    /\ pc[t] \in {"locked", "writing"}
    /\ UnlockFirst(t, Len(want[t]))
    /\ UNCHANGED <<lock, type, want>>

ThrUnlock(t) ==
    LET d == Here(t)  l == LockOf(d) IN
    /\ pc[t] = "unlock" /\ pos[t] <= last[t]
    /\ pos' = [pos EXCEPT ![t] = @ + 1]
    /\ IF type[d] = TL_UNLOCK THEN UNCHANGED <<lock, type>>
       ELSE \E full \in BOOLEAN :
            LET k == Without(lock[l], d)  f == Freed(k, full) IN
            /\ lock' = [lock EXCEPT ![l] = f.lock]
            /\ type' = [e \in Data |-> IF e = d THEN TL_UNLOCK
                                       ELSE IF f.up /\ e = Head(k.writeWait) THEN TL_WRITE ELSE type[e]]
    /\ UNCHANGED <<want, last, pc>>

Unlocked(t) ==
    /\ pc[t] = "unlock" /\ pos[t] > last[t]
    /\ want' = [want EXCEPT ![t] = <<>>]
    /\ pos' = [pos EXCEPT ![t] = 1] /\ last' = [last EXCEPT ![t] = 0]
    /\ Goto(t, "idle")
    /\ UNCHANGED <<lock, type>>
-----------------------------------------------------------------------------
(***************************************************************************)
(* Aborts, by others.                                                      *)
(***************************************************************************)
\* thr_abort_locks, by a thread that has the table locked.
ThrAbortLocks(t, l) ==
    LET k == lock[l]  W == Range(k.readWait) \union Range(k.writeWait) IN
    /\ aborts
    /\ pc[t] = "locked" /\ t \notin Handlers /\ \E d \in Range(k.read) \union Range(k.write) : d[1] = t
    /\ lock' = [lock EXCEPT ![l] = Aborted(@, W)]
    /\ type' = [d \in Data |-> IF d \in W THEN TL_UNLOCK
                               ELSE IF k.write # <<>> /\ d = Head(k.write) THEN TL_WRITE_ONLY ELSE type[d]]
    /\ UNCHANGED <<want, pos, last, pc>>

\* thr_abort_locks_for_thread, by somebody else.
ThrAbortLocksForThread(t, l) ==
    LET k == lock[l]
        W == {d \in Range(k.readWait) \union Range(k.writeWait) : d[1] = t} IN
    /\ aborts
    /\ W # {}
    /\ lock' = [lock EXCEPT ![l] = Aborted(@, W)]
    /\ type' = [d \in Data |-> IF d \in W THEN TL_UNLOCK ELSE type[d]]
    /\ UNCHANGED <<want, pos, last, pc>>
-----------------------------------------------------------------------------
(***************************************************************************)
(* The thread of INSERT DELAYED.                                           *)
(***************************************************************************)
\* thr_upgrade_write_delay_lock, from handle_inserts or from
\* thr_reschedule_write_lock.
ThrUpgradeWriteDelayLock(t) ==
    LET d == <<t, 1>>  l == LockOf(d)  k == lock[l]
        first == pc[t] = "locked" IN
    /\ t \in Handlers /\ pc[t] \in {"locked", "reschedule"}
    /\ \/ /\ type[d] = TL_UNLOCK
          /\ IF first THEN UnlockFirst(t, 1) ELSE Goto(t, "writing") /\ UNCHANGED <<pos, last>>
          /\ UNCHANGED <<lock, type>>
       \/ /\ type[d] >= TL_WRITE_LOW_PRIORITY
          /\ Goto(t, "writing") /\ UNCHANGED <<lock, type, pos, last>>
       \/ /\ type[d] = TL_WRITE_DELAYED
          /\ type' = [type EXCEPT ![d] = TL_WRITE]
          /\ IF d \in Range(k.write)
             THEN IF k.read = <<>>
                  THEN Goto(t, "writing") /\ UNCHANGED lock
                  ELSE /\ lock' = [lock EXCEPT ![l] = Back(@, d)]
                       /\ Goto(t, IF first THEN "upgrade" ELSE "reupgrade")
             ELSE Goto(t, IF first THEN "upgrade" ELSE "reupgrade") /\ UNCHANGED lock
          /\ UNCHANGED <<pos, last>>
    /\ UNCHANGED want

\* wait_for_lock with in_wait_list; handle_inserts goes on after a failure of
\* thr_reschedule_write_lock.
UpgradeWakeup(t) ==
    LET d == <<t, 1>> IN
    /\ pc[t] \in {"upgrade", "reupgrade"} /\ ~Waits(d)
    /\ IF type[d] = TL_UNLOCK /\ pc[t] = "upgrade"
       THEN UnlockFirst(t, 1)
       ELSE Goto(t, "writing") /\ UNCHANGED <<pos, last>>
    /\ UNCHANGED <<lock, type, want>>

\* thr_reschedule_write_lock, up to the upgrade.
ThrRescheduleWriteLock(t) ==
    LET d == <<t, 1>>  l == LockOf(d) IN
    /\ t \in Handlers /\ pc[t] = "writing" /\ d \in Range(lock[l].write)
    /\ lock[l].readWait # <<>>
    /\ type' = [type EXCEPT ![d] = TL_WRITE_DELAYED]
    /\ lock' = [lock EXCEPT ![l] = FreeAllReadLocks(Back(@, d), FALSE)]
    /\ Goto(t, "reschedule")
    /\ UNCHANGED <<want, pos, last>>
-----------------------------------------------------------------------------
Run(t) ==
    \/ ThrLockRead(t) \/ ThrLockWrite(t) \/ Wakeup(t)
    \/ MultiUnlock(t) \/ ThrUnlock(t) \/ Unlocked(t)
    \/ ThrUpgradeWriteDelayLock(t) \/ UpgradeWakeup(t)
Statements(t) ==
    IF t \in Handlers THEN {<<[lock |-> l, type |-> TL_WRITE_DELAYED]>> : l \in Delayed} ELSE Requests
Next ==
    /\ \E t \in Threads :
        \/ Run(t) \/ Killed(t) \/ ThrRescheduleWriteLock(t)
        \/ \E r \in Statements(t) : ThrMultiLock(t, r)
        \/ \E l \in Locks : ThrAbortLocks(t, l) \/ ThrAbortLocksForThread(t, l)
    /\ UNCHANGED aborts

Spec == Init /\ [][Next]_vars
\* A thread that runs goes on, and gives up its locks in the end; the rows that
\* a handler writes run out.
FairSpec ==
    /\ Spec
    /\ \A t \in Threads : WF_vars(Run(t) /\ UNCHANGED aborts)
    /\ \A t \in Handlers : SF_vars(MultiUnlock(t) /\ UNCHANGED aborts)
-----------------------------------------------------------------------------
(***************************************************************************)
(* Properties.                                                             *)
(***************************************************************************)
\* Locks of different threads that are held together go together (check_locks):
\* a write lock that is not to be shared is alone, one for concurrent inserts
\* goes with no read lock that forbids them.  Their number is in
\* read_no_write_count, which no grant, abort or unlock of another list may
\* disturb, and nobody waits for a lock that nobody holds.
Exclusive ==
    \A l \in Locks : LET k == lock[l] IN
        /\ \A w \in Range(k.write) :
            /\ \A r \in Range(k.read) : r[1] # w[1] =>
                  /\ type[w] \notin {TL_WRITE_LOW_PRIORITY, TL_WRITE}
                  /\ ~(type[w] = TL_WRITE_CONCURRENT_INSERT /\ type[r] = TL_READ_NO_INSERT)
            /\ \A v \in Range(k.write) : v[1] # w[1] =>
                  {type[v], type[w]} \subseteq {TL_WRITE_ALLOW_WRITE, TL_WRITE_ONLY}
        /\ k.noInsert = Cardinality(NoInserts(Range(k.read)))
        /\ (k.read = <<>> /\ k.write = <<>>) => (k.readWait = <<>> /\ k.writeWait = <<>>)

\* The handler of INSERT DELAYED writes only while it has the table for itself,
\* as long as nobody aborts the locks of others.
HandlerAlone ==
    ~aborts => \A t \in Handlers : pc[t] = "writing" =>
        LET k == lock[LockOf(<<t, 1>>)] IN <<t, 1>> \in Range(k.write) /\ k.read = <<>>

\* A thread does not wait for ever: neither do statements deadlock, nor do
\* writers keep readers out (max_write_lock_count).
Waiting(t) == pc[t] \in {"wait", "upgrade", "reupgrade"}
Served == \A t \in Threads : Waiting(t) ~> ~Waiting(t)
=============================================================================
