------------------------------- MODULE BufMgr -------------------------------
(***************************************************************************)
(* The shared buffers of PostgreSQL 7.4.2 (storage/buffer/bufmgr.c and     *)
(* freelist.c): reading, replacing, changing and locking pages, the lock   *)
(* for cleanup, BufferSync of a checkpoint, and errors anywhere.           *)
(*                                                                         *)
(* What a backend does under BufMgrLock is one step.  io_in_progress_lock  *)
(* is held by whoever does the I/O, so that WaitIO, which looks again at   *)
(* the flag after every wake-up, is the guard "no I/O on this buffer".     *)
(* The contents of a page are the position in the log (LSN) of its last    *)
(* change.  A backend that keeps BufMgrLock forever is at "spin".          *)
(***************************************************************************)
EXTENDS Integers, Sequences, FiniteSets

CONSTANTS
    Backends, Checkpointer, Nobody,
    Blocks,
    MaxLSN,     \* bound: changes of pages
    MaxPins,    \* bound: pins of a backend when it calls ReadBuffer
    Plans       \* settings: shared_buffers, and what may fail, or "cleanup"

ASSUME PlansKnown == Plans \subseteq [NBuffers : Nat \ {0}, may : SUBSET {"read", "write", "error", "cancel", "cleanup"}]
ASSUME ProcessesDistinct == Checkpointer \notin Backends /\ Nobody \notin Backends \cup {Checkpointer} \cup Blocks
ASSUME BackendsAssumption == IsFiniteSet(Backends)
ASSUME BoundsAssumption == MaxLSN \in Nat /\ MaxPins \in Nat \ {0}

Procs == Backends \cup {Checkpointer}
NoBlock == Nobody
Garbage == -1

VARIABLES
    plan,     \* the settings of this server
    buf,      \* BufferDescriptors: tag, refcount, flags, waiter for pin count 1, and the page
    free,     \* the free list, least recently used first
    pins,     \* PrivateRefCount
    sem,      \* the semaphores of the backends
    share,    \* cntx_lock: who has it shared
    excl,     \* cntx_lock: who has it exclusively
    pc, cur, want,   \* where a process is, with which buffer, for which block
    next,     \* the buffer that BufferSync is at
    disk,     \* the pages in the files
    lsn, flushed,    \* end of the log, and of the log on disk
    latest,   \* history: the last change of each block
    redo,     \* history: what was changed when the checkpoint began
    ckpt,     \* history: the same for the last checkpoint that has ended
    looked,   \* history: the buffers with pages a backend may have pointers into
    changed,  \* the buffers that a backend has changed and not yet given to WriteBuffer
    cleaning  \* who has the lock for cleanup
vars == <<plan, buf, free, pins, sem, share, excl, pc, cur, want, next, disk, lsn, flushed,
          latest, redo, ckpt, looked, changed, cleaning>>

Buffers == 1..plan.NBuffers

pool == <<buf, free, pins, sem>>
cntx == <<share, excl, cleaning>>
log == <<lsn, flushed, latest>>
sync == <<next, redo, ckpt>>
own == <<looked, changed>>

Init ==
    /\ plan \in Plans
    /\ buf = [b \in Buffers |-> [tag |-> NoBlock, ref |-> 0, dirty |-> FALSE, just |-> FALSE, cntx |-> FALSE,
                                 io |-> FALSE, err |-> FALSE, waiter |-> Nobody, page |-> Garbage]]
    /\ free = [i \in Buffers |-> i]
    /\ pins = [p \in Procs |-> [b \in Buffers |-> 0]] /\ sem = [p \in Procs |-> 0]
    /\ share = [b \in Buffers |-> {}] /\ excl = [b \in Buffers |-> Nobody]
    /\ pc = [p \in Procs |-> "idle"] /\ cur = [p \in Procs |-> 1] /\ want = [p \in Procs |-> NoBlock]
    /\ next = 1
    /\ disk = [k \in Blocks |-> 0] /\ lsn = 0 /\ flushed = 0
    /\ latest = [k \in Blocks |-> 0] /\ redo = latest /\ ckpt = latest
    /\ looked = [p \in Procs |-> {}] /\ changed = [p \in Procs |-> {}]
    /\ cleaning = [b \in Buffers |-> Nobody]

BufMgrLockFree == \A p \in Procs : pc[p] # "spin"
Unwritten(r) == r.dirty \/ r.cntx
BUFFER_IS_BROKEN(r) == r.err /\ ~r.dirty
Holds(p, b) == p \in share[b] \/ excl[b] = p

Goto(p, l) == pc' = [pc EXCEPT ![p] = l]
GotoWith(p, l, b) == Goto(p, l) /\ cur' = [cur EXCEPT ![p] = b]
-----------------------------------------------------------------------------
(***************************************************************************)
(* The functions that work under BufMgrLock, from one state of the pool to *)
(* the next.                                                               *)
(***************************************************************************)
Pool == [buf |-> buf, free |-> free, pins |-> pins, sem |-> sem]
SetPool(s) == buf' = s.buf /\ free' = s.free /\ pins' = s.pins /\ sem' = s.sem

Unlinked(list, b) ==
    LET i == CHOOSE j \in DOMAIN list : list[j] = b
    IN  SubSeq(list, 1, i - 1) \o SubSeq(list, i + 1, Len(list))

PinBuffer(s, p, b) ==
    [s EXCEPT !.free = IF s.buf[b].ref = 0 THEN Unlinked(@, b) ELSE @,
              !.buf[b].ref = IF s.pins[p][b] = 0 THEN @ + 1 ELSE @,
              !.pins[p][b] = @ + 1]

UnpinBuffer(s, p, b) ==
    LET ref == IF s.pins[p][b] = 1 THEN s.buf[b].ref - 1 ELSE s.buf[b].ref
        waiter == s.buf[b].waiter
        signal == ref = 1 /\ waiter # Nobody
    IN  [s EXCEPT !.pins[p][b] = @ - 1,
                  !.buf[b] = [@ EXCEPT !.ref = ref, !.waiter = IF signal THEN Nobody ELSE waiter],
                  !.free = IF ref = 0 THEN Append(@, b) ELSE @,
                  !.sem = IF signal THEN [@ EXCEPT ![waiter] = s.sem[waiter] + 1] ELSE @]

\* a pinned buffer that has the block: wait for I/O, read it again, or be done
Found(s, p, b) ==
    \/ s.buf[b].io /\ SetPool(s) /\ GotoWith(p, "waitio", b)
    \/ ~s.buf[b].io /\ BUFFER_IS_BROKEN(s.buf[b])
       /\ SetPool([s EXCEPT !.buf[b].io = TRUE]) /\ GotoWith(p, "reading", b)
    \/ ~s.buf[b].io /\ ~BUFFER_IS_BROKEN(s.buf[b]) /\ SetPool(s) /\ GotoWith(p, "idle", b)

\* the buffer gets its new name before the page is read
Retag(s, p, b, k) ==
    /\ SetPool([s EXCEPT !.buf[b].tag = k, !.buf[b].io = TRUE, !.buf[b].page = Garbage])
    /\ GotoWith(p, "reading", b)

\* GetFreeBuffer and what follows it; buffers with a write error are skipped
GetBuffer(s, p, k) ==
    LET usable == {i \in DOMAIN s.free : ~(Unwritten(s.buf[s.free[i]]) /\ s.buf[s.free[i]].err)}
        Taken(i) == [s EXCEPT !.free = SubSeq(@, i + 1, Len(@)) \o SubSeq(@, 1, i - 1),
                              !.buf[s.free[i]].ref = 1, !.pins[p][s.free[i]] = 1]
    IN  \/ s.free = << >> /\ SetPool(s) /\ GotoWith(p, "failed", cur[p])
        \/ s.free # << >> /\ usable = {} /\ SetPool(s) /\ GotoWith(p, "spin", cur[p])
        \/ \E i \in usable :
            LET b == s.free[i] IN
            /\ \A j \in usable : i <= j
            /\ \/ ~Unwritten(s.buf[b]) /\ Retag(Taken(i), p, b, k)
               \/ /\ Unwritten(s.buf[b])
                  /\ SetPool([Taken(i) EXCEPT !.buf[b].io = TRUE, !.buf[b].just = FALSE])
                  /\ GotoWith(p, "replace", b)

Having(s, k) == {b \in Buffers : s.buf[b].tag = k}

BufferAlloc(s, p, k) ==
    \/ \E b \in Having(s, k) : Found(PinBuffer(s, p, b), p, b)
    \/ Having(s, k) = {} /\ GetBuffer(s, p, k)
-----------------------------------------------------------------------------
(* ReadBuffer, ReleaseBuffer, WriteBuffer.                                 *)
PinsOf(p) == {b \in Buffers : pins[p][b] > 0}
MayRead(p, k) ==
    /\ BufMgrLockFree /\ pc[p] = "idle" /\ p \in Backends
    /\ \A b \in Having(Pool, k) : ~Holds(p, b)

ReadBuffer(p, k) ==
    /\ MayRead(p, k)
    /\ Cardinality(PinsOf(p)) < MaxPins /\ \A b \in PinsOf(p) : pins[p][b] < MaxPins
    /\ BufferAlloc(Pool, p, k)
    /\ want' = [want EXCEPT ![p] = k]
    /\ UNCHANGED <<cntx, disk, log, sync, own>>

MayRelease(p, b) == pc[p] = "idle" /\ p \in Backends /\ pins[p][b] > 0 /\ ~Holds(p, b) /\ b \notin changed[p]
Forget(p, b) == looked' = [looked EXCEPT ![p] = IF pins[p][b] = 1 THEN @ \ {b} ELSE @]

ReleaseBuffer(p, b) ==
    /\ MayRelease(p, b) /\ BufMgrLockFree
    /\ SetPool(UnpinBuffer(Pool, p, b)) /\ Forget(p, b)
    /\ UNCHANGED <<cntx, pc, cur, want, disk, log, sync, changed>>

ReleaseAndReadBuffer(p, b, k) ==
    /\ MayRelease(p, b) /\ buf[b].tag # k /\ MayRead(p, k)
    /\ BufferAlloc(UnpinBuffer(Pool, p, b), p, k) /\ Forget(p, b)
    /\ want' = [want EXCEPT ![p] = k]
    /\ UNCHANGED <<cntx, disk, log, sync, changed>>

WriteBuffer(p, b) ==
    /\ pc[p] = "idle" /\ b \in changed[p] /\ excl[b] # p /\ BufMgrLockFree
    /\ SetPool(UnpinBuffer([Pool EXCEPT !.buf[b].dirty = TRUE, !.buf[b].just = TRUE], p, b))
    /\ Forget(p, b) /\ changed' = [changed EXCEPT ![p] = @ \ {b}]
    /\ UNCHANGED <<cntx, pc, cur, want, disk, log, sync>>

WaitIO(p) ==
    /\ pc[p] = "waitio" /\ BufMgrLockFree /\ ~buf[cur[p]].io
    /\ Found(Pool, p, cur[p])
    /\ UNCHANGED <<cntx, want, disk, log, sync, own>>

\* BufferReplace: the log first, then the page
ReplaceFlush(p) ==
    /\ pc[p] = "replace"
    /\ flushed' = IF buf[cur[p]].page > flushed THEN buf[cur[p]].page ELSE flushed
    /\ Goto(p, "write")
    /\ UNCHANGED <<pool, cntx, cur, want, disk, lsn, latest, sync, own>>

ReplaceWrite(p) ==
    /\ pc[p] = "write"
    /\ disk' = [disk EXCEPT ![buf[cur[p]].tag] = buf[cur[p]].page]
    /\ Goto(p, "written")
    /\ UNCHANGED <<pool, cntx, cur, want, log, sync, own>>

Replaced_NoLookup(p) ==
    LET b == cur[p]
        s == [Pool EXCEPT !.buf[b].dirty = FALSE, !.buf[b].cntx = FALSE]
        given == UnpinBuffer([s EXCEPT !.buf[b].io = FALSE], p, b)
    IN  /\ pc[p] = "written" /\ BufMgrLockFree
        /\ \/ s.buf[b].ref > 1 /\ GetBuffer(given, p, want[p])
           \/ s.buf[b].ref = 1 /\ Retag(s, p, b, want[p])
        /\ UNCHANGED <<cntx, want, disk, log, sync, own>>

\* what BufferAlloc finds out after the write
Replaced(p) ==
    LET b == cur[p]
        s == [Pool EXCEPT !.buf[b].dirty = FALSE, !.buf[b].cntx = FALSE]
        given == UnpinBuffer([s EXCEPT !.buf[b].io = FALSE], p, b)
    IN  /\ pc[p] = "written" /\ BufMgrLockFree
        /\ \/ Having(s, want[p]) # {} /\ BufferAlloc(given, p, want[p])
           \/ Having(s, want[p]) = {} /\ s.buf[b].ref > 1 /\ GetBuffer(given, p, want[p])
           \/ Having(s, want[p]) = {} /\ s.buf[b].ref = 1 /\ Retag(s, p, b, want[p])
        /\ UNCHANGED <<cntx, want, disk, log, sync, own>>

\* smgrread, and the flags after it
ReadPage(p) ==
    /\ pc[p] = "reading" /\ BufMgrLockFree
    /\ buf' = [buf EXCEPT ![cur[p]].page = disk[buf[cur[p]].tag], ![cur[p]].err = FALSE, ![cur[p]].io = FALSE]
    /\ Goto(p, "idle")
    /\ UNCHANGED <<free, pins, sem, cntx, cur, want, disk, log, sync, own>>
-----------------------------------------------------------------------------
(* The lock on the contents of a buffer, and changes under it.             *)
MayLock(p, b) == pc[p] = "idle" /\ p \in Backends /\ pins[p][b] > 0 /\ ~Holds(p, b) /\ b \notin changed[p]
LockFree(b) == excl[b] = Nobody /\ share[b] = {}

LockBufferShare(p, b) ==
    /\ MayLock(p, b) /\ excl[b] = Nobody
    /\ share' = [share EXCEPT ![b] = @ \cup {p}] /\ looked' = [looked EXCEPT ![p] = @ \cup {b}]
    /\ UNCHANGED <<pool, excl, cleaning, pc, cur, want, disk, log, sync, changed>>

\* cntxDirty is set here, before the change is logged
LockBufferExclusive(p, b) ==
    /\ MayLock(p, b) /\ LockFree(b)
    /\ excl' = [excl EXCEPT ![b] = p] /\ looked' = [looked EXCEPT ![p] = @ \cup {b}]
    /\ buf' = [buf EXCEPT ![b].cntx = TRUE]
    /\ UNCHANGED <<free, pins, sem, share, cleaning, pc, cur, want, disk, log, sync, changed>>

UnlockBuffer(p, b) ==
    /\ pc[p] = "idle" /\ p \in Backends /\ Holds(p, b)
    /\ share' = [share EXCEPT ![b] = @ \ {p}]
    /\ excl' = [excl EXCEPT ![b] = IF @ = p THEN Nobody ELSE @]
    /\ cleaning' = [cleaning EXCEPT ![b] = IF @ = p THEN Nobody ELSE @]
    /\ UNCHANGED <<pool, pc, cur, want, disk, log, sync, own>>

\* a critical section: the change and its log record
ChangePage(p, b) ==
    /\ pc[p] = "idle" /\ excl[b] = p /\ lsn < MaxLSN
    /\ lsn' = lsn + 1
    /\ latest' = [latest EXCEPT ![buf[b].tag] = lsn + 1]
    /\ buf' = [buf EXCEPT ![b].page = lsn + 1]
    /\ changed' = [changed EXCEPT ![p] = @ \cup {b}]
    /\ UNCHANGED <<free, pins, sem, cntx, pc, cur, want, disk, flushed, sync, looked>>

LockBufferForCleanup(p, b) ==
    /\ "cleanup" \in plan.may /\ MayLock(p, b) /\ pins[p][b] = 1 /\ LockFree(b)
    /\ excl' = [excl EXCEPT ![b] = p]
    /\ buf' = [buf EXCEPT ![b].cntx = TRUE]
    /\ GotoWith(p, "cleanup", b)
    /\ UNCHANGED <<free, pins, sem, share, cleaning, want, disk, log, sync, own>>

\* the only pin, or wait for that; two waiters are an error
CountPins(p) ==
    LET b == cur[p]
        drop == excl' = [excl EXCEPT ![b] = Nobody]
    IN  /\ pc[p] = "cleanup" /\ BufMgrLockFree
        /\ \/ /\ buf[b].ref = 1
              /\ cleaning' = [cleaning EXCEPT ![b] = p] /\ looked' = [looked EXCEPT ![p] = @ \cup {b}]
              /\ Goto(p, "idle") /\ UNCHANGED <<buf, excl>>
           \/ /\ buf[b].ref > 1 /\ buf[b].waiter # Nobody
              /\ drop /\ Goto(p, "failed") /\ UNCHANGED <<buf, cleaning, looked>>
           \/ /\ buf[b].ref > 1 /\ buf[b].waiter = Nobody
              /\ buf' = [buf EXCEPT ![b].waiter = p]
              /\ drop /\ Goto(p, "sleeping") /\ UNCHANGED <<cleaning, looked>>
    /\ UNCHANGED <<free, pins, sem, share, cur, want, disk, log, sync, changed>>

ProcWaitForSignal_Trusts(p) ==
    /\ pc[p] = "sleeping" /\ sem[p] > 0 /\ LockFree(cur[p])
    /\ sem' = [sem EXCEPT ![p] = @ - 1]
    /\ excl' = [excl EXCEPT ![cur[p]] = p] /\ cleaning' = [cleaning EXCEPT ![cur[p]] = p]
    /\ buf' = [buf EXCEPT ![cur[p]].cntx = TRUE]
    /\ Goto(p, "idle")
    /\ UNCHANGED <<free, pins, share, cur, want, disk, log, sync, own>>

ProcWaitForSignal(p) ==
    /\ pc[p] = "sleeping" /\ sem[p] > 0 /\ LockFree(cur[p])
    /\ sem' = [sem EXCEPT ![p] = @ - 1]
    /\ excl' = [excl EXCEPT ![cur[p]] = p]
    /\ buf' = [buf EXCEPT ![cur[p]].cntx = TRUE]
    /\ Goto(p, "cleanup")
    /\ UNCHANGED <<free, pins, share, cleaning, cur, want, disk, log, sync, own>>
-----------------------------------------------------------------------------
(***************************************************************************)
(* A checkpoint: the redo pointer, then BufferSync over all buffers.  The  *)
(* I/O flag is set before the lock on the contents is requested.           *)
(***************************************************************************)
CreateCheckPoint ==
    /\ pc[Checkpointer] = "idle"
    /\ redo' = latest /\ next' = 1
    /\ Goto(Checkpointer, "sync")
    /\ UNCHANGED <<pool, cntx, cur, want, disk, log, ckpt, own>>

SyncBuffer_DirtyOnly ==
    LET p == Checkpointer IN
    /\ pc[p] = "sync" /\ BufMgrLockFree /\ next \in Buffers
    /\ \/ /\ ~buf[next].dirty
          /\ next' = next + 1 /\ UNCHANGED <<pool, pc, cur>>
       \/ /\ buf[next].dirty /\ ~buf[next].io
          /\ SetPool([PinBuffer(Pool, p, next) EXCEPT !.buf[next].io = TRUE])
          /\ GotoWith(p, "synclock", next) /\ UNCHANGED next
    /\ UNCHANGED <<cntx, want, disk, log, redo, ckpt, own>>

SyncBuffer ==
    LET p == Checkpointer IN
    /\ pc[p] = "sync" /\ BufMgrLockFree /\ next \in Buffers
    /\ \/ /\ ~Unwritten(buf[next])
          /\ next' = next + 1 /\ UNCHANGED <<pool, pc, cur>>
       \/ /\ Unwritten(buf[next]) /\ ~buf[next].io
          /\ SetPool([PinBuffer(Pool, p, next) EXCEPT !.buf[next].io = TRUE])
          /\ GotoWith(p, "synclock", next) /\ UNCHANGED next
    /\ UNCHANGED <<cntx, want, disk, log, redo, ckpt, own>>

\* LockBuffer(SHARE), XLogFlush, and BM_JUST_DIRTIED is cleared
SyncLock ==
    LET p == Checkpointer
        b == cur[p] IN
    /\ pc[p] = "synclock" /\ BufMgrLockFree /\ excl[b] = Nobody
    /\ share' = [share EXCEPT ![b] = @ \cup {p}]
    /\ flushed' = IF buf[b].page > flushed THEN buf[b].page ELSE flushed
    /\ buf' = [buf EXCEPT ![b].just = FALSE]
    /\ Goto(p, "syncwrite")
    /\ UNCHANGED <<free, pins, sem, excl, cleaning, cur, want, disk, lsn, latest, sync, own>>

SyncWrite ==
    LET p == Checkpointer
        b == cur[p] IN
    /\ pc[p] = "syncwrite"
    /\ disk' = [disk EXCEPT ![buf[b].tag] = buf[b].page]
    /\ buf' = [buf EXCEPT ![b].cntx = FALSE]
    /\ share' = [share EXCEPT ![b] = @ \ {p}]
    /\ Goto(p, "syncdone")
    /\ UNCHANGED <<free, pins, sem, excl, cleaning, cur, want, log, sync, own>>

SyncDone ==
    LET p == Checkpointer
        b == cur[p] IN
    /\ pc[p] = "syncdone" /\ BufMgrLockFree
    /\ SetPool(UnpinBuffer([Pool EXCEPT !.buf[b].io = FALSE, !.buf[b].dirty = @ /\ buf[b].just], p, b))
    /\ next' = next + 1 /\ Goto(p, "sync")
    /\ UNCHANGED <<cntx, cur, want, disk, log, redo, ckpt, own>>

CheckPointEnds ==
    /\ pc[Checkpointer] = "sync" /\ next = plan.NBuffers + 1
    /\ ckpt' = redo /\ Goto(Checkpointer, "idle")
    /\ UNCHANGED <<pool, cntx, cur, want, disk, log, next, redo, own>>
-----------------------------------------------------------------------------
(***************************************************************************)
(* Errors.  LWLockReleaseAll gives up the locks, then come AbortBufferIO,  *)
(* UnlockBuffers and AtEOXact_Buffers.                                     *)
(***************************************************************************)
Fail(p, l) ==
    /\ share' = [b \in Buffers |-> share[b] \ {p}]
    /\ excl' = [b \in Buffers |-> IF excl[b] = p THEN Nobody ELSE excl[b]]
    /\ cleaning' = [b \in Buffers |-> IF cleaning[b] = p THEN Nobody ELSE cleaning[b]]
    /\ Goto(p, l)
    /\ UNCHANGED <<pool, cur, want, disk, log, sync, own>>

Raised(p) == pc[p] = "failed" /\ Fail(p, "unlock")
ReadFails(p) == "read" \in plan.may /\ pc[p] = "reading" /\ Fail(p, "abortin")
WriteFails(p) == "write" \in plan.may /\ pc[p] \in {"write", "syncwrite"} /\ Fail(p, "abortout")
Error(p) == "error" \in plan.may /\ p \in Backends /\ pc[p] = "idle" /\ PinsOf(p) # {} /\ Fail(p, "unlock")
Cancel(p) == "cancel" \in plan.may /\ pc[p] = "sleeping" /\ Fail(p, "unlock")

AbortBufferIO(p) ==
    /\ pc[p] \in {"abortin", "abortout"} /\ BufMgrLockFree
    /\ buf' = [buf EXCEPT ![cur[p]].err = TRUE, ![cur[p]].io = FALSE,
                          ![cur[p]].dirty = @ \/ pc[p] = "abortout"]
    /\ Goto(p, "unlock")
    /\ UNCHANGED <<free, pins, sem, cntx, cur, want, disk, log, sync, own>>

\* the wait for pin count 1 is over, and so is a signal for it
UnlockBuffers(p) ==
    /\ pc[p] = "unlock" /\ BufMgrLockFree
    /\ buf' = [b \in Buffers |-> [buf[b] EXCEPT !.waiter = IF @ = p THEN Nobody ELSE @]]
    /\ sem' = [sem EXCEPT ![p] = 0]
    /\ Goto(p, "unpin")
    /\ UNCHANGED <<free, pins, cntx, cur, want, disk, log, sync, own>>

AtEOXact_Buffers(p) ==
    /\ pc[p] = "unpin" /\ BufMgrLockFree
    /\ \/ \E b \in PinsOf(p) :
            /\ SetPool(UnpinBuffer([Pool EXCEPT !.pins[p][b] = 1], p, b))
            /\ looked' = [looked EXCEPT ![p] = @ \ {b}] /\ changed' = [changed EXCEPT ![p] = @ \ {b}]
            /\ UNCHANGED pc
       \/ PinsOf(p) = {} /\ Goto(p, "idle") /\ UNCHANGED <<pool, own>>
    /\ UNCHANGED <<cntx, cur, want, disk, log, sync>>
-----------------------------------------------------------------------------
Work(p) ==
    \/ WaitIO(p) \/ ReplaceFlush(p) \/ ReplaceWrite(p) \/ Replaced(p) \/ ReadPage(p)
    \/ CountPins(p) \/ ProcWaitForSignal(p)
    \/ Raised(p) \/ AbortBufferIO(p) \/ UnlockBuffers(p) \/ AtEOXact_Buffers(p)

Sync == SyncBuffer \/ SyncLock \/ SyncWrite \/ SyncDone \/ CheckPointEnds

GiveUp(p) == \E b \in Buffers : UnlockBuffer(p, b) \/ WriteBuffer(p, b) \/ ReleaseBuffer(p, b)

Calls(p) ==
    \/ \E k \in Blocks : ReadBuffer(p, k)
    \/ \E b \in Buffers :
        \/ LockBufferShare(p, b) \/ LockBufferExclusive(p, b) \/ ChangePage(p, b) \/ LockBufferForCleanup(p, b)
        \/ \E k \in Blocks : ReleaseAndReadBuffer(p, b, k)

Errors(p) == ReadFails(p) \/ WriteFails(p) \/ Error(p) \/ Cancel(p)

Move ==
    \/ \E p \in Procs : Work(p) \/ GiveUp(p) \/ Calls(p) \/ Errors(p)
    \/ CreateCheckPoint \/ Sync

Next == Move /\ UNCHANGED plan

Spec == Init /\ [][Next]_vars
-----------------------------------------------------------------------------
\* A block is never in two buffers, although a backend that makes room for it
\* gives up BufMgrLock in between (BufferAlloc looks it up again).
OneBufferPerBlock == \A k \in Blocks : Cardinality(Having(Pool, k)) <= 1

\* The reference count of a buffer is the number of processes that have it
\* pinned, and a buffer is on the free list, once, if and only if it has no pin.
PinsExact ==
    /\ \A b \in Buffers : buf[b].ref = Cardinality({p \in Procs : pins[p][b] > 0})
    /\ {free[i] : i \in DOMAIN free} = {b \in Buffers : buf[b].ref = 0}
    /\ Len(free) = Cardinality({b \in Buffers : buf[b].ref = 0})

\* A backend that has read a block has its last version in its buffer, the
\* only one of the block, with an exact count of pins: nobody writes over the
\* page, renames the buffer or reads it from disk again.  (After a failed write
\* a page that nobody could read may be taken for good: BM_DIRTY is set.)
PagesCurrent ==
    /\ OneBufferPerBlock /\ PinsExact
    /\ "write" \notin plan.may =>
         \A p \in Backends, b \in Buffers :
             pc[p] = "idle" /\ pins[p][b] > 0 => buf[b].tag # NoBlock /\ buf[b].page = latest[buf[b].tag]

\* A page that is in no buffer has its last version on disk: no change is
\* taken for written that is not (BM_DIRTY, BM_JUST_DIRTIED and cntxDirty).
EvictedAreWritten == \A k \in Blocks : Having(Pool, k) = {} => disk[k] = latest[k]

\* No page goes to disk before the log of its last change (BufferReplace
\* flushes the log without a lock on the page).
WriteAheadLog == \A k \in Blocks : disk[k] <= flushed

\* What was logged before the redo pointer of a checkpoint is on disk when
\* the checkpoint has ended, although BufferSync passes by buffers that are
\* locked and changed at that moment.
CheckpointCovers == \A k \in Blocks : disk[k] >= ckpt[k]

\* No change is lost: not by the replacement of its page, not by a crash, not
\* by the removal of log files after a checkpoint.
Durable ==
    /\ WriteAheadLog
    /\ "write" \notin plan.may => EvictedAreWritten /\ CheckpointCovers

\* While a backend has the lock for cleanup, nobody has a pointer into the page.
CleanupAlone ==
    \A b \in Buffers : cleaning[b] # Nobody => \A q \in Backends \ {cleaning[b]} : b \notin looked[q]

\* A backend that sleeps until it has the only pin has not got it yet, and
\* will be signalled, or has a signal waiting (UnpinBuffer).
NoLostSignal ==
    \A p \in Backends : pc[p] = "sleeping" /\ sem[p] = 0 => buf[cur[p]].waiter = p /\ buf[cur[p]].ref > 1

\* LockBufferForCleanup excludes the others and does not sleep too long.
CleanupSafe == CleanupAlone /\ NoLostSignal
=============================================================================
