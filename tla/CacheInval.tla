----------------------------- MODULE CacheInval -----------------------------
(***************************************************************************)
(* How the backends of PostgreSQL 7.4.2 keep their relation caches up to   *)
(* date: the lists of inval.c, the order of the steps at the end of a      *)
(* transaction (xact.c), LockRelation (lmgr.c), which reads invalidation   *)
(* messages once it has the lock, and the file relcache.c keeps for        *)
(* backends that start.  The message queue is that of InvalBroadcast, which *)
(* SInval implements.                                                      *)
(***************************************************************************)
EXTENDS Naturals, Sequences, SequencesExt, FiniteSets

CONSTANTS
    Backends, NoBackend,
    Relations,
    InitRels,       \* the relations that are in the init file
    Capacity,       \* of the message queue
    MaxVersion      \* bound: the versions of catalog rows there will be

ASSUME InitRelsAreRelations == InitRels \subseteq Relations
ASSUME RelationsOrdinary == {"none", "out", "reset"} \cap Relations = {}
ASSUME NoBackendIsNone == NoBackend \notin Backends
ASSUME BoundsNatural == Capacity \in Nat /\ MaxVersion \in Nat /\ MaxVersion > 0

VARIABLES
    pending, data,  \* InvalBroadcast
    catalog,        \* the committed version of the rows of a relation
    made,           \* the number of versions ever written
    current, prior, \* what a transaction has written in this command, and before; 0: nothing
    currentMsgs, priorMsgs,     \* CurrentCmdInvalidMsgs, PriorCmdInvalidMsgs
    locks,          \* the lock of a backend on a relation
    opening,        \* what a backend is about to lock, and how
    cache,          \* the version a relcache entry was built from; 0: no entry
    invals,         \* relcacheInvalsReceived is not zero
    initFile,       \* the versions in the init file, or none
    initLock,       \* who holds RelCacheInitLock
    pc

queueVars == <<pending, data>>
xactVars == <<current, prior, currentMsgs, priorMsgs>>
cacheVars == <<cache, invals>>
fileVars == <<initFile, initLock>>
vars == <<queueVars, catalog, made, xactVars, locks, opening, cacheVars, fileVars, pc>>

Queue == INSTANCE InvalBroadcast WITH Procs <- Backends, Messages <- Relations

Nothing == [r \in Relations |-> 0]
NoFile == <<>>
NotOpening == <<>>

Init ==
    /\ Queue!Init
    /\ catalog = [r \in Relations |-> 1] /\ made = 1
    /\ current = [b \in Backends |-> Nothing] /\ prior = [b \in Backends |-> Nothing]
    /\ currentMsgs = [b \in Backends |-> {}] /\ priorMsgs = [b \in Backends |-> {}]
    /\ locks = [b \in Backends |-> [r \in Relations |-> "none"]]
    /\ opening = [b \in Backends |-> NotOpening]
    /\ cache = [b \in Backends |-> Nothing] /\ invals = [b \in Backends |-> FALSE]
    /\ initFile = NoFile /\ initLock = NoBackend
    /\ pc = [b \in Backends |-> "out"]

Goto(b, l) == pc' = [pc EXCEPT ![b] = l]

\* What a backend sees in the catalogs: the changes of its own earlier
\* commands, or else what is committed.
Visible(b, r) == IF prior[b][r] # 0 THEN prior[b][r] ELSE catalog[r]

\* The relations a backend has open.
Open(b) == {r \in Relations : locks[b][r] # "none" \/ (opening[b] # NotOpening /\ r \in Range(opening[b]))}
-----------------------------------------------------------------------------
(***************************************************************************)
(* Cache entries.                                                          *)
(***************************************************************************)
\* The cache of b after the entries of S are flushed: an entry that is open
\* (in Kept) is built anew, from what seen says, and another one is dropped.
Flushed(b, S, Kept, seen) ==
    [r \in Relations |->
        IF r \notin S \/ cache[b][r] = 0 THEN cache[b][r]
        ELSE IF r \in Kept THEN seen[r] ELSE 0]

\* AcceptInvalidationMessages, a message at a time: LocalExecuteInvalidation-
\* Message, or InvalidateSystemCaches.
AcceptOne(b) ==
    /\ pending[b] # <<>>
    /\ Queue!Receive(b)
    /\ LET S == IF data'[b] = "reset" THEN Relations ELSE {data'[b]} IN
        /\ cache' = [cache EXCEPT ![b] = Flushed(b, S, Open(b), [r \in Relations |-> Visible(b, r)])]
        /\ invals' = [invals EXCEPT ![b] = @ \/ \E r \in S : cache[b][r] # 0]
    /\ UNCHANGED <<catalog, made, xactVars, locks, opening, fileVars, pc>>

Accepting == {"begin", "startup", "locked", "check"}

Accept(b) == pc[b] \in Accepting /\ AcceptOne(b)

Accepted(b, from, to) ==
    /\ pc[b] = from /\ pending[b] = <<>>
    /\ Goto(b, to)
-----------------------------------------------------------------------------
(***************************************************************************)
(* The start of a backend.                                                 *)
(***************************************************************************)
\* InitBackendSharedInvalidationState.
Start(b) ==
    /\ pc[b] = "out"
    /\ Queue!Join(b)
    /\ Goto(b, "load")
    /\ UNCHANGED <<catalog, made, xactVars, locks, opening, cacheVars, fileVars>>

\* load_relcache_init_file.
Load(b) ==
    /\ pc[b] = "load"
    /\ IF initFile # NoFile
       THEN /\ cache' = [cache EXCEPT ![b] = [r \in Relations |-> IF r \in InitRels THEN initFile[r] ELSE 0]]
            /\ Goto(b, "idle")
       ELSE Goto(b, IF InitRels = {} THEN "idle" ELSE "startup") /\ UNCHANGED cache
    /\ UNCHANGED <<queueVars, catalog, made, xactVars, locks, opening, invals, fileVars>>

\* Without a file the transaction of the startup reads the catalogs itself.
Build(b) ==
    /\ Accepted(b, "startup", "write")
    /\ cache' = [cache EXCEPT ![b] = [r \in Relations |-> IF r \in InitRels THEN catalog[r] ELSE 0]]
    /\ UNCHANGED <<queueVars, catalog, made, xactVars, locks, opening, invals, fileVars>>

\* write_relcache_init_file: after the temporary file is written.
LockInitFile(b) ==
    /\ pc[b] = "write"
    /\ initLock = NoBackend
    /\ initLock' = b
    /\ Goto(b, "check")
    /\ UNCHANGED <<queueVars, catalog, made, xactVars, locks, opening, cacheVars, initFile>>

CheckInitFile(b) ==
    /\ Accepted(b, "check", IF invals[b] THEN "unlink" ELSE "rename")
    /\ UNCHANGED <<queueVars, catalog, made, xactVars, locks, opening, cacheVars, fileVars>>

\* The temporary file, which has what the cache had, replaces the file.  No
\* entry has changed since, or it would be unlinked.
RenameInitFile(b) ==
    /\ pc[b] \in {"rename", "unlink"}
    /\ initFile' = IF pc[b] = "rename" THEN [r \in InitRels |-> cache[b][r]] ELSE initFile
    /\ initLock' = NoBackend
    /\ Goto(b, "run")
    /\ UNCHANGED <<queueVars, catalog, made, xactVars, locks, opening, cacheVars>>

Exit(b) ==
    /\ pc[b] = "idle"
    /\ Queue!Leave(b)
    /\ cache' = [cache EXCEPT ![b] = Nothing] /\ invals' = [invals EXCEPT ![b] = FALSE]
    /\ Goto(b, "out")
    /\ UNCHANGED <<catalog, made, xactVars, locks, opening, fileVars>>
-----------------------------------------------------------------------------
(***************************************************************************)
(* A transaction.                                                          *)
(***************************************************************************)
\* StartTransaction and AtStart_Cache.
Begin(b) ==
    /\ pc[b] = "idle"
    /\ Goto(b, "begin")
    /\ UNCHANGED <<queueVars, catalog, made, xactVars, locks, opening, cacheVars, fileVars>>

Begun(b) ==
    /\ Accepted(b, "begin", "run")
    /\ UNCHANGED <<queueVars, catalog, made, xactVars, locks, opening, cacheVars, fileVars>>

\* relation_open: the entry is built before the relation is locked.
OpenRelation(b, r, mode) ==
    /\ pc[b] = "run"
    /\ locks[b][r] \notin {mode, "exclusive"}
    /\ opening' = [opening EXCEPT ![b] = <<r, mode>>]
    /\ cache' = [cache EXCEPT ![b][r] = IF @ = 0 THEN Visible(b, r) ELSE @]
    /\ Goto(b, "lock")
    /\ UNCHANGED <<queueVars, catalog, made, xactVars, locks, invals, fileVars>>

\* LockRelation: LockAcquire.
Acquire(b) ==
    /\ pc[b] = "lock"
    /\ LET r == opening[b][1]  mode == opening[b][2] IN
        /\ \A c \in Backends \ {b} :
              locks[c][r] = "none" \/ (mode = "share" /\ locks[c][r] = "share")
        /\ locks' = [locks EXCEPT ![b][r] = mode]
    /\ opening' = [opening EXCEPT ![b] = NotOpening]
    /\ Goto(b, "locked")
    /\ UNCHANGED <<queueVars, catalog, made, xactVars, cacheVars, fileVars>>

\* Mutant: the messages are not read.
Locked_Unread(b) ==
    /\ pc[b] = "locked" /\ Goto(b, "run")
    /\ UNCHANGED <<queueVars, catalog, made, xactVars, locks, opening, cacheVars, fileVars>>

\* LockRelation: all messages are read.
Locked(b) ==
    /\ Accepted(b, "locked", "run")
    /\ UNCHANGED <<queueVars, catalog, made, xactVars, locks, opening, cacheVars, fileVars>>

\* CacheInvalidateHeapTuple: a command changes the rows of a relation.
Change(b, r) ==
    /\ pc[b] = "run" /\ locks[b][r] = "exclusive" /\ made < MaxVersion
    /\ made' = made + 1
    /\ current' = [current EXCEPT ![b][r] = made']
    /\ currentMsgs' = [currentMsgs EXCEPT ![b] = @ \union {r}]
    /\ UNCHANGED <<queueVars, catalog, prior, priorMsgs, locks, opening, cacheVars, fileVars, pc>>

\* What a backend has written up to now.
Written(b) == [r \in Relations |-> IF current[b][r] # 0 THEN current[b][r] ELSE prior[b][r]]

\* Mutant: the messages of the command are forgotten.
CommandEnd_Forgets(b) ==
    /\ pc[b] = "run" /\ currentMsgs[b] # {}
    /\ prior' = [prior EXCEPT ![b] = Written(b)]
    /\ current' = [current EXCEPT ![b] = Nothing]
    /\ cache' = [cache EXCEPT ![b] = Flushed(b, currentMsgs[b], Open(b), [r \in Relations |->
                      IF prior'[b][r] # 0 THEN prior'[b][r] ELSE catalog[r]])]
    /\ invals' = [invals EXCEPT ![b] = TRUE]
    /\ currentMsgs' = [currentMsgs EXCEPT ![b] = {}]
    /\ Goto(b, "begin")
    /\ UNCHANGED <<queueVars, catalog, made, priorMsgs, locks, opening, fileVars>>

\* CommandCounterIncrement and CommandEndInvalidationMessages; then AtStart_Cache
\* reads the messages of others.
CommandEnd(b) ==
    /\ pc[b] = "run" /\ currentMsgs[b] # {}
    /\ prior' = [prior EXCEPT ![b] = Written(b)]
    /\ current' = [current EXCEPT ![b] = Nothing]
    /\ cache' = [cache EXCEPT ![b] = Flushed(b, currentMsgs[b], Open(b), [r \in Relations |->
                      IF prior'[b][r] # 0 THEN prior'[b][r] ELSE catalog[r]])]
    /\ invals' = [invals EXCEPT ![b] = TRUE]
    /\ priorMsgs' = [priorMsgs EXCEPT ![b] = @ \union currentMsgs[b]]
    /\ currentMsgs' = [currentMsgs EXCEPT ![b] = {}]
    /\ Goto(b, "begin")
    /\ UNCHANGED <<queueVars, catalog, made, locks, opening, fileVars>>

\* CommitTransaction: RecordTransactionCommit; the transaction still runs for
\* others.
RecordCommit(b) ==
    /\ pc[b] = "run"
    /\ Goto(b, "recorded")
    /\ UNCHANGED <<queueVars, catalog, made, xactVars, locks, opening, cacheVars, fileVars>>

\* MyProc->xid is reset: the changes are visible to everybody.
LeaveXact(b) ==
    /\ pc[b] = "recorded"
    /\ catalog' = [r \in Relations |-> IF Written(b)[r] # 0 THEN Written(b)[r] ELSE catalog[r]]
    /\ current' = [current EXCEPT ![b] = Nothing] /\ prior' = [prior EXCEPT ![b] = Nothing]
    /\ priorMsgs' = [priorMsgs EXCEPT ![b] = @ \union currentMsgs[b]]
    /\ currentMsgs' = [currentMsgs EXCEPT ![b] = {}]
    /\ Goto(b, "send")
    /\ UNCHANGED <<queueVars, made, locks, opening, cacheVars, fileVars>>

\* AtEOXactInvalidationMessages: RelationCacheInitFileInvalidate(true), when a
\* relation of the file has changed; no lock is needed.
UnlinkBefore(b) ==
    /\ pc[b] = "send"
    /\ initFile' = IF priorMsgs[b] \intersect InitRels # {} THEN NoFile ELSE initFile
    /\ Goto(b, IF priorMsgs[b] \intersect InitRels # {} THEN "sendInit" ELSE "sending")
    /\ UNCHANGED <<queueVars, catalog, made, xactVars, locks, opening, cacheVars, initLock>>

\* SendSharedInvalidMessage; the queue may overflow.
SendOne(b) ==
    /\ pc[b] \in {"sending", "sendInit"}
    /\ \E r \in priorMsgs[b] :
        /\ Queue!Send(r) \/ Queue!Overflow
        /\ priorMsgs' = [priorMsgs EXCEPT ![b] = @ \ {r}]
    /\ UNCHANGED <<catalog, made, current, prior, currentMsgs, locks, opening, cacheVars, fileVars, pc>>

\* Mutant: the file is not unlinked again.
UnlinkAfter_Not(b) ==
    /\ pc[b] = "sendInit" /\ priorMsgs[b] = {}
    /\ Goto(b, "sending")
    /\ UNCHANGED <<queueVars, catalog, made, xactVars, locks, opening, cacheVars, fileVars>>

\* RelationCacheInitFileInvalidate(false), which takes RelCacheInitLock.
UnlinkAfter(b) ==
    /\ pc[b] = "sendInit" /\ priorMsgs[b] = {}
    /\ initLock = NoBackend
    /\ initFile' = NoFile
    /\ Goto(b, "sending")
    /\ UNCHANGED <<queueVars, catalog, made, xactVars, locks, opening, cacheVars, initLock>>

Unlocked(b) == [locks EXCEPT ![b] = [r \in Relations |-> "none"]]

\* AtCommit_Locks.
Release(b) ==
    /\ pc[b] = "sending" /\ priorMsgs[b] = {}
    /\ locks' = Unlocked(b)
    /\ Goto(b, "idle")
    /\ UNCHANGED <<queueVars, catalog, made, xactVars, opening, cacheVars, fileVars>>

\* AbortTransaction: no entry is open any more (AtEOXact_RelationCache) when
\* the messages of the earlier commands are executed.
Abort(b) ==
    /\ pc[b] \in {"begin", "run", "lock", "locked"}
    /\ cache' = [cache EXCEPT ![b] = Flushed(b, priorMsgs[b], {}, Nothing)]
    /\ invals' = [invals EXCEPT ![b] = @ \/ priorMsgs[b] # {}]
    /\ prior' = [prior EXCEPT ![b] = Nothing] /\ current' = [current EXCEPT ![b] = Nothing]
    /\ priorMsgs' = [priorMsgs EXCEPT ![b] = {}] /\ currentMsgs' = [currentMsgs EXCEPT ![b] = {}]
    /\ opening' = [opening EXCEPT ![b] = NotOpening]
    /\ locks' = Unlocked(b)
    /\ Goto(b, "idle")
    /\ UNCHANGED <<queueVars, catalog, made, fileVars>>
-----------------------------------------------------------------------------
Startup(b) ==
    Start(b) \/ Load(b) \/ Build(b) \/ LockInitFile(b) \/ CheckInitFile(b) \/ RenameInitFile(b)
Commit(b) ==
    \/ RecordCommit(b) \/ LeaveXact(b) \/ UnlinkBefore(b) \/ SendOne(b) \/ UnlinkAfter(b) \/ Release(b)
Run(b) ==
    \/ Begin(b) \/ Begun(b) \/ Acquire(b) \/ Locked(b) \/ CommandEnd(b) \/ Abort(b)
    \/ \E r \in Relations : Change(b, r) \/ \E mode \in {"share", "exclusive"} : OpenRelation(b, r, mode)
Next ==
    \E b \in Backends : Startup(b) \/ Exit(b) \/ Accept(b) \/ Run(b) \/ Commit(b)

Spec == Init /\ [][Next]_vars
-----------------------------------------------------------------------------
\* A backend that goes on with a lock on a relation has the entry that it would
\* build now (LockRelation): whoever had changed the relation has sent the
\* messages before the lock was given up.  Entries of the init file are left
\* out: a backend that starts may load them stale, see the README.
CurrentUnderLock ==
    \A b \in Backends, r \in Relations \ InitRels :
        (pc[b] = "run" /\ locks[b][r] # "none") => cache[b][r] \in {0, Visible(b, r)}

\* A backend with an entry that is out of date has yet to be told: a message or
\* a reset waits for it, or for its sender to be sent (AtEOXact_Inval).
StaleIsPending ==
    \A b \in Backends, r \in Relations \ InitRels :
        (pc[b] # "recorded" /\ cache[b][r] \notin {0, Visible(b, r)}) =>
            \/ pending[b] = Queue!Reset
            \/ r \in Range(pending[b])
            \/ \E c \in Backends : pc[c] \in {"send", "sending", "sendInit"} /\ r \in priorMsgs[c]

\* While nobody is between its two unlinks the init file is what the catalogs
\* are: no file is left around to fool later backends
\* (RelationCacheInitFileInvalidate, write_relcache_init_file).
InitFileFresh ==
    (initFile # NoFile /\ \A c \in Backends : pc[c] \notin {"send", "sendInit"})
        => \A r \in InitRels : initFile[r] = catalog[r]
=============================================================================
