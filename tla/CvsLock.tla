------------------------------ MODULE CvsLock ------------------------------
(***************************************************************************)
(* The repository locks of CVS 1.11.4 (src/lock.c).  A directory has a     *)
(* master lock, the directory #cvs.lock; a reader makes it, leaves a file  *)
(* #cvs.rfl and removes it; a writer makes it in every directory it wants, *)
(* one after the other, sees that there are no #cvs.rfl and keeps it.  Who *)
(* does not get a lock gives up all it has, sleeps and starts again.       *)
(*                                                                         *)
(* A system call is one action.  CVS_FUDGELOCKS, which no build defines,   *)
(* is left out: nobody removes a lock of somebody else.                    *)
(***************************************************************************)
EXTENDS Integers, Sequences, SequencesExt, FiniteSets, FiniteSetsExt

CONSTANTS
    Processes,
    Dirs,         \* 1..n, in the order of fsortcmp
    Commands,     \* what a process may do: a subset of {"read", "tree", "dir"}
    UsesLockDir,  \* LockDir is set in CVSROOT/config
    Faults,       \* a subset of {"signal", "kill", "error", "dir error", "close"}
    Nobody

ASSUME DirsOrdered == Dirs \subseteq Nat /\ IsFiniteSet(Dirs)
ASSUME CommandsKnown == Commands \subseteq {"read", "tree", "dir"}
ASSUME FaultsKnown == Faults \subseteq {"signal", "kill", "error", "dir error", "close"}
ASSUME LockDirChosen == UsesLockDir \in BOOLEAN
ASSUME NobodyIsNoProc == Nobody \notin Processes

VARIABLES
    lckdir,  \* who made #cvs.lock of a directory, if it exists
    rfl,     \* whose #cvs.rfl files are in a directory
    wfl,     \* whose #cvs.wfl files
    cmd,     \* what a process does: "tree" is lock_tree_for_write, "dir" lock_dir_for_write
    list,    \* the directories it wants, in order: global_readlock or locklist
    at,      \* the one that it is locking
    have,    \* those with have_lckdir
    then,    \* what follows when its locks are removed
    doing
cvsVars == <<lckdir, rfl, wfl, cmd, list, at, have, then, doing>>

CvsInit ==
    /\ lckdir = [d \in Dirs |-> Nobody]
    /\ rfl = [d \in Dirs |-> {}] /\ wfl = [d \in Dirs |-> {}]
    /\ cmd = [p \in Processes |-> "read"] /\ list = [p \in Processes |-> <<>>] /\ at = [p \in Processes |-> 1]
    /\ have = [p \in Processes |-> {}]
    /\ then = [p \in Processes |-> "idle"] /\ doing = [p \in Processes |-> "idle"]

Here(p) == list[p][at[p]]
Goto(p, l) == doing' = [doing EXCEPT ![p] = l]
Follow(p, l) == then' = [then EXCEPT ![p] = l]
-----------------------------------------------------------------------------
(***************************************************************************)
(* The commands.  A recursion that takes one directory at a time is a      *)
(* sequence of "read" or "dir".                                            *)
(***************************************************************************)
\* Mutant: the directories in the order they were found, another one for everybody.
InOrder_Found(p, S) ==
    {s \in [1..Cardinality(S) -> S] :
        \A i, j \in DOMAIN s : i < j => IF p = Min(Processes) THEN s[i] > s[j] ELSE s[i] < s[j]}

\* The sequence of S, sorted: the only member of the set.
InOrder(p, S) ==
    {s \in [1..Cardinality(S) -> S] : \A i, j \in DOMAIN s : i < j => s[i] < s[j]}

Start(p, c, S) ==
    /\ doing[p] = "idle" /\ c \in Commands
    /\ cmd' = [cmd EXCEPT ![p] = c]
    /\ \E s \in InOrder(p, S) : list' = [list EXCEPT ![p] = s]
    /\ at' = [at EXCEPT ![p] = 1]
    /\ Goto(p, "mkdir")
    /\ UNCHANGED <<lckdir, rfl, wfl, have, then>>

Read(p) == \E d \in Dirs : Start(p, "read", {d})
WriteDir(p) == \E d \in Dirs : Start(p, "dir", {d})
WriteTree(p) == \E S \in (SUBSET Dirs) \ {{}} : Start(p, "tree", S)

\* The work is done, Lock_Cleanup follows.
Finish(p) ==
    /\ doing[p] = "working"
    /\ Goto(p, "clean") /\ Follow(p, "idle")
    /\ UNCHANGED <<lckdir, rfl, wfl, cmd, list, at, have>>
-----------------------------------------------------------------------------
(***************************************************************************)
(* Taking a lock.                                                          *)
(***************************************************************************)
\* set_lock gets #cvs.lock.
Mkdir(p) ==
    /\ doing[p] = "mkdir" /\ lckdir[Here(p)] = Nobody
    /\ lckdir' = [lckdir EXCEPT ![Here(p)] = p]
    /\ have' = [have EXCEPT ![p] = @ \cup {Here(p)}]
    /\ Goto(p, IF cmd[p] = "read" THEN "create" ELSE "readers")
    /\ UNCHANGED <<rfl, wfl, cmd, list, at, then>>

\* #cvs.lock exists: a reader waits, a writer gives up its other locks before.
Exists(p) ==
    /\ doing[p] = "mkdir" /\ lckdir[Here(p)] # Nobody
    /\ Goto(p, IF cmd[p] = "read" THEN "wait" ELSE "undo") /\ Follow(p, "wait")
    /\ UNCHANGED <<lckdir, rfl, wfl, cmd, list, at, have>>

\* What readers_exist finds in the directory of the repository.
Readers(p) == IF UsesLockDir THEN {} ELSE rfl[Here(p)] \ {p}

\* Mutant: a writer does not look for readers.
ReadersExist_Not(p) ==
    /\ doing[p] = "readers"
    /\ Goto(p, "create")
    /\ UNCHANGED <<lckdir, rfl, wfl, cmd, list, at, have, then>>

ReadersExist(p) ==
    /\ doing[p] = "readers"
    /\ IF Readers(p) = {} THEN Goto(p, "create") /\ UNCHANGED then
                          ELSE Goto(p, "clear") /\ Follow(p, "wait")
    /\ UNCHANGED <<lckdir, rfl, wfl, cmd, list, at, have>>

CreateReadLock(p) ==
    /\ doing[p] = "create" /\ cmd[p] = "read"
    /\ rfl' = [rfl EXCEPT ![Here(p)] = @ \cup {p}]
    /\ Goto(p, "clear") /\ Follow(p, "working")
    /\ UNCHANGED <<lckdir, wfl, cmd, list, at, have>>

CreateWriteLock(p) ==
    /\ doing[p] = "create" /\ cmd[p] # "read"
    /\ wfl' = [wfl EXCEPT ![Here(p)] = @ \cup {p}]
    /\ IF at[p] = Len(list[p]) THEN Goto(p, "working") /\ UNCHANGED at
                               ELSE Goto(p, "mkdir") /\ at' = [at EXCEPT ![p] = @ + 1]
    /\ UNCHANGED <<lckdir, rfl, cmd, list, have, then>>

AfterClear(p) ==
    CASE cmd[p] = "read" /\ then[p] = "working" -> "working"
      [] cmd[p] # "read" /\ then[p] = "wait" -> "undo"
      [] OTHER -> "clean"

\* Mutant: have_lckdir is not reset.
Clear_Keeps(p) ==
    /\ doing[p] = "clear"
    /\ lckdir' = [lckdir EXCEPT ![Here(p)] = Nobody]
    /\ Goto(p, AfterClear(p))
    /\ UNCHANGED <<rfl, wfl, cmd, list, at, have, then>>

\* clear_lock: a reader is in, a writer that met a reader or an error removes the rest.
Clear(p) ==
    /\ doing[p] = "clear"
    /\ lckdir' = [lckdir EXCEPT ![Here(p)] = Nobody]
    /\ have' = [have EXCEPT ![p] = @ \ {Here(p)}]
    /\ Goto(p, AfterClear(p))
    /\ UNCHANGED <<rfl, wfl, cmd, list, at, then>>

\* lock_wait, and the loop again from the first directory.
Wait(p) ==
    /\ doing[p] = "wait"
    /\ at' = [at EXCEPT ![p] = 1]
    /\ Goto(p, "mkdir")
    /\ UNCHANGED <<lckdir, rfl, wfl, cmd, list, have, then>>
-----------------------------------------------------------------------------
(***************************************************************************)
(* Removing the locks: "undo" is remove_locks, "clean" is Lock_Cleanup     *)
(* while in_lock_cleanup is set.                                           *)
(***************************************************************************)
\* The directories where something is left to remove.  readlock is gone after "forgot".
HasFile(p, d) == then[p] # "forgot" /\ p \in rfl[d] \cup wfl[d]
Held(p) == {i \in DOMAIN list[p] : list[p][i] \in have[p] \/ HasFile(p, list[p][i])}
First(p) == {list[p][i] : i \in {h \in Held(p) : \A j \in Held(p) : h <= j}}

Unlink(p) ==
    /\ doing[p] \in {"undo", "clean"}
    /\ \E d \in First(p) :
        /\ HasFile(p, d)
        /\ rfl' = [rfl EXCEPT ![d] = @ \ {p}]
        /\ wfl' = [wfl EXCEPT ![d] = @ \ {p}]
    /\ UNCHANGED <<lckdir, cmd, list, at, have, then, doing>>

Rmdir(p) ==
    /\ doing[p] \in {"undo", "clean"}
    /\ \E d \in First(p) :
        /\ ~HasFile(p, d)
        /\ lckdir' = [lckdir EXCEPT ![d] = Nobody]
        /\ have' = [have EXCEPT ![p] = @ \ {d}]
    /\ UNCHANGED <<rfl, wfl, cmd, list, at, then, doing>>

Removed(p) ==
    /\ doing[p] \in {"undo", "clean"} /\ Held(p) = {}
    /\ Goto(p, IF then[p] = "forgot" THEN "gone" ELSE then[p])
    /\ UNCHANGED <<lckdir, rfl, wfl, cmd, list, at, have, then>>
-----------------------------------------------------------------------------
(***************************************************************************)
(* Failures.                                                               *)
(***************************************************************************)
\* L_ERROR: recurse.c and lock_tree_for_write exit, lock_dir_for_write goes on.
AfterError(p) == IF cmd[p] = "dir" THEN "working" ELSE "gone"
MayFail(p) == (IF cmd[p] = "dir" THEN "dir error" ELSE "error") \in Faults

MkdirFails(p) ==
    /\ MayFail(p) /\ doing[p] = "mkdir"
    /\ Goto(p, "clean") /\ Follow(p, AfterError(p))
    /\ UNCHANGED <<lckdir, rfl, wfl, cmd, list, at, have>>

\* The file cannot be opened.
CreateFails(p) ==
    /\ MayFail(p) /\ doing[p] = "create"
    /\ Goto(p, "clear") /\ Follow(p, AfterError(p))
    /\ UNCHANGED <<lckdir, rfl, wfl, cmd, list, at, have>>

\* fclose fails: a writer unlinks its file, a reader forgets its name.
CloseFails(p) ==
    /\ "close" \in Faults /\ doing[p] = "create" /\ cmd[p] = "read"
    /\ rfl' = [rfl EXCEPT ![Here(p)] = @ \cup {p}]
    /\ Goto(p, "clear") /\ Follow(p, "forgot")
    /\ UNCHANGED <<lckdir, wfl, cmd, list, at, have>>

Running(p) == doing[p] \notin {"idle", "gone"}

\* main_cleanup: error_exit calls Lock_Cleanup, which does nothing while it runs already.
Signal(p) ==
    /\ "signal" \in Faults /\ Running(p)
    /\ IF doing[p] = "clean" THEN Goto(p, "gone") /\ UNCHANGED then
                          ELSE Goto(p, "clean") /\ Follow(p, IF then[p] = "forgot" THEN "forgot" ELSE "gone")
    /\ UNCHANGED <<lckdir, rfl, wfl, cmd, list, at, have>>

Kill(p) ==
    /\ "kill" \in Faults /\ Running(p)
    /\ Goto(p, "gone")
    /\ UNCHANGED <<lckdir, rfl, wfl, cmd, list, at, have, then>>

\* Somebody removes what a process has left, and its user starts another one.
RemovedByHand(p) ==
    /\ doing[p] = "gone"
    /\ lckdir' = [d \in Dirs |-> IF lckdir[d] = p THEN Nobody ELSE lckdir[d]]
    /\ rfl' = [d \in Dirs |-> rfl[d] \ {p}] /\ wfl' = [d \in Dirs |-> wfl[d] \ {p}]
    /\ have' = [have EXCEPT ![p] = {}]
    /\ Goto(p, "idle") /\ Follow(p, "idle")
    /\ UNCHANGED <<cmd, list, at>>
-----------------------------------------------------------------------------
Proceeds(p) ==
    \/ Mkdir(p) \/ Exists(p) \/ ReadersExist(p) \/ CreateReadLock(p) \/ CreateWriteLock(p)
    \/ Clear(p) \/ Wait(p) \/ Finish(p) \/ Unlink(p) \/ Rmdir(p) \/ Removed(p)

CvsNext ==
    \E p \in Processes :
        \/ Read(p) \/ WriteDir(p) \/ WriteTree(p) \/ Proceeds(p)
        \/ MkdirFails(p) \/ CreateFails(p) \/ CloseFails(p)
        \/ Signal(p) \/ Kill(p) \/ RemovedByHand(p)

CvsSpec == CvsInit /\ [][CvsNext]_cvsVars

TypeOK ==
    /\ lckdir \in [Dirs -> Processes \cup {Nobody}]
    /\ rfl \in [Dirs -> SUBSET Processes] /\ wfl \in [Dirs -> SUBSET Processes]
    /\ have \in [Processes -> SUBSET Dirs]
    /\ \A p \in Processes :
        /\ cmd[p] \in {"read", "tree", "dir"} /\ list[p] \in Seq(Dirs)
        /\ Running(p) => at[p] \in DOMAIN list[p]
        /\ then[p] \in {"idle", "wait", "working", "gone", "forgot"}
        /\ doing[p] \in {"idle", "mkdir", "readers", "create", "clear", "wait", "working", "undo", "clean", "gone"}

\* Whoever works on a directory.
Works(p, d) == doing[p] = "working" /\ d \in Range(list[p])
Writes(p, d) == Works(p, d) /\ cmd[p] # "read"

\* There are no two writers in a directory at the same time: lock.c:22 says that this is the
\* first use of the locks.
NoTwoWriters == \A d \in Dirs, p, q \in Processes : Writes(p, d) /\ Writes(q, d) => p = q

\* Nobody reads a directory while somebody writes it, the second use, whatever fails and
\* whoever dies on the way.
NoReaderWithWriter ==
    \A d \in Dirs, p, q \in Processes : Writes(p, d) /\ Works(q, d) => cmd[q] # "read"

\* A process removes no #cvs.lock that another has made: have_lckdir is true only of its own.
HaveIsOurs == \A p \in Processes : \A d \in have[p] : lckdir[d] = p

\* As long as somebody wants a lock, somebody gets in, unless a process is stopped on the way
\* and leaves its locks: the order of the directories keeps writers from undoing each other for
\* ever.  (One writer may wait for ever behind readers.)
SomebodyGetsIn ==
    (\E p \in Processes : doing[p] = "mkdir") ~> (\E p \in Processes : doing[p] \in {"working", "gone"})

(***************************************************************************)
(* A process that runs goes on, and its command ends.                      *)
(***************************************************************************)
CvsFairSpec == CvsSpec /\ \A p \in Processes : WF_cvsVars(Proceeds(p))
=============================================================================
