----------------------------- MODULE LockProofs -----------------------------
(***************************************************************************)
(* Proofs about the two parts that lock things for their users.            *)
(*                                                                         *)
(* CvsLock, for any number of processes and directories, whatever fails    *)
(* and whoever dies.                                                       *)
(*                                                                         *)
(* LockMgr, for any number of processes, tags, modes and places, as long   *)
(* as no LOCK is created while a PROCLOCK is left of one that was freed:   *)
(* nobody holds what conflicts with another, the counts and the masks that *)
(* GrantLock, LockRelease, LockReleaseAll, RemoveFromWaitQueue and         *)
(* ProcLockWakeup update are what is held and asked for, and whoever is    *)
(* awakened has what it waited for.                                        *)
(***************************************************************************)
EXTENDS CvsLock, LockMgr, FiniteSetTheorems, FunctionTheorems, WellFoundedInduction, TLAPS

-----------------------------------------------------------------------------
(***************************************************************************)
(* CvsLock.                                                                *)
(***************************************************************************)
PCs == {"idle", "mkdir", "readers", "create", "clear", "wait", "working", "undo", "clean", "gone"}
Thens == {"idle", "wait", "working", "gone", "forgot"}
Cmds == {"read", "tree", "dir"}

Types ==
    /\ lckdir \in [Dirs -> Processes \cup {Nobody}]
    /\ rfl \in [Dirs -> SUBSET Processes] /\ wfl \in [Dirs -> SUBSET Processes]
    /\ have \in [Processes -> SUBSET Dirs]
    /\ cmd \in [Processes -> Cmds] /\ list \in [Processes -> Seq(Dirs)] /\ at \in [Processes -> Nat]
    /\ then \in [Processes -> Thens] /\ doing \in [Processes -> PCs]

\* A process that runs walks inside of its list, and a reader's list is one directory.
Walks(p) ==
    /\ Running(p) => at[p] \in 1..Len(list[p])
    /\ Running(p) /\ cmd[p] = "read" => Len(list[p]) = 1

\* The directory that is being locked is locked.
LocksHere(p) == doing[p] \in {"readers", "create", "clear"} => Here(p) \in have[p]

TypeInv == Types /\ \A p \in Processes : Walks(p)
Owned == \A p \in Processes : LocksHere(p)

\* What InOrder(p, S) holds are sequences of directories, as long as S is large.
LEMMA InOrderSeq ==
    ASSUME NEW p, NEW S \in SUBSET Dirs, IsFiniteSet(S), S # {}, NEW s \in InOrder(p, S)
    PROVE  s \in Seq(Dirs) /\ Len(s) = Cardinality(S) /\ Len(s) \in Nat \ {0}
<1>1. Cardinality(S) \in Nat /\ Cardinality(S) # 0
  BY FS_CardinalityType, FS_EmptySet
<1>2. s \in [1..Cardinality(S) -> S]
  BY DEF InOrder
<1>3. s \in Seq(S) /\ Len(s) = Cardinality(S)
  BY <1>1, <1>2
<1> QED
  BY <1>1, <1>2, <1>3

\* A command begins with a sequence of directories that is not empty.
LEMMA StartSeq ==
    ASSUME NEW p \in Processes, NEW c, NEW S \in SUBSET Dirs, S # {}, Start(p, c, S)
    PROVE  \E s \in Seq(Dirs) : /\ list' = [list EXCEPT ![p] = s]
                                /\ Len(s) = Cardinality(S) /\ Len(s) \in Nat \ {0}
<1>1. IsFiniteSet(S)
  BY DirsOrdered, FS_Subset
<1>2. PICK s \in InOrder(p, S) : list' = [list EXCEPT ![p] = s]
  BY DEF Start
<1> QED
  BY <1>1, <1>2, InOrderSeq

\* Where a process is locking is a directory.
LEMMA HereDir ==
    ASSUME TypeInv, NEW p \in Processes, Running(p)
    PROVE  Here(p) \in Dirs
BY DEF TypeInv, Types, Walks, Here

\* What is removed is a directory of the list, and it is locked or has a file.
LEMMA FirstDir ==
    ASSUME TypeInv, NEW p \in Processes, NEW d \in First(p)
    PROVE  d \in Dirs /\ (HasFile(p, d) \/ d \in have[p])
<1>1. PICK i \in Held(p) : d = list[p][i]
  BY DEF First
<1> QED
  BY <1>1 DEF Held, TypeInv, Types

\* What a process knows of itself.
Local(q) == <<cmd[q], list[q], at[q], have[q], then[q], doing[q]>>

\* A step of p leaves what the others know of themselves alone.
OnlyOf(p) == \A q \in Processes \ {p} : Local(q)' = Local(q)

\* Any step of p, taken apart.
Move(p) ==
    \/ \E c \in Commands, S \in SUBSET Dirs : S # {} /\ (c = "read" => Cardinality(S) = 1) /\ Start(p, c, S)
    \/ Mkdir(p) \/ Exists(p) \/ ReadersExist(p) \/ CreateReadLock(p) \/ CreateWriteLock(p)
    \/ Clear(p) \/ Wait(p) \/ Finish(p) \/ Unlink(p) \/ Rmdir(p) \/ Removed(p)
    \/ MkdirFails(p) \/ CreateFails(p) \/ CloseFails(p)
    \/ Signal(p) \/ Kill(p) \/ RemovedByHand(p)

\* Every step is a move of one process.
LEMMA NextMoves == CvsNext => \E p \in Processes : Move(p)
<1> SUFFICES ASSUME NEW p \in Processes, Read(p) \/ WriteDir(p) \/ WriteTree(p)
             PROVE  \E c \in Commands, S \in SUBSET Dirs :
                        S # {} /\ (c = "read" => Cardinality(S) = 1) /\ Start(p, c, S)
  BY DEF CvsNext, Proceeds, Move
<1>1. CASE Read(p)
  <2>1. PICK d \in Dirs : Start(p, "read", {d})
    BY <1>1 DEF Read
  <2>2. "read" \in Commands
    BY <2>1 DEF Start
  <2>3. Cardinality({d}) = 1
    BY FS_Singleton
  <2> QED
    BY <2>1, <2>2, <2>3
<1>2. CASE WriteDir(p)
  <2>1. PICK d \in Dirs : Start(p, "dir", {d})
    BY <1>2 DEF WriteDir
  <2>2. "dir" \in Commands
    BY <2>1 DEF Start
  <2> QED
    BY <2>1, <2>2
<1>3. CASE WriteTree(p)
  <2>1. PICK S \in (SUBSET Dirs) \ {{}} : Start(p, "tree", S)
    BY <1>3 DEF WriteTree
  <2>2. "tree" \in Commands
    BY <2>1 DEF Start
  <2> QED
    BY <2>1, <2>2
<1> QED
  BY <1>1, <1>2, <1>3
-----------------------------------------------------------------------------
\* A command that begins keeps the types, and touches only its process.
LEMMA StartTypes ==
    ASSUME TypeInv, NEW p \in Processes, NEW c \in Commands, NEW S \in SUBSET Dirs, S # {},
           c = "read" => Cardinality(S) = 1, Start(p, c, S)
    PROVE  Types' /\ Walks(p)' /\ OnlyOf(p)
<1>1. PICK s \in Seq(Dirs) : /\ list' = [list EXCEPT ![p] = s]
                             /\ Len(s) = Cardinality(S) /\ Len(s) \in Nat \ {0}
  BY StartSeq
<1>2. /\ cmd' = [cmd EXCEPT ![p] = c] /\ at' = [at EXCEPT ![p] = 1]
      /\ doing' = [doing EXCEPT ![p] = "mkdir"] /\ UNCHANGED <<lckdir, rfl, wfl, have, then>>
  BY DEF Start, Goto
<1>3. c \in Cmds
  BY CommandsKnown DEF Cmds
<1>4. Types'
  BY <1>1, <1>2, <1>3 DEF TypeInv, Types, PCs
<1>5. list'[p] = s /\ cmd'[p] = c /\ at'[p] = 1
  BY <1>1, <1>2 DEF TypeInv, Types
<1>6. Walks(p)'
  <2>1. 1 \in 1..Len(s) /\ (c = "read" => Len(s) = 1)
    BY <1>1
  <2> QED
    BY <1>5, <2>1 DEF Walks
<1>7. OnlyOf(p)
  BY <1>1, <1>2 DEF OnlyOf, Local, TypeInv, Types
<1> QED
  BY <1>4, <1>6, <1>7

\* So does every other move.
LEMMA MoveTypes ==
    ASSUME TypeInv, NEW p \in Processes, Move(p)
    PROVE  Types' /\ Walks(p)' /\ OnlyOf(p)
<1> USE DEF TypeInv, Types, Walks, OnlyOf, Local, Goto, Follow, PCs, Thens, Running
<1>1. CASE Mkdir(p)
  BY <1>1, HereDir DEF Mkdir
<1>2. CASE Exists(p)
  BY <1>2 DEF Exists
<1>3. CASE ReadersExist(p)
  BY <1>3 DEF ReadersExist
<1>4. CASE CreateReadLock(p)
  BY <1>4, HereDir DEF CreateReadLock
<1>5. CASE CreateWriteLock(p)
  <2>1. /\ Here(p) \in Dirs /\ Running(p) /\ cmd[p] # "read"
        /\ wfl' = [wfl EXCEPT ![Here(p)] = wfl[Here(p)] \cup {p}]
        /\ UNCHANGED <<lckdir, rfl, cmd, list, have, then>>
        /\ \/ doing' = [doing EXCEPT ![p] = "working"] /\ at' = at
           \/ /\ doing' = [doing EXCEPT ![p] = "mkdir"]
              /\ at[p] # Len(list[p]) /\ at' = [at EXCEPT ![p] = at[p] + 1]
    BY <1>5, HereDir DEF CreateWriteLock
  <2>2. at'[p] = at[p] \/ (at[p] # Len(list[p]) /\ at'[p] = at[p] + 1)
    BY <2>1
  <2>3. at[p] \in 1..Len(list[p]) /\ Len(list[p]) \in Nat
    BY <2>1
  <2>4. at'[p] \in 1..Len(list[p])
    BY <2>2, <2>3
  <2>5. Types'
    <3>1. doing' \in [Processes -> PCs]
      BY <2>1
    <3>2. at' \in [Processes -> Nat]
      <4>1. at \in [Processes -> Nat] /\ at[p] + 1 \in Nat
        BY <2>3
      <4>2. at' = at \/ at' = [at EXCEPT ![p] = at[p] + 1]
        BY <2>1
      <4> HIDE DEF TypeInv, Types, Walks, OnlyOf, Local, Goto, Follow, PCs, Thens, Running
      <4> QED
        BY <4>1, <4>2
    <3>3. wfl' \in [Dirs -> SUBSET Processes]
      BY <2>1
    <3> QED
      BY <2>1, <3>1, <3>2, <3>3
  <2>6. OnlyOf(p)
    <3>1. \A q \in Processes \ {p} : doing'[q] = doing[q] /\ at'[q] = at[q]
      BY <2>1
    <3> QED
      BY <2>1, <3>1
  <2> QED
    BY <2>1, <2>4, <2>5, <2>6
<1>6. CASE Clear(p)
  BY <1>6, HereDir DEF Clear, AfterClear
<1>7. CASE Wait(p)
  <2>1. /\ Types' /\ OnlyOf(p) /\ list'[p] = list[p] /\ cmd'[p] = cmd[p] /\ Running(p)
        /\ at'[p] = 1
    BY <1>7 DEF Wait
  <2>2. 1 \in 1..Len(list[p])
    BY <2>1
  <2> QED
    BY <2>1, <2>2
<1>8. CASE Finish(p)
  BY <1>8 DEF Finish
<1>9. CASE Unlink(p)
  BY <1>9, FirstDir DEF Unlink
<1>10. CASE Rmdir(p)
  BY <1>10, FirstDir DEF Rmdir
<1>11. CASE Removed(p)
  BY <1>11 DEF Removed
<1>12. CASE MkdirFails(p)
  BY <1>12 DEF MkdirFails, AfterError
<1>13. CASE CreateFails(p)
  BY <1>13 DEF CreateFails, AfterError
<1>14. CASE CloseFails(p)
  BY <1>14, HereDir DEF CloseFails
<1>15. CASE Signal(p)
  BY <1>15 DEF Signal
<1>16. CASE Kill(p)
  BY <1>16 DEF Kill
<1>17. CASE RemovedByHand(p)
  BY <1>17 DEF RemovedByHand
<1> QED
  BY <1>1, <1>2, <1>3, <1>4, <1>5, <1>6, <1>7, <1>8, <1>9, <1>10, <1>11, <1>12, <1>13, <1>14,
     <1>15, <1>16, <1>17, StartTypes DEF Move

\* The types are kept, and nobody walks past the end of its list.
THEOREM TypeStep == TypeInv /\ [CvsNext]_cvsVars => TypeInv'
<1>1. ASSUME TypeInv, CvsNext PROVE TypeInv'
  <2>1. PICK p \in Processes : Move(p)
    BY <1>1, NextMoves
  <2>2. Types' /\ Walks(p)' /\ OnlyOf(p)
    BY <1>1, <2>1, MoveTypes
  <2>3. ASSUME NEW q \in Processes \ {p} PROVE Walks(q)'
    BY <1>1, <2>2 DEF OnlyOf, Local, TypeInv, Walks, Running
  <2> QED
    BY <2>2, <2>3 DEF TypeInv
<1>2. ASSUME TypeInv, UNCHANGED cvsVars PROVE TypeInv'
  BY <1>2 DEF cvsVars, TypeInv, Types, Walks, Running
<1> QED
  BY <1>1, <1>2

\* The types hold before the first command.
LEMMA TypeInit == CvsInit => TypeInv
BY DEF CvsInit, TypeInv, Types, Walks, Running, PCs, Thens, Cmds

\* Every variable has its type, and a process never walks past its list.
THEOREM TypeInvariant == CvsSpec => []TypeOK
<1>1. TypeInv => TypeOK
  BY DEF TypeInv, Types, Walks, TypeOK, PCs, Thens, Cmds
<1> QED
  BY <1>1, TypeInit, TypeStep, PTL DEF CvsSpec
-----------------------------------------------------------------------------
(***************************************************************************)
(* Whose a lock is.                                                        *)
(***************************************************************************)
\* Who looks for readers, makes its file or clears its lock has the lock.
LEMMA OwnedStep ==
    ASSUME TypeInv, Owned, NEW p \in Processes, Move(p)
    PROVE  Owned'
<1>1. OnlyOf(p)
  BY MoveTypes
<1>2. ASSUME NEW q \in Processes \ {p} PROVE LocksHere(q)'
  BY <1>1 DEF OnlyOf, Local, Owned, LocksHere, Here
<1>3. LocksHere(p)'
  <2> USE DEF LocksHere, Here, Goto, Follow, TypeInv, Types, PCs
  <2>1. CASE Mkdir(p)
    BY <2>1 DEF Mkdir
  <2>2. CASE ReadersExist(p) \/ CreateReadLock(p) \/ CreateFails(p) \/ CloseFails(p)
    BY <2>2 DEF ReadersExist, CreateReadLock, CreateFails, CloseFails, Owned
  <2>3. CASE doing'[p] \notin {"readers", "create", "clear"}
    BY <2>3
  <2>4. ASSUME NEW c, NEW S, Start(p, c, S) PROVE doing'[p] = "mkdir"
    BY <2>4 DEF Start
  <2>5. CASE \/ Exists(p) \/ CreateWriteLock(p) \/ Clear(p) \/ Wait(p) \/ Finish(p) \/ Removed(p)
             \/ MkdirFails(p) \/ Signal(p) \/ Kill(p) \/ RemovedByHand(p)
    BY <2>5 DEF Exists, CreateWriteLock, Clear, AfterClear, Wait, Finish, Removed, MkdirFails,
                Signal, Kill, RemovedByHand, Thens
  <2>6. CASE Unlink(p) \/ Rmdir(p)
    BY <2>6 DEF Unlink, Rmdir
  <2> QED
    BY <2>1, <2>2, <2>3, <2>4, <2>5, <2>6 DEF Move
<1> QED
  BY <1>2, <1>3 DEF Owned

\* p has made a lock in d, one that nobody had.
LEMMA MadeOurs ==
    ASSUME TypeInv, HaveIsOurs, NEW p \in Processes, NEW d \in Dirs, lckdir[d] = Nobody,
           lckdir' = [lckdir EXCEPT ![d] = p],
           have' = [have EXCEPT ![p] = have[p] \cup {d}]
    PROVE  HaveIsOurs'
BY NobodyIsNoProc DEF HaveIsOurs, TypeInv, Types

\* p has removed its lock in d, and knows it.
LEMMA RemovedOurs ==
    ASSUME TypeInv, HaveIsOurs, NEW p \in Processes, NEW d \in have[p],
           lckdir' = [lckdir EXCEPT ![d] = Nobody],
           have' = [have EXCEPT ![p] = have[p] \ {d}]
    PROVE  HaveIsOurs'
BY DEF HaveIsOurs, TypeInv, Types

\* have_lckdir stays true of a process's own locks only.
LEMMA OursStep ==
    ASSUME TypeInv, Owned, HaveIsOurs, NEW p \in Processes, Move(p)
    PROVE  HaveIsOurs'
<1>1. CASE Mkdir(p)
  <2>1. Here(p) \in Dirs
    BY <1>1, HereDir DEF Mkdir, Running
  <2> QED
    BY <1>1, <2>1, MadeOurs DEF Mkdir
<1>2. CASE Clear(p)
  <2>1. Here(p) \in have[p]
    BY <1>2 DEF Clear, Owned, LocksHere
  <2> QED
    BY <1>2, <2>1, RemovedOurs DEF Clear
<1>3. CASE Rmdir(p)
  <2>1. PICK d \in First(p) : /\ ~HasFile(p, d)
                              /\ lckdir' = [lckdir EXCEPT ![d] = Nobody]
                              /\ have' = [have EXCEPT ![p] = have[p] \ {d}]
    BY <1>3 DEF Rmdir
  <2>2. d \in have[p]
    BY <2>1, FirstDir
  <2> QED
    BY <2>1, <2>2, RemovedOurs
<1>4. CASE RemovedByHand(p)
  BY <1>4 DEF RemovedByHand, HaveIsOurs, TypeInv, Types
<1>5. CASE UNCHANGED <<lckdir, have>>
  BY <1>5 DEF HaveIsOurs
<1>6. ASSUME NEW c, NEW S, Start(p, c, S) PROVE UNCHANGED <<lckdir, have>>
  BY <1>6 DEF Start
<1> QED
  BY <1>1, <1>2, <1>3, <1>4, <1>5, <1>6 DEF Move, Exists, ReadersExist, CreateReadLock,
     CreateWriteLock, Wait, Finish, Unlink, Removed, MkdirFails, CreateFails, CloseFails, Signal, Kill

\* A process removes only lock directories it has made itself (HaveIsOurs),
\* whoever is killed and whoever clears up by hand.
THEOREM OwnersInvariant == CvsSpec => [](TypeInv /\ Owned /\ HaveIsOurs)
<1>1. CvsInit => TypeInv /\ Owned /\ HaveIsOurs
  BY TypeInit DEF CvsInit, Owned, LocksHere, HaveIsOurs
<1>2. TypeInv /\ Owned /\ HaveIsOurs /\ [CvsNext]_cvsVars => (TypeInv /\ Owned /\ HaveIsOurs)'
  <2> SUFFICES ASSUME TypeInv, Owned, HaveIsOurs, [CvsNext]_cvsVars PROVE (Owned /\ HaveIsOurs)'
    BY TypeStep
  <2>1. CASE CvsNext
    BY <2>1, NextMoves, OwnedStep, OursStep
  <2>2. CASE UNCHANGED cvsVars
    BY <2>2 DEF cvsVars, Owned, LocksHere, Here, HaveIsOurs
  <2> QED
    BY <2>1, <2>2
<1> QED
  BY <1>1, <1>2, PTL DEF CvsSpec
-----------------------------------------------------------------------------
(***************************************************************************)
(* Who may work.                                                           *)
(***************************************************************************)
\* No command goes on when its lock has failed: lock_dir_for_write does, and is
\* not used, or nothing fails.
ErrorsExit == "dir error" \notin Faults \/ "dir" \notin Commands

\* A process begins to work only when it has its locks.
Enters(p) ==
    /\ cmd[p] # "read" => cmd[p] \in Commands
    /\ doing[p] = "clear" /\ then[p] = "working" => cmd[p] = "read"
    /\ doing[p] \in {"undo", "clean"} => then[p] # "working"

\* The file of a reader that works, or is about to, is there.
Filed(p) ==
    cmd[p] = "read" /\ (doing[p] = "working" \/ (doing[p] = "clear" /\ then[p] = "working"))
        => p \in rfl[Here(p)]

\* The i-th directory of a writer is locked and has been found without readers.
Taken(p, i) ==
    /\ cmd[p] # "read" /\ i \in DOMAIN list[p]
    /\ \/ doing[p] \in {"mkdir", "readers", "create"} /\ i < at[p]
       \/ doing[p] = "create" /\ i = at[p]
       \/ doing[p] = "working"

HasLocked(p) == \A i \in DOMAIN list[p] : Taken(p, i) => list[p][i] \in have[p]
Alone(p) == \A i \in DOMAIN list[p] : Taken(p, i) => rfl[list[p][i]] \subseteq {p}

Work == \A p \in Processes : Enters(p) /\ Filed(p) /\ HasLocked(p)

\* No failure and no signal leads to the work of a command.
LEMMA EntersStep ==
    ASSUME ErrorsExit, TypeInv, \A q \in Processes : Enters(q), NEW p \in Processes, Move(p)
    PROVE  Enters(p)'
<1> USE DEF Enters, Goto, Follow, TypeInv, Types, PCs, Thens, Cmds
<1>1. ASSUME NEW c \in Commands, NEW S, Start(p, c, S) PROVE Enters(p)'
  BY <1>1 DEF Start
<1>2. CASE Mkdir(p) \/ Exists(p) \/ ReadersExist(p) \/ CreateReadLock(p) \/ CreateWriteLock(p)
  BY <1>2 DEF Mkdir, Exists, ReadersExist, CreateReadLock, CreateWriteLock
<1>3. CASE Clear(p)
  BY <1>3 DEF Clear, AfterClear
<1>4. CASE Wait(p) \/ Finish(p) \/ Unlink(p) \/ Rmdir(p) \/ Removed(p)
  BY <1>4 DEF Wait, Finish, Unlink, Rmdir, Removed
<1>5. CASE MkdirFails(p) \/ CreateFails(p) \/ CloseFails(p)
  BY <1>5 DEF MkdirFails, CreateFails, CloseFails, AfterError, MayFail, ErrorsExit
<1>6. CASE Signal(p) \/ Kill(p) \/ RemovedByHand(p)
  BY <1>6 DEF Signal, Kill, RemovedByHand
<1> QED
  BY <1>1, <1>2, <1>3, <1>4, <1>5, <1>6 DEF Move

\* What p does to the files of the readers.
LEMMA FilesStep ==
    ASSUME TypeInv, NEW p \in Processes, Move(p)
    PROVE  /\ \A d \in Dirs, q \in Processes \ {p} : q \in rfl'[d] <=> q \in rfl[d]
           /\ \A d \in Dirs : p \in rfl'[d] /\ p \notin rfl[d] => doing[p] = "create" /\ d = Here(p) /\ cmd[p] = "read"
<1> USE DEF TypeInv, Types
<1>1. CASE CreateReadLock(p) \/ CloseFails(p)
  BY <1>1 DEF CreateReadLock, CloseFails
<1>2. CASE Unlink(p)
  BY <1>2, FirstDir DEF Unlink
<1>3. CASE RemovedByHand(p)
  BY <1>3 DEF RemovedByHand
<1>4. ASSUME NEW c, NEW S, Start(p, c, S) PROVE UNCHANGED rfl
  BY <1>4 DEF Start
<1>5. CASE UNCHANGED rfl
  BY <1>5
<1> QED
  BY <1>1, <1>2, <1>3, <1>4, <1>5 DEF Move, Mkdir, Exists, ReadersExist, CreateWriteLock, Clear,
     Wait, Finish, Rmdir, Removed, MkdirFails, CreateFails, Signal, Kill

\* The file of a reader is there when it begins to work, and until it ends.
LEMMA FiledStep ==
    ASSUME TypeInv, \A q \in Processes : Enters(q) /\ Filed(q), NEW p \in Processes, Move(p)
    PROVE  Filed(p)'
<1> USE DEF Filed, Here, Goto, Follow, TypeInv, Types, PCs, Thens, Cmds
<1>1. ASSUME NEW c, NEW S, Start(p, c, S) PROVE Filed(p)'
  BY <1>1 DEF Start
<1>2. CASE Mkdir(p) \/ Exists(p) \/ ReadersExist(p) \/ CreateWriteLock(p)
  BY <1>2 DEF Mkdir, Exists, ReadersExist, CreateWriteLock
<1>3. CASE CreateReadLock(p)
  BY <1>3, HereDir DEF CreateReadLock, Running
<1>4. CASE Clear(p)
  BY <1>4 DEF Clear, AfterClear
<1>5. CASE Wait(p) \/ Finish(p) \/ Unlink(p) \/ Rmdir(p) \/ Removed(p)
  BY <1>5 DEF Wait, Finish, Unlink, Rmdir, Removed, Enters
<1>6. CASE MkdirFails(p) \/ CreateFails(p) \/ CloseFails(p)
  BY <1>6 DEF MkdirFails, CreateFails, CloseFails, AfterError
<1>7. CASE Signal(p) \/ Kill(p) \/ RemovedByHand(p)
  BY <1>7 DEF Signal, Kill, RemovedByHand
<1> QED
  BY <1>1, <1>2, <1>3, <1>4, <1>5, <1>6, <1>7 DEF Move

\* A directory becomes taken only by the test for readers, and what is taken
\* stays locked.
LEMMA TakenStep ==
    ASSUME NEW p \in Processes, TypeInv, Enters(p), Move(p), NEW i, Taken(p, i)'
    PROVE  /\ list'[p] = list[p] /\ have[p] \subseteq have'[p] /\ cmd[p] # "read"
           /\ \/ Taken(p, i)
              \/ doing[p] = "readers" /\ i = at[p] /\ Readers(p) = {}
<1> USE DEF Taken, Goto, Follow, TypeInv, Types, PCs, Thens, Cmds
<1>1. ASSUME NEW c \in Commands, NEW S \in SUBSET Dirs, S # {}, Start(p, c, S) PROVE FALSE
  <2>1. PICK s \in Seq(Dirs) : list' = [list EXCEPT ![p] = s]
    BY <1>1, StartSeq
  <2>2. list'[p] = s /\ at'[p] = 1 /\ doing'[p] = "mkdir"
    BY <1>1, <2>1 DEF Start
  <2>3. i \in 1..Len(s) /\ i < 1
    BY <2>2
  <2> QED
    BY <2>3
<1>2. CASE Mkdir(p)
  BY <1>2 DEF Mkdir
<1>3. CASE ReadersExist(p)
  BY <1>3 DEF ReadersExist
<1>4. CASE CreateWriteLock(p)
  <2>1. /\ doing[p] = "create" /\ cmd[p] # "read" /\ UNCHANGED <<list, have>>
        /\ \/ doing' = [doing EXCEPT ![p] = "working"] /\ at[p] = Len(list[p])
           \/ doing' = [doing EXCEPT ![p] = "mkdir"] /\ at' = [at EXCEPT ![p] = at[p] + 1]
    BY <1>4 DEF CreateWriteLock
  <2>2. list[p] \in Seq(Dirs) /\ at[p] \in Nat /\ i \in 1..Len(list[p])
    BY <2>1
  <2>3. i < at[p] \/ i = at[p]
    <3>1. CASE at[p] = Len(list[p])
      BY <2>2, <3>1
    <3>2. CASE doing'[p] = "mkdir" /\ at'[p] = at[p] + 1
      BY <2>2, <3>2
    <3> QED
      BY <2>1, <3>1, <3>2
  <2> QED
    BY <2>1, <2>2, <2>3
<1>5. CASE Wait(p)
  <2>1. i \in 1..Len(list'[p]) /\ i < 1
    BY <1>5 DEF Wait
  <2> QED
    BY <2>1
<1>6. CASE Exists(p) \/ CreateReadLock(p) \/ Finish(p) \/ Unlink(p) \/ Rmdir(p)
  BY <1>6 DEF Exists, CreateReadLock, Finish, Unlink, Rmdir
<1>7. CASE Clear(p)
  BY <1>7 DEF Clear, AfterClear
<1>8. CASE Removed(p)
  BY <1>8 DEF Removed, Enters
<1>9. CASE MkdirFails(p) \/ CreateFails(p) \/ CloseFails(p) \/ Signal(p) \/ Kill(p) \/ RemovedByHand(p)
  BY <1>9 DEF MkdirFails, CreateFails, CloseFails, Signal, Kill, RemovedByHand
<1> QED
  BY <1>1, <1>2, <1>3, <1>4, <1>5, <1>6, <1>7, <1>8, <1>9 DEF Move

\* A writer keeps what it has taken until it works, and while it works.
LEMMA HasLockedStep ==
    ASSUME TypeInv, Owned, Work, NEW p \in Processes, Move(p)
    PROVE  HasLocked(p)'
<1> SUFFICES ASSUME NEW i, Taken(p, i)' PROVE list'[p][i] \in have'[p]
  BY DEF HasLocked
<1>1. /\ list'[p] = list[p] /\ have[p] \subseteq have'[p]
      /\ Taken(p, i) \/ (doing[p] = "readers" /\ i = at[p])
  BY TakenStep DEF Work
<1>2. CASE Taken(p, i)
  BY <1>1, <1>2 DEF Work, HasLocked, Taken
<1>3. CASE doing[p] = "readers" /\ i = at[p]
  BY <1>1, <1>3 DEF Owned, LocksHere, Here
<1> QED
  BY <1>1, <1>2, <1>3

\* Who works has its locks or its file, and keeps them.
THEOREM WorkStep ==
    ErrorsExit /\ TypeInv /\ Owned /\ Work /\ [CvsNext]_cvsVars => Work'
<1>1. ASSUME ErrorsExit, TypeInv, Owned, Work, NEW p \in Processes, Move(p) PROVE Work'
  <2>1. Enters(p)' /\ Filed(p)' /\ HasLocked(p)'
    BY <1>1, EntersStep, FiledStep, HasLockedStep DEF Work
  <2>2. ASSUME NEW q \in Processes \ {p} PROVE Enters(q)' /\ Filed(q)' /\ HasLocked(q)'
    <3>1. /\ cmd'[q] = cmd[q] /\ list'[q] = list[q] /\ at'[q] = at[q] /\ have'[q] = have[q]
          /\ then'[q] = then[q] /\ doing'[q] = doing[q]
      BY <1>1, MoveTypes DEF OnlyOf, Local
    <3>2. Enters(q)' /\ HasLocked(q)'
      BY <1>1, <3>1 DEF Work, Enters, HasLocked, Taken
    <3>3. Filed(q)'
      <4>1. CASE Running(q)
        <5>1. Here(q) \in Dirs
          BY <1>1, <4>1, HereDir
        <5>2. q \in rfl'[Here(q)] <=> q \in rfl[Here(q)]
          BY <1>1, <5>1, FilesStep
        <5> QED
          BY <1>1, <3>1, <5>2 DEF Work, Filed, Here
      <4>2. CASE ~Running(q)
        BY <3>1, <4>2 DEF Filed, Running
      <4> QED
        BY <4>1, <4>2
    <3> QED
      BY <3>2, <3>3
  <2> QED
    BY <2>1, <2>2 DEF Work
<1>2. ASSUME Work, UNCHANGED cvsVars PROVE Work'
  BY <1>2 DEF cvsVars, Work, Enters, Filed, Here, HasLocked, Taken
<1> QED
  BY <1>1, <1>2, NextMoves

\* Nobody works at first.
LEMMA WorkInit == CvsInit => Work
BY DEF CvsInit, Work, Enters, Filed, HasLocked, Taken

\* The locks serve their first use, however many processes and directories
\* there are, and whoever is killed, as long as no command goes on without its
\* lock (NoTwoWriters).
THEOREM WritersInvariant ==
    ASSUME ErrorsExit
    PROVE  CvsSpec => []NoTwoWriters
<1>1. HaveIsOurs /\ Work => NoTwoWriters
  <2> SUFFICES ASSUME HaveIsOurs, Work, NEW d \in Dirs, NEW p \in Processes, NEW q \in Processes,
                      Writes(p, d), Writes(q, d)
               PROVE  p = q
    BY DEF NoTwoWriters
  <2>1. ASSUME NEW r \in Processes, Writes(r, d) PROVE lckdir[d] = r
    <3>1. PICK i \in DOMAIN list[r] : d = list[r][i]
      BY <2>1 DEF Writes, Works, Range
    <3>2. Taken(r, i)
      BY <2>1 DEF Writes, Works, Taken
    <3> QED
      BY <3>1, <3>2 DEF Work, HasLocked, HaveIsOurs
  <2> QED
    BY <2>1
<1>2. ErrorsExit /\ TypeInv /\ Owned /\ Work /\ [CvsNext]_cvsVars => Work'
  BY WorkStep
<1>3. ErrorsExit
  OBVIOUS
<1> QED
  BY <1>1, <1>2, <1>3, WorkInit, OwnersInvariant, PTL DEF CvsSpec
-----------------------------------------------------------------------------
(***************************************************************************)
(* Readers and writers.                                                    *)
(***************************************************************************)
\* No reader gets into a directory that a writer has taken.
LEMMA AloneStep ==
    ASSUME ~UsesLockDir, TypeInv, Owned, HaveIsOurs, Work, NEW r \in Processes, Alone(r),
           NEW p \in Processes, Move(p)
    PROVE  Alone(r)'
<1> SUFFICES ASSUME NEW i, Taken(r, i)' PROVE rfl'[list'[r][i]] \subseteq {r}
  BY DEF Alone
<1> DEFINE d == list[r][i]
<1>1. CASE r = p
  <2>1. /\ list'[p] = list[p] /\ cmd[p] # "read"
        /\ Taken(p, i) \/ (doing[p] = "readers" /\ i = at[p] /\ Readers(p) = {})
    BY <1>1, TakenStep DEF Work
  <2>2. d \in Dirs
    <3>1. i \in DOMAIN list[p]
      BY <1>1, <2>1 DEF Taken
    <3> QED
      BY <1>1, <3>1 DEF TypeInv, Types
  <2>3. rfl[d] \subseteq {r}
    <3>1. CASE Taken(p, i)
      BY <1>1, <3>1 DEF Alone, Taken
    <3>2. CASE doing[p] = "readers" /\ i = at[p] /\ Readers(p) = {}
      BY <1>1, <3>2 DEF Readers, Here
    <3> QED
      BY <2>1, <3>1, <3>2
  <2>4. rfl[d] \subseteq Processes /\ rfl'[d] \subseteq Processes
    BY <2>2, MoveTypes DEF TypeInv, Types
  <2> HIDE DEF d
  <2>5. \A q \in Processes \ {p} : q \in rfl'[d] <=> q \in rfl[d]
    BY <2>2, FilesStep
  <2>6. rfl'[d] \subseteq {r}
    BY <1>1, <2>3, <2>4, <2>5
  <2> QED
    BY <1>1, <2>1, <2>6 DEF d
<1>2. CASE r # p
  <2>1. /\ cmd'[r] = cmd[r] /\ list'[r] = list[r] /\ at'[r] = at[r] /\ doing'[r] = doing[r]
    BY <1>2, MoveTypes DEF OnlyOf, Local
  <2>2. Taken(r, i)
    BY <2>1 DEF Taken
  <2>3. d \in have[r] /\ rfl[d] \subseteq {r} /\ lckdir[d] = r
    BY <2>2 DEF Work, HasLocked, Alone, HaveIsOurs, Taken
  <2>4. d \in Dirs
    BY <2>2 DEF Taken, TypeInv, Types
  <2>5. rfl'[d] \subseteq Processes
    BY <2>4, MoveTypes DEF Types
  <2> HIDE DEF d
  <2>6. ~(doing[p] = "create" /\ d = Here(p))
    BY <1>2, <2>3 DEF Owned, LocksHere, HaveIsOurs
  <2>7. \A q \in Processes : q \in rfl'[d] => q \in rfl[d]
    BY <2>4, <2>6, FilesStep
  <2>8. rfl'[d] \subseteq {r}
    BY <2>3, <2>5, <2>7
  <2> QED
    BY <2>1, <2>8 DEF d
<1> QED
  BY <1>1, <1>2

\* The locks serve their second use where readers leave their files in the
\* directory that writers look into (NoReaderWithWriter).
THEOREM ReadersInvariant ==
    ASSUME ErrorsExit, ~UsesLockDir
    PROVE  CvsSpec => []NoReaderWithWriter
<1> DEFINE AllAlone == \A r \in Processes : Alone(r)
<1>1. TypeInv /\ Work /\ AllAlone => NoReaderWithWriter
  <2> SUFFICES ASSUME TypeInv, Work, AllAlone, NEW d \in Dirs, NEW p \in Processes, NEW q \in Processes,
                      Writes(p, d), Works(q, d), cmd[q] = "read"
               PROVE  FALSE
    BY DEF NoReaderWithWriter
  <2>1. PICK i \in DOMAIN list[p] : d = list[p][i]
    BY DEF Writes, Works, Range
  <2>2. rfl[d] \subseteq {p}
    BY <2>1 DEF Alone, Taken, Writes, Works
  <2>3. PICK j \in DOMAIN list[q] : d = list[q][j]
    BY DEF Works, Range
  <2>4. j = at[q]
    <3>1. list[q] \in Seq(Dirs) /\ Len(list[q]) = 1 /\ at[q] \in 1..Len(list[q])
      BY DEF Works, TypeInv, Types, Walks, Running
    <3>2. j \in 1..Len(list[q])
      BY <2>3, <3>1
    <3> QED
      BY <3>1, <3>2
  <2>5. q \in rfl[d]
    BY <2>3, <2>4 DEF Work, Filed, Here, Works
  <2> QED
    BY <2>2, <2>5 DEF Writes
<1>2. CvsInit => AllAlone
  BY DEF CvsInit, Alone, Taken
<1>3. TypeInv /\ Owned /\ HaveIsOurs /\ Work /\ AllAlone /\ [CvsNext]_cvsVars => AllAlone'
  <2> SUFFICES ASSUME TypeInv, Owned, HaveIsOurs, Work, AllAlone, [CvsNext]_cvsVars,
                      NEW r \in Processes
               PROVE  Alone(r)'
    OBVIOUS
  <2>1. CASE CvsNext
    BY <2>1, NextMoves, AloneStep
  <2>2. CASE UNCHANGED cvsVars
    BY <2>2 DEF cvsVars, Alone, Taken
  <2> QED
    BY <2>1, <2>2
<1>4. ErrorsExit /\ TypeInv /\ Owned /\ Work /\ [CvsNext]_cvsVars => Work'
  BY WorkStep
<1>5. ErrorsExit
  OBVIOUS
<1> HIDE DEF AllAlone
<1> QED
  BY <1>1, <1>2, <1>3, <1>4, <1>5, WorkInit, OwnersInvariant, PTL DEF CvsSpec

-----------------------------------------------------------------------------
(***************************************************************************)
(* LockMgr.  X is the set of the holds of a LOCK, triples of a PROCLOCK, a *)
(* mode and a number, and R the set of the requests of its waiters, pairs  *)
(* of a process and a mode.  H are the PROCLOCKs in the table, pl their    *)
(* states, ph the lists of each process, wt the waits, sm the semaphores.  *)
(***************************************************************************)
LEMMA NatLeast ==
    ASSUME NEW T \in SUBSET Nat, T # {}
    PROVE  \E n \in T : \A m \in T : n <= m
<1>1. PICK x \in T : \A y \in T : ~(<<y, x>> \in OpToRel(<, Nat))
  BY NatLessThanWellFounded, WFMin, Zenon
<1>2. \A y \in T : ~(y < x)
  BY <1>1, Zenon DEF OpToRel
<1> QED
  BY <1>2

\* In a finite set of numbers each one has its rank: how many are not above it.
LEMMA Ranks ==
    ASSUME NEW n \in Nat, NEW K, \A h \in K : h \in 1..n
    PROVE  /\ Cardinality(K) \in Nat
           /\ \A j \in K : Cardinality({h \in K : h <= j}) \in 1..Cardinality(K)
           /\ \A i, j \in K : i < j => Cardinality({h \in K : h <= i}) < Cardinality({h \in K : h <= j})
           /\ \A c \in 1..Cardinality(K) : \E j \in K : Cardinality({h \in K : h <= j}) = c
<1> DEFINE U(j) == {h \in K : h <= j}
           C(j) == Cardinality(U(j))
<1>0. \A h \in K : h \in Int /\ 1 <= h /\ h <= n
  OBVIOUS
<1>1. IsFiniteSet(1..n)
  BY FS_Interval
<1>2. /\ IsFiniteSet(K) /\ Cardinality(K) \in Nat
      /\ \A j \in Int : IsFiniteSet(U(j)) /\ C(j) \in Nat /\ C(j) <= Cardinality(K)
  <2>1. IsFiniteSet(K) /\ Cardinality(K) \in Nat
    <3>1. K \subseteq 1..n
      BY <1>0
    <3> QED
      BY <3>1, <1>1, FS_Subset, FS_CardinalityType
  <2>2. ASSUME NEW j \in Int PROVE IsFiniteSet(U(j)) /\ C(j) \in Nat /\ C(j) <= Cardinality(K)
    BY <2>1, FS_Subset, FS_CardinalityType
  <2> QED
    BY <2>1, <2>2
<1>3. ASSUME NEW i \in Int, NEW j \in Int, i <= j
      PROVE  C(i) <= C(j)
  <2>1. U(i) \subseteq U(j)
    BY <1>0, <1>3
  <2> QED
    BY <2>1, <1>2, FS_Subset
<1>4. ASSUME NEW j \in Int, j \in K
      PROVE  C(j) = C(j - 1) + 1
  <2>1. U(j) = U(j - 1) \cup {j} /\ j \notin U(j - 1)
    <3>1. \A h \in Int : h <= j <=> (h <= j - 1 \/ h = j)
      OBVIOUS
    <3>2. \A h : h \in U(j) <=> h \in U(j - 1) \cup {j}
      BY <1>0, <1>4, <3>1
    <3> QED
      BY <3>2
  <2>2. j - 1 \in Int
    OBVIOUS
  <2>3. IsFiniteSet(U(j - 1))
    BY <1>2, <2>2
  <2>4. Cardinality(U(j - 1) \cup {j}) = Cardinality(U(j - 1)) + 1
    BY <2>1, <2>3, FS_AddElement
  <2> QED
    BY <2>1, <2>4
<1>5. ASSUME NEW j \in Int, j \notin K
      PROVE  C(j) = C(j - 1)
  <2>1. U(j) = U(j - 1)
    BY <1>0, <1>5
  <2> QED
    BY <2>1
<1>6. C(0) = 0 /\ C(n) = Cardinality(K)
  <2>1. U(0) = {} /\ U(n) = K
    BY <1>0
  <2> QED
    BY <2>1, FS_EmptySet
<1> HIDE DEF C, U
<1>c. \A j \in Int : C(j) \in Nat /\ C(j - 1) \in Nat /\ C(j) <= Cardinality(K)
  <2>1. \A j \in Int : j - 1 \in Int
    OBVIOUS
  <2> QED
    BY <1>2, <2>1
<1>7. ASSUME NEW i \in K, NEW j \in K, i < j
      PROVE  C(i) < C(j)
  <2>1. C(i) <= C(j - 1)
    <3>1. i \in Int /\ j - 1 \in Int /\ i <= j - 1
      BY <1>0, <1>7
    <3> QED
      BY <3>1, <1>3
  <2>2. C(j) = C(j - 1) + 1 /\ C(i) \in Nat /\ C(j - 1) \in Nat
    BY <1>4, <1>c, <1>0
  <2> QED
    BY <2>1, <2>2
<1>8. ASSUME NEW j \in K
      PROVE  C(j) \in 1..Cardinality(K)
  <2>1. C(j) = C(j - 1) + 1 /\ C(j) \in Nat /\ C(j - 1) \in Nat /\ C(j) <= Cardinality(K)
    BY <1>4, <1>c, <1>0
  <2> QED
    BY <2>1, <1>2
<1>9. ASSUME NEW c \in 1..Cardinality(K)
      PROVE  \E j \in K : C(j) = c
  <2> DEFINE T == {j \in 1..n : C(j) >= c}
  <2>1. T # {}
    <3>1. n # 0
      BY <1>6, <1>2
    <3>2. n \in 1..n /\ C(n) >= c
      BY <3>1, <1>6, <1>2
    <3> QED
      BY <3>2
  <2>2. PICK j \in T : \A h \in T : j <= h
    <3>1. T \in SUBSET Nat
      OBVIOUS
    <3> HIDE DEF T
    <3> QED
      BY <2>1, <3>1, NatLeast
  <2>3. C(j - 1) < c
    <3>1. CASE j = 1
      BY <3>1, <1>6, <1>2
    <3>2. CASE j # 1
      <4>1. j - 1 \in 1..n /\ ~(j <= j - 1)
        BY <3>2
      <4>2. ~(C(j - 1) >= c)
        BY <2>2, <4>1
      <4> QED
        BY <4>1, <4>2, <1>c
    <3> QED
      BY <3>1, <3>2
  <2>4. j \in Int /\ C(j) >= c /\ C(j) \in Nat /\ C(j - 1) \in Nat /\ c \in Nat
    BY <2>2, <1>2, <1>c
  <2>5. j \in K
    BY <1>5, <2>3, <2>4
  <2>6. C(j) = C(j - 1) + 1
    BY <1>4, <2>4, <2>5
  <2> QED
    BY <2>3, <2>4, <2>5, <2>6
<1> QED
  BY <1>2, <1>7, <1>8, <1>9 DEF C, U

\* Without(s, W) is a sequence of the elements of s that are not in W, in their order.
LEMMA WithoutPlaces ==
    ASSUME NEW S, NEW s \in Seq(S), NEW W
    PROVE  /\ Without(s, W) \in Seq(S)
           /\ ToSet(Without(s, W)) = ToSet(s) \ W
           /\ \E f \in [1..Len(Without(s, W)) -> 1..Len(s)] :
                /\ \A i \in 1..Len(Without(s, W)) : Without(s, W)[i] = s[f[i]]
                /\ \A i, j \in 1..Len(Without(s, W)) : i < j => f[i] < f[j]
<1> DEFINE n == Len(s)
           K == {i \in DOMAIN s : s[i] \notin W}
           R(j) == Cardinality({h \in K : h <= j})
           m == Cardinality(K)
           f == [i \in 1..m |-> CHOOSE j \in K : R(j) = i]
<1>0. n \in Nat /\ DOMAIN s = 1..n /\ (\A h \in K : h \in 1..n) /\ \A i \in 1..n : s[i] \in S
  OBVIOUS
<1>1. CASE ~\E i \in DOMAIN s : s[i] \in W
  <2>1. Without(s, W) = s
    BY <1>1 DEF Without
  <2>2. [i \in 1..n |-> i] \in [1..n -> 1..n]
    OBVIOUS
  <2>3. ToSet(s) = ToSet(s) \ W
    BY <1>1 DEF ToSet
  <2>4. \E g \in [1..n -> 1..n] : /\ \A i \in 1..n : s[i] = s[g[i]]
                                  /\ \A i, j \in 1..n : i < j => g[i] < g[j]
    BY <2>2, <1>0
  <2> QED
    BY <2>1, <2>3, <2>4
<1>2. CASE \E i \in DOMAIN s : s[i] \in W
  <2>1. Without(s, W) = [i \in 1..m |-> s[f[i]]]
    <3>1. Without(s, W) = [i \in 1..m |-> s[CHOOSE j \in K : R(j) = i]]
      BY <1>2, Zenon DEF Without
    <3>2. \A i \in 1..m : f[i] = CHOOSE j \in K : R(j) = i
      OBVIOUS
    <3> HIDE DEF f, m, R, K
    <3> QED
      BY <3>1, <3>2
  <2>2. /\ m \in Nat
        /\ \A j \in K : R(j) \in 1..m
        /\ \A i, j \in K : i < j => R(i) < R(j)
        /\ \A c \in 1..m : \E j \in K : R(j) = c
    BY <1>0, Ranks
  <2> HIDE DEF m, R, K
  <2>3. \A i \in 1..m : f[i] \in K /\ R(f[i]) = i
    BY <2>2
  <2> HIDE DEF f
  <2>4. f \in [1..m -> 1..n]
    BY <2>3, <1>0 DEF f
  <2>5. \A i, j \in 1..m : i < j => f[i] < f[j]
    <3> SUFFICES ASSUME NEW i \in 1..m, NEW j \in 1..m, i < j, ~(f[i] < f[j]) PROVE FALSE
      OBVIOUS
    <3>1. f[i] \in 1..n /\ f[j] \in 1..n /\ f[i] \in K /\ f[j] \in K /\ R(f[i]) = i /\ R(f[j]) = j
      BY <2>3, <2>4
    <3>2. f[i] = f[j] \/ f[j] < f[i]
      BY <3>1
    <3>3. ~(f[j] < f[i])
      BY <3>1, <2>2
    <3> QED
      BY <3>1, <3>2, <3>3
  <2>6. \A j \in K : j \in 1..n /\ f[R(j)] = j
    <3> SUFFICES ASSUME NEW j \in K PROVE j \in 1..n /\ f[R(j)] = j
      OBVIOUS
    <3>1. R(j) \in 1..m
      BY <2>2
    <3> DEFINE e == f[R(j)]
    <3>2. e \in K /\ R(e) = R(j)
      BY <3>1, <2>3
    <3> HIDE DEF e
    <3>3. e \in 1..n /\ j \in 1..n
      BY <3>2, <1>0
    <3>4. ~(e < j) /\ ~(j < e)
      BY <3>1, <3>2, <2>2
    <3> QED
      BY <3>3, <3>4 DEF e
  <2>7. Without(s, W) \in Seq(S) /\ Len(Without(s, W)) = m /\ DOMAIN Without(s, W) = 1..m
    <3>1. \A i \in 1..m : s[f[i]] \in S
      BY <1>0, <2>4
    <3> QED
      BY <2>1, <2>2, <3>1
  <2>8. \A i \in 1..m : Without(s, W)[i] = s[f[i]]
    BY <2>1
  <2>9. ToSet(Without(s, W)) = ToSet(s) \ W
    <3>1. \A i \in 1..m : s[f[i]] \in ToSet(s) \ W
      BY <2>3, <1>0 DEF K, ToSet
    <3>2. ASSUME NEW e \in ToSet(s) \ W PROVE \E i \in 1..m : s[f[i]] = e
      <4>1. PICK j \in K : s[j] = e
        BY <1>0 DEF ToSet, K
      <4>2. R(j) \in 1..m /\ f[R(j)] = j
        BY <2>2, <2>6
      <4> QED
        BY <4>1, <4>2
    <3>3. ToSet(Without(s, W)) = {s[f[i]] : i \in 1..m}
      BY <2>7, <2>8 DEF ToSet
    <3> QED
      BY <3>1, <3>2, <3>3
  <2> QED
    BY <2>4, <2>5, <2>7, <2>8, <2>9
<1> QED
  BY <1>1, <1>2

\* The elements of a sequence.
LEMMA SetOf ==
    ASSUME NEW S, NEW q \in Seq(S)
    PROVE  /\ \A e : e \in ToSet(q) <=> \E i \in 1..Len(q) : q[i] = e
           /\ ToSet(q) \subseteq S
           /\ q = <<>> <=> ToSet(q) = {}
           /\ q # <<>> => Head(q) \in ToSet(q) /\ Head(q) = q[1] /\ Len(q) >= 1
           /\ Len(q) \in Nat
<1>1. Len(q) \in Nat /\ DOMAIN q = 1..Len(q) /\ \A i \in 1..Len(q) : q[i] \in S
  OBVIOUS
<1>2. \A e : e \in ToSet(q) <=> \E i \in 1..Len(q) : q[i] = e
  BY <1>1, Zenon DEF ToSet
<1>3. q # <<>> => Head(q) = q[1] /\ Len(q) >= 1
  OBVIOUS
<1>4. q = <<>> => Len(q) = 0
  OBVIOUS
<1>5. q # <<>> => Head(q) \in ToSet(q)
  <2>1. q # <<>> => 1 \in 1..Len(q)
    BY <1>1, <1>3
  <2> QED
    BY <2>1, <1>2, <1>3
<1>6. q = <<>> => ToSet(q) = {}
  <2>1. q = <<>> => \A e : e \notin ToSet(q)
    BY <1>2, <1>4
  <2> QED
    BY <2>1
<1> QED
  BY <1>1, <1>2, <1>3, <1>5, <1>6

\* Append adds its element at the end.
LEMMA AppendFacts ==
    ASSUME NEW S, NEW q \in Seq(S), NEW d \in S
    PROVE  /\ Append(q, d) \in Seq(S) /\ ToSet(Append(q, d)) = ToSet(q) \cup {d}
           /\ Len(Append(q, d)) = Len(q) + 1 /\ Append(q, d)[Len(q) + 1] = d
           /\ \A i \in 1..Len(q) : Append(q, d)[i] = q[i]
<1>1. /\ Append(q, d) \in Seq(S) /\ Len(q) \in Nat
      /\ Len(Append(q, d)) = Len(q) + 1 /\ Append(q, d)[Len(q) + 1] = d
      /\ \A i \in 1..Len(q) : Append(q, d)[i] = q[i]
  OBVIOUS
<1>2. \A i \in 1..Len(q) + 1 : i \in 1..Len(q) \/ i = Len(q) + 1
  BY <1>1
<1>3. \A i \in 1..Len(q) : i \in 1..Len(q) + 1
  BY <1>1
<1>4. Len(q) + 1 \in 1..Len(q) + 1
  BY <1>1
<1> DEFINE p == Append(q, d)
           n == Len(q)
<1> HIDE DEF p
<1>5. \A e : e \in ToSet(p) <=> \E i \in 1..n + 1 : p[i] = e
  BY <1>1, SetOf DEF p
<1>6. \A e : e \in ToSet(q) <=> \E i \in 1..n : q[i] = e
  BY SetOf
<1>7. \A e : e \in ToSet(p) <=> e \in ToSet(q) \cup {d}
  <2> HIDE DEF n
  <2>1. (\A i \in 1..n : p[i] = q[i]) /\ p[n + 1] = d
    BY <1>1 DEF p, n
  <2>2. (\A i \in 1..n + 1 : i \in 1..n \/ i = n + 1) /\ (\A i \in 1..n : i \in 1..n + 1) /\ n + 1 \in 1..n + 1
    BY <1>2, <1>3, <1>4 DEF n
  <2> QED
    BY <1>5, <1>6, <2>1, <2>2, Zenon
<1> QED
  BY <1>1, <1>7 DEF p

\* What a concatenation has at each place.
LEMMA ConcatFacts ==
    ASSUME NEW S, NEW q \in Seq(S), NEW r \in Seq(S)
    PROVE  /\ q \o r \in Seq(S) /\ ToSet(q \o r) = ToSet(q) \cup ToSet(r)
           /\ Len(q \o r) = Len(q) + Len(r)
           /\ \A i \in 1..Len(q) : (q \o r)[i] = q[i]
           /\ \A i \in 1..Len(r) : (q \o r)[Len(q) + i] = r[i]
           /\ \A i \in 1..Len(q) + Len(r) : i \in 1..Len(q) \/ \E j \in 1..Len(r) : i = Len(q) + j
<1> DEFINE p == q \o r
           n == Len(q)
           m == Len(r)
<1>1. /\ p \in Seq(S) /\ n \in Nat /\ m \in Nat
      /\ Len(p) = n + m
      /\ \A i \in 1..n : p[i] = q[i]
      /\ \A i \in 1..m : p[n + i] = r[i]
  OBVIOUS
<1>5. \A e : e \in ToSet(p) <=> \E i \in 1..n + m : p[i] = e
  BY <1>1, SetOf
<1>6. \A e : e \in ToSet(q) <=> \E i \in 1..n : q[i] = e
  BY SetOf
<1>7. \A e : e \in ToSet(r) <=> \E i \in 1..m : r[i] = e
  BY SetOf
<1> HIDE DEF p, n, m
<1>2. \A i \in 1..n + m : i \in 1..n \/ \E j \in 1..m : i = n + j
  <2> SUFFICES ASSUME NEW i \in 1..n + m, i \notin 1..n PROVE \E j \in 1..m : i = n + j
    OBVIOUS
  <2>1. i - n \in 1..m /\ i = n + (i - n)
    BY <1>1
  <2> QED
    BY <2>1
<1>3. (\A i \in 1..n : i \in 1..n + m) /\ (\A i \in 1..m : n + i \in 1..n + m)
  BY <1>1
<1>8. \A e : e \in ToSet(p) <=> e \in ToSet(q) \cup ToSet(r)
  <2>1. ASSUME NEW i \in 1..n + m PROVE p[i] \in ToSet(q) \cup ToSet(r)
    <3>1. CASE i \in 1..n
      BY <1>1, <1>6, <3>1
    <3>2. ASSUME NEW j \in 1..m, i = n + j PROVE p[i] \in ToSet(r)
      BY <1>1, <1>7, <3>2
    <3> QED
      BY <1>2, <3>1, <3>2
  <2>2. \A e : e \in ToSet(q) => e \in ToSet(p)
    BY <1>1, <1>3, <1>5, <1>6
  <2>3. \A e : e \in ToSet(r) => e \in ToSet(p)
    BY <1>1, <1>3, <1>5, <1>7
  <2> QED
    BY <2>1, <2>2, <2>3, <1>5
<1> QED
  BY <1>1, <1>2, <1>8 DEF p, n, m

\* No element occurs twice.
Once(q) == \A i, j \in 1..Len(q) : q[i] = q[j] => i = j

\* Without removes the members of W, and keeps the rest once each.
LEMMA WithoutFacts ==
    ASSUME NEW S, NEW q \in Seq(S), NEW W
    PROVE  /\ Without(q, W) \in Seq(S)
           /\ ToSet(Without(q, W)) = ToSet(q) \ W
           /\ Once(q) => Once(Without(q, W))
<1> DEFINE r == Without(q, W)
<1>1. r \in Seq(S) /\ ToSet(r) = ToSet(q) \ W
  BY WithoutPlaces
<1>2. PICK f \in [1..Len(r) -> 1..Len(q)] :
        /\ \A i \in 1..Len(r) : r[i] = q[f[i]]
        /\ \A i, j \in 1..Len(r) : i < j => f[i] < f[j]
  BY WithoutPlaces
<1> HIDE DEF r
<1>3. ASSUME Once(q), NEW i \in 1..Len(r), NEW j \in 1..Len(r), r[i] = r[j]
      PROVE  i = j
  <2>1. f[i] \in 1..Len(q) /\ f[j] \in 1..Len(q) /\ q[f[i]] = q[f[j]]
    BY <1>2, <1>3
  <2>2. f[i] = f[j]
    BY <2>1, <1>3 DEF Once
  <2>3. ~(i < j) /\ ~(j < i)
    BY <1>2, <2>1, <2>2
  <2> QED
    BY <2>3, <1>1
<1> QED
  BY <1>1, <1>3 DEF r, Once

\* Sequences with nothing in common, joined, have every element once.
LEMMA OnceConcat ==
    ASSUME NEW S, NEW q \in Seq(S), NEW r \in Seq(S), Once(q), Once(r), ToSet(q) \cap ToSet(r) = {}
    PROVE  Once(q \o r)
<1> DEFINE p == q \o r
           n == Len(q)
           m == Len(r)
<1>1. /\ Len(p) = n + m /\ n \in Nat /\ m \in Nat
      /\ \A i \in 1..n : p[i] = q[i] /\ q[i] \in ToSet(q)
      /\ \A i \in 1..m : p[n + i] = r[i] /\ r[i] \in ToSet(r)
      /\ \A i \in 1..n + m : i \in 1..n \/ \E j \in 1..m : i = n + j
  BY ConcatFacts, SetOf
<1>2. /\ \A i, j \in 1..n : q[i] = q[j] => i = j
      /\ \A i, j \in 1..m : r[i] = r[j] => i = j
  BY DEF Once
<1> HIDE DEF p, n, m
<1>3. ASSUME NEW i \in 1..n + m, NEW j \in 1..n + m, p[i] = p[j]
      PROVE  i = j
  <2>1. CASE i \in 1..n /\ j \in 1..n
    BY <2>1, <1>1, <1>2, <1>3
  <2>2. CASE i \in 1..n /\ j \notin 1..n
    <3>1. PICK b \in 1..m : j = n + b
      BY <1>1, <2>2
    <3>2. p[i] \in ToSet(q) /\ p[j] \in ToSet(r)
      BY <1>1, <2>2, <3>1
    <3> QED
      BY <3>2, <1>3
  <2>3. CASE i \notin 1..n /\ j \in 1..n
    <3>1. PICK b \in 1..m : i = n + b
      BY <1>1, <2>3
    <3>2. p[j] \in ToSet(q) /\ p[i] \in ToSet(r)
      BY <1>1, <2>3, <3>1
    <3> QED
      BY <3>2, <1>3
  <2>4. CASE i \notin 1..n /\ j \notin 1..n
    <3>1. PICK a \in 1..m : i = n + a
      BY <1>1, <2>4
    <3>2. PICK b \in 1..m : j = n + b
      BY <1>1, <2>4
    <3>3. r[a] = r[b]
      BY <1>1, <1>3, <3>1, <3>2
    <3> QED
      BY <3>1, <3>2, <3>3, <1>2
  <2> QED
    BY <2>1, <2>2, <2>3, <2>4
<1> QED
  BY <1>1, <1>3 DEF Once, p

\* A sequence of one element.
LEMMA SingleFacts ==
    ASSUME NEW S, NEW e \in S
    PROVE  <<e>> \in Seq(S) /\ ToSet(<<e>>) = {e} /\ Once(<<e>>)
<1>1. <<e>> \in Seq(S) /\ Len(<<e>>) = 1 /\ <<e>>[1] = e
  OBVIOUS
<1>2. ToSet(<<e>>) = {e}
  <2>1. \A x : x \in ToSet(<<e>>) <=> x = e
    BY <1>1, SetOf
  <2> QED
    BY <2>1
<1>3. Once(<<e>>)
  BY <1>1 DEF Once
<1> QED
  BY <1>1, <1>2, <1>3

\* A sequence with a new element at its end.
LEMMA AppendOnce ==
    ASSUME NEW S, NEW q \in Seq(S), NEW e \in S, Once(q), e \notin ToSet(q)
    PROVE  Append(q, e) \in Seq(S) /\ ToSet(Append(q, e)) = ToSet(q) \cup {e} /\ Once(Append(q, e))
<1>1. Append(q, e) = q \o <<e>>
  OBVIOUS
<1>2. <<e>> \in Seq(S) /\ ToSet(<<e>>) = {e} /\ Once(<<e>>)
  BY SingleFacts
<1>3. ToSet(q) \cap ToSet(<<e>>) = {}
  BY <1>2
<1> DEFINE r == <<e>>
<1> HIDE DEF r
<1>4. r \in Seq(S) /\ Once(r) /\ ToSet(q) \cap ToSet(r) = {}
  BY <1>2, <1>3 DEF r
<1>5. Once(q \o r)
  BY <1>4, OnceConcat
<1>6. Append(q, e) \in Seq(S) /\ ToSet(Append(q, e)) = ToSet(q) \cup {e}
  BY AppendFacts
<1>7. Once(q \o <<e>>)
  BY <1>5 DEF r
<1> QED
  BY <1>1, <1>6, <1>7

\* A sequence without its first element.
LEMMA TailFacts ==
    ASSUME NEW S, NEW q \in Seq(S), Once(q), q # <<>>
    PROVE  /\ Tail(q) \in Seq(S) /\ Once(Tail(q)) /\ ToSet(Tail(q)) = ToSet(q) \ {Head(q)}
           /\ Head(q) \in ToSet(q)
<1> DEFINE r == Tail(q)
           n == Len(q)
<1>1. r \in Seq(S) /\ n \in Nat /\ n >= 1 /\ Len(r) = n - 1 /\ \A i \in 1..n - 1 : r[i] = q[i + 1]
  OBVIOUS
<1>2. Head(q) = q[1] /\ Head(q) \in ToSet(q)
  BY SetOf
<1>3. /\ \A e : e \in ToSet(q) <=> \E i \in 1..n : q[i] = e
      /\ \A e : e \in ToSet(r) <=> \E i \in 1..n - 1 : r[i] = e
  BY <1>1, SetOf
<1>4. \A i, j \in 1..n : q[i] = q[j] => i = j
  BY DEF Once
<1> HIDE DEF r, n
<1>5. Once(r)
  BY <1>1, <1>4 DEF Once
<1>6. \A e : e \in ToSet(r) <=> e \in ToSet(q) \ {Head(q)}
  <2>1. ASSUME NEW e, e \in ToSet(r) PROVE e \in ToSet(q) \ {Head(q)}
    <3>1. PICK i \in 1..n - 1 : q[i + 1] = e
      BY <1>1, <1>3, <2>1
    <3>2. i + 1 \in 1..n /\ i + 1 # 1 /\ 1 \in 1..n
      BY <1>1
    <3> QED
      BY <3>1, <3>2, <1>2, <1>3, <1>4
  <2>2. ASSUME NEW e \in ToSet(q) \ {Head(q)} PROVE e \in ToSet(r)
    <3>1. PICK i \in 1..n : q[i] = e
      BY <1>3
    <3>2. i # 1
      BY <3>1, <1>2
    <3>3. i - 1 \in 1..n - 1 /\ r[i - 1] = e
      BY <3>1, <3>2, <1>1
    <3> QED
      BY <3>3, <1>3
  <2> QED
    BY <2>1, <2>2
<1> QED
  BY <1>1, <1>2, <1>5, <1>6 DEF r

\* InsertAt puts a new element somewhere, and keeps the others (SHMQueueInsertBefore in waitProcs).
LEMMA InsertFacts ==
    ASSUME NEW S, NEW q \in Seq(S), NEW e \in S, NEW a \in 1..Len(q) + 1, Once(q), e \notin ToSet(q)
    PROVE  /\ InsertAt(q, a, e) \in Seq(S) /\ Once(InsertAt(q, a, e))
           /\ ToSet(InsertAt(q, a, e)) = ToSet(q) \cup {e}
<1> DEFINE n == Len(q)
           u == SubSeq(q, 1, a - 1)
           v == SubSeq(q, a, n)
<1>1. /\ n \in Nat /\ a \in Nat /\ a >= 1 /\ a <= n + 1
      /\ \A i \in 1..n : q[i] \in S
  OBVIOUS
<1>2. u \in Seq(S) /\ Len(u) = a - 1 /\ \A i \in 1..a - 1 : u[i] = q[i]
  BY <1>1
<1>3. v \in Seq(S) /\ Len(v) = n - a + 1 /\ \A i \in 1..n - a + 1 : v[i] = q[a + i - 1]
  BY <1>1
<1>4. InsertAt(q, a, e) = (u \o <<e>>) \o v
  BY DEF InsertAt
<1>5. /\ \A x : x \in ToSet(q) <=> \E i \in 1..n : q[i] = x
      /\ \A x : x \in ToSet(u) <=> \E i \in 1..a - 1 : u[i] = x
      /\ \A x : x \in ToSet(v) <=> \E i \in 1..n - a + 1 : v[i] = x
  <2>1. \A x : x \in ToSet(q) <=> \E i \in 1..n : q[i] = x
    BY SetOf
  <2> HIDE DEF u, v
  <2>2. \A x : x \in ToSet(u) <=> \E i \in 1..Len(u) : u[i] = x
    BY <1>2, SetOf
  <2>3. \A x : x \in ToSet(v) <=> \E i \in 1..Len(v) : v[i] = x
    BY <1>3, SetOf
  <2>4. Len(u) = a - 1 /\ Len(v) = n - a + 1
    BY <1>2, <1>3
  <2> QED
    BY <2>1, <2>2, <2>3, <2>4
<1>6. \A i, j \in 1..n : q[i] = q[j] => i = j
  BY DEF Once
<1> HIDE DEF n, u, v
<1>7. Once(u) /\ Once(v)
  <2>1. ASSUME NEW i \in 1..a - 1, NEW j \in 1..a - 1, u[i] = u[j] PROVE i = j
    <3>1. i \in 1..n /\ j \in 1..n /\ q[i] = q[j]
      BY <1>1, <1>2, <2>1
    <3> QED
      BY <1>6, <3>1
  <2>2. ASSUME NEW i \in 1..n - a + 1, NEW j \in 1..n - a + 1, v[i] = v[j] PROVE i = j
    <3>1. a + i - 1 \in 1..n /\ a + j - 1 \in 1..n /\ q[a + i - 1] = q[a + j - 1]
      BY <1>1, <1>3, <2>2
    <3>2. a + i - 1 = a + j - 1
      BY <1>6, <3>1
    <3> QED
      BY <1>1, <3>2
  <2> QED
    BY <1>2, <1>3, <2>1, <2>2 DEF Once
<1>8. ToSet(u) \subseteq ToSet(q) /\ ToSet(v) \subseteq ToSet(q)
  <2>1. ASSUME NEW i \in 1..a - 1 PROVE u[i] \in ToSet(q)
    <3>1. i \in 1..n /\ u[i] = q[i]
      BY <1>1, <1>2
    <3> QED
      BY <1>5, <3>1
  <2>2. ASSUME NEW i \in 1..n - a + 1 PROVE v[i] \in ToSet(q)
    <3>1. a + i - 1 \in 1..n /\ v[i] = q[a + i - 1]
      BY <1>1, <1>3
    <3> QED
      BY <1>5, <3>1
  <2> QED
    BY <1>5, <2>1, <2>2
<1>9. ToSet(u) \cap ToSet(v) = {}
  <2> SUFFICES ASSUME NEW i \in 1..a - 1, NEW j \in 1..n - a + 1, u[i] = v[j] PROVE FALSE
    BY <1>5
  <2>1. i \in 1..n /\ a + j - 1 \in 1..n /\ i # a + j - 1
    BY <1>1
  <2>2. q[i] = q[a + j - 1]
    BY <1>2, <1>3
  <2> QED
    BY <2>1, <2>2, <1>6
<1>10. ToSet(q) \subseteq ToSet(u) \cup ToSet(v)
  <2> SUFFICES ASSUME NEW i \in 1..n PROVE q[i] \in ToSet(u) \cup ToSet(v)
    BY <1>5
  <2>1. CASE i <= a - 1
    <3>1. i \in 1..a - 1 /\ u[i] = q[i]
      BY <2>1, <1>1, <1>2
    <3> QED
      BY <3>1, <1>5
  <2>2. CASE ~(i <= a - 1)
    <3>1. i - a + 1 \in 1..n - a + 1 /\ a + (i - a + 1) - 1 = i
      BY <2>2, <1>1
    <3>2. v[i - a + 1] = q[i]
      BY <3>1, <1>3
    <3> QED
      BY <3>1, <3>2, <1>5
  <2> QED
    BY <2>1, <2>2
<1> DEFINE o == <<e>>
<1>11. o \in Seq(S) /\ ToSet(o) = {e} /\ Once(o)
  BY SingleFacts
<1> HIDE DEF o
<1> DEFINE w == u \o o
<1>12. w \in Seq(S) /\ ToSet(w) = ToSet(u) \cup {e} /\ Once(w)
  <2>1. ToSet(u) \cap ToSet(o) = {}
    BY <1>8, <1>11
  <2>2. u \o o \in Seq(S) /\ ToSet(u \o o) = ToSet(u) \cup ToSet(o)
    BY <1>2, <1>11, ConcatFacts
  <2>3. Once(u \o o)
    BY <1>2, <1>7, <1>11, <2>1, OnceConcat
  <2> QED
    BY <2>2, <2>3, <1>11
<1> HIDE DEF w
<1>13. ToSet(w) \cap ToSet(v) = {}
  BY <1>8, <1>9, <1>12
<1>14. w \o v \in Seq(S) /\ ToSet(w \o v) = ToSet(w) \cup ToSet(v)
  BY <1>3, <1>12, ConcatFacts
<1>15. Once(w \o v)
  BY <1>3, <1>7, <1>12, <1>13, OnceConcat
<1>16. InsertAt(q, a, e) = w \o v
  BY <1>4 DEF w, o
<1> QED
  BY <1>8, <1>10, <1>12, <1>14, <1>15, <1>16

\* Those of X, pairs or triples, that are about mode m.
Of(X, m) == {h \in X : h[2] = m}
\* Those of the holds X that belong to process p.
Mine(X, p) == {h \in X : h[1][2] = p}

AnyTag == CHOOSE t \in Tags : TRUE
LockRecord ==
    [tag : Tags \union {AnyTag}, nRequested : Int, nGranted : Int,
     requested : [Modes -> Int], granted : [Modes -> Int],
     grantMask : SUBSET Modes, waitMask : SUBSET Modes, waitProcs : Seq(Procs)]

\* The counts of a LOCK and its grantMask, if X is held of it and the requests R wait.
Tally(L, X, R) ==
    /\ L \in LockRecord /\ IsFiniteSet(X) /\ IsFiniteSet(R)
    /\ (\A h \in X : h[2] \in Modes) /\ (\A g \in R : g[2] \in Modes)
    /\ \A m \in Modes :
          /\ L.granted[m] = Cardinality(Of(X, m))
          /\ L.requested[m] = Cardinality(Of(X, m)) + Cardinality(Of(R, m))
          /\ m \in L.grantMask <=> Of(X, m) # {}
    /\ L.nGranted = Cardinality(X) /\ L.nRequested = Cardinality(X) + Cardinality(R)
\* Its waitMask.
Mask(L, R) == \A m \in Modes : m \in L.waitMask <=> Of(R, m) # {}

\* A product of three finite sets is finite.
LEMMA Triples ==
    ASSUME NEW S, NEW T, NEW U, IsFiniteSet(S), IsFiniteSet(T), IsFiniteSet(U)
    PROVE  IsFiniteSet(S \X T \X U)
<1> DEFINE A == S \X T \X U
           B == (S \X T) \X U
           f == [x \in A |-> <<<<x[1], x[2]>>, x[3]>>]
<1>1. IsFiniteSet(S \X T)
  BY FS_Product
<1>2. IsFiniteSet(B)
  <2> DEFINE C == S \X T
  <2>1. IsFiniteSet(C)
    BY <1>1
  <2> HIDE DEF C
  <2>2. IsFiniteSet(C \X U)
    BY <2>1, FS_Product
  <2> QED
    BY <2>2 DEF C
<1>3. f \in [A -> B]
  OBVIOUS
<1>4. \A x, y \in A : f[x] = f[y] => x = y
  OBVIOUS
<1> HIDE DEF f, A, B
<1>5. f \in Injection(A, B)
  BY <1>3, <1>4 DEF Injection, IsInjective
<1>6. IsFiniteSet(A)
  BY <1>2, <1>5, FS_Injection
<1> QED
  BY <1>6 DEF A

\* The sets that are counted are finite.
LEMMA FiniteSets ==
    /\ IsFiniteSet(Key) /\ IsFiniteSet(Modes)
    /\ \A pl : \A K \in SUBSET Key : IsFiniteSet(Holds(pl, K))
<1>1. IsFiniteSet(Slots) /\ IsFiniteSet(1..MaxHold) /\ IsFiniteSet(1..8)
  <2>1. NumSlots \in Int /\ MaxHold \in Int /\ 1 \in Int /\ 8 \in Int
    BY NumSlotsNat, MaxHoldNat
  <2>2. \A n \in Int : IsFiniteSet(1..n)
    BY FS_Interval
  <2> QED
    BY <2>1, <2>2 DEF Slots
<1>2. IsFiniteSet(Modes)
  BY <1>1, ModesRange, FS_Subset
<1>3. IsFiniteSet(Xids)
  <2>1. IsFiniteSet({"xact"})
    BY FS_Singleton
  <2>2. IsFiniteSet({"xact"} \cup {"session"})
    BY <2>1, FS_AddElement
  <2>3. Xids \in SUBSET ({"xact"} \cup {"session"})
    BY XidsRange
  <2> QED
    BY <2>2, <2>3, FS_Subset
<1>4. IsFiniteSet(Key)
  BY <1>1, <1>3, ProcsFinite, Triples DEF Key
<1>5. ASSUME NEW pl, NEW K \in SUBSET Key
      PROVE  IsFiniteSet(Holds(pl, K))
  <2>1. IsFiniteSet(K)
    BY <1>4, FS_Subset
  <2>2. IsFiniteSet(K \X Modes \X (1..MaxHold))
    BY <1>1, <1>2, <2>1, Triples
  <2>3. Holds(pl, K) \in SUBSET (K \X Modes \X (1..MaxHold))
    BY DEF Holds
  <2> QED
    BY <2>2, <2>3, FS_Subset
<1> QED
  BY <1>2, <1>4, <1>5

\* The size of a finite set is a number, zero for the empty set only.
LEMMA Sizes ==
    ASSUME NEW A, IsFiniteSet(A)
    PROVE  Cardinality(A) \in Nat /\ (A = {} <=> Cardinality(A) = 0)
  BY FS_CardinalityType, FS_EmptySet

\* The size of a disjoint union.
LEMMA UnionSize ==
    ASSUME NEW A, NEW B, IsFiniteSet(A), IsFiniteSet(B), A \cap B = {}
    PROVE  IsFiniteSet(A \cup B) /\ Cardinality(A \cup B) = Cardinality(A) + Cardinality(B)
<1>1. IsFiniteSet(A \cup B) /\ Cardinality(A \cup B) = Cardinality(A) + Cardinality(B) - Cardinality(A \cap B)
  BY FS_Union
<1>2. Cardinality(A \cap B) = 0
  BY FS_EmptySet
<1>3. Cardinality(A) \in Nat /\ Cardinality(B) \in Nat
  BY FS_CardinalityType
<1> QED
  BY <1>1, <1>2, <1>3

\* The size of a set without a subset.
LEMMA RestSize ==
    ASSUME NEW A, NEW B, IsFiniteSet(A), B \subseteq A
    PROVE  /\ IsFiniteSet(B) /\ IsFiniteSet(A \ B)
           /\ Cardinality(A \ B) = Cardinality(A) - Cardinality(B)
           /\ Cardinality(A) >= Cardinality(B)
           /\ Cardinality(A) = Cardinality(B) => A = B
<1>1. IsFiniteSet(A \ B) /\ Cardinality(A \ B) = Cardinality(A) - Cardinality(A \cap B)
  BY FS_Difference
<1>2. A \cap B = B /\ B \in SUBSET A
  OBVIOUS
<1>3. IsFiniteSet(B) /\ Cardinality(B) <= Cardinality(A) /\ (Cardinality(A) = Cardinality(B) => A = B)
  BY <1>2, FS_Subset
<1>4. Cardinality(A) \in Nat /\ Cardinality(B) \in Nat
  BY <1>3, FS_CardinalityType
<1> QED
  BY <1>1, <1>2, <1>3, <1>4

\* The part of a finite set that is about one mode is finite.
LEMMA OfFinite ==
    ASSUME NEW A, IsFiniteSet(A), NEW m
    PROVE  IsFiniteSet(Of(A, m))
<1>1. Of(A, m) \in SUBSET A
  BY DEF Of
<1> QED
  BY <1>1, FS_Subset

\* Of, over unions, differences and subsets.
LEMMA OfSets ==
    ASSUME NEW A, NEW B, NEW m
    PROVE  /\ Of(A \cup B, m) = Of(A, m) \cup Of(B, m)
           /\ Of(A \ B, m) = Of(A, m) \ Of(B, m)
           /\ Of(A, m) \subseteq A
           /\ B \subseteq A => Of(B, m) \subseteq Of(A, m)
           /\ A \cap B = {} => Of(A, m) \cap Of(B, m) = {}
           /\ IsFiniteSet(A) => IsFiniteSet(Of(A, m))
<1>1. Of(A, m) \subseteq A
  BY DEF Of
<1>2. IsFiniteSet(A) => IsFiniteSet(Of(A, m))
  BY OfFinite
<1>3. /\ Of(A \cup B, m) = Of(A, m) \cup Of(B, m)
      /\ Of(A \ B, m) = Of(A, m) \ Of(B, m)
  BY DEF Of
<1>4. /\ B \subseteq A => Of(B, m) \subseteq Of(A, m)
      /\ A \cap B = {} => Of(A, m) \cap Of(B, m) = {}
  BY DEF Of
<1> QED
  BY <1>1, <1>2, <1>3, <1>4

\* What GrantLock does to the fields of a LOCK.
Granted(M, L, G) ==
    /\ M \in LockRecord
    /\ M.tag = L.tag /\ M.waitProcs = L.waitProcs
    /\ M.requested = L.requested /\ M.nRequested = L.nRequested
    /\ M.nGranted = L.nGranted + Cardinality(G)
    /\ \A m \in Modes :
         /\ M.granted[m] = L.granted[m] + Cardinality(Of(G, m))
         /\ m \in M.grantMask <=> m \in L.grantMask \/ Of(G, m) # {}
         /\ m \in M.waitMask <=>
               m \in L.waitMask /\ ~(/\ Of(G, m) # {}
                                     /\ L.granted[m] + Cardinality(Of(G, m)) = L.requested[m])

\* What GrantLock leaves in the fields of a LOCK.
LEMMA GrantFields ==
    ASSUME NEW L \in LockRecord, NEW G, IsFiniteSet(G)
    PROVE  Granted(GrantLock(L, G), L, G)
<1> DEFINE n == [i \in Modes |-> Cardinality({g \in G : g[2] = i})]
           gr == [i \in Modes |-> L.granted[i] + n[i]]
           gm == L.grantMask \union {i \in Modes : n[i] > 0}
           wm == L.waitMask \ {i \in Modes : n[i] > 0 /\ gr[i] = L.requested[i]}
           M == [L EXCEPT !.nGranted = L.nGranted + Cardinality(G), !.granted = gr,
                          !.grantMask = gm, !.waitMask = wm]
<1>1. GrantLock(L, G) = M
  BY DEF GrantLock
<1>2. /\ \A i \in Modes : n[i] = Cardinality(Of(G, i)) /\ n[i] \in Nat /\ (n[i] > 0 <=> Of(G, i) # {})
      /\ Cardinality(G) \in Nat
  <2>1. ASSUME NEW i \in Modes PROVE n[i] = Cardinality(Of(G, i)) /\ n[i] \in Nat /\ (n[i] > 0 <=> Of(G, i) # {})
    <3>1. n[i] = Cardinality(Of(G, i))
      BY DEF Of
    <3>2. IsFiniteSet(Of(G, i))
      BY OfSets
    <3>3. Cardinality(Of(G, i)) \in Nat /\ (Of(G, i) = {} <=> Cardinality(Of(G, i)) = 0)
      BY <3>2, Sizes
    <3> QED
      BY <3>1, <3>3
  <2> QED
    BY <2>1, Sizes
<1> HIDE DEF n
<1>3. L.granted \in [Modes -> Int] /\ L.nGranted \in Int /\ L.grantMask \subseteq Modes /\ L.waitMask \subseteq Modes
  BY DEF LockRecord
<1>4. gr \in [Modes -> Int] /\ gm \subseteq Modes /\ wm \subseteq Modes
  BY <1>2, <1>3
<1>5. \A m \in Modes : gr[m] = L.granted[m] + Cardinality(Of(G, m))
  BY <1>2
<1>6. \A m \in Modes : m \in gm <=> m \in L.grantMask \/ Of(G, m) # {}
  BY <1>2
<1>7. \A m \in Modes : m \in wm <=> m \in L.waitMask /\ ~(Of(G, m) # {} /\ gr[m] = L.requested[m])
  BY <1>2
<1> HIDE DEF gr, gm, wm
<1>8. M \in LockRecord
  <2>1. L.nGranted + Cardinality(G) \in Int
    BY <1>2, <1>3
  <2> HIDE <1>2, <1>3
  <2> QED
    BY <1>4, <2>1 DEF LockRecord
<1>9. /\ M.tag = L.tag /\ M.waitProcs = L.waitProcs /\ M.requested = L.requested /\ M.nRequested = L.nRequested
      /\ M.nGranted = L.nGranted + Cardinality(G) /\ M.granted = gr /\ M.grantMask = gm /\ M.waitMask = wm
  BY DEF LockRecord
<1> HIDE DEF M
<1>10. Granted(M, L, G)
  BY <1>5, <1>6, <1>7, <1>8, <1>9 DEF Granted
<1> QED
  BY <1>1, <1>10

\* Requests G are granted, and the holds N come of them.
LEMMA TallyGrant ==
    ASSUME NEW L, NEW X, NEW R, NEW G, NEW N, Tally(L, X, R), G \subseteq R,
           IsFiniteSet(N), N \cap X = {}, Cardinality(N) = Cardinality(G),
           \A h \in N : h[2] \in Modes,
           \A m \in Modes : Cardinality(Of(N, m)) = Cardinality(Of(G, m)),
           \A m \in Modes : m \in L.waitMask => Of(R, m) # {},
           \A m \in Modes : Of(R \ G, m) # {} => m \in L.waitMask
    PROVE  Tally(GrantLock(L, G), X \cup N, R \ G) /\ Mask(GrantLock(L, G), R \ G)
<1>1. /\ L \in LockRecord /\ IsFiniteSet(X) /\ IsFiniteSet(R)
      /\ (\A h \in X : h[2] \in Modes) /\ (\A g \in R : g[2] \in Modes)
      /\ \A m \in Modes :
          /\ L.granted[m] = Cardinality(Of(X, m))
          /\ L.requested[m] = Cardinality(Of(X, m)) + Cardinality(Of(R, m))
          /\ m \in L.grantMask <=> Of(X, m) # {}
  BY DEF Tally
<1>s. L.nGranted = Cardinality(X) /\ L.nRequested = Cardinality(X) + Cardinality(R)
  BY DEF Tally
<1>2. IsFiniteSet(G)
  BY <1>1, RestSize
<1>3. /\ Cardinality(X \cup N) = Cardinality(X) + Cardinality(G)
      /\ Cardinality(R \ G) = Cardinality(R) - Cardinality(G)
      /\ IsFiniteSet(X \cup N) /\ IsFiniteSet(R \ G)
      /\ Cardinality(X) \in Nat /\ Cardinality(R) \in Nat /\ Cardinality(G) \in Nat
  <2>1. X \cap N = {}
    OBVIOUS
  <2>2. IsFiniteSet(X \cup N) /\ Cardinality(X \cup N) = Cardinality(X) + Cardinality(N)
    BY <1>1, <2>1, UnionSize
  <2>3. IsFiniteSet(R \ G) /\ Cardinality(R \ G) = Cardinality(R) - Cardinality(G)
    BY <1>1, RestSize
  <2> QED
    BY <1>1, <1>2, <2>2, <2>3, Sizes
<1> DEFINE M == GrantLock(L, G)
<1> HIDE DEF M
<1>g. Granted(M, L, G)
  BY <1>1, <1>2, GrantFields DEF M
<1>4. /\ M \in LockRecord
      /\ M.requested = L.requested
      /\ \A m \in Modes :
            /\ M.granted[m] = L.granted[m] + Cardinality(Of(G, m))
            /\ m \in M.grantMask <=> m \in L.grantMask \/ Of(G, m) # {}
            /\ m \in M.waitMask <=>
                  m \in L.waitMask /\ ~(/\ Of(G, m) # {}
                                        /\ L.granted[m] + Cardinality(Of(G, m)) = L.requested[m])
  BY <1>g DEF Granted
<1>n. M.nRequested = L.nRequested /\ M.nGranted = L.nGranted + Cardinality(G)
  BY <1>g DEF Granted
<1>5. ASSUME NEW m \in Modes
      PROVE  /\ M.granted[m] = Cardinality(Of(X \cup N, m))
             /\ M.requested[m] = Cardinality(Of(X \cup N, m)) + Cardinality(Of(R \ G, m))
             /\ m \in M.grantMask <=> Of(X \cup N, m) # {}
             /\ m \in M.waitMask <=> Of(R \ G, m) # {}
  <2> DEFINE x == Of(X, m)  n == Of(N, m)  r == Of(R, m)  g == Of(G, m)
  <2>1. /\ Of(X \cup N, m) = x \cup n /\ Of(R \ G, m) = r \ g
        /\ x \cap n = {} /\ g \subseteq r
    <3>1. Of(X \cup N, m) = x \cup n /\ Of(R \ G, m) = r \ g
      <4>1. Of(X \cup N, m) = x \cup n
        BY ONLY DEF Of
      <4>2. Of(R \ G, m) = r \ g
        BY ONLY DEF Of
      <4> QED
        BY ONLY <4>1, <4>2
    <3>2. x \cap n = {}
      BY DEF Of
    <3>3. g \subseteq r
      BY DEF Of
    <3> QED
      BY <3>1, <3>2, <3>3
  <2>2. IsFiniteSet(x) /\ IsFiniteSet(n) /\ IsFiniteSet(r) /\ IsFiniteSet(g)
    BY <1>1, <1>2, OfSets
  <2>3. Cardinality(n) = Cardinality(g)
    OBVIOUS
  <2>4. /\ M.granted[m] = Cardinality(x) + Cardinality(g)
        /\ M.requested[m] = Cardinality(x) + Cardinality(r)
        /\ m \in M.grantMask <=> x # {} \/ g # {}
        /\ m \in M.waitMask <=> m \in L.waitMask /\ ~(g # {} /\ Cardinality(x) + Cardinality(g) = Cardinality(x) + Cardinality(r))
        /\ m \in L.waitMask => r # {}
        /\ r \ g # {} => m \in L.waitMask
    BY <1>1, <1>4, <2>1
  <2> HIDE DEF x, n, r, g
  <2>5. /\ Cardinality(x \cup n) = Cardinality(x) + Cardinality(n)
        /\ Cardinality(x) \in Nat /\ Cardinality(n) \in Nat
        /\ n = {} <=> Cardinality(n) = 0
    BY <2>1, <2>2, UnionSize, Sizes
  <2>6. /\ Cardinality(r \ g) = Cardinality(r) - Cardinality(g)
        /\ Cardinality(r) = Cardinality(g) => r = g
    BY <2>1, <2>2, RestSize
  <2>7. /\ Cardinality(r) \in Nat /\ Cardinality(g) \in Nat
        /\ g = {} <=> Cardinality(g) = 0
    BY <2>2, Sizes
  <2>8. n = {} <=> g = {}
    BY <2>3, <2>5, <2>7
  <2>9. m \in M.grantMask <=> x \cup n # {}
    BY <2>4, <2>8
  <2>10. Cardinality(x) + Cardinality(g) = Cardinality(x) + Cardinality(r) <=> r = g
    BY <2>5, <2>6, <2>7
  <2>11. m \in M.waitMask <=> r \ g # {}
    <3>1. r \ g = {} <=> r = g
      BY <2>1
    <3> QED
      BY <3>1, <2>4, <2>10
  <2>12. /\ M.granted[m] = Cardinality(x \cup n)
         /\ M.requested[m] = Cardinality(x \cup n) + Cardinality(r \ g)
    BY <2>3, <2>4, <2>5, <2>6, <2>7
  <2> QED
    BY <2>1, <2>9, <2>11, <2>12
<1>6. (\A h \in X \cup N : h[2] \in Modes) /\ (\A h \in R \ G : h[2] \in Modes)
  BY <1>1
<1>7. M.nGranted = Cardinality(X \cup N) /\ M.nRequested = Cardinality(X \cup N) + Cardinality(R \ G)
  BY <1>s, <1>3, <1>n
<1>8. Tally(M, X \cup N, R \ G)
  BY <1>3, <1>4, <1>5, <1>6, <1>7 DEF Tally
<1>9. Mask(M, R \ G)
  BY <1>5 DEF Mask
<1> QED
  BY <1>8, <1>9 DEF M

\* A mode m is requested once more; once less of what waits; a hold of it is given back.
Requested(L, m) == [L EXCEPT !.nRequested = @ + 1, !.requested[m] = @ + 1]
Unheld(L, m) ==
    [L EXCEPT !.nRequested = @ - 1, !.requested[m] = @ - 1,
              !.nGranted = @ - 1, !.granted[m] = @ - 1,
              !.grantMask = IF L.granted[m] = 1 THEN @ \ {m} ELSE @]

\* The types of the fields of a LOCK.
LEMMA RecordTypes ==
    ASSUME NEW L \in LockRecord
    PROVE  /\ L.requested \in [Modes -> Int] /\ L.granted \in [Modes -> Int]
           /\ L.nRequested \in Int /\ L.nGranted \in Int
           /\ L.grantMask \subseteq Modes /\ L.waitMask \subseteq Modes /\ L.waitProcs \in Seq(Procs)
           /\ L.tag \in Tags \cup {AnyTag}
  BY DEF LockRecord

\* LockAcquire counts a request (lock.c:587): the tally stays right with one more request.
LEMMA TallyAsk ==
    ASSUME NEW L, NEW X, NEW R, Tally(L, X, R), NEW p, NEW m \in Modes, <<p, m>> \notin R
    PROVE  /\ Tally(Requested(L, m), X, R \cup {<<p, m>>})
           /\ Requested(L, m).waitMask = L.waitMask /\ Requested(L, m).waitProcs = L.waitProcs
           /\ Requested(L, m).tag = L.tag /\ Requested(L, m).granted = L.granted
           /\ Requested(L, m).grantMask = L.grantMask /\ Requested(L, m).nGranted = L.nGranted
<1>1. /\ L \in LockRecord /\ IsFiniteSet(X) /\ IsFiniteSet(R)
      /\ (\A h \in X : h[2] \in Modes) /\ (\A g \in R : g[2] \in Modes)
      /\ \A i \in Modes :
          /\ L.granted[i] = Cardinality(Of(X, i))
          /\ L.requested[i] = Cardinality(Of(X, i)) + Cardinality(Of(R, i))
          /\ i \in L.grantMask <=> Of(X, i) # {}
  BY DEF Tally
<1>2. L.nGranted = Cardinality(X) /\ L.nRequested = Cardinality(X) + Cardinality(R)
  BY DEF Tally
<1> DEFINE M == Requested(L, m)
           g == <<p, m>>
           Q == R \cup {g}
<1>3. L.requested \in [Modes -> Int] /\ L.nRequested \in Int
  BY <1>1, RecordTypes
<1>4. /\ M.granted = L.granted /\ M.grantMask = L.grantMask /\ M.nGranted = L.nGranted
      /\ M.waitMask = L.waitMask /\ M.waitProcs = L.waitProcs /\ M.tag = L.tag
      /\ M.nRequested = L.nRequested + 1
      /\ M.requested = [L.requested EXCEPT ![m] = L.requested[m] + 1]
  BY <1>1 DEF Requested, LockRecord
<1>5. M \in LockRecord
  <2> DEFINE rq == [L.requested EXCEPT ![m] = L.requested[m] + 1]
             nr == L.nRequested + 1
  <2>1. rq \in [Modes -> Int] /\ nr \in Int
    BY <1>3
  <2>2. M = [L EXCEPT !.nRequested = nr, !.requested = rq]
    BY <1>1 DEF Requested, LockRecord
  <2> HIDE DEF rq, nr, M
  <2> QED
    BY <1>1, <2>1, <2>2 DEF LockRecord
<1>6. IsFiniteSet(Q) /\ Cardinality(Q) = Cardinality(R) + 1
  BY <1>1, FS_AddElement
<1>7. Of(Q, m) = Of(R, m) \cup {g} /\ g \notin Of(R, m) /\ \A i \in Modes \ {m} : Of(Q, i) = Of(R, i)
  BY DEF Of
<1>8. g[2] = m
  OBVIOUS
<1> HIDE DEF M, Q, g
<1>9. Cardinality(Of(Q, m)) = Cardinality(Of(R, m)) + 1
  <2>1. IsFiniteSet(Of(R, m))
    BY <1>1, OfSets
  <2> QED
    BY <2>1, <1>7, FS_AddElement
<1>10. Cardinality(X) \in Nat /\ Cardinality(R) \in Nat
  BY <1>1, Sizes
<1>11. ASSUME NEW i \in Modes PROVE M.requested[i] = Cardinality(Of(X, i)) + Cardinality(Of(Q, i))
  <2>1. IsFiniteSet(Of(X, i)) /\ IsFiniteSet(Of(R, i))
    BY <1>1, OfSets
  <2>2. Cardinality(Of(X, i)) \in Nat /\ Cardinality(Of(R, i)) \in Nat
    BY <2>1, Sizes
  <2>3. L.requested[i] = Cardinality(Of(X, i)) + Cardinality(Of(R, i))
    BY <1>1
  <2>4. CASE i = m
    BY <1>3, <1>4, <1>9, <2>2, <2>3, <2>4
  <2>5. CASE i # m
    BY <1>3, <1>4, <1>7, <2>2, <2>3, <2>5
  <2> QED
    BY <2>4, <2>5
<1>12. M.nRequested = Cardinality(X) + Cardinality(Q)
  BY <1>2, <1>4, <1>6, <1>10
<1>13. \A h \in Q : h[2] \in Modes
  BY <1>1, <1>8 DEF Q
<1>14. Tally(M, X, Q)
  BY <1>1, <1>2, <1>4, <1>5, <1>6, <1>11, <1>12, <1>13 DEF Tally
<1> QED
  BY <1>4, <1>14 DEF M, Q, g

\* What Dequeue does to the fields of a LOCK.
Dequeued(M, L, p, m) ==
    /\ M \in LockRecord
    /\ M.tag = L.tag /\ M.granted = L.granted
    /\ M.grantMask = L.grantMask /\ M.nGranted = L.nGranted
    /\ M.nRequested = L.nRequested - 1
    /\ M.requested = [L.requested EXCEPT ![m] = L.requested[m] - 1]
    /\ M.waitMask = IF L.granted[m] = L.requested[m] - 1 THEN L.waitMask \ {m} ELSE L.waitMask
    /\ M.waitProcs = Without(L.waitProcs, {p})

\* What RemoveFromWaitQueue leaves in the fields of a LOCK.
LEMMA DequeueFields ==
    ASSUME NEW L \in LockRecord, NEW p, NEW m \in Modes
    PROVE  Dequeued(Dequeue(L, p, m), L, p, m)
<1>1. L.requested \in [Modes -> Int] /\ L.nRequested \in Int /\ L.waitProcs \in Seq(Procs) /\ L.waitMask \subseteq Modes
  BY RecordTypes
<1>2. Without(L.waitProcs, {p}) \in Seq(Procs)
  BY <1>1, WithoutFacts
<1> DEFINE q == Without(L.waitProcs, {p})
           v == IF L.granted[m] = L.requested[m] - 1 THEN L.waitMask \ {m} ELSE L.waitMask
           M == Dequeue(L, p, m)
<1>3. q \in Seq(Procs) /\ v \subseteq Modes
  BY <1>1, <1>2
<1>4. M = [L EXCEPT !.waitProcs = q, !.nRequested = L.nRequested - 1,
                    !.requested = [L.requested EXCEPT ![m] = L.requested[m] - 1], !.waitMask = v]
  BY DEF Dequeue, LockRecord
<1> DEFINE rq == [L.requested EXCEPT ![m] = L.requested[m] - 1]
           nr == L.nRequested - 1
<1>r. rq \in [Modes -> Int] /\ nr \in Int
  BY <1>1
<1> HIDE DEF q, v, M
<1>5. M \in LockRecord
  <2>1. M = [L EXCEPT !.waitProcs = q, !.nRequested = nr, !.requested = rq, !.waitMask = v]
    BY <1>4
  <2> HIDE DEF rq, nr
  <2> QED
    BY <1>r, <1>3, <2>1 DEF LockRecord
<1>6. /\ M.tag = L.tag /\ M.granted = L.granted /\ M.grantMask = L.grantMask /\ M.nGranted = L.nGranted
      /\ M.nRequested = L.nRequested - 1
      /\ M.requested = [L.requested EXCEPT ![m] = L.requested[m] - 1]
      /\ M.waitMask = v /\ M.waitProcs = q
  BY <1>4 DEF LockRecord
<1>7. Dequeued(M, L, p, m)
  BY <1>5, <1>6 DEF Dequeued, q, v
<1> QED
  BY <1>7 DEF M

\* RemoveFromWaitQueue keeps the tally and the mask right with one request less.
LEMMA TallyDequeue ==
    ASSUME NEW L, NEW X, NEW R, Tally(L, X, R), Mask(L, R), NEW p, NEW m \in Modes, <<p, m>> \in R
    PROVE  /\ Tally(Dequeue(L, p, m), X, R \ {<<p, m>>})
           /\ Mask(Dequeue(L, p, m), R \ {<<p, m>>})
<1>1. /\ L \in LockRecord /\ IsFiniteSet(X) /\ IsFiniteSet(R)
      /\ (\A h \in X : h[2] \in Modes) /\ (\A g \in R : g[2] \in Modes)
      /\ \A i \in Modes :
          /\ L.granted[i] = Cardinality(Of(X, i))
          /\ L.requested[i] = Cardinality(Of(X, i)) + Cardinality(Of(R, i))
          /\ i \in L.grantMask <=> Of(X, i) # {}
  BY DEF Tally
<1>2. L.nGranted = Cardinality(X) /\ L.nRequested = Cardinality(X) + Cardinality(R)
  BY DEF Tally
<1> DEFINE M == Dequeue(L, p, m)
           g == <<p, m>>
           Q == R \ {g}
<1>3. L.requested \in [Modes -> Int] /\ L.nRequested \in Int
  BY <1>1, RecordTypes
<1>4. /\ M.granted = L.granted /\ M.grantMask = L.grantMask /\ M.nGranted = L.nGranted
      /\ M.nRequested = L.nRequested - 1
      /\ M.requested = [L.requested EXCEPT ![m] = L.requested[m] - 1]
      /\ M.waitMask = IF L.granted[m] = L.requested[m] - 1 THEN L.waitMask \ {m} ELSE L.waitMask
      /\ M \in LockRecord
  <2>1. Dequeued(M, L, p, m)
    BY <1>1, DequeueFields
  <2> QED
    BY <2>1 DEF Dequeued
<1>6. IsFiniteSet(Q) /\ Cardinality(Q) = Cardinality(R) - 1
  BY <1>1, FS_RemoveElement
<1>7. Of(Q, m) = Of(R, m) \ {g} /\ g \in Of(R, m) /\ \A i \in Modes \ {m} : Of(Q, i) = Of(R, i)
  BY DEF Of
<1> HIDE DEF M, g
<1>8. \A h \in Q : h[2] \in Modes
  BY <1>1
<1> HIDE DEF Q
<1>9. Cardinality(Of(Q, m)) = Cardinality(Of(R, m)) - 1 /\ IsFiniteSet(Of(Q, m))
  <2>1. IsFiniteSet(Of(R, m))
    BY <1>1, OfSets
  <2> QED
    BY <2>1, <1>7, FS_RemoveElement
<1>10. Cardinality(X) \in Nat /\ Cardinality(R) \in Nat
  BY <1>1, Sizes
<1>11. ASSUME NEW i \in Modes
       PROVE  /\ M.requested[i] = Cardinality(Of(X, i)) + Cardinality(Of(Q, i))
              /\ i \in M.waitMask <=> Of(Q, i) # {}
  <2>1. IsFiniteSet(Of(X, i)) /\ IsFiniteSet(Of(R, i))
    BY <1>1, OfSets
  <2>2. Cardinality(Of(X, i)) \in Nat /\ Cardinality(Of(R, i)) \in Nat
    BY <2>1, Sizes
  <2>3. L.requested[i] = Cardinality(Of(X, i)) + Cardinality(Of(R, i)) /\ L.granted[i] = Cardinality(Of(X, i))
    BY <1>1
  <2>4. i \in L.waitMask <=> Of(R, i) # {}
    BY DEF Mask
  <2>5. CASE i = m
    <3>1. M.requested[i] = Cardinality(Of(X, i)) + Cardinality(Of(Q, i))
      BY <1>3, <1>4, <1>9, <2>2, <2>3, <2>5
    <3>2. Of(Q, m) = {} <=> Cardinality(Of(Q, m)) = 0
      BY <1>9, Sizes
    <3>3. L.granted[m] = L.requested[m] - 1 <=> Cardinality(Of(Q, m)) = 0
      BY <1>9, <2>2, <2>3, <2>5
    <3>4. m \in L.waitMask
      BY <1>7, <2>4, <2>5
    <3> QED
      BY <1>4, <2>5, <3>1, <3>2, <3>3, <3>4
  <2>6. CASE i # m
    BY <1>3, <1>4, <1>7, <2>2, <2>3, <2>4, <2>6
  <2> QED
    BY <2>5, <2>6
<1>12. M.nRequested = Cardinality(X) + Cardinality(Q)
  BY <1>2, <1>4, <1>6, <1>10
<1>14. Tally(M, X, Q)
  BY <1>1, <1>2, <1>4, <1>6, <1>8, <1>11, <1>12 DEF Tally
<1>15. Mask(M, Q)
  BY <1>11 DEF Mask
<1> QED
  BY <1>14, <1>15 DEF M, Q, g

\* What LockRelease leaves in the fields of a LOCK.
LEMMA UnheldFields ==
    ASSUME NEW L \in LockRecord, NEW m \in Modes
    PROVE  /\ Unheld(L, m) \in LockRecord
           /\ Unheld(L, m).tag = L.tag /\ Unheld(L, m).waitMask = L.waitMask /\ Unheld(L, m).waitProcs = L.waitProcs
           /\ Unheld(L, m).nRequested = L.nRequested - 1 /\ Unheld(L, m).nGranted = L.nGranted - 1
           /\ Unheld(L, m).requested = [L.requested EXCEPT ![m] = L.requested[m] - 1]
           /\ Unheld(L, m).granted = [L.granted EXCEPT ![m] = L.granted[m] - 1]
           /\ Unheld(L, m).grantMask = IF L.granted[m] = 1 THEN L.grantMask \ {m} ELSE L.grantMask
<1>1. /\ L.requested \in [Modes -> Int] /\ L.nRequested \in Int /\ L.granted \in [Modes -> Int] /\ L.nGranted \in Int
      /\ L.grantMask \subseteq Modes
  BY RecordTypes
<1> DEFINE v == IF L.granted[m] = 1 THEN L.grantMask \ {m} ELSE L.grantMask
           M == Unheld(L, m)
<1>3. v \subseteq Modes
  BY <1>1
<1>4. M = [L EXCEPT !.nRequested = L.nRequested - 1, !.nGranted = L.nGranted - 1,
                    !.requested = [L.requested EXCEPT ![m] = L.requested[m] - 1],
                    !.granted = [L.granted EXCEPT ![m] = L.granted[m] - 1], !.grantMask = v]
  BY DEF Unheld, LockRecord
<1> DEFINE rq == [L.requested EXCEPT ![m] = L.requested[m] - 1]
           gr == [L.granted EXCEPT ![m] = L.granted[m] - 1]
           nr == L.nRequested - 1
           ng == L.nGranted - 1
<1>r. rq \in [Modes -> Int] /\ gr \in [Modes -> Int] /\ nr \in Int /\ ng \in Int
  BY <1>1
<1> HIDE DEF v, M
<1>5. M \in LockRecord
  <2>1. M = [L EXCEPT !.nRequested = nr, !.nGranted = ng, !.requested = rq, !.granted = gr, !.grantMask = v]
    BY <1>4
  <2> HIDE DEF rq, nr, gr, ng
  <2> QED
    BY <1>r, <1>3, <2>1 DEF LockRecord
<1>6. /\ M.tag = L.tag /\ M.waitMask = L.waitMask /\ M.waitProcs = L.waitProcs
      /\ M.nRequested = L.nRequested - 1 /\ M.nGranted = L.nGranted - 1
      /\ M.requested = [L.requested EXCEPT ![m] = L.requested[m] - 1]
      /\ M.granted = [L.granted EXCEPT ![m] = L.granted[m] - 1]
      /\ M.grantMask = v
  BY <1>4 DEF LockRecord
<1> QED
  BY <1>5, <1>6 DEF M, v

\* LockRelease keeps the tally right with one hold less.
LEMMA TallyUnhold ==
    ASSUME NEW L, NEW X, NEW R, Tally(L, X, R), NEW h \in X
    PROVE  Tally(Unheld(L, h[2]), X \ {h}, R)
<1> DEFINE m == h[2]
           M == Unheld(L, m)
           Y == X \ {h}
<1>1. /\ L \in LockRecord /\ IsFiniteSet(X) /\ IsFiniteSet(R)
      /\ (\A x \in X : x[2] \in Modes) /\ (\A g \in R : g[2] \in Modes)
      /\ \A i \in Modes :
          /\ L.granted[i] = Cardinality(Of(X, i))
          /\ L.requested[i] = Cardinality(Of(X, i)) + Cardinality(Of(R, i))
          /\ i \in L.grantMask <=> Of(X, i) # {}
  BY DEF Tally
<1>2. L.nGranted = Cardinality(X) /\ L.nRequested = Cardinality(X) + Cardinality(R)
  BY DEF Tally
<1>m. m \in Modes
  BY <1>1
<1>3. L.requested \in [Modes -> Int] /\ L.nRequested \in Int /\ L.granted \in [Modes -> Int] /\ L.nGranted \in Int
  BY <1>1, RecordTypes
<1>6. IsFiniteSet(Y) /\ Cardinality(Y) = Cardinality(X) - 1
  BY <1>1, FS_RemoveElement
<1>7. Of(Y, m) = Of(X, m) \ {h} /\ h \in Of(X, m) /\ \A i \in Modes \ {m} : Of(Y, i) = Of(X, i)
  BY DEF Of
<1> HIDE DEF M, m
<1>4. /\ M.nRequested = L.nRequested - 1 /\ M.nGranted = L.nGranted - 1
      /\ M.requested = [L.requested EXCEPT ![m] = L.requested[m] - 1]
      /\ M.granted = [L.granted EXCEPT ![m] = L.granted[m] - 1]
      /\ M.grantMask = IF L.granted[m] = 1 THEN L.grantMask \ {m} ELSE L.grantMask
      /\ M \in LockRecord
  BY <1>1, <1>m, UnheldFields DEF M
<1>8. \A x \in Y : x[2] \in Modes
  BY <1>1
<1> HIDE DEF Y
<1>9. Cardinality(Of(Y, m)) = Cardinality(Of(X, m)) - 1 /\ IsFiniteSet(Of(Y, m))
  <2>1. IsFiniteSet(Of(X, m))
    BY <1>1, OfSets
  <2> QED
    BY <2>1, <1>7, FS_RemoveElement
<1>10. Cardinality(X) \in Nat /\ Cardinality(R) \in Nat
  BY <1>1, Sizes
<1>11. ASSUME NEW i \in Modes
       PROVE  /\ M.granted[i] = Cardinality(Of(Y, i))
              /\ M.requested[i] = Cardinality(Of(Y, i)) + Cardinality(Of(R, i))
              /\ i \in M.grantMask <=> Of(Y, i) # {}
  <2>1. IsFiniteSet(Of(X, i)) /\ IsFiniteSet(Of(R, i))
    BY <1>1, OfSets
  <2>2. Cardinality(Of(X, i)) \in Nat /\ Cardinality(Of(R, i)) \in Nat
    BY <2>1, Sizes
  <2>3. /\ L.requested[i] = Cardinality(Of(X, i)) + Cardinality(Of(R, i)) /\ L.granted[i] = Cardinality(Of(X, i))
        /\ i \in L.grantMask <=> Of(X, i) # {}
    BY <1>1
  <2>5. CASE i = m
    <3>1. M.requested[i] = Cardinality(Of(Y, i)) + Cardinality(Of(R, i)) /\ M.granted[i] = Cardinality(Of(Y, i))
      BY <1>3, <1>4, <1>9, <2>2, <2>3, <2>5
    <3>2. Of(Y, m) = {} <=> Cardinality(Of(Y, m)) = 0
      BY <1>9, Sizes
    <3>3. L.granted[m] = 1 <=> Cardinality(Of(Y, m)) = 0
      BY <1>9, <2>2, <2>3, <2>5
    <3>4. m \in L.grantMask
      BY <1>7, <2>3, <2>5
    <3> QED
      BY <1>4, <2>5, <3>1, <3>2, <3>3, <3>4
  <2>6. CASE i # m
    BY <1>3, <1>4, <1>7, <2>2, <2>3, <2>6
  <2> QED
    BY <2>5, <2>6
<1>12. M.nRequested = Cardinality(Y) + Cardinality(R) /\ M.nGranted = Cardinality(Y)
  BY <1>2, <1>4, <1>6, <1>10
<1>14. Tally(M, Y, R)
  BY <1>1, <1>4, <1>6, <1>8, <1>11, <1>12 DEF Tally
<1> QED
  BY <1>14 DEF M, Y, m

ProclockRecord == [holding : [Modes -> Nat], nHolding : Int]

\* What Unrequest does to the fields of a LOCK that is still in use.
Unrequested(M, L, k) ==
    /\ M \in LockRecord
    /\ M.tag = L.tag /\ M.waitMask = L.waitMask /\ M.waitProcs = L.waitProcs
    /\ M.nRequested = L.nRequested - k.nHolding /\ M.nGranted = L.nGranted - k.nHolding
    /\ \A m \in Modes :
         /\ M.requested[m] = L.requested[m] - k.holding[m]
         /\ M.granted[m] = L.granted[m] - k.holding[m]
         /\ m \in M.grantMask <=> m \in L.grantMask /\ ~(k.holding[m] > 0 /\ L.granted[m] = k.holding[m])

\* What LockReleaseAll leaves in the fields of a LOCK, which it does not subtract from when everything goes.
LEMMA UnrequestFields ==
    ASSUME NEW L \in LockRecord, NEW k \in ProclockRecord
    PROVE  /\ L.nRequested # k.nHolding => Unrequested(Unrequest(L, k), L, k)
           /\ L.nRequested = k.nHolding =>
                /\ Unrequest(L, k) \in LockRecord /\ Unrequest(L, k).nRequested = 0
                /\ Unrequest(L, k).tag = L.tag /\ Unrequest(L, k).waitProcs = L.waitProcs
<1>1. /\ L.requested \in [Modes -> Int] /\ L.nRequested \in Int /\ L.granted \in [Modes -> Int] /\ L.nGranted \in Int
      /\ L.grantMask \subseteq Modes
  BY RecordTypes
<1>2. k.holding \in [Modes -> Nat] /\ k.nHolding \in Int
  BY DEF ProclockRecord
<1> DEFINE M == Unrequest(L, k)
<1>3. ASSUME L.nRequested = k.nHolding
      PROVE  M \in LockRecord /\ M.nRequested = 0 /\ M.tag = L.tag /\ M.waitProcs = L.waitProcs
  <2>1. Zero \in [Modes -> Int]
    BY DEF Zero
  <2>2. M = [L EXCEPT !.nRequested = 0, !.nGranted = 0, !.requested = Zero, !.granted = Zero]
    BY <1>3 DEF Unrequest
  <2> DEFINE z == 0
  <2>3. M = [L EXCEPT !.nRequested = z, !.nGranted = z, !.requested = Zero, !.granted = Zero] /\ z \in Int /\ z = 0
    BY <2>2
  <2> HIDE DEF M, z
  <2>4. M \in LockRecord
    BY <2>1, <2>3 DEF LockRecord
  <2>5. M.nRequested = z /\ M.tag = L.tag /\ M.waitProcs = L.waitProcs
    BY <2>3 DEF LockRecord
  <2> QED
    BY <2>3, <2>4, <2>5
<1>4. ASSUME L.nRequested # k.nHolding
      PROVE  Unrequested(M, L, k)
  <2> DEFINE rq == [i \in Modes |-> L.requested[i] - k.holding[i]]
             gr == [i \in Modes |-> L.granted[i] - k.holding[i]]
             gm == L.grantMask \ {i \in Modes : k.holding[i] > 0 /\ L.granted[i] = k.holding[i]}
             nr == L.nRequested - k.nHolding
             ng == L.nGranted - k.nHolding
  <2>1. M = [L EXCEPT !.nRequested = nr, !.nGranted = ng, !.requested = rq, !.granted = gr, !.grantMask = gm]
    BY <1>4 DEF Unrequest, LockRecord
  <2>2. rq \in [Modes -> Int] /\ gr \in [Modes -> Int] /\ gm \subseteq Modes /\ nr \in Int /\ ng \in Int
    BY <1>1, <1>2
  <2>3. \A m \in Modes : /\ rq[m] = L.requested[m] - k.holding[m] /\ gr[m] = L.granted[m] - k.holding[m]
                         /\ m \in gm <=> m \in L.grantMask /\ ~(k.holding[m] > 0 /\ L.granted[m] = k.holding[m])
    OBVIOUS
  <2> HIDE DEF M, rq, gr, gm
  <2>4. /\ M.tag = L.tag /\ M.waitMask = L.waitMask /\ M.waitProcs = L.waitProcs
        /\ M.nRequested = nr /\ M.nGranted = ng
        /\ M.requested = rq /\ M.granted = gr /\ M.grantMask = gm
    BY <2>1 DEF LockRecord
  <2>5. M \in LockRecord
    <3> HIDE DEF nr, ng
    <3> QED
      BY <2>1, <2>2 DEF LockRecord
  <2> QED
    BY <2>3, <2>4, <2>5 DEF Unrequested
<1> QED
  BY <1>3, <1>4

\* A PROCLOCK k, which holds Y, leaves.
LEMMA TallyRelease ==
    ASSUME NEW L, NEW X, NEW R, Tally(L, X, R), NEW Y, Y \subseteq X, NEW k \in ProclockRecord,
           k.nHolding = Cardinality(Y),
           \A m \in Modes : k.holding[m] = Cardinality(Of(Y, m))
    PROVE  /\ L.nRequested = k.nHolding => R = {} /\ X = Y
           /\ L.nRequested # k.nHolding => Tally(Unrequest(L, k), X \ Y, R) /\ Unrequest(L, k).nRequested # 0
<1>1. /\ L \in LockRecord /\ IsFiniteSet(X) /\ IsFiniteSet(R)
      /\ (\A x \in X : x[2] \in Modes) /\ (\A g \in R : g[2] \in Modes)
      /\ \A i \in Modes :
          /\ L.granted[i] = Cardinality(Of(X, i))
          /\ L.requested[i] = Cardinality(Of(X, i)) + Cardinality(Of(R, i))
          /\ i \in L.grantMask <=> Of(X, i) # {}
  BY DEF Tally
<1>2. L.nGranted = Cardinality(X) /\ L.nRequested = Cardinality(X) + Cardinality(R)
  BY DEF Tally
<1>3. /\ Cardinality(X \ Y) = Cardinality(X) - Cardinality(Y) /\ Cardinality(X) >= Cardinality(Y)
      /\ Cardinality(X) = Cardinality(Y) => X = Y
      /\ IsFiniteSet(Y) /\ IsFiniteSet(X \ Y)
  BY <1>1, RestSize
<1>4. /\ Cardinality(X) \in Nat /\ Cardinality(R) \in Nat /\ Cardinality(Y) \in Nat
      /\ R = {} <=> Cardinality(R) = 0
  BY <1>1, <1>3, Sizes
<1>5. ASSUME L.nRequested = k.nHolding PROVE R = {} /\ X = Y
  BY <1>2, <1>3, <1>4, <1>5
<1>6. ASSUME L.nRequested # k.nHolding PROVE Tally(Unrequest(L, k), X \ Y, R) /\ Unrequest(L, k).nRequested # 0
  <2> DEFINE M == Unrequest(L, k)
             Z == X \ Y
  <2>1. Unrequested(M, L, k)
    BY <1>1, <1>6, UnrequestFields
  <2> HIDE DEF M
  <2>2. M.nRequested = Cardinality(Z) + Cardinality(R) /\ M.nGranted = Cardinality(Z) /\ M.nRequested # 0
    BY <1>2, <1>3, <1>4, <1>6, <2>1 DEF Unrequested
  <2>5. \A x \in Z : x[2] \in Modes
    BY <1>1
  <2>6. IsFiniteSet(Z)
    BY <1>3
  <2>z. \A i : Of(Z, i) = Of(X, i) \ Of(Y, i)
    BY OfSets
  <2> HIDE DEF Z
  <2>3. ASSUME NEW i \in Modes
        PROVE  /\ M.granted[i] = Cardinality(Of(Z, i))
               /\ M.requested[i] = Cardinality(Of(Z, i)) + Cardinality(Of(R, i))
               /\ i \in M.grantMask <=> Of(Z, i) # {}
    <3> DEFINE x == Of(X, i)  y == Of(Y, i)  r == Of(R, i)
    <3>1. Of(Z, i) = x \ y /\ y \subseteq x
      BY <2>z, OfSets
    <3>2. IsFiniteSet(x) /\ IsFiniteSet(r)
      BY <1>1, OfSets
    <3>3. k.holding[i] = Cardinality(y)
      OBVIOUS
    <3>4. /\ L.requested[i] = Cardinality(x) + Cardinality(r) /\ L.granted[i] = Cardinality(x)
          /\ i \in L.grantMask <=> x # {}
      BY <1>1
    <3>5. /\ M.requested[i] = L.requested[i] - k.holding[i]
          /\ M.granted[i] = L.granted[i] - k.holding[i]
          /\ i \in M.grantMask <=> i \in L.grantMask /\ ~(k.holding[i] > 0 /\ L.granted[i] = k.holding[i])
      BY <2>1 DEF Unrequested
    <3> HIDE DEF x, y, r
    <3>6. /\ Cardinality(x \ y) = Cardinality(x) - Cardinality(y) /\ IsFiniteSet(y)
          /\ Cardinality(x) = Cardinality(y) => x = y
      BY <3>1, <3>2, RestSize
    <3>7. /\ Cardinality(x) \in Nat /\ Cardinality(y) \in Nat /\ Cardinality(r) \in Nat
          /\ y = {} <=> Cardinality(y) = 0
      BY <3>2, <3>6, Sizes
    <3>8. /\ M.requested[i] = Cardinality(x \ y) + Cardinality(r)
          /\ M.granted[i] = Cardinality(x \ y)
      BY <3>3, <3>4, <3>5, <3>6, <3>7
    <3>9. i \in M.grantMask <=> x \ y # {}
      <4>1. i \in M.grantMask <=> x # {} /\ ~(y # {} /\ Cardinality(x) = Cardinality(y))
        BY <3>3, <3>4, <3>5, <3>7
      <4>2. x \ y = {} <=> x = y
        BY <3>1
      <4> QED
        BY <4>1, <4>2, <3>6
    <3> QED
      BY <3>1, <3>8, <3>9 DEF r
  <2>4. M \in LockRecord
    BY <2>1 DEF Unrequested
  <2>7. Tally(M, Z, R)
    BY <1>1, <2>2, <2>3, <2>4, <2>5, <2>6 DEF Tally
  <2> QED
    BY <2>2, <2>7 DEF M, Z
<1> QED
  BY <1>5, <1>6

\* Conflicts are mutual.
LEMMA Symmetric ==
    /\ \A i, j \in Modes : j \in ConflictTab[i] => i \in ConflictTab[j]
<1> SUFFICES ASSUME NEW i \in 1..8, NEW j \in 1..8, j \in ConflictTab[i] PROVE i \in ConflictTab[j]
  BY ModesRange
<1>1. /\ ConflictTab[1] = {8} /\ ConflictTab[2] = {7, 8} /\ ConflictTab[3] = {5, 6, 7, 8}
      /\ ConflictTab[4] = {4, 5, 6, 7, 8} /\ ConflictTab[5] = {3, 4, 6, 7, 8}
      /\ ConflictTab[6] = {3, 4, 5, 6, 7, 8} /\ ConflictTab[7] = 2..8 /\ ConflictTab[8] = 1..8
  BY DEF ConflictTab
<1>2. i \in {1, 2, 3, 4, 5, 6, 7, 8} /\ j \in {1, 2, 3, 4, 5, 6, 7, 8}
  OBVIOUS
<1> QED
  BY <1>1, <1>2

\* The holds X belong to processes that do not conflict with each other.
Apart(X) == \A g, h \in X : g[1][2] # h[1][2] => h[2] \notin ConflictTab[g[2]]

\* Who passes LockCheckConflicts conflicts with nobody else.
LEMMA NoOthers ==
    ASSUME NEW L, NEW X, NEW R, Tally(L, X, R), NEW p, NEW m \in Modes, NEW own,
           \A i \in Modes : own[i] = Cardinality(Of(Mine(X, p), i)),
           LockCheckConflicts(L, m, own)
    PROVE  \A h \in X : h[1][2] # p => h[2] \notin ConflictTab[m]
<1> SUFFICES ASSUME NEW h \in X, NEW i, i = h[2], h[1][2] # p, i \in ConflictTab[m] PROVE FALSE
  OBVIOUS
<1>1. /\ IsFiniteSet(X) /\ i \in Modes
      /\ L.granted[i] = Cardinality(Of(X, i)) /\ (i \in L.grantMask <=> Of(X, i) # {})
  BY DEF Tally
<1> DEFINE all == Of(X, i)
           mine == Of(Mine(X, p), i)
<1>2. mine \subseteq all /\ h \in all /\ h \notin mine
  BY DEF Of, Mine
<1>3. IsFiniteSet(all)
  <2>1. IsFiniteSet(X)
    BY <1>1
  <2>2. IsFiniteSet(Of(X, i))
    BY <2>1, OfFinite
  <2> QED
    BY <2>2
<1>4. i \in L.grantMask
  BY <1>1, <1>2
<1>5. L.granted[i] = own[i]
  BY <1>1, <1>4 DEF LockCheckConflicts
<1>6. L.granted[i] = Cardinality(all) /\ own[i] = Cardinality(mine)
  BY <1>1
<1> HIDE DEF all, mine
<1>7. all = mine
  <2>1. Cardinality(all) = Cardinality(mine)
    BY <1>5, <1>6
  <2> QED
    BY <1>2, <1>3, <2>1, RestSize, Zenon
<1> QED
  BY <1>2, <1>7

\* A one-to-one image has the size of its set.
LEMMA ImageSize ==
    ASSUME NEW W, IsFiniteSet(W), NEW f, DOMAIN f = W, f = [x \in W |-> f[x]],
           \A x, y \in W : f[x] = f[y] => x = y
    PROVE  /\ IsFiniteSet({f[x] : x \in W})
           /\ Cardinality({f[x] : x \in W}) = Cardinality(W)
<1> DEFINE T == {f[x] : x \in W}
<1>1. f \in [W -> T]
  OBVIOUS
<1>2. f \in Injection(W, T)
  BY <1>1 DEF Injection, IsInjective
<1>3. f \in Surjection(W, T)
  BY <1>1 DEF Surjection
<1> HIDE DEF T
<1>4. IsFiniteSet(T) /\ (Cardinality(T) = Cardinality(W) <=> f \in Injection(W, T))
  BY <1>3, FS_Surjection
<1> QED
  BY <1>2, <1>4 DEF T

\* The requests of the processes W, and the holds that they get.
Pairs(wt, W) == {<<w, wt[w].mode>> : w \in W}
Gain(pl, w) == <<w.holder, w.mode, pl[w.holder].holding[w.mode] + 1>>
Gains(pl, wt, W) == {Gain(pl, wt[w]) : w \in W}
Waiting(wt, s) == {p \in Procs : wt[p].lock = s}
Asks(wt, s) == Pairs(wt, Waiting(wt, s))
InMode(wt, W, m) == {w \in W : wt[w].mode = m}

\* There are as many requests as waiters, in all and in each mode.
LEMMA PairsSize ==
    ASSUME NEW wt, NEW W, IsFiniteSet(W)
    PROVE  /\ IsFiniteSet(Pairs(wt, W)) /\ Cardinality(Pairs(wt, W)) = Cardinality(W)
           /\ \A m : /\ Of(Pairs(wt, W), m) = Pairs(wt, InMode(wt, W, m))
                     /\ Cardinality(Of(Pairs(wt, W), m)) = Cardinality(InMode(wt, W, m))
<1>1. ASSUME NEW V, IsFiniteSet(V)
      PROVE  IsFiniteSet(Pairs(wt, V)) /\ Cardinality(Pairs(wt, V)) = Cardinality(V)
  <2> DEFINE f == [w \in V |-> <<w, wt[w].mode>>]
  <2>1. Pairs(wt, V) = {f[w] : w \in V}
    BY DEF Pairs
  <2>2. DOMAIN f = V /\ f = [x \in V |-> f[x]] /\ \A x, y \in V : f[x] = f[y] => x = y
    OBVIOUS
  <2> HIDE DEF f
  <2>3. /\ IsFiniteSet({f[x] : x \in V})
        /\ Cardinality({f[x] : x \in V}) = Cardinality(V)
    BY <1>1, <2>2, ImageSize
  <2> QED
    BY <2>1, <2>3
<1>2. ASSUME NEW m PROVE Of(Pairs(wt, W), m) = Pairs(wt, InMode(wt, W, m)) /\ IsFiniteSet(InMode(wt, W, m))
  <2>1. InMode(wt, W, m) \subseteq W
    BY DEF InMode
  <2>2. Of(Pairs(wt, W), m) = Pairs(wt, InMode(wt, W, m))
    BY DEF Of, Pairs, InMode
  <2> QED
    BY <2>1, <2>2, FS_Subset
<1> QED
  BY <1>1, <1>2

\* There are as many new holds as processes served, in all and in each mode.
LEMMA GainsSize ==
    ASSUME NEW pl, NEW wt, NEW W, IsFiniteSet(W), \A w \in W : wt[w].holder[2] = w
    PROVE  /\ IsFiniteSet(Gains(pl, wt, W)) /\ Cardinality(Gains(pl, wt, W)) = Cardinality(W)
           /\ \A m : Cardinality(Of(Gains(pl, wt, W), m)) = Cardinality(InMode(wt, W, m))
<1>1. ASSUME NEW V, IsFiniteSet(V), V \subseteq W
      PROVE  IsFiniteSet(Gains(pl, wt, V)) /\ Cardinality(Gains(pl, wt, V)) = Cardinality(V)
  <2> DEFINE f == [w \in V |-> Gain(pl, wt[w])]
  <2>1. Gains(pl, wt, V) = {f[w] : w \in V}
    BY DEF Gains
  <2>2. DOMAIN f = V /\ f = [x \in V |-> f[x]]
    OBVIOUS
  <2>3. \A x, y \in V : f[x] = f[y] => x = y
    <3> SUFFICES ASSUME NEW x \in V, NEW y \in V, f[x] = f[y] PROVE x = y
      OBVIOUS
    <3>1. f[x][1] = wt[x].holder /\ f[y][1] = wt[y].holder
      BY DEF Gain
    <3>2. wt[x].holder[2] = x /\ wt[y].holder[2] = y
      BY <1>1
    <3> HIDE DEF f
    <3> QED
      BY <3>1, <3>2
  <2> HIDE DEF f
  <2>4. /\ IsFiniteSet({f[x] : x \in V})
        /\ Cardinality({f[x] : x \in V}) = Cardinality(V)
    BY <1>1, <2>2, <2>3, ImageSize
  <2> QED
    BY <2>1, <2>4
<1>2. ASSUME NEW m PROVE Of(Gains(pl, wt, W), m) = Gains(pl, wt, InMode(wt, W, m)) /\ IsFiniteSet(InMode(wt, W, m))
  <2>1. InMode(wt, W, m) \subseteq W
    BY DEF InMode
  <2>2. Of(Gains(pl, wt, W), m) = Gains(pl, wt, InMode(wt, W, m))
    BY DEF Of, Gains, InMode, Gain
  <2> QED
    BY <2>1, <2>2, FS_Subset
<1>3. \A m : InMode(wt, W, m) \subseteq W
  BY DEF InMode
<1> QED
  BY <1>1, <1>2, <1>3

\* The members of Holds.
LEMMA HoldsMembers ==
    ASSUME NEW pl, NEW K
    PROVE  \A k, m, i : <<k, m, i>> \in Holds(pl, K) <=>
              k \in K /\ m \in Modes /\ i \in 1..MaxHold /\ i <= pl[k].holding[m]
  BY DEF Holds

\* The members of Holds are triples.
LEMMA HoldsTriples ==
    ASSUME NEW pl, NEW K, NEW h \in Holds(pl, K)
    PROVE  /\ h[1] \in K /\ h[2] \in Modes /\ h[3] \in 1..MaxHold /\ h[3] <= pl[h[1]].holding[h[2]]
           /\ h = <<h[1], h[2], h[3]>>
  BY DEF Holds

\* What one PROCLOCK holds of a mode.
LEMMA HoldsOne ==
    ASSUME NEW pl, NEW k \in Key, NEW m \in Modes, pl[k].holding[m] \in 0..MaxHold
    PROVE  Cardinality(Of(Holds(pl, {k}), m)) = pl[k].holding[m]
<1> DEFINE n == pl[k].holding[m]
           W == 1..n
           f == [i \in W |-> <<k, m, i>>]
           Y == Of(Holds(pl, {k}), m)
<1>1. n \in Int /\ MaxHold \in Nat /\ n >= 0 /\ n <= MaxHold
  BY MaxHoldNat
<1> HIDE DEF n
<1>2. IsFiniteSet(W) /\ Cardinality(W) = n
  <2>1. 1 \in Int
    OBVIOUS
  <2>2. IsFiniteSet(1..n) /\ Cardinality(1..n) = IF 1 > n THEN 0 ELSE n - 1 + 1
    BY <1>1, <2>1, FS_Interval
  <2> QED
    BY <1>1, <2>2
<1>3. DOMAIN f = W /\ f = [x \in W |-> f[x]] /\ \A x, y \in W : f[x] = f[y] => x = y
  OBVIOUS
<1>4. Y = {f[x] : x \in W}
  <2>1. ASSUME NEW x \in W PROVE f[x] \in Y
    <3>1. f[x] = <<k, m, x>> /\ x \in 1..MaxHold /\ x <= n
      BY <1>1
    <3>2. <<k, m, x>> \in Holds(pl, {k})
      BY <3>1, HoldsMembers DEF n
    <3> QED
      BY <3>1, <3>2 DEF Of
  <2>2. ASSUME NEW h \in Y PROVE \E x \in W : f[x] = h
    <3>1. h \in Holds(pl, {k}) /\ h[2] = m
      BY DEF Of
    <3>2. h[1] \in {k} /\ h[3] \in 1..MaxHold /\ h[3] <= pl[h[1]].holding[h[2]] /\ h = <<h[1], h[2], h[3]>>
      BY <3>1, HoldsTriples
    <3>3. h[3] \in W /\ f[h[3]] = <<k, m, h[3]>>
      BY <1>1, <3>1, <3>2 DEF n
    <3> QED
      BY <3>1, <3>2, <3>3
  <2> HIDE DEF f, Y, W
  <2> QED
    BY <2>1, <2>2
<1> HIDE DEF f, W, Y
<1>5. Cardinality({f[x] : x \in W}) = Cardinality(W)
  BY <1>2, <1>3, ImageSize
<1> QED
  BY <1>2, <1>4, <1>5 DEF n, Y

\* The PROCLOCKs of a LOCK.
AtSlot(H, s) == {k \in H : k[1] = s}

\* The processes D get what they wait for.
Served(pl, wt, D) ==
    [k \in Key |-> IF k[2] \in D /\ k = wt[k[2]].holder THEN Hold(pl[k], wt[k[2]].mode) ELSE pl[k]]

\* They are where they can get it.
CanGain(pl, wt, H, D) ==
    \A w \in D : /\ wt[w].holder \in H /\ wt[w].holder[2] = w /\ wt[w].mode \in Modes
                 /\ pl[wt[w].holder].holding[wt[w].mode] < MaxHold

\* What GrantLock leaves in the fields of a PROCLOCK.
LEMMA HoldFields ==
    ASSUME NEW k \in ProclockRecord, NEW m \in Modes
    PROVE  /\ Hold(k, m) \in ProclockRecord /\ Hold(k, m).nHolding = k.nHolding + 1
           /\ Hold(k, m).holding[m] = k.holding[m] + 1
           /\ \A i \in Modes : i # m => Hold(k, m).holding[i] = k.holding[i]
<1>1. k.holding \in [Modes -> Nat] /\ k.nHolding \in Int
  BY DEF ProclockRecord
<1> DEFINE hd == [k.holding EXCEPT ![m] = k.holding[m] + 1]
           n == k.nHolding + 1
<1>2. hd \in [Modes -> Nat] /\ n \in Int /\ hd[m] = k.holding[m] + 1 /\ \A i \in Modes : i # m => hd[i] = k.holding[i]
  BY <1>1
<1>3. Hold(k, m) = [k EXCEPT !.holding = hd, !.nHolding = n]
  BY DEF Hold, ProclockRecord
<1> HIDE DEF hd
<1>4. Hold(k, m).holding = hd /\ Hold(k, m).nHolding = n
  BY <1>3 DEF ProclockRecord
<1>5. Hold(k, m) \in ProclockRecord
  <2> HIDE DEF n
  <2> QED
    BY <1>2, <1>3 DEF ProclockRecord
<1> QED
  BY <1>2, <1>4, <1>5

\* What LockRelease leaves in the fields of a PROCLOCK.
LEMMA UnholdFields ==
    ASSUME NEW k \in ProclockRecord, NEW m \in Modes, k.holding[m] > 0
    PROVE  /\ Unhold(k, m) \in ProclockRecord /\ Unhold(k, m).nHolding = k.nHolding - 1
           /\ Unhold(k, m).holding[m] = k.holding[m] - 1
           /\ \A i \in Modes : i # m => Unhold(k, m).holding[i] = k.holding[i]
<1>1. k.holding \in [Modes -> Nat] /\ k.nHolding \in Int
  BY DEF ProclockRecord
<1> DEFINE hd == [k.holding EXCEPT ![m] = k.holding[m] - 1]
           n == k.nHolding - 1
<1>2. hd \in [Modes -> Nat] /\ n \in Int /\ hd[m] = k.holding[m] - 1 /\ \A i \in Modes : i # m => hd[i] = k.holding[i]
  BY <1>1
<1>3. Unhold(k, m) = [k EXCEPT !.holding = hd, !.nHolding = n]
  BY DEF Unhold, ProclockRecord
<1> HIDE DEF hd
<1>4. Unhold(k, m).holding = hd /\ Unhold(k, m).nHolding = n
  BY <1>3 DEF ProclockRecord
<1>5. Unhold(k, m) \in ProclockRecord
  <2> HIDE DEF n
  <2> QED
    BY <1>2, <1>3 DEF ProclockRecord
<1> QED
  BY <1>2, <1>4, <1>5

\* L with another wait queue.
Requeue(L, q) == [L EXCEPT !.waitProcs = q]

\* Another order of the wait queue changes no count.
LEMMA RequeueTally ==
    ASSUME NEW L \in LockRecord, NEW q \in Seq(Procs)
    PROVE  /\ Requeue(L, q) \in LockRecord /\ Requeue(L, q).waitProcs = q /\ Requeue(L, q).tag = L.tag
           /\ Requeue(L, q).granted = L.granted /\ Requeue(L, q).grantMask = L.grantMask
           /\ Requeue(L, q).waitMask = L.waitMask
           /\ \A X, R : /\ Tally(L, X, R) => Tally(Requeue(L, q), X, R)
                        /\ Mask(L, R) => Mask(Requeue(L, q), R)
<1> DEFINE M == Requeue(L, q)
<1>1. M \in LockRecord
  BY DEF Requeue, LockRecord
<1>2. /\ M.waitProcs = q /\ M.tag = L.tag /\ M.granted = L.granted /\ M.grantMask = L.grantMask
      /\ M.waitMask = L.waitMask /\ M.requested = L.requested /\ M.nRequested = L.nRequested /\ M.nGranted = L.nGranted
  BY DEF Requeue, LockRecord
<1> HIDE DEF M
<1>3. ASSUME NEW X, NEW R, Tally(L, X, R) PROVE Tally(M, X, R)
  BY <1>1, <1>2, <1>3 DEF Tally
<1>4. ASSUME NEW R, Mask(L, R) PROVE Mask(M, R)
  BY <1>2, <1>4 DEF Mask
<1> QED
  BY <1>1, <1>2, <1>3, <1>4 DEF M

ServedAt(wt, D, K) == {w \in D : wt[w].holder \in K}

\* What a PROCLOCK gets.
GainedBy(new, pl, wt, D, k) ==
    /\ k[2] \in D /\ k = wt[k[2]].holder =>
          /\ wt[k[2]].mode \in Modes
          /\ new[k].nHolding = pl[k].nHolding + 1
          /\ new[k].holding[wt[k[2]].mode] = pl[k].holding[wt[k[2]].mode] + 1
          /\ \A m \in Modes : m # wt[k[2]].mode => new[k].holding[m] = pl[k].holding[m]
    /\ ~(k[2] \in D /\ k = wt[k[2]].holder) => new[k] = pl[k]

\* Who is served holds its mode once more, and nobody else anything else.
LEMMA ServedOne ==
    ASSUME NEW pl \in [Key -> ProclockRecord], NEW wt, NEW H, NEW D, CanGain(pl, wt, H, D)
    PROVE  /\ Served(pl, wt, D) \in [Key -> ProclockRecord]
           /\ \A k \in Key : GainedBy(Served(pl, wt, D), pl, wt, D, k)
<1> DEFINE new == Served(pl, wt, D)
<1>1. ASSUME NEW l \in Key, l[2] \in D, l = wt[l[2]].holder
      PROVE  new[l] = Hold(pl[l], wt[l[2]].mode) /\ wt[l[2]].mode \in Modes /\ pl[l] \in ProclockRecord
  BY <1>1 DEF Served, CanGain
<1>2. ASSUME NEW l \in Key, ~(l[2] \in D /\ l = wt[l[2]].holder)
      PROVE  new[l] = pl[l] /\ pl[l] \in ProclockRecord
  BY <1>2 DEF Served
<1>3. DOMAIN new = Key /\ new = [l \in Key |-> new[l]]
  BY DEF Served
<1> HIDE DEF new
<1>4. ASSUME NEW l \in Key PROVE new[l] \in ProclockRecord
  <2>1. CASE l[2] \in D /\ l = wt[l[2]].holder
    BY <1>1, <2>1, HoldFields
  <2>2. CASE ~(l[2] \in D /\ l = wt[l[2]].holder)
    BY <1>2, <2>2
  <2> QED
    BY <2>1, <2>2
<1>5. new \in [Key -> ProclockRecord]
  BY <1>3, <1>4
<1>6. ASSUME NEW k \in Key, k[2] \in D /\ k = wt[k[2]].holder
      PROVE  /\ wt[k[2]].mode \in Modes
             /\ new[k].nHolding = pl[k].nHolding + 1
             /\ new[k].holding[wt[k[2]].mode] = pl[k].holding[wt[k[2]].mode] + 1
             /\ \A m \in Modes : m # wt[k[2]].mode => new[k].holding[m] = pl[k].holding[m]
  <2> DEFINE m0 == wt[k[2]].mode
             r == pl[k]
  <2>1. new[k] = Hold(r, m0) /\ m0 \in Modes /\ r \in ProclockRecord
    BY <1>1, <1>6
  <2> HIDE DEF m0, r
  <2>2. /\ new[k].nHolding = r.nHolding + 1 /\ new[k].holding[m0] = r.holding[m0] + 1
        /\ \A m \in Modes : m # m0 => new[k].holding[m] = r.holding[m]
    BY <2>1, HoldFields
  <2> QED
    BY <2>1, <2>2 DEF m0, r
<1>7. ASSUME NEW k \in Key PROVE GainedBy(new, pl, wt, D, k)
  BY <1>2, <1>6 DEF GainedBy
<1> QED
  BY <1>5, <1>7 DEF new

\* The holds after some processes are served are those before and what they gained.
LEMMA GainedHolds ==
    ASSUME NEW pl \in [Key -> ProclockRecord], NEW wt, NEW H, H \subseteq Key, NEW D, CanGain(pl, wt, H, D),
           NEW K, K \subseteq H
    PROVE  /\ Holds(Served(pl, wt, D), K) = Holds(pl, K) \cup Gains(pl, wt, ServedAt(wt, D, K))
           /\ Gains(pl, wt, ServedAt(wt, D, K)) \cap Holds(pl, K) = {}
<1> DEFINE new == Served(pl, wt, D)
           W == ServedAt(wt, D, K)
<1>1. ASSUME NEW k \in Key
      PROVE  /\ k[2] \in D /\ k = wt[k[2]].holder =>
                 /\ wt[k[2]].mode \in Modes
                 /\ new[k].holding[wt[k[2]].mode] = pl[k].holding[wt[k[2]].mode] + 1
                 /\ \A m \in Modes : m # wt[k[2]].mode => new[k].holding[m] = pl[k].holding[m]
             /\ ~(k[2] \in D /\ k = wt[k[2]].holder) => new[k] = pl[k]
  <2>1. GainedBy(new, pl, wt, D, k)
    BY ServedOne
  <2> HIDE DEF new
  <2> QED
    BY <2>1 DEF GainedBy
<1> HIDE DEF new
<1>n. \A k \in Key, m \in Modes : pl[k].holding[m] \in Nat
  BY DEF ProclockRecord
<1>w. \A w \in W : /\ w \in D /\ wt[w].holder \in K /\ wt[w].holder[2] = w /\ wt[w].mode \in Modes
                   /\ pl[wt[w].holder].holding[wt[w].mode] < MaxHold
  BY DEF ServedAt, CanGain
<1>2. ASSUME NEW h \in Gains(pl, wt, W)
      PROVE  h \in Holds(new, K) /\ h \notin Holds(pl, K)
  <2>1. PICK w \in W : h = Gain(pl, wt[w])
    BY DEF Gains
  <2> DEFINE k == wt[w].holder
             m == wt[w].mode
             n == pl[k].holding[m]
  <2>2. k \in K /\ k \in Key /\ k[2] = w /\ w \in D /\ m \in Modes /\ n \in Nat /\ n < MaxHold
    BY <1>w, <1>n
  <2>3. h = <<k, m, n + 1>>
    BY <2>1 DEF Gain
  <2>4. new[k].holding[m] = n + 1
    BY <1>1, <2>2
  <2> HIDE DEF k, m, n
  <2>5. n + 1 \in 1..MaxHold
    BY <2>2, MaxHoldNat
  <2>6. h \in Holds(new, K)
    BY <2>2, <2>3, <2>4, <2>5, HoldsMembers
  <2>7. ~(n + 1 <= n)
    BY <2>2
  <2>8. h \notin Holds(pl, K)
    BY <2>3, <2>7, HoldsMembers DEF n
  <2> QED
    BY <2>6, <2>8
<1>3. ASSUME NEW h \in Holds(pl, K) PROVE h \in Holds(new, K)
  <2>1. PICK k, m, i : h = <<k, m, i>> /\ k \in K /\ m \in Modes /\ i \in 1..MaxHold /\ i <= pl[k].holding[m]
    BY HoldsTriples
  <2>2. k \in Key
    BY <2>1
  <2>3. i <= new[k].holding[m]
    <3>1. CASE k[2] \in D /\ k = wt[k[2]].holder
      <4>1. new[k].holding[m] = pl[k].holding[m] \/ new[k].holding[m] = pl[k].holding[m] + 1
        BY <1>1, <2>1, <2>2, <3>1
      <4>2. pl[k].holding[m] \in Nat
        BY <1>n, <2>1, <2>2
      <4> QED
        BY <2>1, <4>1, <4>2
    <3>2. CASE ~(k[2] \in D /\ k = wt[k[2]].holder)
      BY <1>1, <2>1, <2>2, <3>2
    <3> QED
      BY <3>1, <3>2
  <2> QED
    BY <2>1, <2>3, HoldsMembers
<1>4. ASSUME NEW h \in Holds(new, K), h \notin Holds(pl, K) PROVE h \in Gains(pl, wt, W)
  <2>1. PICK k, m, i : h = <<k, m, i>> /\ k \in K /\ m \in Modes /\ i \in 1..MaxHold /\ i <= new[k].holding[m]
    BY HoldsTriples
  <2>2. k \in Key /\ pl[k].holding[m] \in Nat
    BY <1>n, <2>1
  <2>3. ~(i <= pl[k].holding[m])
    BY <1>4, <2>1, HoldsMembers
  <2>4. k[2] \in D /\ k = wt[k[2]].holder
    BY <1>1, <2>1, <2>2, <2>3
  <2>5. m = wt[k[2]].mode /\ new[k].holding[m] = pl[k].holding[m] + 1
    BY <1>1, <2>1, <2>2, <2>3, <2>4
  <2>6. i = pl[k].holding[m] + 1
    BY <2>1, <2>2, <2>3, <2>5
  <2>7. k[2] \in W
    BY <2>1, <2>4 DEF ServedAt
  <2>8. h = Gain(pl, wt[k[2]])
    BY <2>1, <2>4, <2>5, <2>6 DEF Gain
  <2> QED
    BY <2>7, <2>8 DEF Gains
<1> QED
  BY <1>2, <1>3, <1>4 DEF new

\* Each PROCLOCK counts what it holds.
CountsOwn(pl, k) ==
    /\ pl[k].nHolding = Cardinality(Holds(pl, {k}))
    /\ \A m \in Modes : pl[k].holding[m] <= MaxHold

\* nHolding stays the number of holds when processes are served.
LEMMA ServedCounts ==
    ASSUME NEW pl \in [Key -> ProclockRecord], NEW wt, NEW H, H \subseteq Key, NEW D, CanGain(pl, wt, H, D),
           NEW k \in H, CountsOwn(pl, k)
    PROVE  CountsOwn(Served(pl, wt, D), k)
<1> DEFINE new == Served(pl, wt, D)
           W == ServedAt(wt, D, {k})
<1>1. Holds(new, {k}) = Holds(pl, {k}) \cup Gains(pl, wt, W) /\ Gains(pl, wt, W) \cap Holds(pl, {k}) = {}
  <2>1. {k} \subseteq H
    OBVIOUS
  <2> QED
    BY <2>1, GainedHolds
<1>k. k \in Key
  OBVIOUS
<1>2. /\ k[2] \in D /\ k = wt[k[2]].holder =>
                 /\ wt[k[2]].mode \in Modes
                 /\ new[k].nHolding = pl[k].nHolding + 1
                 /\ new[k].holding[wt[k[2]].mode] = pl[k].holding[wt[k[2]].mode] + 1
                 /\ \A m \in Modes : m # wt[k[2]].mode => new[k].holding[m] = pl[k].holding[m]
      /\ ~(k[2] \in D /\ k = wt[k[2]].holder) => new[k] = pl[k]
  <2>1. GainedBy(new, pl, wt, D, k)
    BY <1>k, ServedOne
  <2> HIDE DEF new
  <2> QED
    BY <2>1 DEF GainedBy
<1>3. \A w \in W : w \in D /\ wt[w].holder = k /\ k[2] = w
  BY DEF ServedAt, CanGain
<1>4. IsFiniteSet(Holds(pl, {k}))
  <2>1. {k} \in SUBSET Key
    BY <1>k
  <2> QED
    BY <2>1, FiniteSets
<1>5. pl[k] \in ProclockRecord
  BY <1>k
<1>6. pl[k].nHolding = Cardinality(Holds(pl, {k})) /\ \A m \in Modes : pl[k].holding[m] <= MaxHold
  BY DEF CountsOwn
<1>7. CASE k[2] \in D /\ k = wt[k[2]].holder
  <2>1. W = {k[2]}
    BY <1>3, <1>7 DEF ServedAt
  <2>2. Gains(pl, wt, W) = {Gain(pl, wt[k[2]])}
    BY <2>1 DEF Gains
  <2> DEFINE g == Gain(pl, wt[k[2]])
             m0 == wt[k[2]].mode
  <2> HIDE DEF new, W, g, m0
  <2>3. Holds(new, {k}) = Holds(pl, {k}) \cup {g} /\ g \notin Holds(pl, {k})
    BY <1>1, <2>2 DEF g
  <2>4. Cardinality(Holds(new, {k})) = Cardinality(Holds(pl, {k})) + 1
    BY <1>4, <2>3, FS_AddElement
  <2>5. new[k].nHolding = pl[k].nHolding + 1
    BY <1>2, <1>7
  <2>6. pl[k].holding[m0] < MaxHold /\ m0 \in Modes
    BY <1>7 DEF CanGain, m0
  <2>7. new[k].holding[m0] = pl[k].holding[m0] + 1 /\ \A m \in Modes : m # m0 => new[k].holding[m] = pl[k].holding[m]
    BY <1>2, <1>7 DEF m0
  <2>8. \A m \in Modes : pl[k].holding[m] \in Nat
    BY <1>5 DEF ProclockRecord
  <2>9. \A m \in Modes : new[k].holding[m] <= MaxHold
    BY <1>6, <2>6, <2>7, <2>8, MaxHoldNat
  <2>10. CountsOwn(new, k)
    BY <1>6, <2>4, <2>5, <2>9 DEF CountsOwn
  <2> QED
    BY <2>10 DEF new
<1>8. CASE ~(k[2] \in D /\ k = wt[k[2]].holder)
  <2>1. W = {}
    BY <1>3, <1>8
  <2>2. Gains(pl, wt, W) = {}
    BY <2>1 DEF Gains
  <2> HIDE DEF new, W
  <2>3. Holds(new, {k}) = Holds(pl, {k}) /\ new[k] = pl[k]
    BY <1>1, <1>2, <1>8, <2>2
  <2>4. CountsOwn(new, k)
    BY <1>6, <2>3 DEF CountsOwn
  <2> QED
    BY <2>4 DEF new
<1> QED
  BY <1>7, <1>8

\* The state of a LOCK that is in the table, and of its wait queue.
SlotOk(L, s, H, pl, wt) ==
    /\ Tally(L, Holds(pl, AtSlot(H, s)), Asks(wt, s)) /\ Mask(L, Asks(wt, s))
    /\ Apart(Holds(pl, AtSlot(H, s)))
Queued(L, s, wt) == Once(L.waitProcs) /\ ToSet(L.waitProcs) = Waiting(wt, s)

\* Sets of processes are finite.
LEMMA ProcSets ==
    /\ \A W \in SUBSET Procs : IsFiniteSet(W)
    /\ \A wt, s : Waiting(wt, s) \in SUBSET Procs
<1>1. \A W \in SUBSET Procs : IsFiniteSet(W)
  BY ProcsFinite, FS_Subset
<1> QED
  BY <1>1 DEF Waiting

\* The grant of what the processes V wait for.
LEMMA GrantSome ==
    ASSUME NEW L, NEW X, NEW wt, NEW U \in SUBSET Procs, Tally(L, X, Pairs(wt, U)),
           NEW pl, NEW V, V \subseteq U, Gains(pl, wt, V) \cap X = {},
           \A w \in V : wt[w].holder[2] = w /\ wt[w].mode \in Modes,
           \A m \in Modes : m \in L.waitMask => Of(Pairs(wt, U), m) # {},
           \A m \in Modes : Of(Pairs(wt, U \ V), m) # {} => m \in L.waitMask
    PROVE  /\ Tally(GrantLock(L, Pairs(wt, V)), X \cup Gains(pl, wt, V), Pairs(wt, U \ V))
           /\ Mask(GrantLock(L, Pairs(wt, V)), Pairs(wt, U \ V))
<1> DEFINE G == Pairs(wt, V)
           R == Pairs(wt, U)
           N == Gains(pl, wt, V)
<1>1. Pairs(wt, U \ V) = R \ G /\ G \subseteq R
  BY DEF Pairs
<1>2. IsFiniteSet(V)
  <2>1. V \in SUBSET Procs
    OBVIOUS
  <2> QED
    BY <2>1, ProcSets
<1>3. /\ IsFiniteSet(G) /\ Cardinality(G) = Cardinality(V)
      /\ \A m : Cardinality(Of(G, m)) = Cardinality(InMode(wt, V, m))
  BY <1>2, PairsSize
<1>4. /\ IsFiniteSet(N) /\ Cardinality(N) = Cardinality(V)
      /\ \A m : Cardinality(Of(N, m)) = Cardinality(InMode(wt, V, m))
  BY <1>2, GainsSize
<1>5. \A h \in N : h[2] \in Modes
  BY DEF Gains, Gain
<1>6. \A m \in Modes : m \in L.waitMask => Of(R, m) # {}
  OBVIOUS
<1>7. \A m \in Modes : Of(R \ G, m) # {} => m \in L.waitMask
  BY <1>1
<1>8. N \cap X = {} /\ Tally(L, X, R)
  OBVIOUS
<1> HIDE DEF G, R, N
<1>9. Cardinality(N) = Cardinality(G) /\ \A m \in Modes : Cardinality(Of(N, m)) = Cardinality(Of(G, m))
  BY <1>3, <1>4
<1>10. Tally(GrantLock(L, G), X \cup N, R \ G) /\ Mask(GrantLock(L, G), R \ G)
  BY <1>1, <1>4, <1>5, <1>6, <1>7, <1>8, <1>9, TallyGrant
<1> QED
  BY <1>1, <1>10 DEF G, N

\* Holds stay apart if who gets something conflicts neither with a holder nor with who gets something.
LEMMA ApartGains ==
    ASSUME NEW X, Apart(X), NEW pl, NEW wt, NEW W,
           \A h \in X : h[2] \in Modes,
           \A w \in W : wt[w].holder[2] = w /\ wt[w].mode \in Modes,
           \A w \in W : \A h \in X : h[1][2] # w => h[2] \notin ConflictTab[wt[w].mode],
           \A v, w \in W : v # w => wt[v].mode \notin ConflictTab[wt[w].mode]
    PROVE  Apart(X \cup Gains(pl, wt, W))
<1> DEFINE N == Gains(pl, wt, W)
<1> SUFFICES ASSUME NEW g \in X \cup N, NEW h \in X \cup N, g[1][2] # h[1][2] PROVE h[2] \notin ConflictTab[g[2]]
  BY DEF Apart
<1>1. ASSUME NEW n \in N PROVE \E w \in W : n[1][2] = w /\ n[2] = wt[w].mode
  <2>1. PICK w \in W : n = Gain(pl, wt[w])
    BY DEF Gains
  <2>2. n[1] = wt[w].holder /\ n[2] = wt[w].mode
    BY <2>1 DEF Gain
  <2> QED
    BY <2>2
<1> HIDE DEF N
<1>2. CASE g \in X /\ h \in X
  BY <1>2 DEF Apart
<1>3. CASE g \in N /\ h \in X
  BY <1>1, <1>3
<1>4. CASE g \in X /\ h \in N
  <2>1. PICK w \in W : h[1][2] = w /\ h[2] = wt[w].mode
    BY <1>1, <1>4
  <2>2. g[2] \notin ConflictTab[h[2]]
    BY <1>4, <2>1
  <2>3. g[2] \in Modes /\ h[2] \in Modes
    BY <1>4, <2>1
  <2> QED
    BY <2>2, <2>3, Symmetric
<1>5. CASE g \in N /\ h \in N
  <2>1. PICK w \in W : h[1][2] = w /\ h[2] = wt[w].mode
    BY <1>1, <1>5
  <2>2. PICK v \in W : g[1][2] = v /\ g[2] = wt[v].mode
    BY <1>1, <1>5
  <2> QED
    BY <2>1, <2>2
<1> QED
  BY <1>2, <1>3, <1>4, <1>5

\* All that ProcLockWakeup takes for granted about the LOCK L at s.
ReadyFor(s, L, H, pl, wt) ==
    /\ H \subseteq Key /\ pl \in [Key -> ProclockRecord]
    /\ SlotOk(L, s, H, pl, wt) /\ Queued(L, s, wt)
    /\ CanGain(pl, wt, H, Waiting(wt, s))
    /\ \A w \in Waiting(wt, s) :
          /\ wt[w].holder[1] = s
          /\ \A i \in Modes :
                LockCountMyLocks(w, s)[i] = Cardinality(Of(Mine(Holds(pl, AtSlot(H, s)), w), i))
    /\ \A w \in Procs : wt[w].mode = wait[w].mode

\* The waiters V at s get what they wait for.
LEMMA GrantAt ==
    ASSUME NEW s, NEW L, NEW H, NEW pl, NEW wt, ReadyFor(s, L, H, pl, wt), NEW V, V \subseteq Waiting(wt, s)
    PROVE  /\ Tally(GrantWaiters(L, V), Holds(pl, AtSlot(H, s)) \cup Gains(pl, wt, V), Pairs(wt, Waiting(wt, s) \ V))
           /\ Mask(GrantWaiters(L, V), Pairs(wt, Waiting(wt, s) \ V))
           /\ GrantWaiters(L, V).waitProcs = Without(L.waitProcs, V)
           /\ GrantWaiters(L, V).tag = L.tag
           /\ Gains(pl, wt, V) \cap Holds(pl, AtSlot(H, s)) = {}
<1> DEFINE X == Holds(pl, AtSlot(H, s))
           U == Waiting(wt, s)
           N == Gains(pl, wt, V)
           M == GrantLock(L, Pairs(wt, V))
<1>1. Pairs(wt, V) = {<<w, wait[w].mode>> : w \in V}
  <2>1. \A w \in V : wt[w].mode = wait[w].mode
    BY DEF ReadyFor, Waiting
  <2> QED
    BY <2>1 DEF Pairs
<1>2. GrantWaiters(L, V) = [M EXCEPT !.waitProcs = Without(M.waitProcs, V)]
  BY <1>1 DEF GrantWaiters
<1>3. Tally(L, X, Pairs(wt, U)) /\ Mask(L, Pairs(wt, U)) /\ U \in SUBSET Procs
  BY ProcSets DEF ReadyFor, SlotOk, Asks
<1>4. \A w \in V : wt[w].holder[2] = w /\ wt[w].mode \in Modes
  BY DEF ReadyFor, CanGain
<1>5. N \cap X = {}
  <2>1. CanGain(pl, wt, H, V)
    BY DEF ReadyFor, CanGain
  <2>2. AtSlot(H, s) \subseteq H /\ H \subseteq Key /\ pl \in [Key -> ProclockRecord]
    BY DEF ReadyFor, AtSlot
  <2>3. ServedAt(wt, V, AtSlot(H, s)) = V
    BY DEF ServedAt, AtSlot, ReadyFor, CanGain
  <2>4. Gains(pl, wt, ServedAt(wt, V, AtSlot(H, s))) \cap Holds(pl, AtSlot(H, s)) = {}
    BY <2>1, <2>2, GainedHolds
  <2> QED
    BY <2>3, <2>4
<1>6. /\ \A m \in Modes : m \in L.waitMask => Of(Pairs(wt, U), m) # {}
      /\ \A m \in Modes : Of(Pairs(wt, U \ V), m) # {} => m \in L.waitMask
  <2>1. Pairs(wt, U \ V) \subseteq Pairs(wt, U)
    BY DEF Pairs
  <2>2. \A m : Of(Pairs(wt, U \ V), m) \subseteq Of(Pairs(wt, U), m)
    BY <2>1 DEF Of
  <2> HIDE DEF U
  <2> QED
    BY <1>3, <2>2 DEF Mask
<1> HIDE DEF X, U
<1>7. Tally(M, X \cup N, Pairs(wt, U \ V)) /\ Mask(M, Pairs(wt, U \ V))
  <2>1. V \subseteq U
    BY DEF U
  <2> QED
    BY <1>3, <1>4, <1>5, <1>6, <2>1, GrantSome
<1>8. M.waitProcs = L.waitProcs /\ M.tag = L.tag
  <2>1. L \in LockRecord
    BY <1>3 DEF Tally
  <2>2. IsFiniteSet(Pairs(wt, V))
    <3>1. V \in SUBSET Procs
      BY <1>3 DEF U
    <3>2. IsFiniteSet(V)
      BY <3>1, ProcSets
    <3> QED
      BY <3>2, PairsSize
  <2>3. Granted(M, L, Pairs(wt, V))
    BY <2>1, <2>2, GrantFields
  <2> HIDE DEF M
  <2> QED
    BY <2>3 DEF Granted
<1> HIDE DEF M, N
<1>9. M \in LockRecord /\ Without(M.waitProcs, V) \in Seq(Procs)
  <2>1. M \in LockRecord
    BY <1>7 DEF Tally
  <2>2. M.waitProcs \in Seq(Procs)
    BY <2>1, RecordTypes
  <2> QED
    BY <2>1, <2>2, WithoutFacts
<1>10. GrantWaiters(L, V) = Requeue(M, Without(M.waitProcs, V))
  BY <1>2 DEF Requeue
<1> DEFINE q == Without(M.waitProcs, V)
           Y == X \cup N
           R == Pairs(wt, U \ V)
<1>11. Tally(M, Y, R) /\ Mask(M, R) /\ q \in Seq(Procs)
  BY <1>7, <1>9
<1> HIDE DEF q, Y, R
<1>12. Tally(Requeue(M, q), Y, R) /\ Mask(Requeue(M, q), R) /\ Requeue(M, q).waitProcs = q /\ Requeue(M, q).tag = M.tag
  BY <1>9, <1>11, RequeueTally
<1>13. /\ GrantWaiters(L, V) = Requeue(M, q) /\ q = Without(L.waitProcs, V)
  BY <1>8, <1>10 DEF q
<1>14. Tally(GrantWaiters(L, V), Y, R) /\ Mask(GrantWaiters(L, V), R)
  BY <1>12, <1>13
<1>15. GrantWaiters(L, V).waitProcs = Without(L.waitProcs, V) /\ GrantWaiters(L, V).tag = L.tag
  BY <1>8, <1>12, <1>13
<1> QED
  BY <1>5, <1>14, <1>15 DEF Y, R, X, N, U

\* Who is wakable conflicts with nobody who holds the object or is awakened too.
LEMMA WakableApart ==
    ASSUME NEW s, NEW L, NEW H, NEW pl, NEW wt, ReadyFor(s, L, H, pl, wt), NEW W, Wakable(s, L, W)
    PROVE  /\ W \subseteq Waiting(wt, s)
           /\ \A w \in W : \A h \in Holds(pl, AtSlot(H, s)) : h[1][2] # w => h[2] \notin ConflictTab[wt[w].mode]
           /\ \A v, w \in W : v # w => wt[v].mode \notin ConflictTab[wt[w].mode]
<1> DEFINE q == L.waitProcs
           X == Holds(pl, AtSlot(H, s))
           before(i) == {q[j] : j \in 1..(i - 1)}
           own(w) == LockCountMyLocks(w, s)
<1>1. /\ L \in LockRecord /\ Once(q) /\ ToSet(q) = Waiting(wt, s)
      /\ \A w \in Waiting(wt, s) : wt[w].holder[2] = w /\ wt[w].mode \in Modes /\ wt[w].mode = wait[w].mode
  <2>1. \A w \in Waiting(wt, s) : wt[w].mode = wait[w].mode
    BY DEF ReadyFor, Waiting
  <2>2. Tally(L, X, Asks(wt, s))
    BY DEF ReadyFor, SlotOk
  <2> QED
    BY <2>1, <2>2 DEF ReadyFor, Queued, CanGain, Tally
<1>2. /\ W \subseteq ToSet(q)
      /\ \A i \in 1..Len(q) : q[i] \in W =>
            LockCheckConflicts(GrantWaiters(L, W \cap before(i)), wait[q[i]].mode, own(q[i]))
  BY DEF Wakable
<1>3. /\ Len(q) \in Nat
      /\ \A e : e \in ToSet(q) <=> \E i \in 1..Len(q) : q[i] = e
  <2>1. q \in Seq(Procs)
    BY <1>1, RecordTypes
  <2> HIDE DEF q
  <2> QED
    BY <2>1, SetOf
<1>4. \A w \in Waiting(wt, s), i \in Modes : own(w)[i] = Cardinality(Of(Mine(X, w), i))
  BY DEF ReadyFor
<1> HIDE DEF q, X, own
<1>5. ASSUME NEW i \in 1..Len(q), q[i] \in W
      PROVE  /\ \A h \in X : h[1][2] # q[i] => h[2] \notin ConflictTab[wt[q[i]].mode]
             /\ \A j \in 1..(i - 1) : q[j] \in W => wt[q[j]].mode \notin ConflictTab[wt[q[i]].mode]
  <2> DEFINE w == q[i]
             m == wt[w].mode
             V == W \cap before(i)
             N == Gains(pl, wt, V)
  <2>1. V \subseteq Waiting(wt, s) /\ w \in Waiting(wt, s) /\ w \in W
    BY <1>1, <1>2, <1>5
  <2>2. w \notin V
    <3> SUFFICES ASSUME NEW j \in 1..(i - 1), q[j] = w PROVE FALSE
      OBVIOUS
    <3>1. j \in 1..Len(q) /\ j # i
      BY <1>3
    <3> QED
      BY <1>1, <3>1 DEF Once
  <2>3. LockCheckConflicts(GrantWaiters(L, V), wait[w].mode, own(w))
    BY <1>2, <1>5
  <2>4. \A j \in 1..(i - 1) : q[j] \in W => q[j] \in V
    OBVIOUS
  <2> HIDE DEF V, w
  <2>5. Tally(GrantWaiters(L, V), X \cup N, Pairs(wt, Waiting(wt, s) \ V))
    BY <2>1, GrantAt DEF X
  <2>6. m \in Modes /\ wait[w].mode = m
    BY <1>1, <2>1
  <2>7. ASSUME NEW n \in N PROVE \E v \in V : n[1][2] = v /\ v # w
    <3>1. PICK v \in V : n = Gain(pl, wt[v])
      BY DEF Gains
    <3>2. n[1] = wt[v].holder /\ wt[v].holder[2] = v
      BY <1>1, <2>1, <3>1 DEF Gain
    <3> QED
      BY <2>2, <3>2
  <2>8. Mine(X \cup N, w) = Mine(X, w)
    BY <2>7 DEF Mine
  <2> DEFINE o == own(w)
  <2>9. \A j \in Modes : o[j] = Cardinality(Of(Mine(X \cup N, w), j))
    BY <1>4, <2>1, <2>8
  <2>10. LockCheckConflicts(GrantWaiters(L, V), m, o)
    BY <2>3, <2>6
  <2> DEFINE M == GrantWaiters(L, V)
             Y == X \cup N
             R == Pairs(wt, Waiting(wt, s) \ V)
  <2>11. Tally(M, Y, R) /\ LockCheckConflicts(M, m, o) /\ m \in Modes /\ \A j \in Modes : o[j] = Cardinality(Of(Mine(Y, w), j))
    BY <2>5, <2>6, <2>9, <2>10
  <2> HIDE DEF M, Y, R, o, m
  <2>12. \A h \in Y : h[1][2] # w => h[2] \notin ConflictTab[m]
    BY <2>11, NoOthers
  <2>13. ASSUME NEW v \in V PROVE wt[v].mode \notin ConflictTab[m]
    <3>1. Gain(pl, wt[v]) \in Y
      BY DEF Y, N, Gains
    <3>2. Gain(pl, wt[v])[1][2] = v /\ Gain(pl, wt[v])[2] = wt[v].mode
      BY <1>1, <2>1 DEF Gain
    <3>3. v # w
      BY <2>2
    <3> QED
      BY <2>12, <3>1, <3>2, <3>3
  <2>14. \A h \in X : h[1][2] # w => h[2] \notin ConflictTab[m]
    BY <2>12 DEF Y
  <2> QED
    BY <2>4, <2>13, <2>14 DEF m, w
<1>6. ASSUME NEW w \in W PROVE \A h \in X : h[1][2] # w => h[2] \notin ConflictTab[wt[w].mode]
  <2>1. PICK i \in 1..Len(q) : q[i] = w
    BY <1>2, <1>3
  <2> QED
    BY <1>5, <2>1
<1>7. ASSUME NEW v \in W, NEW w \in W, v # w PROVE wt[v].mode \notin ConflictTab[wt[w].mode]
  <2>1. PICK i \in 1..Len(q) : q[i] = w
    BY <1>2, <1>3
  <2>2. PICK j \in 1..Len(q) : q[j] = v
    BY <1>2, <1>3
  <2>3. CASE j < i
    <3>1. j \in 1..(i - 1)
      BY <1>3, <2>3
    <3> QED
      BY <1>5, <2>1, <2>2, <3>1
  <2>4. CASE i < j
    <3>1. i \in 1..(j - 1)
      BY <1>3, <2>4
    <3>2. wt[w].mode \notin ConflictTab[wt[v].mode]
      BY <1>5, <2>1, <2>2, <3>1
    <3>3. wt[w].mode \in Modes /\ wt[v].mode \in Modes
      BY <1>1, <1>2
    <3> QED
      BY <3>2, <3>3, Symmetric
  <2>5. i # j
    BY <2>1, <2>2, <1>7
  <2> QED
    BY <1>3, <2>3, <2>4, <2>5
<1>8. W \subseteq Waiting(wt, s)
  BY <1>1, <1>2
<1> QED
  BY <1>6, <1>7, <1>8 DEF X

\* ProcLockWakeup on one LOCK.
LEMMA ServeSlot ==
    ASSUME NEW s, NEW L, NEW H, NEW pl, NEW wt, ReadyFor(s, L, H, pl, wt), NEW W, Wakable(s, L, W),
           NEW D, CanGain(pl, wt, H, D), ServedAt(wt, D, AtSlot(H, s)) = W,
           NEW wt2, Waiting(wt2, s) = Waiting(wt, s) \ W, \A p \in Procs : wt2[p].mode = wt[p].mode
    PROVE  /\ SlotOk(GrantWaiters(L, W), s, H, Served(pl, wt, D), wt2)
           /\ Queued(GrantWaiters(L, W), s, wt2)
           /\ GrantWaiters(L, W).tag = L.tag
<1> DEFINE X == Holds(pl, AtSlot(H, s))
           N == Gains(pl, wt, W)
           M == GrantWaiters(L, W)
<1>1. /\ W \subseteq Waiting(wt, s)
      /\ \A w \in W : \A h \in X : h[1][2] # w => h[2] \notin ConflictTab[wt[w].mode]
      /\ \A v, w \in W : v # w => wt[v].mode \notin ConflictTab[wt[w].mode]
  BY WakableApart
<1>2. Holds(Served(pl, wt, D), AtSlot(H, s)) = X \cup N
  <2>1. AtSlot(H, s) \subseteq H /\ H \subseteq Key /\ pl \in [Key -> ProclockRecord]
    BY DEF ReadyFor, AtSlot
  <2> QED
    BY <2>1, GainedHolds
<1>3. Asks(wt2, s) = Pairs(wt, Waiting(wt, s) \ W)
  <2>1. \A p \in Waiting(wt, s) \ W : wt2[p].mode = wt[p].mode
    BY DEF Waiting
  <2> QED
    BY <2>1 DEF Asks, Pairs
<1>4. /\ Tally(M, X \cup N, Asks(wt2, s)) /\ Mask(M, Asks(wt2, s))
      /\ M.waitProcs = Without(L.waitProcs, W) /\ M.tag = L.tag
  BY <1>1, <1>3, GrantAt
<1>5. Tally(L, X, Asks(wt, s)) /\ Apart(X) /\ Queued(L, s, wt)
  BY DEF ReadyFor, SlotOk
<1>6. \A w \in W : wt[w].holder[2] = w /\ wt[w].mode \in Modes
  BY <1>1 DEF ReadyFor, CanGain
<1> HIDE DEF X, M
<1>7. Apart(X \cup N)
  <2>1. \A h \in X : h[2] \in Modes
    BY <1>5 DEF Tally
  <2> QED
    BY <1>1, <1>5, <1>6, <2>1, ApartGains
<1>8. SlotOk(M, s, H, Served(pl, wt, D), wt2)
  BY <1>2, <1>4, <1>7 DEF SlotOk
<1>9. Queued(M, s, wt2)
  <2>1. L.waitProcs \in Seq(Procs)
    <3>1. L \in LockRecord
      BY <1>5 DEF Tally
    <3> QED
      BY <3>1, RecordTypes
  <2>2. Once(L.waitProcs) /\ ToSet(L.waitProcs) = Waiting(wt, s)
    BY <1>5 DEF Queued
  <2>3. Once(Without(L.waitProcs, W)) /\ ToSet(Without(L.waitProcs, W)) = Waiting(wt, s) \ W
    BY <2>1, <2>2, WithoutFacts
  <2> QED
    BY <1>4, <2>3 DEF Queued
<1> QED
  BY <1>4, <1>8, <1>9 DEF M

\* Everybody in the queue q, of a LOCK with the holds X, must wait: for an earlier
\* waiter, or for a holder.
Blocked(q, X, wt) ==
    \A i \in 1..Len(q) :
        \/ \E j \in 1..(i - 1) : wt[q[j]].mode \in ConflictTab[wt[q[i]].mode]
        \/ \E h \in X : h[1][2] # q[i] /\ h[2] \in ConflictTab[wt[q[i]].mode]

\* Where LockCheckConflicts finds a conflict, somebody else holds a conflicting mode.
LEMMA Others ==
    ASSUME NEW L, NEW X, NEW R, Tally(L, X, R), NEW p, NEW m \in Modes, NEW own,
           \A i \in Modes : own[i] = Cardinality(Of(Mine(X, p), i)),
           ~LockCheckConflicts(L, m, own)
    PROVE  \E h \in X : h[1][2] # p /\ h[2] \in ConflictTab[m]
<1>1. PICK i \in ConflictTab[m] \cap Modes : L.granted[i] # own[i]
  BY DEF LockCheckConflicts
<1>2. L.granted[i] = Cardinality(Of(X, i)) /\ own[i] = Cardinality(Of(Mine(X, p), i))
  BY DEF Tally
<1>3. Of(X, i) # Of(Mine(X, p), i)
  BY <1>1, <1>2
<1>4. Of(Mine(X, p), i) \subseteq Of(X, i)
  BY DEF Of, Mine
<1>5. PICK h \in Of(X, i) : h \notin Of(Mine(X, p), i)
  BY <1>3, <1>4
<1>6. h \in X /\ h[2] = i /\ h[1][2] # p
  BY <1>5 DEF Of, Mine
<1> QED
  BY <1>1, <1>6

\* More holds block no less.
LEMMA StaysBlocked ==
    ASSUME NEW q \in Seq(Procs), NEW X, NEW wt, Blocked(q, X, wt), NEW X2, X \subseteq X2,
           NEW wt2, \A p \in ToSet(q) : wt2[p].mode = wt[p].mode
    PROVE  Blocked(q, X2, wt2)
<1>1. Len(q) \in Nat /\ \A i \in 1..Len(q) : q[i] \in ToSet(q)
  BY SetOf
<1>2. \A i \in 1..Len(q) : wt2[q[i]].mode = wt[q[i]].mode
  BY <1>1
<1>3. \A i \in 1..Len(q) : \A j \in 1..(i - 1) : j \in 1..Len(q)
  BY <1>1
<1> QED
  BY <1>2, <1>3 DEF Blocked

\* Nobody is in an empty queue.
LEMMA EmptyBlocked ==
    ASSUME NEW X, NEW wt
    PROVE  Blocked(<<>>, X, wt)
BY DEF Blocked

\* The member of the queue r at c was at i in q, and whoever stays of those before him
\* is before him still.
Kept(q, W, r, c, i) ==
    /\ r[c] = q[i] /\ q[i] \notin W
    /\ \A j \in 1..(i - 1) : q[j] \notin W => \E b \in 1..(c - 1) : r[b] = q[j]

\* Who is before another, and stays, is before him still.
LEMMA OrderKept ==
    ASSUME NEW S, NEW q \in Seq(S), Once(q), NEW W, NEW r, r = Without(q, W),
           NEW c \in 1..Len(r)
    PROVE  \E i \in 1..Len(q) : Kept(q, W, r, c, i)
<1>1. /\ r \in Seq(S) /\ ToSet(r) = ToSet(q) \ W
      /\ \E f \in [1..Len(r) -> 1..Len(q)] :
            /\ \A i \in 1..Len(r) : r[i] = q[f[i]]
            /\ \A i, j \in 1..Len(r) : i < j => f[i] < f[j]
  BY WithoutPlaces
<1>2. PICK f \in [1..Len(r) -> 1..Len(q)] :
            /\ \A i \in 1..Len(r) : r[i] = q[f[i]]
            /\ \A i, j \in 1..Len(r) : i < j => f[i] < f[j]
  BY <1>1
<1>3. /\ Len(r) \in Nat /\ Len(q) \in Nat
      /\ \A e : e \in ToSet(r) <=> \E i \in 1..Len(r) : r[i] = e
      /\ \A e : e \in ToSet(q) <=> \E i \in 1..Len(q) : q[i] = e
  <2>1. /\ Len(r) \in Nat
        /\ \A e : e \in ToSet(r) <=> \E i \in 1..Len(r) : r[i] = e
    BY <1>1, SetOf
  <2>2. /\ Len(q) \in Nat
        /\ \A e : e \in ToSet(q) <=> \E i \in 1..Len(q) : q[i] = e
    BY SetOf
  <2> QED
    BY <2>1, <2>2
<1> DEFINE i == f[c]
<1>4. i \in 1..Len(q) /\ r[c] = q[i]
  BY <1>2
<1>5. q[i] \notin W
  BY <1>1, <1>3, <1>4
<1> HIDE DEF i
<1>6. ASSUME NEW j \in 1..(i - 1), q[j] \notin W PROVE \E b \in 1..(c - 1) : r[b] = q[j]
  <2>1. j \in 1..Len(q) /\ j < i
    BY <1>3, <1>4
  <2>2. q[j] \in ToSet(r)
    BY <1>1, <1>3, <1>6, <2>1
  <2>3. PICK b \in 1..Len(r) : r[b] = q[j]
    BY <1>3, <2>2
  <2>4. f[b] = j
    <3>1. q[f[b]] = q[j] /\ f[b] \in 1..Len(q)
      BY <1>2, <2>3
    <3> QED
      BY <2>1, <3>1 DEF Once
  <2>5. b # c
    BY <2>1, <2>4 DEF i
  <2>6. ~(c < b)
    <3> SUFFICES ASSUME c < b PROVE FALSE
      OBVIOUS
    <3>1. f[c] < f[b]
      BY <1>2
    <3> QED
      BY <1>3, <1>4, <2>1, <2>4, <3>1 DEF i
  <2>7. b \in 1..(c - 1)
    BY <1>3, <2>5, <2>6
  <2> QED
    BY <2>3, <2>7
<1> QED
  BY <1>4, <1>5, <1>6 DEF Kept

\* ProcLockWakeup leaves those in the queue of a LOCK who must wait.
LEMMA ServedBlocked ==
    ASSUME NEW s, NEW L, NEW H, NEW pl, NEW wt, ReadyFor(s, L, H, pl, wt), NEW W, Wakable(s, L, W),
           NEW wt2, \A p \in Procs : wt2[p].mode = wt[p].mode
    PROVE  Blocked(GrantWaiters(L, W).waitProcs, Holds(pl, AtSlot(H, s)) \cup Gains(pl, wt, W), wt2)
<1> DEFINE q == L.waitProcs
           r == Without(q, W)
           X == Holds(pl, AtSlot(H, s))
           before(i) == {q[j] : j \in 1..(i - 1)}
           own(w) == LockCountMyLocks(w, s)
<1>1. /\ L \in LockRecord /\ Once(q) /\ ToSet(q) = Waiting(wt, s)
      /\ \A w \in Waiting(wt, s) : wt[w].holder[2] = w /\ wt[w].mode \in Modes /\ wt[w].mode = wait[w].mode /\ w \in Procs
  <2>1. \A w \in Waiting(wt, s) : wt[w].mode = wait[w].mode /\ w \in Procs
    BY DEF ReadyFor, Waiting
  <2>2. Tally(L, X, Asks(wt, s))
    BY DEF ReadyFor, SlotOk
  <2> QED
    BY <2>1, <2>2 DEF ReadyFor, Queued, CanGain, Tally
<1>2. /\ W \subseteq ToSet(q)
      /\ \A i \in 1..Len(q) : q[i] \notin W =>
            \/ ConflictTab[wait[q[i]].mode] \cap AheadRequests(L, i - 1, W) # {}
            \/ ~LockCheckConflicts(GrantWaiters(L, W \cap before(i)), wait[q[i]].mode, own(q[i]))
  BY DEF Wakable
<1>3. /\ Len(q) \in Nat /\ q \in Seq(Procs)
      /\ \A e : e \in ToSet(q) <=> \E i \in 1..Len(q) : q[i] = e
  <2>1. q \in Seq(Procs)
    BY <1>1, RecordTypes
  <2> HIDE DEF q
  <2> QED
    BY <2>1, SetOf
<1>4. \A w \in Waiting(wt, s), i \in Modes : own(w)[i] = Cardinality(Of(Mine(X, w), i))
  BY DEF ReadyFor
<1>5. GrantWaiters(L, W).waitProcs = r
  <2>1. W \subseteq Waiting(wt, s)
    BY <1>1, <1>2
  <2>2. /\ Tally(GrantWaiters(L, W), Holds(pl, AtSlot(H, s)) \cup Gains(pl, wt, W), Pairs(wt, Waiting(wt, s) \ W))
        /\ GrantWaiters(L, W).waitProcs = Without(L.waitProcs, W)
    <3> HIDE DEF q, r, X, own, before
    <3> QED
      BY <2>1, GrantAt
  <2> QED
    BY <2>2
<1>6. \A i \in 1..Len(q) : \A a \in AheadRequests(L, i - 1, W) : \E j \in 1..(i - 1) : q[j] \notin W /\ a = wait[q[j]].mode
  BY DEF AheadRequests
<1> HIDE DEF q, X, own
<1>7. ASSUME NEW i \in 1..Len(q), q[i] \notin W,
             ~LockCheckConflicts(GrantWaiters(L, W \cap before(i)), wait[q[i]].mode, own(q[i]))
      PROVE  \E h \in X \cup Gains(pl, wt, W) : h[1][2] # q[i] /\ h[2] \in ConflictTab[wt[q[i]].mode]
  <2> DEFINE w == q[i]
             m == wt[w].mode
             V == W \cap before(i)
             N == Gains(pl, wt, V)
  <2>1. V \subseteq Waiting(wt, s) /\ w \in Waiting(wt, s)
    BY <1>1, <1>2, <1>3
  <2>2. w \notin V
    BY <1>7
  <2>3. ~LockCheckConflicts(GrantWaiters(L, V), wait[w].mode, own(w))
    BY <1>7
  <2>4. V \subseteq W
    OBVIOUS
  <2> HIDE DEF V, w
  <2>5. Tally(GrantWaiters(L, V), X \cup N, Pairs(wt, Waiting(wt, s) \ V))
    BY <2>1, GrantAt DEF X
  <2>6. m \in Modes /\ wait[w].mode = m
    BY <1>1, <2>1
  <2>7. ASSUME NEW n \in N PROVE \E v \in V : n[1][2] = v /\ v # w
    <3>1. PICK v \in V : n = Gain(pl, wt[v])
      BY DEF Gains
    <3>2. n[1] = wt[v].holder /\ wt[v].holder[2] = v
      BY <1>1, <2>1, <3>1 DEF Gain
    <3> QED
      BY <2>2, <3>2
  <2>8. Mine(X \cup N, w) = Mine(X, w)
    BY <2>7 DEF Mine
  <2> DEFINE o == own(w)
  <2>9. \A j \in Modes : o[j] = Cardinality(Of(Mine(X \cup N, w), j))
    BY <1>4, <2>1, <2>8
  <2>10. ~LockCheckConflicts(GrantWaiters(L, V), m, o)
    BY <2>3, <2>6
  <2>0. N \subseteq Gains(pl, wt, W)
    BY <2>4 DEF Gains
  <2> DEFINE M == GrantWaiters(L, V)
             Y == X \cup N
             R == Pairs(wt, Waiting(wt, s) \ V)
  <2>11. Tally(M, Y, R) /\ ~LockCheckConflicts(M, m, o) /\ m \in Modes /\ \A j \in Modes : o[j] = Cardinality(Of(Mine(Y, w), j))
    BY <2>5, <2>6, <2>9, <2>10
  <2> HIDE DEF M, Y, R, o, m
  <2>12. \E h \in Y : h[1][2] # w /\ h[2] \in ConflictTab[m]
    BY <2>11, Others
  <2>13. Y \subseteq X \cup Gains(pl, wt, W)
    BY <2>0 DEF Y
  <2> HIDE DEF N
  <2> QED
    BY <2>12, <2>13 DEF m, w
<1> DEFINE Z == X \cup Gains(pl, wt, W)
<1>8. ASSUME NEW c \in 1..Len(r)
      PROVE  \/ \E b \in 1..(c - 1) : wt2[r[b]].mode \in ConflictTab[wt2[r[c]].mode]
             \/ \E h \in Z : h[1][2] # r[c] /\ h[2] \in ConflictTab[wt2[r[c]].mode]
  <2>0. \E i \in 1..Len(q) : Kept(q, W, r, c, i)
    <3>1. q \in Seq(Procs) /\ Once(q) /\ r = Without(q, W) /\ c \in 1..Len(r)
      BY <1>1, <1>3
    <3> HIDE DEF r
    <3> QED
      BY <3>1, OrderKept
  <2>1. PICK i \in 1..Len(q) :
              /\ r[c] = q[i] /\ q[i] \notin W
              /\ \A j \in 1..(i - 1) : q[j] \notin W => \E b \in 1..(c - 1) : r[b] = q[j]
    BY <2>0 DEF Kept
  <2> HIDE DEF r, Z
  <2>2. \A j \in 1..Len(q) : wt2[q[j]].mode = wt[q[j]].mode /\ wait[q[j]].mode = wt[q[j]].mode
    BY <1>1, <1>3
  <2>3. ASSUME ConflictTab[wait[q[i]].mode] \cap AheadRequests(L, i - 1, W) # {}
        PROVE  \E b \in 1..(c - 1) : wt2[r[b]].mode \in ConflictTab[wt2[r[c]].mode]
    <3>1. PICK a \in AheadRequests(L, i - 1, W) : a \in ConflictTab[wait[q[i]].mode]
      BY <2>3
    <3>2. PICK j \in 1..(i - 1) : q[j] \notin W /\ a = wait[q[j]].mode
      BY <1>6, <3>1
    <3>3. PICK b \in 1..(c - 1) : r[b] = q[j]
      BY <2>1, <3>2
    <3>4. j \in 1..Len(q)
      BY <1>3
    <3> QED
      BY <2>1, <2>2, <3>1, <3>2, <3>3, <3>4
  <2>4. ASSUME ~LockCheckConflicts(GrantWaiters(L, W \cap before(i)), wait[q[i]].mode, own(q[i]))
        PROVE  \E h \in Z : h[1][2] # r[c] /\ h[2] \in ConflictTab[wt2[r[c]].mode]
    <3>1. \E h \in Z : h[1][2] # q[i] /\ h[2] \in ConflictTab[wt[q[i]].mode]
      BY <1>7, <2>1, <2>4 DEF Z
    <3> QED
      BY <2>1, <2>2, <3>1
  <2> QED
    BY <1>2, <2>1, <2>3, <2>4
<1>9. Blocked(r, Z, wt2)
  <2> HIDE DEF r, Z
  <2> QED
    BY <1>8 DEF Blocked
<1> QED
  BY <1>5, <1>9 DEF X

\* A LOCK that is in no table: nobody holds it and nobody waits for it.
Unused(L, s, H, pl, wt) ==
    /\ L.nRequested = 0
    /\ Waiting(wt, s) = {} /\ Holds(pl, AtSlot(H, s)) = {}

SlotGood(hash, s, L, H, pl, wt) ==
    /\ Queued(L, s, wt)
    /\ s \in Range(hash) => SlotOk(L, s, H, pl, wt)
    /\ s \notin Range(hash) => Unused(L, s, H, pl, wt)

LocksOk(hash, Lk, H, pl, wt) ==
    /\ Lk \in [Slots -> LockRecord]
    /\ \A s \in Slots : SlotGood(hash, s, Lk[s], H, pl, wt)

\* The tags of the LOCKs and the free places.  A PROCLOCK whose LOCK is free has
\* a tag that is not in the table.
TableOk(hash, free, Lk, H) ==
    /\ hash \in [Tags -> {0} \union Slots]
    /\ \A t \in Tags : hash[t] # 0 => Lk[hash[t]].tag = t
    /\ free \in Seq(Slots) /\ Once(free) /\ ToSet(free) = Slots \ Range(hash)
    /\ \A k \in H : k[1] \in ToSet(free) => Lk[k[1]].tag \in Tags /\ hash[Lk[k[1]].tag] = 0

HoldersOk(H, pl, ph) ==
    /\ H \subseteq Key /\ pl \in [Key -> ProclockRecord]
    /\ \A k \in H : CountsOwn(pl, k)
    /\ ph \in [Procs -> Seq(Key)]
    /\ \A p \in Procs : Once(ph[p]) /\ ToSet(ph[p]) = {k \in H : k[2] = p}

WaitRecord ==
    [lock : {0} \union Slots, holder : Key \union {<<>>}, mode : Modes \union {0},
     heldLocks : SUBSET Modes, errType : {"ok", "error"}]

\* The wait of a process that is at the place at and whose semaphore is n.
WaitOk(p, pcs, w, n, H, pl) ==
    /\ n \in 0..1
    /\ pcs \in {"run", "abort", "release", "woken"} => n = 0
    /\ w.lock # 0 => n = 0 /\ pcs \in {"wait", "cancel"}
    /\ pcs \in {"wait", "woken", "cancel"} =>
          /\ w.holder \in H /\ w.holder[2] = p /\ w.mode \in Modes
          /\ w.lock # 0 => w.holder[1] = w.lock /\ pl[w.holder].holding[w.mode] < MaxHold
          /\ w.lock = 0 /\ w.errType = "ok" => pl[w.holder].holding[w.mode] > 0

WaitsOk(pcs, wt, sm, H, pl) ==
    /\ DOMAIN pcs = Procs /\ pcs = [p \in Procs |-> pcs[p]]
    /\ wt \in [Procs -> WaitRecord] /\ sm \in [Procs -> Nat]
    /\ \A p \in Procs : WaitOk(p, pcs[p], wt[p], sm[p], H, pl)

Good(hash, free, Lk, H, pl, ph, wt, sm, pcs) ==
    /\ LocksOk(hash, Lk, H, pl, wt) /\ TableOk(hash, free, Lk, H)
    /\ HoldersOk(H, pl, ph) /\ WaitsOk(pcs, wt, sm, H, pl)

\* A LOCK that a step does not touch.
LEMMA SameSlot ==
    ASSUME NEW hash, NEW s, NEW L, NEW H, NEW pl, NEW wt, SlotGood(hash, s, L, H, pl, wt),
           NEW hash2, s \in Range(hash2) <=> s \in Range(hash),
           NEW H2, NEW pl2, Holds(pl2, AtSlot(H2, s)) = Holds(pl, AtSlot(H, s)),
           NEW wt2, Waiting(wt2, s) = Waiting(wt, s),
           \A p \in Waiting(wt, s) : wt2[p].mode = wt[p].mode
    PROVE  SlotGood(hash2, s, L, H2, pl2, wt2)
<1>1. Asks(wt2, s) = Asks(wt, s)
  BY DEF Asks, Pairs
<1>2. Queued(L, s, wt2)
  BY DEF SlotGood, Queued
<1>3. s \in Range(hash2) => SlotOk(L, s, H2, pl2, wt2)
  BY <1>1 DEF SlotGood, SlotOk
<1>4. s \notin Range(hash2) => Unused(L, s, H2, pl2, wt2)
  BY DEF SlotGood, Unused
<1> QED
  BY <1>2, <1>3, <1>4 DEF SlotGood

\* What the waiters at s that are waiting there know of themselves.
Counted(s, H, pl, wt) ==
    \A w \in Waiting(wt, s), i \in Modes :
        LockCountMyLocks(w, s)[i] = Cardinality(Of(Mine(Holds(pl, AtSlot(H, s)), w), i))

\* The hypotheses of ProcLockWakeup.
WakeupReady(S, H, pl, wt) ==
    /\ \A p \in Procs : wt[p].mode = wait[p].mode /\ wt[p].holder = wait[p].holder
    /\ \A s \in S : Counted(s, H, pl, wt)

\* The waits after the processes D have been awakened.
Awakened(wt, D) ==
    [p \in Procs |-> IF p \in D THEN [wt[p] EXCEPT !.lock = 0, !.errType = "ok"] ELSE wt[p]]

\* Who is awakened waits for nothing; its mode and holder stay.
LEMMA AwakenedFields ==
    ASSUME NEW wt \in [Procs -> WaitRecord], NEW D, NEW p \in Procs
    PROVE  /\ Awakened(wt, D) \in [Procs -> WaitRecord]
           /\ Awakened(wt, D)[p].mode = wt[p].mode /\ Awakened(wt, D)[p].holder = wt[p].holder
           /\ p \in D => Awakened(wt, D)[p].lock = 0
           /\ p \notin D => Awakened(wt, D)[p] = wt[p]
<1>1. ASSUME NEW q \in Procs
      PROVE  [wt[q] EXCEPT !.lock = 0, !.errType = "ok"] \in WaitRecord
  <2>1. wt[q] \in WaitRecord
    OBVIOUS
  <2> QED
    BY <2>1 DEF WaitRecord
<1>2. Awakened(wt, D) \in [Procs -> WaitRecord]
  BY <1>1 DEF Awakened
<1>3. CASE p \in D
  <2>1. Awakened(wt, D)[p] = [wt[p] EXCEPT !.lock = 0, !.errType = "ok"] /\ wt[p] \in WaitRecord
    BY <1>3 DEF Awakened
  <2> QED
    BY <1>2, <1>3, <2>1 DEF WaitRecord
<1>4. CASE p \notin D
  BY <1>2, <1>4 DEF Awakened
<1> QED
  BY <1>3, <1>4

\* Every waiter has a PROCLOCK in the table, with room for one more hold.
LEMMA WaitingIsReady ==
    ASSUME NEW hash, NEW free, NEW Ls, NEW H, NEW pl, NEW ph, NEW wt, NEW sm, NEW pcs,
           Good(hash, free, Ls, H, pl, ph, wt, sm, pcs), NEW s \in Slots
    PROVE  /\ CanGain(pl, wt, H, Waiting(wt, s))
           /\ \A w \in Waiting(wt, s) : wt[w].holder[1] = s /\ w \in Procs /\ wt[w].lock = s
<1> SUFFICES ASSUME NEW w \in Waiting(wt, s)
             PROVE  /\ wt[w].holder \in H /\ wt[w].holder[2] = w /\ wt[w].mode \in Modes
                    /\ pl[wt[w].holder].holding[wt[w].mode] < MaxHold
                    /\ wt[w].holder[1] = s /\ w \in Procs /\ wt[w].lock = s
  BY DEF CanGain
<1>1. w \in Procs /\ wt[w].lock = s /\ s # 0
  BY NumSlotsNat DEF Waiting, Slots
<1>2. WaitOk(w, pcs[w], wt[w], sm[w], H, pl)
  BY <1>1 DEF Good, WaitsOk
<1> QED
  BY <1>1, <1>2 DEF WaitOk

\* A LOCK of the table can have its queue scanned.
LEMMA SlotIsReady ==
    ASSUME NEW hash, NEW free, NEW Ls, NEW H, NEW pl, NEW ph, NEW wt, NEW sm, NEW pcs,
           Good(hash, free, Ls, H, pl, ph, wt, sm, pcs),
           NEW S \in SUBSET Slots, S \subseteq Range(hash), WakeupReady(S, H, pl, wt),
           NEW s \in S
    PROVE  ReadyFor(s, Ls[s], H, pl, wt)
<1>1. H \subseteq Key /\ pl \in [Key -> ProclockRecord]
  BY DEF Good, HoldersOk
<1>2. SlotOk(Ls[s], s, H, pl, wt) /\ Queued(Ls[s], s, wt)
  BY DEF Good, LocksOk, SlotGood
<1>3. /\ CanGain(pl, wt, H, Waiting(wt, s))
      /\ \A w \in Waiting(wt, s) : wt[w].holder[1] = s
  <2>1. s \in Slots
    OBVIOUS
  <2> QED
    BY <2>1, WaitingIsReady
<1>4. \A w \in Waiting(wt, s), i \in Modes :
        LockCountMyLocks(w, s)[i] = Cardinality(Of(Mine(Holds(pl, AtSlot(H, s)), w), i))
  BY DEF WakeupReady, Counted
<1>5. \A w \in Procs : wt[w].mode = wait[w].mode
  BY DEF WakeupReady
<1> QED
  BY <1>1, <1>2, <1>3, <1>4, <1>5 DEF ReadyFor

\* What the wakeup of W[s] at each s in S makes of the LOCKs, the PROCLOCKs, the
\* waits and the semaphores.
Wakes(S, Ls, pl, wt, sm, W, Ls2, pl2, wt2, sm2) ==
    LET D == UNION {W[s] : s \in S} IN
    /\ \A s \in S : Wakable(s, Ls[s], W[s])
    /\ Ls2 = [s \in Slots |-> IF s \in S THEN GrantWaiters(Ls[s], W[s]) ELSE Ls[s]]
    /\ pl2 = Served(pl, wt, D)
    /\ wt2 = Awakened(wt, D)
    /\ sm2 = [p \in Procs |-> IF p \in D THEN sm[p] + 1 ELSE sm[p]]

\* Who is awakened, and where they wait.
Woken(S, H, pl, wt, W, wt2, D) ==
    /\ \A s \in S : W[s] \subseteq Waiting(wt, s)
    /\ \A w \in D : w \in Procs /\ wt[w].lock # 0
    /\ CanGain(pl, wt, H, D)
    /\ \A s \in Slots : /\ ServedAt(wt, D, AtSlot(H, s)) = IF s \in S THEN W[s] ELSE {}
                        /\ Waiting(wt2, s) = Waiting(wt, s) \ (IF s \in S THEN W[s] ELSE {})

\* The processes that a scan of several queues wakes are waiters of these queues.
LEMMA WokenOnes ==
    ASSUME NEW hash, NEW free, NEW Ls, NEW H, NEW pl, NEW ph, NEW wt, NEW sm, NEW pcs,
           Good(hash, free, Ls, H, pl, ph, wt, sm, pcs),
           NEW S \in SUBSET Slots, S \subseteq Range(hash), WakeupReady(S, H, pl, wt),
           NEW W, NEW Ls2, NEW pl2, NEW wt2, NEW sm2, Wakes(S, Ls, pl, wt, sm, W, Ls2, pl2, wt2, sm2),
           NEW D, D = UNION {W[s] : s \in S}
    PROVE  Woken(S, H, pl, wt, W, wt2, D)
<1>1. ASSUME NEW s \in S PROVE W[s] \subseteq Waiting(wt, s)
  <2>1. ReadyFor(s, Ls[s], H, pl, wt)
    BY SlotIsReady
  <2>2. Wakable(s, Ls[s], W[s])
    BY DEF Wakes
  <2> QED
    BY <2>1, <2>2, WakableApart
<1>2. ASSUME NEW s \in S, NEW w \in W[s]
      PROVE  /\ w \in Procs /\ wt[w].lock = s /\ s # 0
             /\ wt[w].holder \in H /\ wt[w].holder[1] = s /\ wt[w].holder[2] = w /\ wt[w].mode \in Modes
             /\ pl[wt[w].holder].holding[wt[w].mode] < MaxHold
  <2>1. w \in Waiting(wt, s) /\ s \in Slots
    BY <1>1
  <2>2. CanGain(pl, wt, H, Waiting(wt, s)) /\ wt[w].holder[1] = s /\ w \in Procs /\ wt[w].lock = s
    BY <2>1, WaitingIsReady
  <2>3. s # 0
    BY <2>1, NumSlotsNat DEF Slots
  <2> QED
    BY <2>1, <2>2, <2>3 DEF CanGain
<1>3. \A w \in D : \E s \in S : w \in W[s]
  OBVIOUS
<1>4. \A s \in S : W[s] \subseteq D
  OBVIOUS
<1>5. \A w \in D : w \in Procs /\ wt[w].lock # 0
  BY <1>2, <1>3
<1>6. CanGain(pl, wt, H, D)
  <2> SUFFICES ASSUME NEW w \in D
               PROVE  /\ wt[w].holder \in H /\ wt[w].holder[2] = w /\ wt[w].mode \in Modes
                      /\ pl[wt[w].holder].holding[wt[w].mode] < MaxHold
    BY DEF CanGain
  <2>1. PICK s \in S : w \in W[s]
    BY <1>3
  <2> QED
    BY <1>2, <2>1
<1>7. ASSUME NEW s \in Slots
      PROVE  ServedAt(wt, D, AtSlot(H, s)) = IF s \in S THEN W[s] ELSE {}
  <2>1. ASSUME NEW w \in D, wt[w].holder \in AtSlot(H, s) PROVE s \in S /\ w \in W[s]
    <3>1. PICK r \in S : w \in W[r]
      BY <1>3
    <3>2. r = s
      BY <1>2, <2>1, <3>1 DEF AtSlot
    <3> QED
      BY <3>1, <3>2
  <2>2. ASSUME s \in S, NEW w \in W[s] PROVE w \in D /\ wt[w].holder \in AtSlot(H, s)
    BY <1>2, <1>4, <2>2 DEF AtSlot
  <2> QED
    BY <2>1, <2>2 DEF ServedAt
<1>8. wt2 = Awakened(wt, D) /\ wt \in [Procs -> WaitRecord]
  BY DEF Wakes, Good, WaitsOk
<1>9. ASSUME NEW s \in Slots
      PROVE  Waiting(wt2, s) = Waiting(wt, s) \ (IF s \in S THEN W[s] ELSE {})
  <2>1. s # 0
    BY NumSlotsNat DEF Slots
  <2>2. ASSUME NEW p \in Procs
        PROVE  wt2[p].lock = s <=> wt[p].lock = s /\ ~(s \in S /\ p \in W[s])
    <3>1. CASE p \in D
      <4>1. wt2[p].lock = 0
        BY <1>8, <3>1, AwakenedFields
      <4>2. PICK r \in S : p \in W[r]
        BY <1>3, <3>1
      <4>3. wt[p].lock = r
        BY <1>2, <4>2
      <4> QED
        BY <2>1, <4>1, <4>2, <4>3
    <3>2. CASE p \notin D
      <4>1. wt2[p] = wt[p]
        BY <1>8, <3>2, AwakenedFields
      <4>2. s \in S => p \notin W[s]
        BY <1>4, <3>2
      <4> QED
        BY <4>1, <4>2
    <3> QED
      BY <3>1, <3>2
  <2> QED
    BY <2>2 DEF Waiting
<1> QED
  BY <1>1, <1>5, <1>6, <1>7, <1>9 DEF Woken

\* The LOCKs after a wakeup.
LEMMA WakeupLocks ==
    ASSUME NEW hash, NEW free, NEW Ls, NEW H, NEW pl, NEW ph, NEW wt, NEW sm, NEW pcs,
           Good(hash, free, Ls, H, pl, ph, wt, sm, pcs),
           NEW S \in SUBSET Slots, S \subseteq Range(hash), WakeupReady(S, H, pl, wt),
           NEW W, NEW Ls2, NEW pl2, NEW wt2, NEW sm2, Wakes(S, Ls, pl, wt, sm, W, Ls2, pl2, wt2, sm2)
    PROVE  LocksOk(hash, Ls2, H, pl2, wt2) /\ \A s \in Slots : Ls2[s].tag = Ls[s].tag
<1>d. PICK D : D = UNION {W[s] : s \in S}
  OBVIOUS
<1>w. Woken(S, H, pl, wt, W, wt2, D)
  BY <1>d, WokenOnes
<1>1. /\ \A s \in S : W[s] \subseteq Waiting(wt, s)
      /\ CanGain(pl, wt, H, D)
      /\ \A s \in Slots : /\ ServedAt(wt, D, AtSlot(H, s)) = IF s \in S THEN W[s] ELSE {}
                          /\ Waiting(wt2, s) = Waiting(wt, s) \ (IF s \in S THEN W[s] ELSE {})
  BY <1>w DEF Woken
<1>2. /\ \A s \in S : Wakable(s, Ls[s], W[s])
      /\ Ls2 = [s \in Slots |-> IF s \in S THEN GrantWaiters(Ls[s], W[s]) ELSE Ls[s]]
      /\ pl2 = Served(pl, wt, D) /\ wt2 = Awakened(wt, D)
  BY <1>d DEF Wakes
<1>3. wt \in [Procs -> WaitRecord] /\ H \subseteq Key /\ pl \in [Key -> ProclockRecord]
  BY DEF Good, WaitsOk, HoldersOk
<1>4. \A p \in Procs : wt2[p].mode = wt[p].mode
  BY <1>2, <1>3, AwakenedFields
<1>5. Ls \in [Slots -> LockRecord] /\ \A s \in Slots : SlotGood(hash, s, Ls[s], H, pl, wt)
  BY DEF Good, LocksOk
<1>6. ASSUME NEW s \in S
      PROVE  SlotGood(hash, s, Ls2[s], H, pl2, wt2) /\ Ls2[s].tag = Ls[s].tag /\ Ls2[s] \in LockRecord
  <2>1. ReadyFor(s, Ls[s], H, pl, wt)
    BY SlotIsReady
  <2>2. /\ Wakable(s, Ls[s], W[s]) /\ ServedAt(wt, D, AtSlot(H, s)) = W[s]
        /\ Waiting(wt2, s) = Waiting(wt, s) \ W[s] /\ CanGain(pl, wt, H, D)
    BY <1>1, <1>2
  <2> DEFINE L == Ls[s]  V == W[s]
  <2>3. /\ SlotOk(GrantWaiters(L, V), s, H, Served(pl, wt, D), wt2)
        /\ Queued(GrantWaiters(L, V), s, wt2)
        /\ GrantWaiters(L, V).tag = L.tag
    <3>1. ReadyFor(s, L, H, pl, wt) /\ Wakable(s, L, V) /\ ServedAt(wt, D, AtSlot(H, s)) = V
          /\ Waiting(wt2, s) = Waiting(wt, s) \ V
      BY <2>1, <2>2
    <3> HIDE DEF L, V
    <3> QED
      BY <1>1, <1>4, <3>1, ServeSlot
  <2>4. Ls2[s] = GrantWaiters(L, V) /\ s \in Range(hash)
    BY <1>2
  <2>5. SlotOk(Ls2[s], s, H, pl2, wt2) /\ Queued(Ls2[s], s, wt2) /\ Ls2[s].tag = Ls[s].tag
    BY <1>2, <2>3, <2>4
  <2> QED
    BY <2>4, <2>5 DEF SlotGood, SlotOk, Tally
<1>7. ASSUME NEW s \in Slots \ S
      PROVE  SlotGood(hash, s, Ls2[s], H, pl2, wt2) /\ Ls2[s] = Ls[s]
  <2>1. Ls2[s] = Ls[s]
    BY <1>2
  <2>2. Holds(pl2, AtSlot(H, s)) = Holds(pl, AtSlot(H, s))
    <3>1. AtSlot(H, s) \subseteq H
      BY DEF AtSlot
    <3>2. Holds(Served(pl, wt, D), AtSlot(H, s)) =
             Holds(pl, AtSlot(H, s)) \cup Gains(pl, wt, ServedAt(wt, D, AtSlot(H, s)))
      BY <1>1, <1>3, <3>1, GainedHolds
    <3>3. ServedAt(wt, D, AtSlot(H, s)) = {}
      BY <1>1
    <3> QED
      BY <1>2, <3>2, <3>3 DEF Gains
  <2>3. Waiting(wt2, s) = Waiting(wt, s)
    BY <1>1
  <2>4. \A p \in Waiting(wt, s) : wt2[p].mode = wt[p].mode
    BY <1>4 DEF Waiting
  <2> QED
    BY <1>5, <2>1, <2>2, <2>3, <2>4, SameSlot
<1>8. Ls2 \in [Slots -> LockRecord]
  <2>1. \A s \in Slots : Ls2[s] \in LockRecord
    BY <1>5, <1>6, <1>7
  <2>2. Ls2 = [s \in Slots |-> Ls2[s]]
    BY <1>2
  <2> QED
    BY <2>1, <2>2
<1> QED
  BY <1>6, <1>7, <1>8 DEF LocksOk

\* The waits after a wakeup.
LEMMA WakeupWaits ==
    ASSUME NEW hash, NEW free, NEW Ls, NEW H, NEW pl, NEW ph, NEW wt, NEW sm, NEW pcs,
           Good(hash, free, Ls, H, pl, ph, wt, sm, pcs),
           NEW S \in SUBSET Slots, S \subseteq Range(hash), WakeupReady(S, H, pl, wt),
           NEW W, NEW Ls2, NEW pl2, NEW wt2, NEW sm2, Wakes(S, Ls, pl, wt, sm, W, Ls2, pl2, wt2, sm2)
    PROVE  WaitsOk(pcs, wt2, sm2, H, pl2) /\ HoldersOk(H, pl2, ph)
<1>d. PICK D : D = UNION {W[s] : s \in S}
  OBVIOUS
<1>w. Woken(S, H, pl, wt, W, wt2, D)
  BY <1>d, WokenOnes
<1>1. (\A w \in D : w \in Procs /\ wt[w].lock # 0) /\ CanGain(pl, wt, H, D)
  BY <1>w DEF Woken
<1>2. /\ pl2 = Served(pl, wt, D) /\ wt2 = Awakened(wt, D)
      /\ sm2 = [p \in Procs |-> IF p \in D THEN sm[p] + 1 ELSE sm[p]]
  BY <1>d DEF Wakes
<1>3. /\ wt \in [Procs -> WaitRecord] /\ sm \in [Procs -> Nat] /\ DOMAIN pcs = Procs /\ pcs = [p \in Procs |-> pcs[p]]
      /\ \A p \in Procs : WaitOk(p, pcs[p], wt[p], sm[p], H, pl)
  BY DEF Good, WaitsOk
<1>4. HoldersOk(H, pl, ph) /\ H \subseteq Key /\ pl \in [Key -> ProclockRecord] /\ \A k \in H : CountsOwn(pl, k)
  BY DEF Good, HoldersOk
<1>5. /\ pl2 \in [Key -> ProclockRecord] /\ \A k \in Key : GainedBy(pl2, pl, wt, D, k)
  BY <1>1, <1>2, <1>4, ServedOne
<1>6. \A k \in H : CountsOwn(pl2, k)
  BY <1>1, <1>2, <1>4, ServedCounts
<1>7. HoldersOk(H, pl2, ph)
  BY <1>4, <1>5, <1>6 DEF HoldersOk
<1>8. ASSUME NEW p \in D PROVE WaitOk(p, pcs[p], wt2[p], sm2[p], H, pl2)
  <2>1. p \in Procs /\ wt[p].lock # 0 /\ WaitOk(p, pcs[p], wt[p], sm[p], H, pl)
    BY <1>1, <1>3
  <2>2. /\ sm[p] = 0 /\ pcs[p] \in {"wait", "cancel"} /\ wt[p].holder \in H /\ wt[p].holder[2] = p /\ wt[p].mode \in Modes
    BY <2>1 DEF WaitOk
  <2>3. sm2[p] = 1
    BY <1>2, <2>1, <2>2
  <2>4. wt2[p].lock = 0 /\ wt2[p].mode = wt[p].mode /\ wt2[p].holder = wt[p].holder
    BY <1>2, <1>3, <2>1, AwakenedFields
  <2> DEFINE k == wt[p].holder  m == wt[p].mode
  <2>5. pl2[k].holding[m] > 0
    <3>1. k \in Key /\ k[2] = p /\ m \in Modes
      BY <1>4, <2>2
    <3>2. GainedBy(pl2, pl, wt, D, k)
      BY <1>5, <3>1
    <3>3. pl2[k].holding[m] = pl[k].holding[m] + 1
      BY <3>1, <3>2 DEF GainedBy
    <3>4. pl[k].holding[m] \in Nat
      BY <1>4, <3>1 DEF ProclockRecord
    <3> QED
      BY <3>3, <3>4
  <2> QED
    BY <2>2, <2>3, <2>4, <2>5 DEF WaitOk
<1>9. ASSUME NEW p \in Procs, p \notin D PROVE WaitOk(p, pcs[p], wt2[p], sm2[p], H, pl2)
  <2>1. wt2[p] = wt[p] /\ sm2[p] = sm[p]
    BY <1>2, <1>3, <1>9, AwakenedFields
  <2>2. WaitOk(p, pcs[p], wt[p], sm[p], H, pl)
    BY <1>3
  <2>3. pcs[p] \in {"wait", "woken", "cancel"} => pl2[wt[p].holder] = pl[wt[p].holder]
    <3> SUFFICES ASSUME pcs[p] \in {"wait", "woken", "cancel"} PROVE pl2[wt[p].holder] = pl[wt[p].holder]
      OBVIOUS
    <3>1. wt[p].holder \in Key /\ wt[p].holder[2] = p
      BY <1>4, <2>2 DEF WaitOk
    <3>2. GainedBy(pl2, pl, wt, D, wt[p].holder)
      BY <1>5, <3>1
    <3> QED
      BY <1>9, <3>1, <3>2 DEF GainedBy
  <2> QED
    BY <2>1, <2>2, <2>3 DEF WaitOk
<1>10. wt2 \in [Procs -> WaitRecord] /\ sm2 \in [Procs -> Nat]
  <2>1. wt2 = [p \in Procs |-> wt2[p]]
    BY <1>2 DEF Awakened
  <2>2. \A p \in Procs : wt2 \in [Procs -> WaitRecord]
    BY <1>2, <1>3, AwakenedFields
  <2>3. wt2 \in [Procs -> WaitRecord]
    BY <2>1, <2>2
  <2>4. \A p \in Procs : sm[p] \in Nat /\ sm[p] + 1 \in Nat
    BY <1>3
  <2> QED
    BY <1>2, <2>3, <2>4
<1> QED
  BY <1>3, <1>7, <1>8, <1>9, <1>10 DEF WaitsOk

LEMMA WakeupWakes ==
    ASSUME NEW Ls, NEW H, NEW pl, NEW wt, NEW sm, NEW S, WakeupReady(S, H, pl, wt),
           ProcLockWakeup(S, Ls, pl, wt, sm)
    PROVE  \E W \in [S -> SUBSET Procs] : Wakes(S, Ls, pl, wt, sm, W, lock', proclock', wait', sem')
<1>1. \A D : Served(pl, wt, D) = [k \in Key |-> IF k[2] \in D /\ k = wait[k[2]].holder
                                    THEN Hold(pl[k], wait[k[2]].mode) ELSE pl[k]]
  <2>1. \A k \in Key : k[2] \in Procs
    BY DEF Key
  <2>2. \A p \in Procs : wt[p].mode = wait[p].mode /\ wt[p].holder = wait[p].holder
    BY DEF WakeupReady
  <2> QED
    BY <2>1, <2>2 DEF Served
<1>2. PICK W \in [S -> SUBSET Procs] :
        LET D == UNION {W[s] : s \in S} IN
        /\ \A s \in S : Wakable(s, Ls[s], W[s])
        /\ lock' = [s \in Slots |-> IF s \in S THEN GrantWaiters(Ls[s], W[s]) ELSE Ls[s]]
        /\ proclock' = [k \in Key |-> IF k[2] \in D /\ k = wait[k[2]].holder
                                      THEN Hold(pl[k], wait[k[2]].mode) ELSE pl[k]]
        /\ wait' = Awakened(wt, D)
        /\ sem' = [p \in Procs |-> IF p \in D THEN sm[p] + 1 ELSE sm[p]]
  BY DEF ProcLockWakeup, Awakened
<1> DEFINE D == UNION {W[s] : s \in S}
<1>3. /\ \A s \in S : Wakable(s, Ls[s], W[s])
      /\ lock' = [s \in Slots |-> IF s \in S THEN GrantWaiters(Ls[s], W[s]) ELSE Ls[s]]
      /\ wait' = Awakened(wt, D)
      /\ sem' = [p \in Procs |-> IF p \in D THEN sm[p] + 1 ELSE sm[p]]
  BY <1>2
<1>4. proclock' = Served(pl, wt, D)
  BY <1>1, <1>2
<1> QED
  BY <1>3, <1>4 DEF Wakes

\* ProcLockWakeup keeps everything right, for every set of queues that it scans.
LEMMA Wakeup ==
    ASSUME NEW hash, NEW free, NEW Ls, NEW H, NEW pl, NEW ph, NEW wt, NEW sm, NEW pcs,
           Good(hash, free, Ls, H, pl, ph, wt, sm, pcs),
           NEW S \in SUBSET Slots, S \subseteq Range(hash), WakeupReady(S, H, pl, wt),
           ProcLockWakeup(S, Ls, pl, wt, sm)
    PROVE  Good(hash, free, lock', H, proclock', ph, wait', sem', pcs)
<1>1. PICK W \in [S -> SUBSET Procs] : Wakes(S, Ls, pl, wt, sm, W, lock', proclock', wait', sem')
  BY WakeupWakes
<1>2. LocksOk(hash, lock', H, proclock', wait') /\ \A s \in Slots : lock'[s].tag = Ls[s].tag
  BY <1>1, WakeupLocks
<1>3. WaitsOk(pcs, wait', sem', H, proclock') /\ HoldersOk(H, proclock', ph)
  BY <1>1, WakeupWaits
<1>4. TableOk(hash, free, lock', H)
  <2>1. TableOk(hash, free, Ls, H) /\ H \subseteq Key
    BY DEF Good, HoldersOk
  <2>2. \A k \in H : k[1] \in Slots
    BY <2>1 DEF Key
  <2>3. \A t \in Tags : hash[t] # 0 => lock'[hash[t]].tag = t
    BY <1>2, <2>1 DEF TableOk
  <2>4. \A k \in H : k[1] \in ToSet(free) => lock'[k[1]].tag \in Tags /\ hash[lock'[k[1]].tag] = 0
    BY <1>2, <2>1, <2>2 DEF TableOk
  <2> QED
    BY <2>1, <2>3, <2>4 DEF TableOk
<1> QED
  BY <1>2, <1>3, <1>4 DEF Good

\* At the places outside of S, everybody in a queue must wait.
Stuck(S, Lk, H, pl, wt) ==
    \A s \in Slots \ S : Blocked(Lk[s].waitProcs, Holds(pl, AtSlot(H, s)), wt)

\* After ProcLockWakeup at the other places, everybody in a queue must wait.
LEMMA WakeupStuck ==
    ASSUME NEW hash, NEW free, NEW Ls, NEW H, NEW pl, NEW ph, NEW wt, NEW sm, NEW pcs,
           Good(hash, free, Ls, H, pl, ph, wt, sm, pcs),
           NEW S \in SUBSET Slots, S \subseteq Range(hash), WakeupReady(S, H, pl, wt),
           ProcLockWakeup(S, Ls, pl, wt, sm), Stuck(S, Ls, H, pl, wt)
    PROVE  Stuck({}, lock', H, proclock', wait')
<1>1. PICK W \in [S -> SUBSET Procs] : Wakes(S, Ls, pl, wt, sm, W, lock', proclock', wait', sem')
  BY WakeupWakes
<1> DEFINE D == UNION {W[s] : s \in S}
<1>2. /\ \A s \in S : Wakable(s, Ls[s], W[s])
      /\ \A s \in Slots : lock'[s] = IF s \in S THEN GrantWaiters(Ls[s], W[s]) ELSE Ls[s]
      /\ proclock' = Served(pl, wt, D) /\ wait' = Awakened(wt, D)
  BY <1>1 DEF Wakes
<1>3. Woken(S, H, pl, wt, W, wait', D)
  BY <1>1, WokenOnes
<1>4. CanGain(pl, wt, H, D) /\ \A s \in Slots : ServedAt(wt, D, AtSlot(H, s)) = IF s \in S THEN W[s] ELSE {}
  BY <1>3 DEF Woken
<1>5. /\ wt \in [Procs -> WaitRecord] /\ H \subseteq Key /\ pl \in [Key -> ProclockRecord]
      /\ \A s \in Slots : Ls[s] \in LockRecord
  BY DEF Good, WaitsOk, HoldersOk, LocksOk
<1> HIDE DEF D
<1>6. \A p \in Procs : wait'[p].mode = wt[p].mode
  BY <1>2, <1>5, AwakenedFields
<1>7. ASSUME NEW s \in Slots
      PROVE  Holds(proclock', AtSlot(H, s)) = Holds(pl, AtSlot(H, s)) \cup Gains(pl, wt, IF s \in S THEN W[s] ELSE {})
  <2> DEFINE K == AtSlot(H, s)
  <2>1. K \subseteq H
    BY DEF AtSlot
  <2> HIDE DEF K
  <2>2. /\ Holds(Served(pl, wt, D), K) = Holds(pl, K) \cup Gains(pl, wt, ServedAt(wt, D, K))
        /\ Gains(pl, wt, ServedAt(wt, D, K)) \cap Holds(pl, K) = {}
    BY <1>4, <1>5, <2>1, GainedHolds
  <2> QED
    BY <1>2, <1>4, <2>2 DEF K
<1>8. ASSUME NEW s \in Slots PROVE Blocked(lock'[s].waitProcs, Holds(proclock', AtSlot(H, s)), wait')
  <2>1. CASE s \in S
    <3> DEFINE L == Ls[s]  V == W[s]  wt2 == wait'
    <3>1. ReadyFor(s, L, H, pl, wt) /\ Wakable(s, L, V) /\ \A p \in Procs : wt2[p].mode = wt[p].mode
      BY <1>2, <1>6, <2>1, SlotIsReady
    <3> HIDE DEF L, V, wt2
    <3>2. Blocked(GrantWaiters(L, V).waitProcs, Holds(pl, AtSlot(H, s)) \cup Gains(pl, wt, V), wt2)
      BY <3>1, ServedBlocked
    <3> QED
      BY <1>2, <1>7, <2>1, <3>2 DEF L, V, wt2
  <2>2. CASE s \notin S
    <3> DEFINE q == Ls[s].waitProcs  X == Holds(pl, AtSlot(H, s))  Y == Holds(proclock', AtSlot(H, s))  wt2 == wait'
    <3>1. lock'[s].waitProcs = q /\ q \in Seq(Procs) /\ Blocked(q, X, wt) /\ X \subseteq Y
      BY <1>2, <1>5, <1>7, <2>2, RecordTypes DEF Stuck
    <3>2. \A p \in Procs : wt2[p].mode = wt[p].mode
      BY <1>6
    <3> HIDE DEF q, X, Y, wt2
    <3>3. \A p \in ToSet(q) : wt2[p].mode = wt[p].mode
      BY <3>1, <3>2, SetOf
    <3>4. Blocked(q, Y, wt2)
      BY <3>1, <3>3, StaysBlocked
    <3> QED
      BY <3>1, <3>4 DEF q, Y, wt2
  <2> QED
    BY <2>1, <2>2
<1> QED
  BY <1>8 DEF Stuck

\* A step changes no other PROCLOCK than k, ...
OnlyThis(k, H, pl, H2, pl2) ==
    \A l \in Key : l # k => (l \in H2 <=> l \in H) /\ pl2[l] = pl[l]
\* ... no wait at another place than s, and leaves the rest of the table as it is.
Elsewhere(s, hash, wt, hash2, wt2) ==
    \A r \in Slots \ {s} : /\ r \in Range(hash2) <=> r \in Range(hash)
                           /\ Waiting(wt2, r) = Waiting(wt, r)
                           /\ \A q \in Waiting(wt, r) : wt2[q].mode = wt[q].mode

\* What the other PROCLOCKs hold.
OthersHold(k, H, pl, H2, pl2) ==
    /\ \A K \in SUBSET Key : k \notin K => Holds(pl2, K) = Holds(pl, K)
    /\ \A r : r # k[1] => Holds(pl2, AtSlot(H2, r)) = Holds(pl, AtSlot(H, r))
    /\ \A p, s : p # k[2] => Mine(Holds(pl2, AtSlot(H2, s)), p) = Mine(Holds(pl, AtSlot(H, s)), p)
    /\ \A l \in Key : l # k => (CountsOwn(pl2, l) <=> CountsOwn(pl, l))

\* A change to one PROCLOCK leaves the holds of the others alone.
LEMMA OtherHolds ==
    ASSUME NEW k \in Key, NEW H \in SUBSET Key, NEW pl, NEW H2 \in SUBSET Key, NEW pl2,
           OnlyThis(k, H, pl, H2, pl2)
    PROVE  OthersHold(k, H, pl, H2, pl2)
<1>1. ASSUME NEW K \in SUBSET Key, k \notin K PROVE Holds(pl2, K) = Holds(pl, K)
  <2>1. \A l \in K : pl2[l] = pl[l]
    BY <1>1 DEF OnlyThis
  <2>2. \A h \in K \X Modes \X (1..MaxHold) : h[1] \in K
    OBVIOUS
  <2> QED
    BY <2>1, <2>2 DEF Holds
<1>2. ASSUME NEW r, r # k[1] PROVE Holds(pl2, AtSlot(H2, r)) = Holds(pl, AtSlot(H, r))
  <2>1. AtSlot(H2, r) = AtSlot(H, r) /\ k \notin AtSlot(H, r) /\ AtSlot(H, r) \in SUBSET Key
    BY <1>2 DEF AtSlot, OnlyThis
  <2> QED
    BY <1>1, <2>1
<1>3. ASSUME NEW p, NEW s, p # k[2]
      PROVE  Mine(Holds(pl2, AtSlot(H2, s)), p) = Mine(Holds(pl, AtSlot(H, s)), p)
  <2>1. \A l \in Key : l[2] = p => (l \in AtSlot(H2, s) <=> l \in AtSlot(H, s)) /\ pl2[l] = pl[l]
    BY <1>3 DEF OnlyThis, AtSlot
  <2>2. AtSlot(H2, s) \subseteq Key /\ AtSlot(H, s) \subseteq Key
    BY DEF AtSlot
  <2>3. ASSUME NEW h PROVE h \in Mine(Holds(pl2, AtSlot(H2, s)), p) => h \in Mine(Holds(pl, AtSlot(H, s)), p)
    BY <2>1, <2>2 DEF Mine, Holds
  <2>4. ASSUME NEW h PROVE h \in Mine(Holds(pl, AtSlot(H, s)), p) => h \in Mine(Holds(pl2, AtSlot(H2, s)), p)
    BY <2>1, <2>2 DEF Mine, Holds
  <2> QED
    BY <2>3, <2>4
<1>4. ASSUME NEW l \in Key, l # k PROVE CountsOwn(pl2, l) <=> CountsOwn(pl, l)
  <2>1. Holds(pl2, {l}) = Holds(pl, {l})
    BY <1>1, <1>4
  <2>2. pl2[l] = pl[l]
    BY <1>4 DEF OnlyThis
  <2> QED
    BY <2>1, <2>2 DEF CountsOwn
<1> QED
  BY <1>1, <1>2, <1>3, <1>4 DEF OthersHold

\* The LOCKs, if a step changes the one at s.
LEMMA OneSlot ==
    ASSUME NEW hash, NEW Lk, NEW H \in SUBSET Key, NEW pl, NEW wt, LocksOk(hash, Lk, H, pl, wt),
           NEW hash2, NEW H2 \in SUBSET Key, NEW pl2, NEW wt2, NEW k \in Key, NEW L \in LockRecord,
           OnlyThis(k, H, pl, H2, pl2), Elsewhere(k[1], hash, wt, hash2, wt2),
           SlotGood(hash2, k[1], L, H2, pl2, wt2)
    PROVE  LocksOk(hash2, [Lk EXCEPT ![k[1]] = L], H2, pl2, wt2)
<1> DEFINE s == k[1]  Lk2 == [Lk EXCEPT ![s] = L]
<1>1. Lk \in [Slots -> LockRecord] /\ \A r \in Slots : SlotGood(hash, r, Lk[r], H, pl, wt)
  BY DEF LocksOk
<1>2. s \in Slots
  BY DEF Key
<1>3. Lk2 \in [Slots -> LockRecord] /\ Lk2[s] = L /\ \A r \in Slots \ {s} : Lk2[r] = Lk[r]
  BY <1>1, <1>2
<1> HIDE DEF Lk2
<1>4. ASSUME NEW r \in Slots, r # s PROVE SlotGood(hash2, r, Lk2[r], H2, pl2, wt2)
  <2>1. /\ r \in Range(hash2) <=> r \in Range(hash)
        /\ Waiting(wt2, r) = Waiting(wt, r)
        /\ \A q \in Waiting(wt, r) : wt2[q].mode = wt[q].mode
    BY <1>4 DEF Elsewhere
  <2>2. Holds(pl2, AtSlot(H2, r)) = Holds(pl, AtSlot(H, r))
    <3>1. OthersHold(k, H, pl, H2, pl2)
      BY OtherHolds
    <3> QED
      BY <1>4, <3>1 DEF OthersHold
  <2>3. Lk2[r] = Lk[r] /\ SlotGood(hash, r, Lk[r], H, pl, wt)
    BY <1>1, <1>3, <1>4
  <2> QED
    BY <2>1, <2>2, <2>3, SameSlot
<1>5. SlotGood(hash2, s, Lk2[s], H2, pl2, wt2)
  BY <1>3
<1>6. \A r \in Slots : SlotGood(hash2, r, Lk2[r], H2, pl2, wt2)
  BY <1>4, <1>5
<1>7. LocksOk(hash2, Lk2, H2, pl2, wt2)
  BY <1>3, <1>6 DEF LocksOk
<1> QED
  BY <1>7 DEF Lk2

\* The table, if a step changes no tag.
LEMMA SameTable ==
    ASSUME NEW hash, NEW free, NEW Lk, NEW H, TableOk(hash, free, Lk, H),
           NEW Lk2, \A s \in Slots : Lk2[s].tag = Lk[s].tag,
           NEW H2 \in SUBSET Key, \A k \in H2 : k \in H \/ k[1] \notin ToSet(free)
    PROVE  TableOk(hash, free, Lk2, H2)
<1>1. \A k \in H2 : k[1] \in Slots
  BY DEF Key
<1>2. /\ hash \in [Tags -> {0} \union Slots]
      /\ \A t \in Tags : hash[t] # 0 => Lk[hash[t]].tag = t
      /\ free \in Seq(Slots) /\ Once(free) /\ ToSet(free) = Slots \ Range(hash)
      /\ \A k \in H : k[1] \in ToSet(free) => Lk[k[1]].tag \in Tags /\ hash[Lk[k[1]].tag] = 0
  BY DEF TableOk
<1>3. \A t \in Tags : hash[t] # 0 => Lk2[hash[t]].tag = t
  BY <1>2
<1>4. \A k \in H2 : k[1] \in ToSet(free) => Lk2[k[1]].tag \in Tags /\ hash[Lk2[k[1]].tag] = 0
  BY <1>1, <1>2
<1> QED
  BY <1>2, <1>3, <1>4 DEF TableOk

\* What the table is of.
LEMMA TableFacts ==
    ASSUME NEW hash, NEW free, NEW Lk, NEW H, TableOk(hash, free, Lk, H)
    PROVE  /\ \A r \in Slots : r \in Range(hash) <=> \E t \in Tags : hash[t] = r
           /\ \A t \in Tags : hash[t] # 0 => hash[t] \in Slots /\ hash[t] \in Range(hash) /\ hash[t] \notin ToSet(free)
           /\ \A t, u \in Tags : hash[t] # 0 /\ hash[t] = hash[u] => t = u
<1>1. /\ hash \in [Tags -> {0} \union Slots]
      /\ \A t \in Tags : hash[t] # 0 => Lk[hash[t]].tag = t
      /\ ToSet(free) = Slots \ Range(hash)
  BY DEF TableOk
<1>2. \A r : r \in Range(hash) <=> \E t \in Tags : hash[t] = r
  BY <1>1 DEF Range
<1> QED
  BY <1>1, <1>2

\* The table, if the LOCK with tag t leaves it.
RangeWithout(hash2, hash, s) == \A r \in Slots : r \in Range(hash2) <=> r \in Range(hash) /\ r # s

\* FreeLock(t) is called, and no tag changes.
TableFreed(hash, free, Lk, H, t, hash2, free2, Lk2, H2) ==
    /\ TableOk(hash, free, Lk, H) /\ t \in Tags /\ hash[t] # 0
    /\ \A s \in Slots : Lk2[s].tag = Lk[s].tag
    /\ H2 \in SUBSET Key /\ H2 \subseteq H
    /\ hash2 = [hash EXCEPT ![t] = 0] /\ free2 = <<hash[t]>> \o free

\* A LOCK that is freed goes from the table to the head of the free list.
LEMMA FreeTable ==
    ASSUME NEW hash, NEW free, NEW Lk, NEW H, NEW t, NEW hash2, NEW free2, NEW Lk2, NEW H2,
           TableFreed(hash, free, Lk, H, t, hash2, free2, Lk2, H2)
    PROVE  TableOk(hash2, free2, Lk2, H2) /\ RangeWithout(hash2, hash, hash[t])
<1>0. /\ TableOk(hash, free, Lk, H) /\ t \in Tags /\ hash[t] # 0
      /\ \A s \in Slots : Lk2[s].tag = Lk[s].tag
      /\ H2 \in SUBSET Key /\ H2 \subseteq H
      /\ hash2 = [hash EXCEPT ![t] = 0] /\ free2 = <<hash[t]>> \o free
  BY DEF TableFreed
<1> DEFINE s == hash[t]
<1>1. /\ hash \in [Tags -> {0} \union Slots]
      /\ \A u \in Tags : hash[u] # 0 => Lk[hash[u]].tag = u
      /\ free \in Seq(Slots) /\ Once(free) /\ ToSet(free) = Slots \ Range(hash)
      /\ \A k \in H : k[1] \in ToSet(free) => Lk[k[1]].tag \in Tags /\ hash[Lk[k[1]].tag] = 0
  BY <1>0 DEF TableOk
<1>2. /\ \A r \in Slots : r \in Range(hash) <=> \E u \in Tags : hash[u] = r
      /\ s \in Slots /\ s \notin ToSet(free)
      /\ \A u \in Tags : hash[u] = s => u = t
  BY <1>0, TableFacts
<1>3. hash2 \in [Tags -> {0} \union Slots] /\ hash2[t] = 0 /\ \A u \in Tags : u # t => hash2[u] = hash[u]
  BY <1>0, <1>1
<1>4. \A r : r \in Range(hash2) <=> \E u \in Tags : hash2[u] = r
  BY <1>3 DEF Range
<1>5. ASSUME NEW r \in Slots PROVE r \in Range(hash2) <=> r \in Range(hash) /\ r # s
  <2>1. r # 0
    BY NumSlotsNat DEF Slots
  <2> QED
    BY <2>1, <1>2, <1>3, <1>4
<1>6. free2 \in Seq(Slots) /\ ToSet(free2) = {s} \cup ToSet(free) /\ Once(free2)
  <2>1. <<s>> \in Seq(Slots) /\ ToSet(<<s>>) = {s} /\ Once(<<s>>)
    BY <1>2, SingleFacts
  <2>2. ToSet(<<s>>) \cap ToSet(free) = {}
    BY <1>2, <2>1
  <2> DEFINE q == <<s>>
  <2> HIDE DEF q
  <2>3. q \in Seq(Slots) /\ ToSet(q) = {s} /\ Once(q) /\ ToSet(q) \cap ToSet(free) = {}
    BY <2>1, <2>2 DEF q
  <2>4. q \o free \in Seq(Slots) /\ ToSet(q \o free) = ToSet(q) \cup ToSet(free)
    BY <1>1, <2>3, ConcatFacts
  <2>5. Once(q \o free)
    BY <1>1, <2>3, OnceConcat
  <2> QED
    BY <1>0, <2>3, <2>4, <2>5 DEF q
<1>7. ToSet(free2) = Slots \ Range(hash2)
  BY <1>1, <1>2, <1>5, <1>6
<1>8. \A u \in Tags : hash2[u] # 0 => Lk2[hash2[u]].tag = u
  BY <1>0, <1>1, <1>3
<1>9. ASSUME NEW k \in H2, k[1] \in ToSet(free2) PROVE Lk2[k[1]].tag \in Tags /\ hash2[Lk2[k[1]].tag] = 0
  <2>1. k[1] \in Slots /\ Lk2[k[1]].tag = Lk[k[1]].tag /\ k \in H
    BY <1>0 DEF Key
  <2>2. CASE k[1] = s
    BY <1>0, <1>1, <1>3, <2>1, <2>2
  <2>3. CASE k[1] # s
    <3>1. Lk[k[1]].tag \in Tags /\ hash[Lk[k[1]].tag] = 0
      BY <1>1, <1>6, <1>9, <2>1, <2>3
    <3> QED
      BY <1>3, <2>1, <3>1
  <2> QED
    BY <2>2, <2>3
<1>10. TableOk(hash2, free2, Lk2, H2)
  BY <1>3, <1>6, <1>7, <1>8, <1>9 DEF TableOk
<1> QED
  BY <1>5, <1>10 DEF RangeWithout

\* The table, if a LOCK with tag t enters it; no PROCLOCK is left of a LOCK that is free.
RangeWith(hash2, hash, s) == \A r \in Slots : r \in Range(hash2) <=> r \in Range(hash) \/ r = s

\* LockAcquire creates a LOCK for t; no PROCLOCK is left of a LOCK that is free.
TableGrown(hash, free, Lk, H, t, hash2, free2, Lk2, H2) ==
    /\ TableOk(hash, free, Lk, H) /\ t \in Tags /\ hash[t] = 0 /\ free # <<>>
    /\ \A k \in H : k[1] \notin ToSet(free)
    /\ Lk2[Head(free)].tag = t /\ \A s \in Slots \ {Head(free)} : Lk2[s].tag = Lk[s].tag
    /\ H2 \in SUBSET Key /\ \A k \in H2 : k \in H \/ k[1] = Head(free)
    /\ hash2 = [hash EXCEPT ![t] = Head(free)] /\ free2 = Tail(free)

\* A LOCK that is created comes from the head of the free list, and no other LOCK uses its place.
LEMMA CreateTable ==
    ASSUME NEW hash, NEW free, NEW Lk, NEW H, NEW t, NEW hash2, NEW free2, NEW Lk2, NEW H2,
           TableGrown(hash, free, Lk, H, t, hash2, free2, Lk2, H2)
    PROVE  /\ TableOk(hash2, free2, Lk2, H2)
           /\ Head(free) \in Slots /\ Head(free) \notin Range(hash)
           /\ RangeWith(hash2, hash, Head(free))
<1>0. /\ TableOk(hash, free, Lk, H) /\ t \in Tags /\ hash[t] = 0 /\ free # <<>>
      /\ \A k \in H : k[1] \notin ToSet(free)
      /\ Lk2[Head(free)].tag = t /\ \A s \in Slots \ {Head(free)} : Lk2[s].tag = Lk[s].tag
      /\ H2 \in SUBSET Key /\ \A k \in H2 : k \in H \/ k[1] = Head(free)
      /\ hash2 = [hash EXCEPT ![t] = Head(free)] /\ free2 = Tail(free)
  BY DEF TableGrown
<1> DEFINE s == Head(free)
<1>1. /\ hash \in [Tags -> {0} \union Slots]
      /\ \A u \in Tags : hash[u] # 0 => Lk[hash[u]].tag = u
      /\ free \in Seq(Slots) /\ Once(free) /\ ToSet(free) = Slots \ Range(hash)
  BY <1>0 DEF TableOk
<1>2. free2 \in Seq(Slots) /\ Once(free2) /\ ToSet(free2) = ToSet(free) \ {s} /\ s \in ToSet(free)
  BY <1>0, <1>1, TailFacts
<1>3. s \in Slots /\ s \notin Range(hash) /\ \A r : r \in Range(hash) <=> \E u \in Tags : hash[u] = r
  BY <1>1, <1>2 DEF Range
<1> HIDE DEF s
<1>4. hash2 \in [Tags -> {0} \union Slots] /\ hash2[t] = s /\ \A u \in Tags : u # t => hash2[u] = hash[u]
  BY <1>0, <1>1, <1>3 DEF s
<1>5. \A r : r \in Range(hash2) <=> \E u \in Tags : hash2[u] = r
  BY <1>4 DEF Range
<1>6. ASSUME NEW r \in Slots PROVE r \in Range(hash2) <=> r \in Range(hash) \/ r = s
  <2>1. r # 0
    BY NumSlotsNat DEF Slots
  <2> QED
    BY <1>0, <2>1, <1>3, <1>4, <1>5
<1>7. ToSet(free2) = Slots \ Range(hash2)
  BY <1>1, <1>2, <1>3, <1>6
<1>8. ASSUME NEW u \in Tags, hash2[u] # 0 PROVE Lk2[hash2[u]].tag = u
  <2>1. CASE u = t
    BY <1>0, <1>4, <2>1 DEF s
  <2>2. CASE u # t
    <3>1. hash2[u] = hash[u] /\ hash[u] \in Slots /\ hash[u] # s
      BY <1>0, <1>1, <1>3, <1>4, <1>8, <2>2
    <3> QED
      BY <1>0, <1>1, <1>8, <3>1 DEF s
  <2> QED
    BY <2>1, <2>2
<1>9. \A k \in H2 : k[1] \notin ToSet(free2)
  BY <1>0, <1>2 DEF s
<1>10. TableOk(hash2, free2, Lk2, H2)
  BY <1>2, <1>4, <1>7, <1>8, <1>9 DEF TableOk
<1> QED
  BY <1>3, <1>6, <1>10 DEF s, RangeWith

\* The lists of the PROCLOCKs of each process.
ListsOk(H, ph) ==
    /\ ph \in [Procs -> Seq(Key)]
    /\ \A p \in Procs : Once(ph[p]) /\ ToSet(ph[p]) = {k \in H : k[2] = p}

\* HoldersOk in two parts.
LEMMA ListsSplit ==
    ASSUME NEW H, NEW pl, NEW ph
    PROVE  HoldersOk(H, pl, ph) <=>
              /\ H \subseteq Key /\ pl \in [Key -> ProclockRecord] /\ (\A k \in H : CountsOwn(pl, k))
              /\ ListsOk(H, ph)
  BY DEF HoldersOk, ListsOk

\* A PROCLOCK leaves the table and the list of its process.
LEMMA ListsDelete ==
    ASSUME NEW H, NEW ph, ListsOk(H, ph), NEW k \in Key
    PROVE  ListsOk(H \ {k}, [ph EXCEPT ![k[2]] = Without(@, {k})])
<1> DEFINE p == k[2]  q == Without(ph[p], {k})  ph2 == [ph EXCEPT ![p] = q]
<1>1. p \in Procs /\ ph[p] \in Seq(Key) /\ Once(ph[p]) /\ ToSet(ph[p]) = {l \in H : l[2] = p}
  BY DEF ListsOk, Key
<1>2. q \in Seq(Key) /\ Once(q) /\ ToSet(q) = {l \in H : l[2] = p} \ {k}
  BY <1>1, WithoutFacts
<1>3. ph \in [Procs -> Seq(Key)]
  BY DEF ListsOk
<1>4. [ph EXCEPT ![k[2]] = Without(@, {k})] = ph2
  BY <1>1, <1>3
<1> HIDE DEF q
<1>5. ph2 \in [Procs -> Seq(Key)] /\ ph2[p] = q /\ \A r \in Procs : r # p => ph2[r] = ph[r]
  BY <1>1, <1>2, <1>3
<1> HIDE DEF ph2
<1>6. ASSUME NEW r \in Procs PROVE Once(ph2[r]) /\ ToSet(ph2[r]) = {l \in H \ {k} : l[2] = r}
  <2>1. CASE r = p
    BY <1>2, <1>5, <2>1
  <2>2. CASE r # p
    <3>1. Once(ph[r]) /\ ToSet(ph[r]) = {l \in H : l[2] = r}
      BY DEF ListsOk
    <3>2. {l \in H \ {k} : l[2] = r} = {l \in H : l[2] = r}
      BY <2>2
    <3> QED
      BY <1>5, <2>2, <3>1, <3>2
  <2> QED
    BY <2>1, <2>2
<1>7. ListsOk(H \ {k}, ph2)
  BY <1>5, <1>6 DEF ListsOk
<1> QED
  BY <1>4, <1>7

\* A PROCLOCK enters the table and the list of its process.
LEMMA ListsAdd ==
    ASSUME NEW H, NEW ph, ListsOk(H, ph), NEW k \in Key, k \notin H
    PROVE  ListsOk(H \cup {k}, [ph EXCEPT ![k[2]] = Append(@, k)])
<1> DEFINE p == k[2]  q == Append(ph[p], k)  ph2 == [ph EXCEPT ![p] = q]
<1>1. p \in Procs /\ ph[p] \in Seq(Key) /\ Once(ph[p]) /\ ToSet(ph[p]) = {l \in H : l[2] = p}
  BY DEF ListsOk, Key
<1>2. q \in Seq(Key) /\ Once(q) /\ ToSet(q) = {l \in H : l[2] = p} \cup {k}
  <2>1. k \notin ToSet(ph[p])
    BY <1>1
  <2> QED
    BY <1>1, <2>1, AppendOnce
<1>3. ph \in [Procs -> Seq(Key)]
  BY DEF ListsOk
<1>4. [ph EXCEPT ![k[2]] = Append(@, k)] = ph2
  BY <1>1, <1>3
<1> HIDE DEF q
<1>5. ph2 \in [Procs -> Seq(Key)] /\ ph2[p] = q /\ \A r \in Procs : r # p => ph2[r] = ph[r]
  BY <1>1, <1>2, <1>3
<1> HIDE DEF ph2
<1>6. ASSUME NEW r \in Procs PROVE Once(ph2[r]) /\ ToSet(ph2[r]) = {l \in H \cup {k} : l[2] = r}
  <2>1. CASE r = p
    BY <1>2, <1>5, <2>1
  <2>2. CASE r # p
    <3>1. Once(ph[r]) /\ ToSet(ph[r]) = {l \in H : l[2] = r}
      BY DEF ListsOk
    <3>2. {l \in H \cup {k} : l[2] = r} = {l \in H : l[2] = r}
      BY <2>2
    <3> QED
      BY <1>5, <2>2, <3>1, <3>2
  <2> QED
    BY <2>1, <2>2
<1>7. ListsOk(H \cup {k}, ph2)
  BY <1>5, <1>6 DEF ListsOk
<1> QED
  BY <1>4, <1>7

\* The PROCLOCKs, if a step changes no other than k.
LEMMA OneHolder ==
    ASSUME NEW H \in SUBSET Key, NEW pl, NEW ph, HoldersOk(H, pl, ph), NEW k \in Key,
           NEW H2 \in SUBSET Key, NEW pl2 \in [Key -> ProclockRecord], OnlyThis(k, H, pl, H2, pl2),
           k \in H2 => CountsOwn(pl2, k), NEW ph2, ListsOk(H2, ph2)
    PROVE  HoldersOk(H2, pl2, ph2)
<1>1. OthersHold(k, H, pl, H2, pl2)
  BY OtherHolds
<1>2. ASSUME NEW l \in H2, l # k PROVE CountsOwn(pl2, l)
  <2>1. l \in Key /\ l \in H
    BY <1>2 DEF OnlyThis
  <2>2. CountsOwn(pl, l)
    BY <2>1 DEF HoldersOk
  <2> QED
    BY <1>1, <1>2, <2>1, <2>2 DEF OthersHold
<1>3. \A l \in H2 : CountsOwn(pl2, l)
  BY <1>2
<1> QED
  BY <1>3, ListsSplit

\* The waits, if a step changes a PROCLOCK of a process that is not in its queue.
LEMMA OneWait ==
    ASSUME NEW H \in SUBSET Key, NEW pl, NEW pcs, NEW wt, NEW sm, WaitsOk(pcs, wt, sm, H, pl), NEW k \in Key,
           NEW H2, NEW pl2, OnlyThis(k, H, pl, H2, pl2),
           sm[k[2]] = 0, wt[k[2]].lock = 0, NEW a \in {"run", "abort", "release"}
    PROVE  WaitsOk([pcs EXCEPT ![k[2]] = a], wt, sm, H2, pl2)
<1> DEFINE p == k[2]  at2 == [pcs EXCEPT ![p] = a]
<1>1. /\ DOMAIN pcs = Procs /\ pcs = [q \in Procs |-> pcs[q]]
      /\ wt \in [Procs -> WaitRecord] /\ sm \in [Procs -> Nat]
      /\ \A q \in Procs : WaitOk(q, pcs[q], wt[q], sm[q], H, pl)
  BY DEF WaitsOk
<1>2. p \in Procs
  BY DEF Key
<1>3. DOMAIN at2 = Procs /\ at2 = [q \in Procs |-> at2[q]] /\ at2[p] = a /\ \A q \in Procs : q # p => at2[q] = pcs[q]
  BY <1>1, <1>2
<1> HIDE DEF at2
<1>4. WaitOk(p, at2[p], wt[p], sm[p], H2, pl2)
  BY <1>3 DEF WaitOk
<1>5. ASSUME NEW q \in Procs, q # p PROVE WaitOk(q, at2[q], wt[q], sm[q], H2, pl2)
  <2>1. WaitOk(q, pcs[q], wt[q], sm[q], H, pl) /\ at2[q] = pcs[q]
    BY <1>1, <1>3, <1>5
  <2>2. pcs[q] \in {"wait", "woken", "cancel"} =>
           wt[q].holder \in H2 /\ pl2[wt[q].holder] = pl[wt[q].holder]
    <3> SUFFICES ASSUME pcs[q] \in {"wait", "woken", "cancel"}
                 PROVE  wt[q].holder \in H2 /\ pl2[wt[q].holder] = pl[wt[q].holder]
      OBVIOUS
    <3>1. wt[q].holder \in H /\ wt[q].holder[2] = q
      BY <2>1 DEF WaitOk
    <3>2. wt[q].holder # k /\ wt[q].holder \in Key
      BY <1>5, <3>1
    <3> QED
      BY <3>1, <3>2 DEF OnlyThis
  <2> QED
    BY <2>1, <2>2 DEF WaitOk
<1>6. WaitsOk(at2, wt, sm, H2, pl2)
  BY <1>1, <1>3, <1>4, <1>5 DEF WaitsOk
<1> QED
  BY <1>6 DEF at2

\* What LockCountMyLocks counts.
LEMMA CountMine ==
    ASSUME HoldersOk(proclockHash, proclock, procHolders), NEW p \in Procs, NEW s, NEW i \in Modes
    PROVE  LockCountMyLocks(p, s)[i] = Cardinality(Of(Mine(Holds(proclock, AtSlot(proclockHash, s)), p), i))
<1> DEFINE K == {k \in ToSet(procHolders[p]) : k[1] = s}
           H == AtSlot(proclockHash, s)
<1>1. ToSet(procHolders[p]) = {k \in proclockHash : k[2] = p}
  BY DEF HoldersOk
<1>2. K = {k \in H : k[2] = p}
  BY <1>1 DEF AtSlot
<1>3. LockCountMyLocks(p, s)[i] = Cardinality(HoldsOf(proclock, K, i))
  BY DEF LockCountMyLocks
<1> HIDE DEF K, H
<1>4. Holds(proclock, K) = Mine(Holds(proclock, H), p)
  <2>1. ASSUME NEW h PROVE h \in Holds(proclock, K) => h \in Mine(Holds(proclock, H), p)
    BY <1>2 DEF Holds, Mine
  <2>2. ASSUME NEW h PROVE h \in Mine(Holds(proclock, H), p) => h \in Holds(proclock, K)
    BY <1>2 DEF Holds, Mine
  <2> QED
    BY <2>1, <2>2
<1> QED
  BY <1>3, <1>4 DEF HoldsOf, Of, H

\* A step that changes a PROCLOCK of who does not wait at s keeps what the waiters know.
LEMMA StillCounted ==
    ASSUME HoldersOk(proclockHash, proclock, procHolders), NEW k \in Key, NEW wt, NEW s,
           NEW H2 \in SUBSET Key, NEW pl2, OnlyThis(k, proclockHash, proclock, H2, pl2), k[2] \notin Waiting(wt, s)
    PROVE  Counted(s, H2, pl2, wt)
<1>1. proclockHash \in SUBSET Key
  BY DEF HoldersOk
<1>2. OthersHold(k, proclockHash, proclock, H2, pl2)
  BY <1>1, OtherHolds
<1> SUFFICES ASSUME NEW w \in Waiting(wt, s), NEW i \in Modes
             PROVE  LockCountMyLocks(w, s)[i] = Cardinality(Of(Mine(Holds(pl2, AtSlot(H2, s)), w), i))
  BY DEF Counted
<1>3. w \in Procs /\ w # k[2]
  BY DEF Waiting
<1>4. LockCountMyLocks(w, s)[i] = Cardinality(Of(Mine(Holds(proclock, AtSlot(proclockHash, s)), w), i))
  BY <1>3, CountMine
<1>5. Mine(Holds(pl2, AtSlot(H2, s)), w) = Mine(Holds(proclock, AtSlot(proclockHash, s)), w)
  BY <1>2, <1>3 DEF OthersHold
<1> QED
  BY <1>4, <1>5

IGood == Good(lockHash, freeLocks, lock, proclockHash, proclock, procHolders, wait, sem, pc)

\* LockReleaseAll has PROCLOCKs of its process to see, and is alone.
Releasing ==
    \A p \in Procs : pc[p] = "release" =>
        /\ \A q \in Procs : pc[q] = "release" => p = q
        /\ rest # <<>> /\ rest \in Seq(Key) /\ Once(rest)
        /\ ToSet(rest) \subseteq {k \in proclockHash : k[2] = p}

\* Whoever is in a queue must wait.
AllStuck == Stuck({}, lock, proclockHash, proclock, wait)

IInv == IGood /\ Releasing /\ AllStuck

\* A step that keeps the queues outside of S, what is held, and who waits for what.
Keeps(S, Lk, H, pl, wt, Lk2, H2, pl2, wt2) ==
    /\ \A s \in Slots \ S : /\ Lk2[s].waitProcs = Lk[s].waitProcs
                           /\ Holds(pl, AtSlot(H, s)) \subseteq Holds(pl2, AtSlot(H2, s))
    /\ \A q \in Procs : wt[q].lock # 0 => wt2[q].mode = wt[q].mode

\* Whoever had to wait must still wait after such a step, outside of S.
LEMMA StuckKept ==
    ASSUME NEW hash, NEW free, NEW Lk, NEW H, NEW pl, NEW ph, NEW wt, NEW sm, NEW pcs,
           Good(hash, free, Lk, H, pl, ph, wt, sm, pcs), Stuck({}, Lk, H, pl, wt),
           NEW S, NEW Lk2, NEW H2, NEW pl2, NEW wt2, Keeps(S, Lk, H, pl, wt, Lk2, H2, pl2, wt2)
    PROVE  Stuck(S, Lk2, H2, pl2, wt2)
<1> SUFFICES ASSUME NEW s \in Slots \ S
             PROVE  Blocked(Lk2[s].waitProcs, Holds(pl2, AtSlot(H2, s)), wt2)
  BY DEF Stuck
<1> DEFINE q == Lk[s].waitProcs  X == Holds(pl, AtSlot(H, s))  Y == Holds(pl2, AtSlot(H2, s))
<1>1. Lk[s] \in LockRecord /\ ToSet(q) = Waiting(wt, s) /\ Blocked(q, X, wt)
  BY DEF Good, LocksOk, SlotGood, Queued, Stuck
<1>2. Lk2[s].waitProcs = q /\ X \subseteq Y
  BY DEF Keeps
<1>3. q \in Seq(Procs)
  BY <1>1, RecordTypes
<1>4. \A p \in ToSet(q) : wt2[p].mode = wt[p].mode
  BY <1>1, NumSlotsNat DEF Keeps, Waiting, Slots
<1> HIDE DEF q, X, Y
<1>5. Blocked(q, Y, wt2)
  BY <1>1, <1>2, <1>3, <1>4, StaysBlocked
<1> QED
  BY <1>2, <1>5 DEF Y

\* A step that touches nothing but waits of processes that are in no queue.
LEMMA StuckStays ==
    ASSUME IGood, AllStuck, lock' = lock, proclockHash' = proclockHash, proclock' = proclock,
           \A q \in Procs : wait[q].lock # 0 => wait'[q].mode = wait[q].mode
    PROVE  AllStuck'
<1>1. Keeps({}, lock, proclockHash, proclock, wait, lock', proclockHash', proclock', wait')
  BY DEF Keeps
<1> QED
  BY <1>1, StuckKept DEF IGood, AllStuck

\* A step of p that changes its own wait only, and leaves it in its queue or out of it.
LEMMA OwnWait ==
    ASSUME IGood, NEW p \in Procs, NEW w \in WaitRecord, w.lock = wait[p].lock,
           w.lock # 0 => w.mode = wait[p].mode,
           NEW n, NEW a, WaitOk(p, a, w, n, proclockHash, proclock)
    PROVE  Good(lockHash, freeLocks, lock, proclockHash, proclock, procHolders,
                [wait EXCEPT ![p] = w], [sem EXCEPT ![p] = n], [pc EXCEPT ![p] = a])
<1> DEFINE wt2 == [wait EXCEPT ![p] = w]  sm2 == [sem EXCEPT ![p] = n]  at2 == [pc EXCEPT ![p] = a]
<1>1. /\ DOMAIN pc = Procs /\ pc = [q \in Procs |-> pc[q]]
      /\ wait \in [Procs -> WaitRecord] /\ sem \in [Procs -> Nat]
      /\ \A q \in Procs : WaitOk(q, pc[q], wait[q], sem[q], proclockHash, proclock)
  BY DEF IGood, Good, WaitsOk
<1>2. n \in Nat
  BY DEF WaitOk
<1>3. /\ wt2 \in [Procs -> WaitRecord] /\ wt2[p] = w /\ \A q \in Procs : q # p => wt2[q] = wait[q]
      /\ sm2 \in [Procs -> Nat] /\ sm2[p] = n /\ \A q \in Procs : q # p => sm2[q] = sem[q]
      /\ DOMAIN at2 = Procs /\ at2 = [q \in Procs |-> at2[q]] /\ at2[p] = a /\ \A q \in Procs : q # p => at2[q] = pc[q]
  BY <1>1, <1>2
<1> HIDE DEF wt2, sm2, at2
<1>4. ASSUME NEW q \in Procs PROVE WaitOk(q, at2[q], wt2[q], sm2[q], proclockHash, proclock)
  <2>1. CASE q = p
    BY <1>3, <2>1
  <2>2. CASE q # p
    BY <1>1, <1>3, <2>2
  <2> QED
    BY <2>1, <2>2
<1>5. WaitsOk(at2, wt2, sm2, proclockHash, proclock)
  BY <1>3, <1>4 DEF WaitsOk
<1>6. ASSUME NEW s \in Slots PROVE SlotGood(lockHash, s, lock[s], proclockHash, proclock, wt2)
  <2>1. SlotGood(lockHash, s, lock[s], proclockHash, proclock, wait)
    BY DEF IGood, Good, LocksOk
  <2>2. Waiting(wt2, s) = Waiting(wait, s)
    <3>1. \A q \in Procs : wt2[q].lock = wait[q].lock
      BY <1>3
    <3> QED
      BY <3>1 DEF Waiting
  <2>3. s # 0
    BY NumSlotsNat DEF Slots
  <2>4. \A q \in Waiting(wait, s) : wt2[q].mode = wait[q].mode
    BY <1>3, <2>3 DEF Waiting
  <2> QED
    BY <2>1, <2>2, <2>4, SameSlot
<1>7. LocksOk(lockHash, lock, proclockHash, proclock, wt2)
  BY <1>6 DEF IGood, Good, LocksOk
<1>8. Good(lockHash, freeLocks, lock, proclockHash, proclock, procHolders, wt2, sm2, at2)
  BY <1>5, <1>7 DEF IGood, Good
<1> QED
  BY <1>8 DEF wt2, sm2, at2

\* What the invariant says of the wait of p.
LEMMA WaitOf ==
    ASSUME IGood, NEW p \in Procs
    PROVE  /\ WaitOk(p, pc[p], wait[p], sem[p], proclockHash, proclock)
           /\ wait \in [Procs -> WaitRecord] /\ sem \in [Procs -> Nat]
           /\ pc = [q \in Procs |-> pc[q]]
           /\ wait[p].lock = 0 => \A s \in Slots : p \notin Waiting(wait, s)
<1>1. \A s \in Slots : s # 0
  BY NumSlotsNat DEF Slots
<1> QED
  BY <1>1 DEF IGood, Good, WaitsOk, Waiting

\* Steps that do not concern LockReleaseAll.
LEMMA ReleasingStays ==
    ASSUME Releasing, NEW p \in Procs, NEW a, pc = [q \in Procs |-> pc[q]], pc' = [pc EXCEPT ![p] = a],
           pc[p] # "release", a # "release",
           \/ rest' = rest /\ proclockHash' = proclockHash
           \/ LockMgrLockFree
    PROVE  Releasing'
<1>1. \A q \in Procs : pc'[q] = "release" => pc[q] = "release"
  BY Zenon
<1>2. CASE rest' = rest /\ proclockHash' = proclockHash
  BY <1>1, <1>2 DEF Releasing
<1>3. CASE LockMgrLockFree
  BY <1>1, <1>3 DEF LockMgrLockFree, Releasing
<1> QED
  BY <1>2, <1>3

\* The state of a process that does not wait is a state of waiting.
LEMMA NoWaitType == NoWait \in WaitRecord
  BY DEF NoWait, WaitRecord

\* AwaitGrant preserves the invariant: the semaphore is down when the wait goes on.
LEMMA AwaitGrantStep ==
    ASSUME IInv, NEW p \in Procs, AwaitGrant(p)
    PROVE  IInv'
<1> USE DEF IInv
<1>1. /\ pc[p] = "wait" /\ sem[p] > 0
      /\ sem' = [sem EXCEPT ![p] = sem[p] - 1] /\ pc' = [pc EXCEPT ![p] = "woken"]
      /\ UNCHANGED <<tableVars, lock, proclock, wait, rest>>
  BY DEF AwaitGrant
<1>2. /\ WaitOk(p, pc[p], wait[p], sem[p], proclockHash, proclock)
      /\ wait \in [Procs -> WaitRecord] /\ pc = [q \in Procs |-> pc[q]]
  BY WaitOf
<1>3. WaitOk(p, "woken", wait[p], sem[p] - 1, proclockHash, proclock)
  BY <1>1, <1>2 DEF WaitOk
<1>4. wait[p] \in WaitRecord /\ wait = [wait EXCEPT ![p] = wait[p]]
  BY <1>2
<1>g. Good(lockHash, freeLocks, lock, proclockHash, proclock, procHolders,
           [wait EXCEPT ![p] = wait[p]], [sem EXCEPT ![p] = sem[p] - 1], [pc EXCEPT ![p] = "woken"])
  BY <1>1, <1>3, <1>4, OwnWait
<1>5. Good(lockHash, freeLocks, lock, proclockHash, proclock, procHolders, wait, sem', pc')
  BY <1>1, <1>4, <1>g
<1>6. IGood'
  BY <1>1, <1>5 DEF IGood, tableVars
<1>7. Releasing'
  BY <1>1, <1>2, ReleasingStays DEF tableVars
<1>s. AllStuck'
  <2>1. lock' = lock /\ proclockHash' = proclockHash /\ proclock' = proclock /\ wait' = wait
    BY <1>1 DEF tableVars
  <2> QED
    BY <2>1, StuckStays
<1> QED
  BY <1>6, <1>7, <1>s

\* Resume preserves the invariant: who resumes had been granted its lock, or failed.
LEMMA ResumeStep ==
    ASSUME IInv, NEW p \in Procs, Resume(p)
    PROVE  IInv'
<1> USE DEF IInv
<1>1. PICK a \in {"run", "abort"} :
         /\ pc[p] = "woken" /\ LockMgrLockFree
         /\ wait' = [wait EXCEPT ![p] = NoWait] /\ pc' = [pc EXCEPT ![p] = a]
         /\ UNCHANGED <<tableVars, lock, proclock, sem, rest>>
  <2>1. (IF wait[p].errType = "ok" /\ IsGranted(p) THEN "run" ELSE "abort") \in {"run", "abort"}
    OBVIOUS
  <2> QED
    BY <2>1 DEF Resume
<1>2. /\ WaitOk(p, pc[p], wait[p], sem[p], proclockHash, proclock)
      /\ sem \in [Procs -> Nat] /\ pc = [q \in Procs |-> pc[q]]
  BY WaitOf
<1>3. sem[p] = 0 /\ wait[p].lock = 0
  BY <1>1, <1>2 DEF WaitOk
<1>4. WaitOk(p, a, NoWait, sem[p], proclockHash, proclock)
  BY <1>3 DEF WaitOk, NoWait
<1>5. NoWait \in WaitRecord /\ NoWait.lock = wait[p].lock /\ NoWait.lock = 0 /\ sem = [sem EXCEPT ![p] = sem[p]]
  BY <1>2, <1>3, NoWaitType DEF NoWait
<1>g. Good(lockHash, freeLocks, lock, proclockHash, proclock, procHolders,
           [wait EXCEPT ![p] = NoWait], [sem EXCEPT ![p] = sem[p]], [pc EXCEPT ![p] = a])
  BY <1>1, <1>4, <1>5, OwnWait
<1>6. Good(lockHash, freeLocks, lock, proclockHash, proclock, procHolders, wait', sem, pc')
  BY <1>1, <1>5, <1>g
<1>7. IGood'
  BY <1>1, <1>6 DEF IGood, tableVars
<1>8. Releasing'
  BY <1>1, <1>2, ReleasingStays
<1>s. AllStuck'
  <2>1. lock' = lock /\ proclockHash' = proclockHash /\ proclock' = proclock
    BY <1>1 DEF tableVars
  <2>2. \A q \in Procs : wait[q].lock # 0 => wait'[q].mode = wait[q].mode
    <3>1. wait \in [Procs -> WaitRecord] /\ wait' = [wait EXCEPT ![p] = NoWait]
      BY <1>1, WaitOf
    <3> QED
      BY <1>3, <3>1
  <2> QED
    BY <2>1, <2>2, StuckStays
<1> QED
  BY <1>7, <1>8, <1>s

\* Cancel preserves the invariant.
LEMMA CancelStep ==
    ASSUME IInv, NEW p \in Procs, Cancel(p)
    PROVE  IInv'
<1> USE DEF IInv
<1>1. PICK a \in {"cancel", "abort"} :
         /\ a = "cancel" => pc[p] \in {"wait", "woken"}
         /\ a = "abort" => pc[p] = "run"
         /\ pc' = [pc EXCEPT ![p] = a]
         /\ UNCHANGED <<tableVars, lock, proclock, wait, sem, rest>>
  BY DEF Cancel
<1>2. /\ WaitOk(p, pc[p], wait[p], sem[p], proclockHash, proclock)
      /\ wait \in [Procs -> WaitRecord] /\ sem \in [Procs -> Nat] /\ pc = [q \in Procs |-> pc[q]]
  BY WaitOf
<1>3. WaitOk(p, a, wait[p], sem[p], proclockHash, proclock)
  BY <1>1, <1>2 DEF WaitOk
<1>4. wait[p] \in WaitRecord /\ wait = [wait EXCEPT ![p] = wait[p]] /\ sem = [sem EXCEPT ![p] = sem[p]]
  BY <1>2
<1>g. Good(lockHash, freeLocks, lock, proclockHash, proclock, procHolders,
           [wait EXCEPT ![p] = wait[p]], [sem EXCEPT ![p] = sem[p]], [pc EXCEPT ![p] = a])
  BY <1>1, <1>3, <1>4, OwnWait
<1>5. Good(lockHash, freeLocks, lock, proclockHash, proclock, procHolders, wait, sem, pc')
  BY <1>1, <1>4, <1>g
<1>6. IGood'
  BY <1>1, <1>5 DEF IGood, tableVars
<1>7. Releasing'
  BY <1>1, <1>2, ReleasingStays DEF tableVars
<1>s. AllStuck'
  <2>1. lock' = lock /\ proclockHash' = proclockHash /\ proclock' = proclock /\ wait' = wait
    BY <1>1 DEF tableVars
  <2> QED
    BY <2>1, StuckStays
<1> QED
  BY <1>6, <1>7, <1>s

\* ResetSemaphore preserves the invariant: it takes the count that a grant has posted.
LEMMA ResetSemaphoreStep ==
    ASSUME IInv, NEW p \in Procs, ResetSemaphore(p)
    PROVE  IInv'
<1> USE DEF IInv
<1>1. /\ pc[p] = "reset"
      /\ sem' = [sem EXCEPT ![p] = 0] /\ wait' = [wait EXCEPT ![p] = NoWait] /\ pc' = [pc EXCEPT ![p] = "abort"]
      /\ UNCHANGED <<tableVars, lock, proclock, rest>>
  BY DEF ResetSemaphore
<1>2. /\ WaitOk(p, pc[p], wait[p], sem[p], proclockHash, proclock) /\ pc = [q \in Procs |-> pc[q]]
  BY WaitOf
<1>3. wait[p].lock = 0
  BY <1>1, <1>2 DEF WaitOk
<1>4. WaitOk(p, "abort", NoWait, 0, proclockHash, proclock)
  BY DEF WaitOk, NoWait
<1>5. NoWait \in WaitRecord /\ NoWait.lock = wait[p].lock /\ NoWait.lock = 0
  BY <1>3, NoWaitType DEF NoWait
<1>6. Good(lockHash, freeLocks, lock, proclockHash, proclock, procHolders, wait', sem', pc')
  BY <1>1, <1>4, <1>5, OwnWait
<1>7. IGood'
  BY <1>1, <1>6 DEF IGood, tableVars
<1>8. Releasing'
  BY <1>1, <1>2, ReleasingStays DEF tableVars
<1>s. AllStuck'
  <2>1. lock' = lock /\ proclockHash' = proclockHash /\ proclock' = proclock
    BY <1>1 DEF tableVars
  <2>2. \A q \in Procs : wait[q].lock # 0 => wait'[q].mode = wait[q].mode
    <3>1. wait \in [Procs -> WaitRecord] /\ wait' = [wait EXCEPT ![p] = NoWait]
      BY <1>1, WaitOf
    <3> QED
      BY <1>3, <3>1
  <2> QED
    BY <2>1, <2>2, StuckStays
<1> QED
  BY <1>7, <1>8, <1>s

\* Commit and Abort.
LEMMA StartReleaseAllStep ==
    ASSUME IInv, NEW p \in Procs, NEW X, StartReleaseAll(p, X), pc[p] \in {"run", "abort"}
    PROVE  IInv'
<1> USE DEF IInv
<1> DEFINE mine == Without(procHolders[p], {k \in Key : k[3] \notin X})
           a == IF mine = <<>> THEN "run" ELSE "release"
<1>1. /\ LockMgrLockFree /\ rest' = mine /\ pc' = [pc EXCEPT ![p] = a]
      /\ UNCHANGED <<tableVars, lock, proclock, wait, sem>>
  BY DEF StartReleaseAll
<1>2. /\ WaitOk(p, pc[p], wait[p], sem[p], proclockHash, proclock)
      /\ wait \in [Procs -> WaitRecord] /\ sem \in [Procs -> Nat] /\ pc = [q \in Procs |-> pc[q]]
  BY WaitOf
<1>m. mine \in Seq(Key) /\ Once(mine) /\ ToSet(mine) \subseteq {k \in proclockHash : k[2] = p}
  <2>1. procHolders[p] \in Seq(Key) /\ Once(procHolders[p]) /\ ToSet(procHolders[p]) = {k \in proclockHash : k[2] = p}
    BY DEF IGood, Good, HoldersOk
  <2>2. ToSet(mine) = ToSet(procHolders[p]) \ {k \in Key : k[3] \notin X} /\ mine \in Seq(Key) /\ Once(mine)
    BY <2>1, WithoutFacts
  <2> QED
    BY <2>1, <2>2
<1>a. a \in {"run", "release"} /\ (a = "release" => mine # <<>>)
  OBVIOUS
<1> HIDE DEF mine, a
<1>3. WaitOk(p, a, wait[p], sem[p], proclockHash, proclock)
  BY <1>2, <1>a DEF WaitOk
<1>4. wait[p] \in WaitRecord /\ wait = [wait EXCEPT ![p] = wait[p]] /\ sem = [sem EXCEPT ![p] = sem[p]]
  BY <1>2
<1>g. Good(lockHash, freeLocks, lock, proclockHash, proclock, procHolders,
           [wait EXCEPT ![p] = wait[p]], [sem EXCEPT ![p] = sem[p]], [pc EXCEPT ![p] = a])
  BY <1>1, <1>3, <1>4, OwnWait
<1>5. Good(lockHash, freeLocks, lock, proclockHash, proclock, procHolders, wait, sem, pc')
  BY <1>1, <1>4, <1>g
<1>6. IGood'
  BY <1>1, <1>5 DEF IGood, tableVars
<1>7. Releasing'
  <2>1. \A q \in Procs : pc'[q] = "release" => q = p /\ a = "release"
    BY <1>1, <1>2 DEF LockMgrLockFree
  <2>2. rest' = mine /\ proclockHash' = proclockHash
    BY <1>1 DEF tableVars
  <2> QED
    BY <2>1, <2>2, <1>m, <1>a DEF Releasing
<1>s. AllStuck'
  <2>1. lock' = lock /\ proclockHash' = proclockHash /\ proclock' = proclock /\ wait' = wait
    BY <1>1 DEF tableVars
  <2> QED
    BY <2>1, StuckStays
<1> QED
  BY <1>6, <1>7, <1>s

\* The holds of one PROCLOCK and of the others.
LEMMA HoldsSplit ==
    ASSUME NEW pl, NEW K, NEW k \in K
    PROVE  /\ Holds(pl, K) = Holds(pl, K \ {k}) \cup Holds(pl, {k})
           /\ Holds(pl, K \ {k}) \cap Holds(pl, {k}) = {}
           /\ Holds(pl, K \ {k}) = Holds(pl, K) \ Holds(pl, {k})
<1>1. \A h : h \in Holds(pl, K) <=> h \in Holds(pl, K \ {k}) \/ h \in Holds(pl, {k})
  BY DEF Holds
<1>2. Holds(pl, K \ {k}) \cap Holds(pl, {k}) = {}
  <2>1. \A h \in Holds(pl, {k}) : h[1] = k
    BY DEF Holds
  <2>2. \A h \in Holds(pl, K \ {k}) : h[1] # k
    BY DEF Holds
  <2> QED
    BY <2>1, <2>2
<1> QED
  BY <1>1, <1>2

\* A PROCLOCK gives one hold back.
Unholding(pl, k, m, pl2, h) ==
    /\ pl2 \in [Key -> ProclockRecord]
    /\ \A l \in Key : l # k => pl2[l] = pl[l]
    /\ CountsOwn(pl2, k)
    /\ \A K \in SUBSET Key : k \in K => h \in Holds(pl, K) /\ Holds(pl2, K) = Holds(pl, K) \ {h}
    /\ pl[k].nHolding = 1 => Holds(pl2, {k}) = {}

\* Unhold takes the last of the holds of its mode away.
LEMMA UnholdHolds ==
    ASSUME NEW pl \in [Key -> ProclockRecord], NEW k \in Key, CountsOwn(pl, k), NEW m \in Modes,
           pl[k].holding[m] > 0
    PROVE  Unholding(pl, k, m, [pl EXCEPT ![k] = Unhold(@, m)], <<k, m, pl[k].holding[m]>>)
<1> DEFINE n == pl[k].holding[m]  h == <<k, m, n>>  new == Unhold(pl[k], m)  pl2 == [pl EXCEPT ![k] = new]
<1>1. pl[k] \in ProclockRecord /\ pl[k].holding \in [Modes -> Nat]
  BY DEF ProclockRecord
<1>2. n \in 1..MaxHold /\ MaxHold \in Nat /\ pl[k].nHolding = Cardinality(Holds(pl, {k}))
  BY <1>1, MaxHoldNat DEF CountsOwn
<1>3. /\ new \in ProclockRecord /\ new.nHolding = pl[k].nHolding - 1 /\ new.holding[m] = n - 1
      /\ \A i \in Modes : i # m => new.holding[i] = pl[k].holding[i]
  BY <1>1, UnholdFields
<1> HIDE DEF new
<1>4. pl2 \in [Key -> ProclockRecord] /\ pl2[k] = new /\ \A l \in Key : l # k => pl2[l] = pl[l]
  BY <1>3
<1> HIDE DEF pl2, n
<1>5. ASSUME NEW K \in SUBSET Key, k \in K
      PROVE  h \in Holds(pl, K) /\ Holds(pl2, K) = Holds(pl, K) \ {h}
  <2>1. h \in Holds(pl, K)
    <3>1. n <= pl[k].holding[m]
      BY <1>2 DEF n
    <3> QED
      BY <1>2, <1>5, <3>1, HoldsMembers
  <2>2. ASSUME NEW l \in K, NEW i \in Modes, NEW j \in 1..MaxHold
        PROVE  j <= pl2[l].holding[i] <=> j <= pl[l].holding[i] /\ <<l, i, j>> # h
    <3>1. CASE l # k
      BY <1>4, <3>1
    <3>2. CASE l = k /\ i # m
      BY <1>3, <1>4, <3>2
    <3>3. CASE l = k /\ i = m
      <4>1. pl2[l].holding[i] = n - 1 /\ pl[l].holding[i] = n
        BY <1>3, <1>4, <3>3 DEF n
      <4>2. <<l, i, j>> # h <=> j # n
        BY <3>3
      <4> QED
        BY <1>2, <4>1, <4>2
    <3> QED
      BY <3>1, <3>2, <3>3
  <2>3. \A g \in K \X Modes \X (1..MaxHold) :
            g[3] <= pl2[g[1]].holding[g[2]] <=> g[3] <= pl[g[1]].holding[g[2]] /\ g # h
    BY <2>2
  <2> QED
    BY <2>1, <2>3 DEF Holds
<1>6. IsFiniteSet(Holds(pl, {k})) /\ h \in Holds(pl, {k}) /\ Holds(pl2, {k}) = Holds(pl, {k}) \ {h}
  <2>1. {k} \in SUBSET Key
    OBVIOUS
  <2> QED
    BY <1>5, <2>1, FiniteSets
<1>7. IsFiniteSet(Holds(pl2, {k})) /\ Cardinality(Holds(pl2, {k})) = Cardinality(Holds(pl, {k})) - 1
  BY <1>6, FS_RemoveElement
<1>8. Cardinality(Holds(pl2, {k})) = 0 => Holds(pl2, {k}) = {}
  BY <1>7, FS_EmptySet
<1>9. CountsOwn(pl2, k)
  <2>1. pl2[k].nHolding = Cardinality(Holds(pl2, {k}))
    BY <1>2, <1>3, <1>4, <1>7
  <2>2. \A i \in Modes : pl2[k].holding[i] <= MaxHold
    <3>1. \A i \in Modes : pl[k].holding[i] <= MaxHold
      BY DEF CountsOwn
    <3>2. n - 1 <= MaxHold
      BY <1>2
    <3> QED
      BY <1>3, <1>4, <3>1, <3>2
  <2> QED
    BY <2>1, <2>2 DEF CountsOwn
<1>10. pl[k].nHolding = 1 => Holds(pl2, {k}) = {}
  BY <1>2, <1>7, <1>8
<1>11. Unholding(pl, k, m, pl2, h)
  BY <1>4, <1>5, <1>9, <1>10 DEF Unholding
<1> QED
  BY <1>11 DEF pl2, h, n, new

\* What does not conflict does not conflict when there is less of it.
LEMMA ApartLess ==
    ASSUME NEW X, Apart(X), NEW Y, Y \subseteq X
    PROVE  Apart(Y)
  BY DEF Apart

\* What the step needs of the LOCK at s before a wakeup: either it stays in the
\* table, or nobody holds it or waits for it.
LEMMA SlotAfter ==
    ASSUME NEW hash, NEW s, NEW L, NEW H, NEW pl, NEW wt,
           Tally(L, Holds(pl, AtSlot(H, s)), Asks(wt, s)), Mask(L, Asks(wt, s)),
           Apart(Holds(pl, AtSlot(H, s))), Queued(L, s, wt),
           s \notin Range(hash) => L.nRequested = 0
    PROVE  SlotGood(hash, s, L, H, pl, wt)
<1>1. s \in Range(hash) => SlotOk(L, s, H, pl, wt)
  BY DEF SlotOk
<1>2. ASSUME L.nRequested = 0 PROVE Holds(pl, AtSlot(H, s)) = {} /\ Waiting(wt, s) = {}
  <2> DEFINE X == Holds(pl, AtSlot(H, s))  R == Asks(wt, s)
  <2>1. IsFiniteSet(X) /\ IsFiniteSet(R) /\ Cardinality(X) + Cardinality(R) = 0
    BY <1>2 DEF Tally
  <2> HIDE DEF X, R
  <2>2. X = {} /\ R = {}
    <3>1. Cardinality(X) \in Nat /\ (X = {} <=> Cardinality(X) = 0)
      BY <2>1, Sizes
    <3>2. Cardinality(R) \in Nat /\ (R = {} <=> Cardinality(R) = 0)
      BY <2>1, Sizes
    <3> QED
      BY <2>1, <3>1, <3>2
  <2>3. Waiting(wt, s) = {}
    BY <2>2 DEF R, Asks, Pairs
  <2> QED
    BY <2>2, <2>3 DEF X
<1>3. s \notin Range(hash) => Unused(L, s, H, pl, wt)
  BY <1>2 DEF Unused
<1> QED
  BY <1>1, <1>3 DEF SlotGood

\* DeleteProclock, as far as the invariant is concerned.
LEMMA DeleteFacts ==
    ASSUME HoldersOk(proclockHash, proclock, procHolders), NEW k \in Key, DeleteProclock(k)
    PROVE  /\ proclockHash' = proclockHash \ {k} /\ ListsOk(proclockHash', procHolders')
<1>1. ListsOk(proclockHash, procHolders)
  BY ListsSplit
<1>2. /\ proclockHash' = proclockHash \ {k}
      /\ procHolders' = [procHolders EXCEPT ![k[2]] = Without(@, {k})]
  BY DEF DeleteProclock
<1>3. ListsOk(proclockHash \ {k}, [procHolders EXCEPT ![k[2]] = Without(@, {k})])
  BY <1>1, ListsDelete
<1> QED
  BY <1>2, <1>3

\* A PROCLOCK that holds nothing may go or stay.
LEMMA EmptyGoes ==
    ASSUME NEW pl, NEW H, NEW k \in H, Holds(pl, {k}) = {}
    PROVE  \A s : Holds(pl, AtSlot(H \ {k}, s)) = Holds(pl, AtSlot(H, s))
<1> SUFFICES ASSUME NEW s PROVE Holds(pl, AtSlot(H \ {k}, s)) = Holds(pl, AtSlot(H, s))
  OBVIOUS
<1>1. CASE k[1] = s
  <2>1. k \in AtSlot(H, s) /\ AtSlot(H \ {k}, s) = AtSlot(H, s) \ {k}
    BY <1>1 DEF AtSlot
  <2>2. Holds(pl, AtSlot(H, s)) = Holds(pl, AtSlot(H, s) \ {k}) \cup Holds(pl, {k})
    <3> DEFINE K == AtSlot(H, s)
    <3>1. k \in K
      BY <2>1
    <3> HIDE DEF K
    <3>2. Holds(pl, K) = Holds(pl, K \ {k}) \cup Holds(pl, {k})
      <4>1. \A h : h \in K \X Modes \X (1..MaxHold) <=>
              \/ h \in (K \ {k}) \X Modes \X (1..MaxHold) \/ h \in {k} \X Modes \X (1..MaxHold)
        BY <3>1
      <4> QED
        BY <4>1 DEF Holds
    <3> QED
      BY <3>2 DEF K
  <2> QED
    BY <2>1, <2>2
<1>2. CASE k[1] # s
  BY <1>2 DEF AtSlot
<1> QED
  BY <1>1, <1>2

\* The state that the wakeup of a step starts from.
Before(hash2, free2, Ls, H2, pl2, ph2, at2) ==
    /\ Good(hash2, free2, Ls, H2, pl2, ph2, wait, sem, at2)
    /\ \A S \in SUBSET Slots : WakeupReady(S, H2, pl2, wait)

\* The LOCK at s = k[1] becomes L, and k's PROCLOCK changes, for a process that runs.
LEMMA Released ==
    ASSUME IGood, NEW k \in Key, NEW L \in LockRecord, NEW hash2, NEW free2,
           NEW H2 \in SUBSET Key, NEW pl2 \in [Key -> ProclockRecord], NEW ph2, NEW a \in {"run", "abort", "release"},
           OnlyThis(k, proclockHash, proclock, H2, pl2),
           pc[k[2]] \in {"run", "abort", "release"},
           \A r \in Slots \ {k[1]} : r \in Range(hash2) <=> r \in Range(lockHash),
           SlotGood(hash2, k[1], L, H2, pl2, wait),
           NEW Ls, Ls = [lock EXCEPT ![k[1]] = L], NEW at2, at2 = [pc EXCEPT ![k[2]] = a],
           TableOk(hash2, free2, Ls, H2),
           k \in H2 => CountsOwn(pl2, k), ListsOk(H2, ph2)
    PROVE  Before(hash2, free2, Ls, H2, pl2, ph2, at2)
<1>1. LocksOk(lockHash, lock, proclockHash, proclock, wait) /\ HoldersOk(proclockHash, proclock, procHolders)
      /\ WaitsOk(pc, wait, sem, proclockHash, proclock) /\ proclockHash \in SUBSET Key
  BY DEF IGood, Good, HoldersOk
<1>2. k[2] \in Procs
  BY DEF Key
<1>3. sem[k[2]] = 0 /\ wait[k[2]].lock = 0
  <2>1. WaitOk(k[2], pc[k[2]], wait[k[2]], sem[k[2]], proclockHash, proclock)
    BY <1>2, WaitOf
  <2> QED
    BY <2>1 DEF WaitOk
<1>4. Elsewhere(k[1], lockHash, wait, hash2, wait)
  BY DEF Elsewhere
<1>5. LocksOk(hash2, Ls, H2, pl2, wait)
  BY <1>1, <1>4, OneSlot
<1>6. HoldersOk(H2, pl2, ph2)
  BY <1>1, OneHolder
<1>7. WaitsOk(at2, wait, sem, H2, pl2)
  BY <1>1, <1>3, OneWait
<1>8. Good(hash2, free2, Ls, H2, pl2, ph2, wait, sem, at2)
  BY <1>5, <1>6, <1>7 DEF Good
<1>9. ASSUME NEW S \in SUBSET Slots PROVE WakeupReady(S, H2, pl2, wait)
  <2>1. ASSUME NEW s \in S PROVE Counted(s, H2, pl2, wait)
    <3>1. k[2] \notin Waiting(wait, s)
      BY <1>3, NumSlotsNat DEF Waiting, Slots
    <3> QED
      BY <1>1, <3>1, StillCounted
  <2> QED
    BY <2>1 DEF WakeupReady
<1> QED
  BY <1>8, <1>9 DEF Before

\* Nobody is in the queue of a LOCK without requests.
LEMMA NobodyAsks ==
    ASSUME NEW hash, NEW s, NEW L \in LockRecord, NEW H, NEW pl, NEW wt, SlotGood(hash, s, L, H, pl, wt),
           L.nRequested = 0
    PROVE  L.waitProcs = <<>>
<1>1. Waiting(wt, s) = {}
  <2>1. ASSUME SlotOk(L, s, H, pl, wt) PROVE Waiting(wt, s) = {}
    <3> DEFINE X == Holds(pl, AtSlot(H, s))  R == Asks(wt, s)
    <3>1. IsFiniteSet(X) /\ IsFiniteSet(R) /\ Cardinality(X) + Cardinality(R) = 0
      BY <2>1 DEF SlotOk, Tally
    <3> HIDE DEF X, R
    <3>2. Cardinality(X) \in Nat /\ (X = {} <=> Cardinality(X) = 0)
      BY <3>1, Sizes
    <3>3. Cardinality(R) \in Nat /\ (R = {} <=> Cardinality(R) = 0)
      BY <3>1, Sizes
    <3>4. R = {}
      BY <3>1, <3>2, <3>3
    <3> QED
      BY <3>4 DEF R, Asks, Pairs
  <2> QED
    BY <2>1 DEF SlotGood, Unused
<1>2. L.waitProcs \in Seq(Procs) /\ ToSet(L.waitProcs) = {}
  BY <1>1, RecordTypes DEF SlotGood, Queued
<1> QED
  BY <1>2, SetOf

\* Holds that conflict with no request that waits may go: all who wait must wait still.
LEMMA LessBlocked ==
    ASSUME IGood, AllStuck, NEW s \in Slots, s \in Range(lockHash),
           NEW Y, \A h \in Y : h[2] \in Modes /\ ~WakeupNeeded(lock[s], h[2])
    PROVE  Blocked(lock[s].waitProcs, Holds(proclock, AtSlot(proclockHash, s)) \ Y, wait)
<1> DEFINE L == lock[s]  q == L.waitProcs  X == Holds(proclock, AtSlot(proclockHash, s))  R == Asks(wait, s)
<1>1. L \in LockRecord /\ Mask(L, R) /\ ToSet(q) = Waiting(wait, s) /\ Blocked(q, X, wait)
  BY DEF IGood, Good, LocksOk, SlotGood, SlotOk, Queued, AllStuck, Stuck
<1>2. \A w \in Waiting(wait, s) : wait[w].mode \in Modes
  <2>1. CanGain(proclock, wait, proclockHash, Waiting(wait, s))
    BY WaitingIsReady DEF IGood
  <2> QED
    BY <2>1 DEF CanGain
<1>3. \A w \in Waiting(wait, s) : wait[w].mode \in L.waitMask
  <2>1. \A w \in Waiting(wait, s) : <<w, wait[w].mode>> \in Of(R, wait[w].mode)
    BY DEF Of, Asks, Pairs
  <2> QED
    BY <1>1, <1>2, <2>1 DEF Mask
<1>4. q \in Seq(Procs)
  BY <1>1, RecordTypes
<1> HIDE DEF X, R, q
<1>5. \A i \in 1..Len(q) : q[i] \in Waiting(wait, s)
  BY <1>1, <1>4, SetOf
<1>6. \A h \in Y, i \in 1..Len(q) : h[2] \notin ConflictTab[wait[q[i]].mode]
  <2> SUFFICES ASSUME NEW h \in Y, NEW i \in 1..Len(q), h[2] \in ConflictTab[wait[q[i]].mode] PROVE FALSE
    OBVIOUS
  <2>1. wait[q[i]].mode \in Modes /\ wait[q[i]].mode \in L.waitMask
    BY <1>2, <1>3, <1>5
  <2>2. wait[q[i]].mode \in ConflictTab[h[2]]
    BY <2>1, Symmetric
  <2> QED
    BY <2>1, <2>2 DEF WakeupNeeded
<1>7. Blocked(q, X \ Y, wait)
  BY <1>1, <1>6 DEF Blocked
<1> QED
  BY <1>7 DEF q, X

\* The queues after a release of holds of the PROCLOCK k, before a wakeup at S.
LEMMA ReleasedStuck ==
    ASSUME IGood, AllStuck, NEW k \in Key, NEW L, L.waitProcs = lock[k[1]].waitProcs,
           NEW H2 \in SUBSET Key, NEW pl2, OnlyThis(k, proclockHash, proclock, H2, pl2),
           NEW Ls, Ls = [lock EXCEPT ![k[1]] = L],
           NEW S, S = {} \/ S = {k[1]},
           S = {} => Blocked(L.waitProcs, Holds(pl2, AtSlot(H2, k[1])), wait)
    PROVE  Stuck(S, Ls, H2, pl2, wait)
<1> DEFINE s == k[1]
<1>1. lock \in [Slots -> LockRecord] /\ s \in Slots /\ proclockHash \in SUBSET Key
  BY DEF IGood, Good, LocksOk, HoldersOk, Key
<1>2. Ls[s] = L /\ \A r \in Slots \ {s} : Ls[r] = lock[r]
  BY <1>1
<1>3. \A r \in Slots \ {s} : Holds(pl2, AtSlot(H2, r)) = Holds(proclock, AtSlot(proclockHash, r))
  BY <1>1, OtherHolds DEF OthersHold
<1>4. Keeps({s}, lock, proclockHash, proclock, wait, Ls, H2, pl2, wait)
  BY <1>2, <1>3 DEF Keeps
<1>5. Stuck({s}, Ls, H2, pl2, wait)
  <2> DEFINE U == {s}
  <2> HIDE DEF U, s
  <2>1. Good(lockHash, freeLocks, lock, proclockHash, proclock, procHolders, wait, sem, pc) /\ Stuck({}, lock, proclockHash, proclock, wait)
    BY DEF IGood, AllStuck
  <2>2. Keeps(U, lock, proclockHash, proclock, wait, Ls, H2, pl2, wait)
    BY <1>4 DEF U
  <2>3. Stuck(U, Ls, H2, pl2, wait)
    BY <2>1, <2>2, StuckKept
  <2> QED
    BY <2>3 DEF U
<1>6. CASE S = {s}
  BY <1>5, <1>6
<1>7. CASE S = {}
  <2>1. Blocked(Ls[s].waitProcs, Holds(pl2, AtSlot(H2, s)), wait)
    BY <1>2, <1>7
  <2>2. \A r \in Slots \ {s} : Blocked(Ls[r].waitProcs, Holds(pl2, AtSlot(H2, r)), wait)
    BY <1>5 DEF Stuck
  <2> QED
    BY <1>7, <2>1, <2>2 DEF Stuck
<1> QED
  BY <1>6, <1>7

\* A change of one LOCK and the wakeup that follows it in the same step keep everything right.
LEMMA WakeupAfter ==
    ASSUME NEW hash2, NEW free2, NEW Ls, NEW H2, NEW pl2, NEW ph2, NEW at2,
           Before(hash2, free2, Ls, H2, pl2, ph2, at2),
           NEW S \in SUBSET Slots, S \subseteq Range(hash2), ProcLockWakeup(S, Ls, pl2, wait, sem)
    PROVE  /\ Good(hash2, free2, lock', H2, proclock', ph2, wait', sem', at2)
           /\ Stuck(S, Ls, H2, pl2, wait) => Stuck({}, lock', H2, proclock', wait')
<1>1. Good(hash2, free2, Ls, H2, pl2, ph2, wait, sem, at2) /\ WakeupReady(S, H2, pl2, wait)
  BY DEF Before
<1>2. Good(hash2, free2, lock', H2, proclock', ph2, wait', sem', at2)
  BY <1>1, Wakeup
<1>3. Stuck(S, Ls, H2, pl2, wait) => Stuck({}, lock', H2, proclock', wait')
  BY <1>1, WakeupStuck
<1> QED
  BY <1>2, <1>3

\* A LOCK in the table, and a PROCLOCK.
LEMMA LockFound ==
    ASSUME IGood, NEW t \in Tags, lockHash[t] # 0
    PROVE  /\ lockHash[t] \in Slots /\ lockHash[t] \in Range(lockHash) /\ lock[lockHash[t]].tag = t
           /\ lock \in [Slots -> LockRecord]
           /\ SlotOk(lock[lockHash[t]], lockHash[t], proclockHash, proclock, wait)
           /\ Queued(lock[lockHash[t]], lockHash[t], wait)
           /\ TableOk(lockHash, freeLocks, lock, proclockHash)
<1>1. TableOk(lockHash, freeLocks, lock, proclockHash) /\ lock[lockHash[t]].tag = t
  BY DEF IGood, Good, TableOk
<1>2. lockHash[t] \in Slots /\ lockHash[t] \in Range(lockHash)
  BY <1>1, TableFacts
<1>3. lock \in [Slots -> LockRecord] /\ SlotGood(lockHash, lockHash[t], lock[lockHash[t]], proclockHash, proclock, wait)
  BY <1>2 DEF IGood, Good, LocksOk
<1> QED
  BY <1>1, <1>2, <1>3 DEF SlotGood

\* The table of a LOCK whose counts have changed; it leaves the table if it is not used any more.
LEMMA TableAfter ==
    ASSUME IGood, NEW t \in Tags, lockHash[t] # 0, NEW L, L.tag = t,
           NEW H2 \in SUBSET Key, H2 \subseteq proclockHash,
           IF L.nRequested = 0 THEN FreeLock(t) ELSE UNCHANGED <<lockHash, freeLocks>>,
           NEW Ls, Ls = [lock EXCEPT ![lockHash[t]] = L]
    PROVE  /\ TableOk(lockHash', freeLocks', Ls, H2)
           /\ \A r \in Slots \ {lockHash[t]} : r \in Range(lockHash') <=> r \in Range(lockHash)
           /\ lockHash[t] \notin Range(lockHash') => L.nRequested = 0
           /\ L.nRequested # 0 => lockHash[t] \in Range(lockHash')
<1> DEFINE s == lockHash[t]
<1>1. /\ s \in Slots /\ s \in Range(lockHash) /\ lock[s].tag = t /\ lock \in [Slots -> LockRecord]
      /\ TableOk(lockHash, freeLocks, lock, proclockHash)
  BY LockFound
<1>2. \A r \in Slots : Ls[r].tag = lock[r].tag
  BY <1>1
<1>3. CASE L.nRequested = 0
  <2>1. lockHash' = [lockHash EXCEPT ![t] = 0] /\ freeLocks' = <<s>> \o freeLocks
    BY <1>3 DEF FreeLock
  <2>3. TableOk(lockHash', freeLocks', Ls, H2) /\ RangeWithout(lockHash', lockHash, lockHash[t])
    <3>1. /\ TableOk(lockHash, freeLocks, lock, proclockHash)
          /\ \A r \in Slots : Ls[r].tag = lock[r].tag
          /\ lockHash' = [lockHash EXCEPT ![t] = 0] /\ freeLocks' = <<lockHash[t]>> \o freeLocks
      BY <1>1, <1>2, <2>1
    <3>2. TableFreed(lockHash, freeLocks, lock, proclockHash, t, lockHash', freeLocks', Ls, H2)
      BY <3>1 DEF TableFreed
    <3> QED
      BY <3>2, FreeTable
  <2>2. /\ TableOk(lockHash', freeLocks', Ls, H2)
        /\ \A r \in Slots : r \in Range(lockHash') <=> r \in Range(lockHash) /\ r # lockHash[t]
    BY <2>3 DEF RangeWithout
  <2> QED
    BY <1>3, <2>1, <2>2
<1>4. CASE L.nRequested # 0
  <2>1. lockHash' = lockHash /\ freeLocks' = freeLocks
    BY <1>4
  <2>2. TableOk(lockHash, freeLocks, Ls, H2)
    BY <1>1, <1>2, SameTable
  <2> QED
    BY <1>1, <1>4, <2>1, <2>2
<1> QED
  BY <1>3, <1>4

\* LockRelease preserves the invariant, the removal of the PROCLOCK, of the LOCK and the wakeup included.
LEMMA LockReleaseStep ==
    ASSUME IInv, NEW p \in Procs, NEW t \in Tags, NEW x \in Xids, NEW m \in Modes, LockRelease(p, t, x, m)
    PROVE  IInv'
<1> USE DEF IInv
<1> DEFINE s == lockHash[t]
           k == <<s, p, x>>
           H == proclockHash
           pl == proclock
           L == Unheld(lock[s], m)
           Ls == [lock EXCEPT ![s] = L]
           pl2 == [proclock EXCEPT ![k] = Unhold(@, m)]
           h == <<k, m, proclock[k].holding[m]>>
           X == Holds(pl, AtSlot(H, s))
           S == IF WakeupNeeded(L, m) /\ L.nRequested # 0 THEN {s} ELSE {}
<1>1. /\ pc[p] = "run" /\ LockMgrLockFree /\ s # 0 /\ k \in H /\ pl[k].holding[m] > 0
      /\ IF L.nRequested = 0 THEN FreeLock(t) ELSE UNCHANGED <<lockHash, freeLocks>>
      /\ IF pl[k].nHolding = 1 THEN DeleteProclock(k) ELSE UNCHANGED <<lockLink, procHolders, proclockHash>>
      /\ ProcLockWakeup(S, Ls, pl2, wait, sem)
      /\ UNCHANGED <<pc, rest>>
  BY DEF LockRelease, Unheld
<1>2. /\ s \in Slots /\ s \in Range(lockHash) /\ lock[s].tag = t /\ lock \in [Slots -> LockRecord]
      /\ SlotOk(lock[s], s, H, pl, wait) /\ Queued(lock[s], s, wait)
  BY <1>1, LockFound
<1>3. /\ HoldersOk(H, pl, procHolders) /\ H \in SUBSET Key /\ pl \in [Key -> ProclockRecord]
      /\ k \in Key /\ k[1] = s /\ k[2] = p /\ CountsOwn(pl, k)
  <2>1. HoldersOk(H, pl, procHolders)
    BY DEF IGood, Good
  <2> QED
    BY <1>1, <2>1 DEF HoldersOk
<1>4. Unholding(pl, k, m, pl2, h)
  BY <1>1, <1>3, UnholdHolds
<1> HIDE DEF k, h, pl2
<1>5. pl2 \in [Key -> ProclockRecord] /\ (\A l \in Key : l # k => pl2[l] = pl[l]) /\ CountsOwn(pl2, k)
  BY <1>4 DEF Unholding
<1>6. h \in X /\ Holds(pl2, AtSlot(H, s)) = X \ {h}
  <2>1. AtSlot(H, s) \in SUBSET Key /\ k \in AtSlot(H, s)
    BY <1>1, <1>3 DEF AtSlot
  <2> QED
    BY <1>4, <2>1 DEF Unholding
<1>7. /\ proclockHash' \in SUBSET Key /\ proclockHash' \subseteq H /\ \A l \in Key : l # k => (l \in proclockHash' <=> l \in H)
      /\ ListsOk(proclockHash', procHolders')
      /\ Holds(pl2, AtSlot(proclockHash', s)) = X \ {h}
  <2>1. CASE pl[k].nHolding = 1
    <3>1. proclockHash' = H \ {k} /\ ListsOk(proclockHash', procHolders')
      BY <1>1, <1>3, <2>1, DeleteFacts
    <3>2. Holds(pl2, {k}) = {}
      BY <1>4, <2>1 DEF Unholding
    <3>3. Holds(pl2, AtSlot(H \ {k}, s)) = Holds(pl2, AtSlot(H, s))
      BY <1>1, <3>2, EmptyGoes
    <3> QED
      BY <1>3, <1>6, <3>1, <3>3
  <2>2. CASE pl[k].nHolding # 1
    <3>1. proclockHash' = H /\ procHolders' = procHolders
      BY <1>1, <2>2
    <3>2. ListsOk(H, procHolders)
      BY <1>3, ListsSplit
    <3> QED
      BY <1>3, <1>6, <3>1, <3>2
  <2> QED
    BY <2>1, <2>2
<1>8. OnlyThis(k, H, pl, proclockHash', pl2)
  BY <1>5, <1>7 DEF OnlyThis
<1>9. Tally(lock[s], X, Asks(wait, s)) /\ Mask(lock[s], Asks(wait, s)) /\ Apart(X)
  BY <1>2 DEF SlotOk
<1> HIDE DEF X
<1>10. Tally(L, X \ {h}, Asks(wait, s))
  <2>1. h[2] = m
    BY DEF h
  <2>2. Tally(Unheld(lock[s], h[2]), X \ {h}, Asks(wait, s))
    BY <1>6, <1>9, TallyUnhold
  <2> QED
    BY <2>1, <2>2
<1>11. L \in LockRecord /\ L.tag = t /\ L.waitMask = lock[s].waitMask /\ L.waitProcs = lock[s].waitProcs
  <2>1. lock[s] \in LockRecord
    BY <1>2
  <2> QED
    BY <1>2, <2>1, UnheldFields
<1> HIDE DEF L
<1>12. /\ TableOk(lockHash', freeLocks', Ls, proclockHash')
       /\ \A r \in Slots \ {s} : r \in Range(lockHash') <=> r \in Range(lockHash)
       /\ s \notin Range(lockHash') => L.nRequested = 0
       /\ L.nRequested # 0 => s \in Range(lockHash')
  BY <1>1, <1>7, <1>11, TableAfter
<1>13. SlotGood(lockHash', s, L, proclockHash', pl2, wait)
  <2>1. Mask(L, Asks(wait, s)) /\ Queued(L, s, wait)
    BY <1>2, <1>9, <1>11 DEF Mask, Queued
  <2>2. Apart(X \ {h})
    BY <1>9, ApartLess
  <2>3. /\ Tally(L, Holds(pl2, AtSlot(proclockHash', s)), Asks(wait, s)) /\ Apart(Holds(pl2, AtSlot(proclockHash', s)))
    BY <1>7, <1>10, <2>2
  <2> QED
    BY <1>12, <2>1, <2>3, SlotAfter
<1>14. /\ pc = [pc EXCEPT ![k[2]] = "run"] /\ pc[k[2]] = "run"
  <2>1. pc = [q \in Procs |-> pc[q]]
    BY WaitOf
  <2> QED
    BY <1>1, <1>3, <2>1
<1>15. Ls = [lock EXCEPT ![k[1]] = L]
  BY <1>3
<1>b. ASSUME S = {} PROVE Blocked(L.waitProcs, Holds(pl2, AtSlot(proclockHash', s)), wait)
  <2>1. CASE L.nRequested = 0
    <3>1. L.waitProcs = <<>>
      BY <1>11, <1>13, <2>1, NobodyAsks
    <3> QED
      BY <3>1, EmptyBlocked
  <2>2. CASE ~WakeupNeeded(L, m)
    <3> DEFINE Y == {h}
    <3>1. \A e \in Y : e[2] \in Modes /\ ~WakeupNeeded(lock[s], e[2])
      BY <1>11, <2>2 DEF h, WakeupNeeded
    <3> HIDE DEF Y
    <3>2. Blocked(lock[s].waitProcs, Holds(proclock, AtSlot(proclockHash, s)) \ Y, wait)
      BY <1>2, <3>1, LessBlocked
    <3> QED
      BY <1>7, <1>11, <3>2 DEF X, Y
  <2> QED
    BY <1>b, <2>1, <2>2
<1>c. Stuck(S, Ls, proclockHash', pl2, wait)
  <2>1. (S = {} \/ S = {k[1]}) /\ L.waitProcs = lock[k[1]].waitProcs
    BY <1>3, <1>11
  <2>2. S = {} => Blocked(L.waitProcs, Holds(pl2, AtSlot(proclockHash', k[1])), wait)
    BY <1>b, <1>3
  <2> HIDE DEF S, Ls, s
  <2> QED
    BY <1>3, <1>7, <1>8, <1>15, <2>1, <2>2, ReleasedStuck
<1> HIDE DEF Ls, s, S
<1>16. Before(lockHash', freeLocks', Ls, proclockHash', pl2, procHolders', pc)
  BY <1>3, <1>5, <1>7, <1>8, <1>11, <1>12, <1>13, <1>14, <1>15, Released
<1>17. S \in SUBSET Slots /\ S \subseteq Range(lockHash')
  BY <1>2, <1>12 DEF S
<1>18. ProcLockWakeup(S, Ls, pl2, wait, sem)
  BY <1>1 DEF Ls
<1>19. /\ Good(lockHash', freeLocks', lock', proclockHash', proclock', procHolders', wait', sem', pc)
       /\ Stuck({}, lock', proclockHash', proclock', wait')
  BY <1>16, <1>17, <1>18, <1>c, WakeupAfter
<1>20. IGood' /\ AllStuck'
  BY <1>1, <1>19 DEF IGood, AllStuck
<1>21. Releasing'
  BY <1>1 DEF Releasing, LockMgrLockFree
<1> QED
  BY <1>20, <1>21

\* What a step that gives back locks of the object at s leaves of its LOCK.
SlotReleased(s, L, Ls, H2, pl2) ==
    /\ L \in LockRecord
    /\ TableOk(lockHash', freeLocks', Ls, H2)
    /\ \A r \in Slots \ {s} : r \in Range(lockHash') <=> r \in Range(lockHash)
    /\ SlotGood(lockHash', s, L, H2, pl2, wait)
    /\ L.nRequested # 0 => s \in Range(lockHash')
    /\ L.waitProcs = lock[s].waitProcs
    /\ L.nRequested # 0 => L.waitMask = lock[s].waitMask /\ s \in Range(lockHash)

\* What LockReleaseAll does to the PROCLOCK k and to its LOCK L.
ReleasesAll(k, L, missing) ==
    /\ k \in proclockHash
    /\ L = Unrequest(lock[k[1]], proclock[k])
    /\ missing <=> L.nRequested = 0 /\ lockHash[L.tag] = 0
    /\ IF L.nRequested = 0 /\ ~missing THEN FreeLock(L.tag) ELSE UNCHANGED <<lockHash, freeLocks>>

\* A new PROCLOCK holds nothing.
LEMMA NewProclockType == NewProclock \in ProclockRecord /\ \A m \in Modes : NewProclock.holding[m] = 0
<1>1. Zero \in [Modes -> Nat] /\ \A m \in Modes : Zero[m] = 0
  BY DEF Zero
<1> HIDE DEF Zero
<1> QED
  BY <1>1 DEF NewProclock, ProclockRecord

\* The holds that k gives back.
GivesBack(k, H, pl, pl2) ==
    /\ Holds(pl, {k}) \subseteq Holds(pl, AtSlot(H, k[1]))
    /\ Holds(pl2, AtSlot(H \ {k}, k[1])) = Holds(pl, AtSlot(H, k[1])) \ Holds(pl, {k})
    /\ pl[k] \in ProclockRecord /\ pl[k].nHolding = Cardinality(Holds(pl, {k}))
    /\ \A m \in Modes : pl[k].holding[m] = Cardinality(Of(Holds(pl, {k}), m))
    /\ pl2 \in [Key -> ProclockRecord] /\ OnlyThis(k, H, pl, H \ {k}, pl2)

\* A PROCLOCK that is given back takes its holds along.
LEMMA GivenBack ==
    ASSUME NEW H \in SUBSET Key, NEW pl \in [Key -> ProclockRecord], NEW k \in H, CountsOwn(pl, k),
           NEW pl2, pl2 = [pl EXCEPT ![k] = NewProclock]
    PROVE  GivesBack(k, H, pl, pl2)
<1>1. k \in Key /\ pl[k] \in ProclockRecord
  OBVIOUS
<1>2. pl2 \in [Key -> ProclockRecord] /\ pl2[k] = NewProclock /\ \A l \in Key : l # k => pl2[l] = pl[l]
  <2>1. NewProclock \in ProclockRecord
    BY NewProclockType
  <2> HIDE DEF NewProclock
  <2> QED
    BY <1>1, <2>1
<1>3. OnlyThis(k, H, pl, H \ {k}, pl2)
  BY <1>2 DEF OnlyThis
<1> DEFINE K == AtSlot(H, k[1])
<1>4. k \in K /\ AtSlot(H \ {k}, k[1]) = K \ {k} /\ K \ {k} \in SUBSET Key
  BY DEF AtSlot
<1> HIDE DEF K
<1>5. Holds(pl, K) = Holds(pl, K \ {k}) \cup Holds(pl, {k}) /\ Holds(pl, K \ {k}) = Holds(pl, K) \ Holds(pl, {k})
  BY <1>4, HoldsSplit
<1>6. Holds(pl2, K \ {k}) = Holds(pl, K \ {k})
  <2>1. OthersHold(k, H, pl, H \ {k}, pl2)
    <3>1. H \ {k} \in SUBSET Key
      OBVIOUS
    <3> QED
      BY <1>1, <1>3, <3>1, OtherHolds
  <2> QED
    BY <1>4, <2>1 DEF OthersHold
<1>7. \A m \in Modes : pl[k].holding[m] = Cardinality(Of(Holds(pl, {k}), m))
  <2> SUFFICES ASSUME NEW m \in Modes PROVE pl[k].holding[m] = Cardinality(Of(Holds(pl, {k}), m))
    OBVIOUS
  <2>1. pl[k].holding[m] \in 0..MaxHold
    <3>1. pl[k].holding \in [Modes -> Nat] /\ pl[k].holding[m] <= MaxHold
      BY <1>1 DEF ProclockRecord, CountsOwn
    <3> QED
      BY <3>1, MaxHoldNat
  <2> QED
    BY <1>1, <2>1, HoldsOne
<1>8. pl[k].nHolding = Cardinality(Holds(pl, {k}))
  BY DEF CountsOwn
<1> QED
  BY <1>1, <1>2, <1>3, <1>4, <1>5, <1>6, <1>7, <1>8 DEF K, GivesBack

\* The LOCK is in the table.
LEMMA ReleaseFound ==
    ASSUME IGood, NEW k, NEW L, NEW missing, ReleasesAll(k, L, missing), k[1] \in Range(lockHash),
           NEW Ls, Ls = [lock EXCEPT ![k[1]] = L], NEW pl2, pl2 = [proclock EXCEPT ![k] = NewProclock]
    PROVE  SlotReleased(k[1], L, Ls, proclockHash \ {k}, pl2)
<1> DEFINE s == k[1]
           H == proclockHash
           pl == proclock
           X == Holds(pl, AtSlot(H, s))
           Y == Holds(pl, {k})
           R == Asks(wait, s)
<1>1. /\ HoldersOk(H, pl, procHolders) /\ H \in SUBSET Key /\ pl \in [Key -> ProclockRecord]
      /\ k \in H /\ k \in Key /\ CountsOwn(pl, k) /\ s \in Slots
  <2>1. HoldersOk(H, pl, procHolders)
    BY DEF IGood, Good
  <2>2. k \in H
    BY DEF ReleasesAll
  <2>3. k \in Key
    BY <2>1, <2>2 DEF HoldersOk
  <2> QED
    BY <2>1, <2>2, <2>3 DEF HoldersOk, Key
<1>2. PICK t \in Tags : lockHash[t] = s
  <2>1. TableOk(lockHash, freeLocks, lock, H)
    BY DEF IGood, Good
  <2> QED
    BY <1>1, <2>1, TableFacts
<1>3. s # 0
  BY <1>1, NumSlotsNat DEF Slots
<1>4. /\ lock[s].tag = t /\ lock \in [Slots -> LockRecord]
      /\ SlotOk(lock[s], s, H, pl, wait) /\ Queued(lock[s], s, wait)
  BY <1>2, <1>3, LockFound
<1>5. Tally(lock[s], X, R) /\ Mask(lock[s], R) /\ Apart(X) /\ lock[s] \in LockRecord
  BY <1>1, <1>4 DEF SlotOk
<1>6. /\ Y \subseteq X /\ Holds(pl2, AtSlot(H \ {k}, s)) = X \ Y
      /\ pl[k] \in ProclockRecord /\ pl[k].nHolding = Cardinality(Y)
      /\ \A m \in Modes : pl[k].holding[m] = Cardinality(Of(Y, m))
  <2>1. GivesBack(k, H, pl, pl2)
    BY <1>1, GivenBack
  <2> QED
    BY <2>1 DEF GivesBack
<1> HIDE DEF X, Y
<1>7. L = Unrequest(lock[s], pl[k])
  BY DEF ReleasesAll
<1>8. /\ lock[s].nRequested = pl[k].nHolding => R = {} /\ X = Y
      /\ lock[s].nRequested # pl[k].nHolding => Tally(L, X \ Y, R) /\ L.nRequested # 0
  <2> DEFINE c == pl[k]
  <2>1. /\ Tally(lock[s], X, R) /\ Y \subseteq X /\ c \in ProclockRecord /\ c.nHolding = Cardinality(Y)
        /\ \A m \in Modes : c.holding[m] = Cardinality(Of(Y, m))
    BY <1>5, <1>6
  <2> HIDE DEF c, R
  <2>2. /\ lock[s].nRequested = c.nHolding => R = {} /\ X = Y
        /\ lock[s].nRequested # c.nHolding =>
              Tally(Unrequest(lock[s], c), X \ Y, R) /\ Unrequest(lock[s], c).nRequested # 0
    BY <2>1, TallyRelease
  <2> QED
    BY <1>7, <2>2 DEF c
<1>9. /\ lock[s].nRequested # pl[k].nHolding => Unrequested(L, lock[s], pl[k])
      /\ lock[s].nRequested = pl[k].nHolding =>
            L \in LockRecord /\ L.nRequested = 0 /\ L.tag = lock[s].tag /\ L.waitProcs = lock[s].waitProcs
  BY <1>5, <1>6, <1>7, UnrequestFields
<1>10. /\ L \in LockRecord /\ L.tag = t /\ L.waitProcs = lock[s].waitProcs
       /\ L.nRequested # 0 => L.waitMask = lock[s].waitMask
  BY <1>4, <1>9 DEF Unrequested
<1>11. IF L.nRequested = 0 THEN FreeLock(t) ELSE UNCHANGED <<lockHash, freeLocks>>
  BY <1>2, <1>3, <1>10 DEF ReleasesAll
<1>12. /\ TableOk(lockHash', freeLocks', Ls, H \ {k})
       /\ \A r \in Slots \ {s} : r \in Range(lockHash') <=> r \in Range(lockHash)
       /\ s \notin Range(lockHash') => L.nRequested = 0
       /\ L.nRequested # 0 => s \in Range(lockHash')
  <2>1. H \ {k} \in SUBSET Key /\ H \ {k} \subseteq H /\ lockHash[t] # 0
    BY <1>1, <1>2, <1>3
  <2>2. Ls = [lock EXCEPT ![lockHash[t]] = L]
    BY <1>2
  <2>3. /\ TableOk(lockHash', freeLocks', Ls, H \ {k})
        /\ \A r \in Slots \ {lockHash[t]} : r \in Range(lockHash') <=> r \in Range(lockHash)
        /\ lockHash[t] \notin Range(lockHash') => L.nRequested = 0
        /\ L.nRequested # 0 => lockHash[t] \in Range(lockHash')
    BY <1>10, <1>11, <2>1, <2>2, TableAfter
  <2> QED
    BY <1>2, <2>3
<1>13. SlotGood(lockHash', s, L, H \ {k}, pl2, wait)
  <2>1. Queued(L, s, wait)
    BY <1>4, <1>10 DEF Queued
  <2>2. CASE L.nRequested # 0
    <3>1. Tally(L, X \ Y, R) /\ Mask(L, R)
      BY <1>5, <1>8, <1>9, <1>10, <2>2 DEF Mask
    <3>2. Apart(X \ Y)
      BY <1>5, ApartLess
    <3> QED
      BY <1>6, <1>12, <2>1, <3>1, <3>2, SlotAfter
  <2>3. CASE L.nRequested = 0
    <3>1. R = {} /\ X = Y
      BY <1>8, <2>3
    <3>2. Waiting(wait, s) = {} /\ Holds(pl2, AtSlot(H \ {k}, s)) = {}
      BY <1>6, <3>1 DEF Asks, Pairs
    <3>3. s \notin Range(lockHash')
      <4>1. TableFreed(lockHash, freeLocks, lock, H, t, lockHash', freeLocks', lock, H)
        <5>1. TableOk(lockHash, freeLocks, lock, H)
          BY DEF IGood, Good
        <5> QED
          BY <1>1, <1>2, <1>3, <1>11, <2>3, <5>1 DEF TableFreed, FreeLock
      <4>2. RangeWithout(lockHash', lockHash, lockHash[t])
        BY <4>1, FreeTable
      <4> QED
        BY <1>1, <1>2, <4>2 DEF RangeWithout
    <3> QED
      BY <2>1, <2>3, <3>2, <3>3 DEF SlotGood, Unused
  <2> QED
    BY <2>2, <2>3
<1> QED
  BY <1>10, <1>12, <1>13 DEF SlotReleased

\* The LOCK has been freed before, and its PROCLOCK is empty.
LEMMA ReleaseDangling ==
    ASSUME IGood, NEW k, NEW L, NEW missing, ReleasesAll(k, L, missing), k[1] \notin Range(lockHash),
           NEW Ls, Ls = [lock EXCEPT ![k[1]] = L], NEW pl2, pl2 = [proclock EXCEPT ![k] = NewProclock]
    PROVE  SlotReleased(k[1], L, Ls, proclockHash \ {k}, pl2) /\ missing
<1> DEFINE s == k[1]
           H == proclockHash
           pl == proclock
<1>1. /\ HoldersOk(H, pl, procHolders) /\ H \in SUBSET Key /\ pl \in [Key -> ProclockRecord]
      /\ k \in H /\ k \in Key /\ CountsOwn(pl, k) /\ s \in Slots
  <2>1. HoldersOk(H, pl, procHolders)
    BY DEF IGood, Good
  <2>2. k \in H
    BY DEF ReleasesAll
  <2>3. k \in Key
    BY <2>1, <2>2 DEF HoldersOk
  <2> QED
    BY <2>1, <2>2, <2>3 DEF HoldersOk, Key
<1>2. lock \in [Slots -> LockRecord] /\ SlotGood(lockHash, s, lock[s], H, pl, wait)
  BY <1>1 DEF IGood, Good, LocksOk
<1>3. Queued(lock[s], s, wait) /\ lock[s].nRequested = 0 /\ Waiting(wait, s) = {} /\ Holds(pl, AtSlot(H, s)) = {}
  BY <1>2 DEF SlotGood, Unused
<1>4. /\ Holds(pl, {k}) = {} /\ Holds(pl2, AtSlot(H \ {k}, s)) = {}
      /\ pl[k] \in ProclockRecord /\ pl[k].nHolding = 0
  <2>1. /\ Holds(pl, {k}) \subseteq Holds(pl, AtSlot(H, s))
        /\ Holds(pl2, AtSlot(H \ {k}, s)) = Holds(pl, AtSlot(H, s)) \ Holds(pl, {k})
        /\ pl[k] \in ProclockRecord /\ pl[k].nHolding = Cardinality(Holds(pl, {k}))
    <3>1. GivesBack(k, H, pl, pl2)
      BY <1>1, GivenBack
    <3> QED
      BY <3>1 DEF GivesBack
  <2> QED
    BY <1>3, <2>1, FS_EmptySet
<1>5. L \in LockRecord /\ L.nRequested = 0 /\ L.tag = lock[s].tag /\ L.waitProcs = lock[s].waitProcs
  <2>1. L = Unrequest(lock[s], pl[k]) /\ lock[s] \in LockRecord
    BY <1>1, <1>2 DEF ReleasesAll
  <2> QED
    BY <1>3, <1>4, <2>1, UnrequestFields
<1>6. TableOk(lockHash, freeLocks, lock, H)
  BY DEF IGood, Good
<1>7. lockHash[L.tag] = 0
  BY <1>1, <1>5, <1>6 DEF TableOk
<1>8. missing /\ lockHash' = lockHash /\ freeLocks' = freeLocks
  BY <1>5, <1>7 DEF ReleasesAll
<1>9. TableOk(lockHash, freeLocks, Ls, H \ {k})
  <2>1. \A r \in Slots : Ls[r].tag = lock[r].tag
    BY <1>1, <1>2, <1>5
  <2>2. H \ {k} \in SUBSET Key
    BY <1>1
  <2> QED
    BY <1>6, <2>1, <2>2, SameTable
<1>10. SlotGood(lockHash', s, L, H \ {k}, pl2, wait)
  BY <1>3, <1>4, <1>5, <1>8 DEF SlotGood, Unused, Queued
<1> QED
  BY <1>5, <1>8, <1>9, <1>10 DEF SlotReleased

\* LockReleaseAll preserves the invariant, PROCLOCK by PROCLOCK.
LEMMA LockReleaseAllStep ==
    ASSUME IInv, NEW p \in Procs, LockReleaseAll(p)
    PROVE  IInv'
<1> USE DEF IInv
<1> DEFINE k == Head(rest)
           s == k[1]
           H == proclockHash
           L == Unrequest(lock[s], proclock[k])
           Ls == [lock EXCEPT ![s] = L]
           pl2 == [proclock EXCEPT ![k] = NewProclock]
           missing == L.nRequested = 0 /\ lockHash[L.tag] = 0
           needed == L.nRequested # 0 /\ \E i \in Modes : proclock[k].holding[i] > 0 /\ WakeupNeeded(L, i)
           S == IF needed THEN {s} ELSE {}
           a == IF rest' = <<>> THEN "run" ELSE "release"
<1>1. /\ pc[p] = "release" /\ DeleteProclock(k)
      /\ IF L.nRequested = 0 /\ ~missing THEN FreeLock(L.tag) ELSE UNCHANGED <<lockHash, freeLocks>>
      /\ ProcLockWakeup(S, Ls, pl2, wait, sem)
      /\ rest' = (IF missing THEN <<>> ELSE Tail(rest))
      /\ pc' = [pc EXCEPT ![p] = a]
  BY DEF LockReleaseAll
<1>2. /\ \A q \in Procs : pc[q] = "release" => p = q
      /\ rest # <<>> /\ rest \in Seq(Key) /\ Once(rest)
      /\ ToSet(rest) \subseteq {l \in H : l[2] = p}
  BY <1>1 DEF Releasing
<1>3. k \in H /\ k[2] = p
  <2>1. Head(rest) \in ToSet(rest)
    BY <1>2, SetOf
  <2> QED
    BY <1>2, <2>1
<1>4. HoldersOk(H, proclock, procHolders) /\ H \in SUBSET Key /\ proclock \in [Key -> ProclockRecord] /\ k \in Key /\ CountsOwn(proclock, k) /\ s \in Slots
  <2>1. HoldersOk(H, proclock, procHolders)
    BY DEF IGood, Good
  <2>2. k \in Key
    BY <1>3, <2>1 DEF HoldersOk
  <2> QED
    BY <1>3, <2>1, <2>2 DEF HoldersOk, Key
<1>5. ReleasesAll(k, L, missing)
  BY <1>1, <1>3 DEF ReleasesAll
<1>6. pl2 \in [Key -> ProclockRecord] /\ OnlyThis(k, H, proclock, H \ {k}, pl2)
  <2>1. k \in H /\ pl2 = [proclock EXCEPT ![k] = NewProclock]
    BY <1>3
  <2> HIDE DEF k, pl2
  <2>2. GivesBack(k, H, proclock, pl2)
    BY <1>4, <2>1, GivenBack
  <2> QED
    BY <2>2 DEF GivesBack
<1>r. /\ Holds(pl2, AtSlot(H \ {k}, s)) = Holds(proclock, AtSlot(H, s)) \ Holds(proclock, {k})
      /\ S = {} => L.nRequested = 0 \/ \A i \in Modes : proclock[k].holding[i] > 0 => ~WakeupNeeded(L, i)
  <2>1. k \in H /\ pl2 = [proclock EXCEPT ![k] = NewProclock]
    BY <1>3
  <2>2. S = {} => L.nRequested = 0 \/ \A i \in Modes : proclock[k].holding[i] > 0 => ~WakeupNeeded(L, i)
    OBVIOUS
  <2> HIDE DEF k, pl2
  <2>3. GivesBack(k, H, proclock, pl2)
    BY <1>4, <2>1, GivenBack
  <2> QED
    BY <2>2, <2>3 DEF GivesBack
<1> HIDE DEF L, missing
<1>7. SlotReleased(s, L, Ls, H \ {k}, pl2)
  <2>1. CASE s \in Range(lockHash)
    BY <1>5, <2>1, ReleaseFound
  <2>2. CASE s \notin Range(lockHash)
    BY <1>5, <2>2, ReleaseDangling
  <2> QED
    BY <2>1, <2>2
<1>8. proclockHash' = H \ {k} /\ ListsOk(H \ {k}, procHolders')
  <2>1. proclockHash' = proclockHash \ {k} /\ ListsOk(proclockHash', procHolders')
    BY <1>1, <1>4, DeleteFacts
  <2> QED
    BY <2>1
<1>9. a \in {"run", "release"} /\ (a = "release" => rest' # <<>>) /\ pc = [q \in Procs |-> pc[q]]
  BY WaitOf
<1> HIDE DEF a, k, s, pl2, S, H
<1>10. Before(lockHash', freeLocks', Ls, H \ {k}, pl2, procHolders', pc')
  <2>1. /\ L \in LockRecord /\ TableOk(lockHash', freeLocks', Ls, H \ {k})
        /\ \A r \in Slots \ {s} : r \in Range(lockHash') <=> r \in Range(lockHash)
        /\ SlotGood(lockHash', s, L, H \ {k}, pl2, wait)
    BY <1>7 DEF SlotReleased
  <2>2. H \ {k} \in SUBSET Key /\ k \notin H \ {k} /\ pc[k[2]] \in {"run", "abort", "release"}
    BY <1>1, <1>3, <1>4
  <2>3. Ls = [lock EXCEPT ![k[1]] = L] /\ pc' = [pc EXCEPT ![k[2]] = a] /\ a \in {"run", "abort", "release"} /\ s = k[1] /\ H = proclockHash
    BY <1>1, <1>3, <1>9 DEF s, H
  <2> HIDE DEF Ls
  <2> DEFINE H2 == H \ {k}
  <2>4. /\ TableOk(lockHash', freeLocks', Ls, H2) /\ ListsOk(H2, procHolders') /\ H2 \in SUBSET Key
        /\ (k \in H2 => CountsOwn(pl2, k)) /\ SlotGood(lockHash', k[1], L, H2, pl2, wait)
        /\ OnlyThis(k, proclockHash, proclock, H2, pl2) /\ pl2 \in [Key -> ProclockRecord]
        /\ \A r \in Slots \ {k[1]} : r \in Range(lockHash') <=> r \in Range(lockHash)
    BY <1>6, <1>8, <2>1, <2>2, <2>3
  <2> HIDE DEF H2
  <2>5. Before(lockHash', freeLocks', Ls, H2, pl2, procHolders', pc')
    BY <1>4, <2>1, <2>2, <2>3, <2>4, Released
  <2> QED
    BY <2>5 DEF H2
<1>11. S \in SUBSET Slots /\ S \subseteq Range(lockHash')
  BY <1>4, <1>7 DEF S, SlotReleased
<1>12. ProcLockWakeup(S, Ls, pl2, wait, sem)
  BY <1>1 DEF S
<1>l. L \in LockRecord /\ SlotGood(lockHash', s, L, H \ {k}, pl2, wait) /\ L.waitProcs = lock[s].waitProcs
      /\ (L.nRequested # 0 => L.waitMask = lock[s].waitMask /\ s \in Range(lockHash))
  BY <1>7 DEF SlotReleased
<1>b. ASSUME S = {} PROVE Blocked(L.waitProcs, Holds(pl2, AtSlot(H \ {k}, s)), wait)
  <2>1. CASE L.nRequested = 0
    <3>1. L.waitProcs = <<>>
      BY <1>l, <2>1, NobodyAsks
    <3> QED
      BY <3>1, EmptyBlocked
  <2>2. CASE L.nRequested # 0
    <3> DEFINE Y == Holds(proclock, {k})
    <3>1. ASSUME NEW e \in Y PROVE e[2] \in Modes /\ ~WakeupNeeded(lock[s], e[2])
      <4>1. e[1] = k /\ e[2] \in Modes /\ e[3] \in 1..MaxHold /\ e[3] <= proclock[e[1]].holding[e[2]]
        BY HoldsTriples
      <4>2. proclock[k].holding[e[2]] \in Nat
        BY <1>4, <4>1 DEF ProclockRecord
      <4>3. proclock[k].holding[e[2]] > 0
        BY <4>1, <4>2, MaxHoldNat
      <4>4. ~WakeupNeeded(L, e[2])
        BY <1>r, <1>b, <2>2, <4>1, <4>3
      <4> QED
        BY <1>l, <2>2, <4>1, <4>4 DEF WakeupNeeded
    <3> HIDE DEF Y
    <3>2. Blocked(lock[s].waitProcs, Holds(proclock, AtSlot(proclockHash, s)) \ Y, wait)
      BY <1>4, <1>l, <2>2, <3>1, LessBlocked
    <3> QED
      BY <1>r, <1>l, <3>2 DEF Y, H
  <2> QED
    BY <2>1, <2>2
<1>c. Stuck(S, Ls, H \ {k}, pl2, wait)
  <2> DEFINE H2 == H \ {k}
  <2>1. (S = {} \/ S = {k[1]}) /\ L.waitProcs = lock[k[1]].waitProcs /\ Ls = [lock EXCEPT ![k[1]] = L]
    BY <1>l DEF S, s
  <2>2. S = {} => Blocked(L.waitProcs, Holds(pl2, AtSlot(H2, k[1])), wait)
    BY <1>b DEF s
  <2>3. H2 \in SUBSET Key /\ OnlyThis(k, proclockHash, proclock, H2, pl2) /\ IGood /\ AllStuck
    BY <1>4, <1>6 DEF H
  <2> HIDE DEF H2, Ls
  <2>4. Stuck(S, Ls, H2, pl2, wait)
    BY <1>4, <2>1, <2>2, <2>3, ReleasedStuck
  <2> QED
    BY <2>4 DEF H2
<1> HIDE DEF Ls
<1>13. /\ Stuck({}, lock', H \ {k}, proclock', wait')
       /\ Good(lockHash', freeLocks', lock', H \ {k}, proclock', procHolders', wait', sem', pc')
  <2> DEFINE H2 == H \ {k}
  <2>1. Before(lockHash', freeLocks', Ls, H2, pl2, procHolders', pc') /\ Stuck(S, Ls, H2, pl2, wait)
    BY <1>10, <1>c
  <2> HIDE DEF H2
  <2>2. /\ Good(lockHash', freeLocks', lock', H2, proclock', procHolders', wait', sem', pc')
        /\ Stuck(S, Ls, H2, pl2, wait) => Stuck({}, lock', H2, proclock', wait')
    BY <1>11, <1>12, <2>1, WakeupAfter
  <2> QED
    BY <2>1, <2>2 DEF H2
<1>14. IGood' /\ AllStuck'
  BY <1>8, <1>13 DEF IGood, AllStuck, H
<1>15. Releasing'
  <2>1. \A q \in Procs : pc'[q] = "release" => q = p /\ a = "release"
    BY <1>1, <1>2, <1>9
  <2>2. ASSUME a = "release" PROVE rest' # <<>> /\ rest' \in Seq(Key) /\ Once(rest') /\ ToSet(rest') \subseteq {l \in proclockHash' : l[2] = p}
    <3>1. rest' # <<>> /\ rest' = Tail(rest)
      BY <1>1, <1>9, <2>2
    <3>2. Tail(rest) \in Seq(Key) /\ Once(Tail(rest)) /\ ToSet(Tail(rest)) = ToSet(rest) \ {k}
      BY <1>2, TailFacts DEF k
    <3> QED
      BY <1>2, <1>8, <3>1, <3>2
  <2> QED
    BY <2>1, <2>2 DEF Releasing
<1> QED
  BY <1>14, <1>15

\* A step that changes the wait of one process only.
LEMMA WaitsOwn ==
    ASSUME NEW pcs, NEW wt, NEW sm, NEW H, NEW pl, WaitsOk(pcs, wt, sm, H, pl), NEW p \in Procs,
           NEW w \in WaitRecord, NEW n, NEW a, WaitOk(p, a, w, n, H, pl)
    PROVE  WaitsOk([pcs EXCEPT ![p] = a], [wt EXCEPT ![p] = w], [sm EXCEPT ![p] = n], H, pl)
<1> DEFINE wt2 == [wt EXCEPT ![p] = w]  sm2 == [sm EXCEPT ![p] = n]  at2 == [pcs EXCEPT ![p] = a]
<1>1. /\ DOMAIN pcs = Procs /\ pcs = [q \in Procs |-> pcs[q]]
      /\ wt \in [Procs -> WaitRecord] /\ sm \in [Procs -> Nat]
      /\ \A q \in Procs : WaitOk(q, pcs[q], wt[q], sm[q], H, pl)
  BY DEF WaitsOk
<1>2. n \in Nat
  BY DEF WaitOk
<1>3. /\ wt2 \in [Procs -> WaitRecord] /\ wt2[p] = w /\ \A q \in Procs : q # p => wt2[q] = wt[q]
      /\ sm2 \in [Procs -> Nat] /\ sm2[p] = n /\ \A q \in Procs : q # p => sm2[q] = sm[q]
      /\ DOMAIN at2 = Procs /\ at2 = [q \in Procs |-> at2[q]] /\ at2[p] = a /\ \A q \in Procs : q # p => at2[q] = pcs[q]
  BY <1>1, <1>2
<1> HIDE DEF wt2, sm2, at2
<1>4. ASSUME NEW q \in Procs PROVE WaitOk(q, at2[q], wt2[q], sm2[q], H, pl)
  <2>1. CASE q = p
    BY <1>3, <2>1
  <2>2. CASE q # p
    BY <1>1, <1>3, <2>2
  <2> QED
    BY <2>1, <2>2
<1>5. WaitsOk(at2, wt2, sm2, H, pl)
  BY <1>3, <1>4 DEF WaitsOk
<1> QED
  BY <1>5 DEF wt2, sm2, at2

\* The holds and requests of now are finite.
LEMMA NowCounted ==
    ASSUME HoldersOk(proclockHash, proclock, procHolders), NEW wt, NEW s
    PROVE  Counted(s, proclockHash, proclock, wt)
<1> SUFFICES ASSUME NEW w \in Waiting(wt, s), NEW i \in Modes
             PROVE  LockCountMyLocks(w, s)[i] = Cardinality(Of(Mine(Holds(proclock, AtSlot(proclockHash, s)), w), i))
  BY DEF Counted
<1>1. w \in Procs
  BY DEF Waiting
<1> QED
  BY <1>1, CountMine

\* Who waits, waits for a LOCK that is in the table.
LEMMA WaitFound ==
    ASSUME IGood, NEW p \in Procs, wait[p].lock # 0
    PROVE  /\ wait[p].lock \in Slots /\ wait[p].lock \in Range(lockHash) /\ p \in Waiting(wait, wait[p].lock)
           /\ SlotOk(lock[wait[p].lock], wait[p].lock, proclockHash, proclock, wait)
           /\ Queued(lock[wait[p].lock], wait[p].lock, wait)
           /\ wait[p].mode \in Modes /\ wait[p].holder \in proclockHash /\ wait[p].holder \in Key
           /\ wait[p].holder[1] = wait[p].lock /\ wait[p].holder[2] = p
<1> DEFINE s == wait[p].lock
<1>1. WaitOk(p, pc[p], wait[p], sem[p], proclockHash, proclock) /\ wait \in [Procs -> WaitRecord]
  BY WaitOf
<1>2. /\ wait[p].mode \in Modes /\ wait[p].holder \in proclockHash /\ wait[p].holder[1] = s /\ wait[p].holder[2] = p
  BY <1>1 DEF WaitOk
<1>3. s \in Slots
  <2>1. wait[p] \in WaitRecord
    BY <1>1
  <2> QED
    BY <2>1 DEF WaitRecord
<1>4. p \in Waiting(wait, s)
  BY DEF Waiting
<1>5. SlotGood(lockHash, s, lock[s], proclockHash, proclock, wait) /\ proclockHash \subseteq Key
  BY <1>3 DEF IGood, Good, LocksOk, HoldersOk
<1>6. s \in Range(lockHash)
  BY <1>4, <1>5 DEF SlotGood, Unused
<1> QED
  BY <1>2, <1>3, <1>4, <1>5, <1>6 DEF SlotGood

\* RemoveFromWaitQueue, with the wakeup at its end, keeps everything right whoever leaves the queue.
LEMMA LeaveQueue ==
    ASSUME IGood, AllStuck, NEW p \in Procs, wait[p].lock # 0, NEW e \in {"ok", "error"}, NEW n, NEW a,
           WaitOk(p, a, [wait[p] EXCEPT !.lock = 0, !.errType = e], n, proclockHash, proclock),
           NEW sm2, sm2 = [sem EXCEPT ![p] = n], RemoveFromWaitQueue(p, e, sm2)
    PROVE  /\ Good(lockHash, freeLocks, lock', proclockHash, proclock', procHolders, wait', sem', [pc EXCEPT ![p] = a])
           /\ Stuck({}, lock', proclockHash, proclock', wait')
<1> DEFINE s == wait[p].lock
           m == wait[p].mode
           w == [wait[p] EXCEPT !.lock = 0, !.errType = e]
           wt2 == [wait EXCEPT ![p] = w]
           at2 == [pc EXCEPT ![p] = a]
           L == Dequeue(lock[s], p, m)
           Ls == [lock EXCEPT ![s] = L]
           k == wait[p].holder
           H == proclockHash
           pl == proclock
<1>1. /\ LocksOk(lockHash, lock, H, pl, wait) /\ HoldersOk(H, pl, procHolders)
      /\ WaitsOk(pc, wait, sem, H, pl) /\ H \in SUBSET Key /\ TableOk(lockHash, freeLocks, lock, H)
      /\ wait \in [Procs -> WaitRecord] /\ lock \in [Slots -> LockRecord]
  BY DEF IGood, Good, HoldersOk, WaitsOk, LocksOk
<1>2. /\ s \in Slots /\ s \in Range(lockHash) /\ p \in Waiting(wait, s)
      /\ SlotOk(lock[s], s, H, pl, wait) /\ Queued(lock[s], s, wait)
      /\ m \in Modes /\ k \in Key /\ k[1] = s
  BY WaitFound
<1>3. w \in WaitRecord /\ w.lock = 0 /\ w.mode = m /\ w.holder = k
  <2>1. wait[p] \in WaitRecord
    BY <1>1
  <2> QED
    BY <2>1 DEF WaitRecord
<1>4. ProcLockWakeup({s}, Ls, pl, wt2, sm2)
  <2>1. [wait EXCEPT ![p].lock = 0, ![p].errType = e] = wt2
    BY <1>1
  <2> QED
    BY <2>1 DEF RemoveFromWaitQueue
<1> HIDE DEF w
<1>5. wt2 \in [Procs -> WaitRecord] /\ wt2[p] = w /\ \A q \in Procs : q # p => wt2[q] = wait[q]
  BY <1>1, <1>3
<1>6. WaitsOk(at2, wt2, sm2, H, pl)
  <2>1. WaitOk(p, a, w, n, H, pl)
    BY DEF w
  <2> QED
    BY <1>1, <1>3, <2>1, WaitsOwn
<1> HIDE DEF wt2, at2
<1>7. /\ \A r \in Slots : Waiting(wt2, r) = Waiting(wait, r) \ {p}
      /\ \A q \in Procs : wt2[q].mode = wait[q].mode /\ wt2[q].holder = wait[q].holder
  <2>1. \A r \in Slots : r # 0
    BY NumSlotsNat DEF Slots
  <2>2. wt2[p].lock = 0
    BY <1>3, <1>5
  <2>3. \A r \in Slots, q \in Procs : wt2[q].lock = r <=> wait[q].lock = r /\ q # p
    BY <1>5, <2>1, <2>2
  <2> QED
    BY <1>3, <1>5, <2>3 DEF Waiting
<1>8. Asks(wt2, s) = Asks(wait, s) \ {<<p, m>>} /\ <<p, m>> \in Asks(wait, s)
  <2>1. Waiting(wait, s) \subseteq Procs
    BY DEF Waiting
  <2>2. Waiting(wt2, s) = Waiting(wait, s) \ {p}
    BY <1>2, <1>7
  <2>3. \A q \in Waiting(wait, s) : wt2[q].mode = wait[q].mode
    BY <1>7, <2>1
  <2>4. Asks(wt2, s) = {<<q, wait[q].mode>> : q \in Waiting(wait, s) \ {p}}
    BY <2>2, <2>3 DEF Asks, Pairs
  <2>5. Asks(wait, s) = {<<q, wait[q].mode>> : q \in Waiting(wait, s)}
    BY DEF Asks, Pairs
  <2> QED
    BY <1>2, <2>4, <2>5
<1>9. Tally(lock[s], Holds(pl, AtSlot(H, s)), Asks(wait, s)) /\ Mask(lock[s], Asks(wait, s)) /\ Apart(Holds(pl, AtSlot(H, s)))
  BY <1>2 DEF SlotOk
<1>10. Tally(L, Holds(pl, AtSlot(H, s)), Asks(wt2, s)) /\ Mask(L, Asks(wt2, s))
  <2> DEFINE X == Holds(pl, AtSlot(H, s))  R == Asks(wait, s)  M == lock[s]
  <2>1. Tally(M, X, R) /\ Mask(M, R) /\ <<p, m>> \in R /\ m \in Modes
    BY <1>2, <1>8, <1>9
  <2> HIDE DEF X, R, M, m
  <2>2. Tally(Dequeue(M, p, m), X, R \ {<<p, m>>}) /\ Mask(Dequeue(M, p, m), R \ {<<p, m>>})
    BY <2>1, TallyDequeue
  <2> QED
    BY <1>8, <2>2 DEF X, R, M
<1>11. L \in LockRecord /\ L.tag = lock[s].tag /\ L.waitProcs = Without(lock[s].waitProcs, {p})
  <2>1. lock[s] \in LockRecord
    BY <1>1, <1>2
  <2>2. Dequeued(L, lock[s], p, m)
    BY <1>2, <2>1, DequeueFields
  <2> QED
    BY <2>2 DEF Dequeued
<1>12. Queued(L, s, wt2)
  <2>1. lock[s].waitProcs \in Seq(Procs)
    <3>1. lock[s] \in LockRecord
      BY <1>1, <1>2
    <3> QED
      BY <3>1, RecordTypes
  <2>2. Once(lock[s].waitProcs) /\ ToSet(lock[s].waitProcs) = Waiting(wait, s)
    BY <1>2 DEF Queued
  <2>3. Once(Without(lock[s].waitProcs, {p})) /\ ToSet(Without(lock[s].waitProcs, {p})) = Waiting(wait, s) \ {p}
    BY <2>1, <2>2, WithoutFacts
  <2> QED
    BY <1>2, <1>7, <1>11, <2>3 DEF Queued
<1>13. SlotGood(lockHash, s, L, H, pl, wt2)
  BY <1>2, <1>9, <1>10, <1>12 DEF SlotGood, SlotOk
<1> HIDE DEF L
<1>14. LocksOk(lockHash, Ls, H, pl, wt2)
  <2>1. OnlyThis(k, H, pl, H, pl)
    BY DEF OnlyThis
  <2>2. Elsewhere(s, lockHash, wait, lockHash, wt2)
    <3>1. \A r \in Slots \ {s} : p \notin Waiting(wait, r)
      BY DEF Waiting
    <3>2. \A r \in Slots \ {s} : Waiting(wt2, r) = Waiting(wait, r)
      BY <1>7, <3>1
    <3> QED
      BY <1>7, <3>2 DEF Elsewhere, Waiting
  <2>3. Elsewhere(k[1], lockHash, wait, lockHash, wt2) /\ SlotGood(lockHash, k[1], L, H, pl, wt2) /\ Ls = [lock EXCEPT ![k[1]] = L]
    BY <1>2, <1>13, <2>2
  <2>4. k \in Key
    BY <1>2
  <2> HIDE DEF Ls, k
  <2>5. LocksOk(lockHash, [lock EXCEPT ![k[1]] = L], H, pl, wt2)
    BY <1>1, <1>11, <2>1, <2>3, <2>4, OneSlot
  <2> QED
    BY <2>3, <2>5
<1>15. TableOk(lockHash, freeLocks, Ls, H)
  <2>1. \A r \in Slots : Ls[r].tag = lock[r].tag
    BY <1>1, <1>2, <1>11
  <2> HIDE DEF Ls
  <2> QED
    BY <1>1, <2>1, SameTable
<1>k. Stuck({s}, Ls, H, pl, wt2)
  <2>1. \A r \in Slots \ {s} : Ls[r] = lock[r]
    BY <1>1, <1>2
  <2>2. Keeps({s}, lock, H, pl, wait, Ls, H, pl, wt2)
    BY <1>7, <2>1 DEF Keeps
  <2> DEFINE U == {s}
  <2>3. Keeps(U, lock, H, pl, wait, Ls, H, pl, wt2)
    BY <2>2
  <2> HIDE DEF U, Ls, s
  <2>4. Good(lockHash, freeLocks, lock, H, pl, procHolders, wait, sem, pc) /\ Stuck({}, lock, H, pl, wait)
    BY DEF IGood, AllStuck
  <2>5. Stuck(U, Ls, H, pl, wt2)
    BY <2>3, <2>4, StuckKept
  <2> QED
    BY <2>5 DEF U
<1> HIDE DEF Ls, s
<1>16. Good(lockHash, freeLocks, Ls, H, pl, procHolders, wt2, sm2, at2)
  BY <1>1, <1>6, <1>14, <1>15 DEF Good
<1>17. WakeupReady({s}, H, pl, wt2)
  <2>1. Counted(s, H, pl, wt2)
    BY <1>1, NowCounted
  <2> QED
    BY <1>7, <2>1 DEF WakeupReady
<1>18. {s} \in SUBSET Slots /\ {s} \subseteq Range(lockHash)
  BY <1>2
<1>19. Good(lockHash, freeLocks, lock', H, proclock', procHolders, wait', sem', at2)
  BY <1>4, <1>16, <1>17, <1>18, Wakeup
<1>20. Stuck({}, lock', H, proclock', wait')
  BY <1>4, <1>16, <1>17, <1>18, <1>k, WakeupStuck
<1> QED
  BY <1>19, <1>20 DEF at2

\* LockWaitCancel preserves the invariant: the grant may have come before the cancel.
LEMMA LockWaitCancelStep ==
    ASSUME IInv, NEW p \in Procs, LockWaitCancel(p)
    PROVE  IInv'
<1> USE DEF IInv
<1>1. /\ pc[p] = "cancel" /\ LockMgrLockFree /\ pc' = [pc EXCEPT ![p] = "reset"]
      /\ UNCHANGED <<tableVars, rest>>
  BY DEF LockWaitCancel
<1>2. /\ WaitOk(p, pc[p], wait[p], sem[p], proclockHash, proclock)
      /\ wait \in [Procs -> WaitRecord] /\ sem \in [Procs -> Nat] /\ pc = [q \in Procs |-> pc[q]]
  BY WaitOf
<1>3. sem[p] \in 0..1 /\ (wait[p].lock # 0 => sem[p] = 0) /\ sem = [sem EXCEPT ![p] = sem[p]] /\ wait[p] \in WaitRecord
  BY <1>2 DEF WaitOk
<1>4. ASSUME wait[p].lock # 0 PROVE IGood' /\ AllStuck'
  <2>1. RemoveFromWaitQueue(p, wait[p].errType, sem)
    BY <1>4 DEF LockWaitCancel
  <2>2. wait[p].errType \in {"ok", "error"}
    BY <1>3 DEF WaitRecord
  <2>3. WaitOk(p, "reset", [wait[p] EXCEPT !.lock = 0, !.errType = wait[p].errType], sem[p], proclockHash, proclock)
    <3>1. [wait[p] EXCEPT !.lock = 0, !.errType = wait[p].errType].lock = 0
      BY <1>3 DEF WaitRecord
    <3> DEFINE w == [wait[p] EXCEPT !.lock = 0, !.errType = wait[p].errType]
    <3> HIDE DEF w
    <3>2. w.lock = 0
      BY <3>1 DEF w
    <3>3. WaitOk(p, "reset", w, sem[p], proclockHash, proclock)
      BY <1>3, <3>2 DEF WaitOk
    <3> QED
      BY <3>3 DEF w
  <2> DEFINE e == wait[p].errType
  <2>4. e \in {"ok", "error"} /\ RemoveFromWaitQueue(p, e, sem)
        /\ WaitOk(p, "reset", [wait[p] EXCEPT !.lock = 0, !.errType = e], sem[p], proclockHash, proclock)
    BY <2>1, <2>2, <2>3
  <2> HIDE DEF e
  <2>5. /\ Good(lockHash, freeLocks, lock', proclockHash, proclock', procHolders, wait', sem', [pc EXCEPT ![p] = "reset"])
        /\ Stuck({}, lock', proclockHash, proclock', wait')
    BY <1>3, <1>4, <2>4, LeaveQueue
  <2> QED
    BY <1>1, <2>5 DEF IGood, AllStuck, tableVars
<1>5. ASSUME wait[p].lock = 0 PROVE IGood' /\ AllStuck'
  <2>1. UNCHANGED <<lock, proclock, wait, sem>>
    BY <1>5 DEF LockWaitCancel
  <2>2. WaitOk(p, "reset", wait[p], sem[p], proclockHash, proclock)
    BY <1>3, <1>5 DEF WaitOk
  <2>3. wait = [wait EXCEPT ![p] = wait[p]]
    BY <1>2
  <2>4. Good(lockHash, freeLocks, lock, proclockHash, proclock, procHolders,
             [wait EXCEPT ![p] = wait[p]], [sem EXCEPT ![p] = sem[p]], [pc EXCEPT ![p] = "reset"])
    BY <1>3, <2>2, OwnWait
  <2>5. lock' = lock /\ proclockHash' = proclockHash /\ proclock' = proclock /\ wait' = wait
    BY <1>1, <2>1 DEF tableVars
  <2>6. AllStuck'
    BY <2>5, StuckStays
  <2> QED
    BY <1>1, <1>3, <2>1, <2>3, <2>4, <2>6 DEF IGood, tableVars
<1>6. IGood' /\ AllStuck'
  BY <1>4, <1>5
<1>7. Releasing'
  BY <1>1, <1>2, ReleasingStays
<1> QED
  BY <1>6, <1>7

\* A rearrangement of the wait queues.
LEMMA Reordered ==
    ASSUME IGood, NEW O \in Reorderings, NEW s \in Slots
    PROVE  /\ O[s] \in Seq(Procs) /\ Once(O[s]) /\ ToSet(O[s]) = ToSet(lock[s].waitProcs)
           /\ O[s] # Orders[s] => s \in Range(lockHash)
<1>1. SlotGood(lockHash, s, lock[s], proclockHash, proclock, wait) /\ lock \in [Slots -> LockRecord]
  BY DEF IGood, Good, LocksOk
<1>2. Orders[s] = lock[s].waitProcs /\ ToSet(O[s]) = ToSet(Orders[s])
  BY DEF Orders, Reorderings
<1>3. \A r \in Slots : lock[r].waitProcs \in Seq(Procs) /\ ToSet(Orders[r]) \subseteq Procs
  <2> SUFFICES ASSUME NEW r \in Slots PROVE lock[r].waitProcs \in Seq(Procs) /\ ToSet(Orders[r]) \subseteq Procs
    OBVIOUS
  <2>1. lock[r] \in LockRecord
    BY <1>1
  <2>2. lock[r].waitProcs \in Seq(Procs)
    BY <2>1, RecordTypes
  <2>3. ToSet(lock[r].waitProcs) \subseteq Procs
    BY <2>2, SetOf
  <2> QED
    BY <2>2, <2>3 DEF Orders
<1>4. PICK r \in Slots : O[s] \in SetToSeqs(ToSet(Orders[r]))
  BY DEF Reorderings
<1> DEFINE T == ToSet(Orders[r])
           n == Cardinality(T)
           f == O[s]
<1>5. T \in SUBSET Procs
  BY <1>3
<1>6. f \in [1..n -> T] /\ \A i, j \in 1..n : i # j => f[i] # f[j]
  BY <1>4 DEF SetToSeqs
<1>7. n \in Nat
  <2>1. IsFiniteSet(T)
    BY <1>5, ProcSets
  <2> QED
    BY <2>1, Sizes
<1> HIDE DEF T, n, f
<1>8. f \in Seq(Procs) /\ Len(f) = n
  <2>1. f \in [1..n -> Procs]
    BY <1>5, <1>6
  <2> QED
    BY <1>7, <2>1
<1>9. Once(f)
  BY <1>6, <1>8 DEF Once
<1>10. ASSUME s \notin Range(lockHash) PROVE O[s] = Orders[s]
  <2>1. ToSet(Orders[s]) = {}
    BY <1>1, <1>2, <1>10 DEF SlotGood, Unused, Queued
  <2>2. Orders[s] = <<>>
    BY <1>2, <1>3, <2>1, SetOf
  <2>3. f = <<>>
    BY <1>2, <1>8, <2>1, SetOf DEF f
  <2> QED
    BY <2>2, <2>3 DEF f
<1> QED
  BY <1>2, <1>8, <1>9, <1>10 DEF f

\* The rearrangement of the wait queues by the deadlock detector keeps everything right.
LEMMA ReorderedGood ==
    ASSUME IGood, NEW O \in Reorderings, NEW Ls, Ls = [s \in Slots |-> [lock[s] EXCEPT !.waitProcs = O[s]]]
    PROVE  Good(lockHash, freeLocks, Ls, proclockHash, proclock, procHolders, wait, sem, pc)
<1>1. lock \in [Slots -> LockRecord] /\ TableOk(lockHash, freeLocks, lock, proclockHash) /\ proclockHash \in SUBSET Key
  BY DEF IGood, Good, LocksOk, HoldersOk
<1>2. ASSUME NEW s \in Slots
      PROVE  /\ Ls[s] \in LockRecord /\ Ls[s].tag = lock[s].tag
             /\ SlotGood(lockHash, s, Ls[s], proclockHash, proclock, wait)
  <2> DEFINE M == lock[s]  q == O[s]
  <2>1. Ls[s] = Requeue(M, q) /\ M \in LockRecord
    BY <1>1 DEF Requeue
  <2>2. q \in Seq(Procs) /\ Once(q) /\ ToSet(q) = ToSet(M.waitProcs)
    BY Reordered
  <2>3. SlotGood(lockHash, s, M, proclockHash, proclock, wait)
    BY DEF IGood, Good, LocksOk
  <2> HIDE DEF M, q
  <2>4. /\ Requeue(M, q) \in LockRecord /\ Requeue(M, q).waitProcs = q /\ Requeue(M, q).tag = M.tag
        /\ \A X, R : /\ Tally(M, X, R) => Tally(Requeue(M, q), X, R)
                     /\ Mask(M, R) => Mask(Requeue(M, q), R)
    BY <2>1, <2>2, RequeueTally
  <2>5. Requeue(M, q).nRequested = M.nRequested
    BY <2>1 DEF Requeue, LockRecord
  <2>6. Queued(Requeue(M, q), s, wait)
    BY <2>2, <2>3, <2>4 DEF SlotGood, Queued
  <2>7. s \in Range(lockHash) => SlotOk(Requeue(M, q), s, proclockHash, proclock, wait)
    BY <2>3, <2>4 DEF SlotGood, SlotOk
  <2>8. s \notin Range(lockHash) => Unused(Requeue(M, q), s, proclockHash, proclock, wait)
    BY <2>3, <2>5 DEF SlotGood, Unused
  <2>9. SlotGood(lockHash, s, Requeue(M, q), proclockHash, proclock, wait)
    BY <2>6, <2>7, <2>8 DEF SlotGood
  <2> QED
    BY <2>1, <2>4, <2>9 DEF M
<1>3. Ls \in [Slots -> LockRecord]
  BY <1>2
<1>4. LocksOk(lockHash, Ls, proclockHash, proclock, wait)
  BY <1>2, <1>3 DEF LocksOk
<1>5. \A s \in Slots : Ls[s].tag = lock[s].tag
  BY <1>2
<1>6. TableOk(lockHash, freeLocks, Ls, proclockHash)
  BY <1>1, <1>5, SameTable
<1> QED
  BY <1>4, <1>6 DEF IGood, Good

\* CheckDeadLock preserves the invariant, whatever its verdict.
LEMMA CheckDeadLockStep ==
    ASSUME IInv, NEW p \in Procs, CheckDeadLock(p)
    PROVE  IInv'
<1> USE DEF IInv
<1>1. /\ pc[p] \in {"wait", "woken", "cancel"} /\ LockMgrLockFree
      /\ UNCHANGED <<tableVars, pc, rest>>
  BY DEF CheckDeadLock
<1>2. /\ WaitOk(p, pc[p], wait[p], sem[p], proclockHash, proclock)
      /\ wait \in [Procs -> WaitRecord] /\ sem \in [Procs -> Nat] /\ pc = [q \in Procs |-> pc[q]]
      /\ HoldersOk(proclockHash, proclock, procHolders)
  BY WaitOf DEF IGood, Good
<1>3. ASSUME UNCHANGED <<lock, proclock, wait, sem>> PROVE IGood' /\ AllStuck'
  <2>1. lock' = lock /\ proclockHash' = proclockHash /\ proclock' = proclock /\ wait' = wait
    BY <1>1, <1>3 DEF tableVars
  <2>2. AllStuck'
    BY <2>1, StuckStays
  <2> QED
    BY <1>1, <1>3, <2>2 DEF IGood, tableVars
<1>4. ASSUME NEW O \in Solutions(p),
             ProcLockWakeup({s \in Slots : O[s] # Orders[s]},
                            [s \in Slots |-> [lock[s] EXCEPT !.waitProcs = O[s]]], proclock, wait, sem)
      PROVE  IGood' /\ AllStuck'
  <2>1. O \in Reorderings
    BY DEF Solutions
  <2> DEFINE S == {s \in Slots : O[s] # Orders[s]}
             Ls == [s \in Slots |-> [lock[s] EXCEPT !.waitProcs = O[s]]]
  <2>2. S \in SUBSET Slots /\ S \subseteq Range(lockHash)
    BY <2>1, Reordered
  <2>3. Good(lockHash, freeLocks, Ls, proclockHash, proclock, procHolders, wait, sem, pc)
    BY <2>1, ReorderedGood
  <2>4. ProcLockWakeup(S, Ls, proclock, wait, sem)
    BY <1>4
  <2>k. Stuck(S, Ls, proclockHash, proclock, wait)
    <3>1. \A s \in Slots \ S : Ls[s].waitProcs = lock[s].waitProcs
      <4>1. \A s \in Slots : lock[s] \in LockRecord
        BY DEF IGood, Good, LocksOk
      <4>2. \A s \in Slots \ S : O[s] = lock[s].waitProcs
        BY DEF Orders
      <4> QED
        BY <4>1, <4>2 DEF LockRecord
    <3> HIDE DEF S, Ls
    <3>2. Keeps(S, lock, proclockHash, proclock, wait, Ls, proclockHash, proclock, wait)
      BY <3>1 DEF Keeps
    <3> QED
      BY <3>2, StuckKept DEF IGood, AllStuck
  <2> HIDE DEF S, Ls
  <2>5. WakeupReady(S, proclockHash, proclock, wait)
    <3>1. \A s \in S : Counted(s, proclockHash, proclock, wait)
      BY <1>2, NowCounted
    <3> QED
      BY <3>1 DEF WakeupReady
  <2>6. Good(lockHash, freeLocks, lock', proclockHash, proclock', procHolders, wait', sem', pc)
    BY <2>2, <2>3, <2>4, <2>5, Wakeup
  <2>7. Stuck({}, lock', proclockHash, proclock', wait')
    BY <2>2, <2>3, <2>4, <2>5, <2>k, WakeupStuck
  <2> QED
    BY <1>1, <2>6, <2>7 DEF IGood, AllStuck, tableVars
<1>5. ASSUME wait[p].lock # 0, RemoveFromWaitQueue(p, "error", [sem EXCEPT ![p] = @ + 1])
      PROVE  IGood' /\ AllStuck'
  <2>1. sem[p] = 0 /\ pc[p] \in {"wait", "cancel"} /\ wait[p].holder \in proclockHash /\ wait[p].holder[2] = p /\ wait[p].mode \in Modes
    BY <1>2, <1>5 DEF WaitOk
  <2>2. [sem EXCEPT ![p] = @ + 1] = [sem EXCEPT ![p] = 1]
    BY <1>2, <2>1
  <2>3. WaitOk(p, pc[p], [wait[p] EXCEPT !.lock = 0, !.errType = "error"], 1, proclockHash, proclock)
    <3> DEFINE w == [wait[p] EXCEPT !.lock = 0, !.errType = "error"]
    <3>1. wait[p] \in WaitRecord
      BY <1>2
    <3>2. w.lock = 0 /\ w.errType = "error" /\ w.holder = wait[p].holder /\ w.mode = wait[p].mode
      BY <3>1 DEF WaitRecord
    <3> HIDE DEF w
    <3>3. WaitOk(p, pc[p], w, 1, proclockHash, proclock)
      BY <2>1, <3>2 DEF WaitOk
    <3> QED
      BY <3>3 DEF w
  <2> DEFINE sm2 == [sem EXCEPT ![p] = 1]  e == "error"  a == pc[p]
  <2>4. /\ RemoveFromWaitQueue(p, e, sm2) /\ sm2 = [sem EXCEPT ![p] = 1] /\ e \in {"ok", "error"}
        /\ WaitOk(p, a, [wait[p] EXCEPT !.lock = 0, !.errType = e], 1, proclockHash, proclock)
    BY <1>5, <2>2, <2>3
  <2>5. [pc EXCEPT ![p] = a] = pc
    BY <1>2
  <2> HIDE DEF sm2, e, a
  <2>6. /\ Good(lockHash, freeLocks, lock', proclockHash, proclock', procHolders, wait', sem', [pc EXCEPT ![p] = a])
        /\ Stuck({}, lock', proclockHash, proclock', wait')
    BY <1>5, <2>4, LeaveQueue
  <2> QED
    BY <1>1, <2>5, <2>6 DEF IGood, AllStuck, tableVars
<1>6. IGood' /\ AllStuck'
  BY <1>3, <1>4, <1>5 DEF CheckDeadLock
<1>7. Releasing'
  BY <1>1 DEF Releasing, LockMgrLockFree
<1> QED
  BY <1>6, <1>7

\* A new LOCK counts nothing.
LEMMA NewLockTally ==
    ASSUME NEW t \in Tags \cup {AnyTag}
    PROVE  /\ NewLock(t) \in LockRecord /\ Tally(NewLock(t), {}, {}) /\ Mask(NewLock(t), {})
           /\ NewLock(t).tag = t /\ NewLock(t).waitProcs = <<>>
<1>1. Zero \in [Modes -> Int] /\ \A i \in Modes : Zero[i] = 0
  BY DEF Zero
<1>2. <<>> \in Seq(Procs)
  OBVIOUS
<1> DEFINE L == NewLock(t)
<1> HIDE DEF Zero
<1>3. L \in LockRecord
  BY <1>1, <1>2 DEF NewLock, LockRecord
<1>4. /\ L.tag = t /\ L.waitProcs = <<>> /\ L.nRequested = 0 /\ L.nGranted = 0
      /\ L.requested = Zero /\ L.granted = Zero /\ L.grantMask = {} /\ L.waitMask = {}
  BY DEF NewLock
<1> HIDE DEF L
<1>5. IsFiniteSet({}) /\ Cardinality({}) = 0
  BY FS_EmptySet
<1>6. \A i \in Modes : Of({}, i) = {}
  BY DEF Of
<1>7. Tally(L, {}, {})
  <2> DEFINE E == {}
  <2>1. IsFiniteSet(E) /\ Cardinality(E) = 0 /\ (\A h \in E : h[2] \in Modes) /\ \A i \in Modes : Of(E, i) = E
    BY <1>5, <1>6
  <2>2. \A i \in Modes : L.granted[i] = 0 /\ L.requested[i] = 0 /\ i \notin L.grantMask
    BY <1>1, <1>4
  <2> HIDE DEF E
  <2>3. \A i \in Modes :
          /\ L.granted[i] = Cardinality(Of(E, i))
          /\ L.requested[i] = Cardinality(Of(E, i)) + Cardinality(Of(E, i))
    BY <2>1, <2>2
  <2>4. \A i \in Modes : Of(E, i) = {}
    BY <2>1 DEF E
  <2>5. Tally(L, E, E)
    BY <1>3, <1>4, <2>1, <2>2, <2>3, <2>4 DEF Tally
  <2> QED
    BY <2>5 DEF E
<1>8. Mask(L, {})
  BY <1>4, <1>6 DEF Mask
<1> QED
  BY <1>3, <1>4, <1>7, <1>8 DEF L

\* There is a place for the new LOCK, and no PROCLOCK is left of a LOCK that was there.
LEMMA CreateLock ==
    ASSUME IGood, ~CreateWhileDangling, NEW t \in Tags, lockHash[t] = 0, CanCreateLock,
           NEW hash2, hash2 = [lockHash EXCEPT ![t] = Head(freeLocks)], NEW free2, free2 = Tail(freeLocks),
           NEW Ls, Ls = [lock EXCEPT ![Head(freeLocks)] = NewLock(t)]
    PROVE  /\ Good(hash2, free2, Ls, proclockHash, proclock, procHolders, wait, sem, pc)
           /\ Head(freeLocks) \in Slots /\ Head(freeLocks) \in Range(hash2)
<1> DEFINE s == Head(freeLocks)
           H == proclockHash
           L == NewLock(t)
<1>1. /\ TableOk(lockHash, freeLocks, lock, H) /\ H \in SUBSET Key /\ lock \in [Slots -> LockRecord]
      /\ \A r \in Slots : SlotGood(lockHash, r, lock[r], H, proclock, wait)
  BY DEF IGood, Good, HoldersOk, LocksOk
<1>2. freeLocks # <<>> /\ \A k \in H : k[1] \notin ToSet(freeLocks)
  BY DEF CanCreateLock
<1>3. /\ L \in LockRecord /\ Tally(L, {}, {}) /\ Mask(L, {}) /\ L.tag = t /\ L.waitProcs = <<>>
  BY NewLockTally
<1>4. s \in ToSet(freeLocks) /\ s \in Slots
  <2>1. freeLocks \in Seq(Slots)
    BY <1>1 DEF TableOk
  <2>2. Head(freeLocks) \in ToSet(freeLocks) /\ ToSet(freeLocks) \subseteq Slots
    BY <1>2, <2>1, SetOf
  <2> QED
    BY <2>2
<1> HIDE DEF L
<1>5. Ls \in [Slots -> LockRecord] /\ Ls[s] = L /\ \A r \in Slots \ {s} : Ls[r] = lock[r]
  BY <1>1, <1>3, <1>4 DEF L
<1>6. TableGrown(lockHash, freeLocks, lock, H, t, hash2, free2, Ls, H)
  BY <1>1, <1>2, <1>3, <1>5 DEF TableGrown
<1>7. TableOk(hash2, free2, Ls, H) /\ s \notin Range(lockHash) /\ RangeWith(hash2, lockHash, s)
  BY <1>6, CreateTable
<1>8. s \in Range(hash2) /\ \A r \in Slots \ {s} : r \in Range(hash2) <=> r \in Range(lockHash)
  BY <1>4, <1>7 DEF RangeWith
<1>9. ASSUME NEW r \in Slots PROVE SlotGood(hash2, r, Ls[r], H, proclock, wait)
  <2>1. CASE r # s
    <3>1. (r \in Range(hash2) <=> r \in Range(lockHash)) /\ Ls[r] = lock[r] /\ SlotGood(lockHash, r, lock[r], H, proclock, wait)
      BY <1>1, <1>5, <1>8, <2>1
    <3> QED
      BY <3>1, SameSlot
  <2>2. CASE r = s
    <3>1. Waiting(wait, s) = {} /\ Holds(proclock, AtSlot(H, s)) = {}
      BY <1>1, <1>4, <1>7 DEF SlotGood, Unused
    <3>2. Asks(wait, s) = {}
      BY <3>1 DEF Asks, Pairs
    <3>3. SlotOk(L, s, H, proclock, wait)
      <4>1. Apart({})
        BY DEF Apart
      <4> QED
        BY <1>3, <3>1, <3>2, <4>1 DEF SlotOk
    <3>4. Queued(L, s, wait)
      <4>1. <<>> \in Seq(Procs) /\ Len(<<>>) = 0
        OBVIOUS
      <4>2. ToSet(<<>>) = {}
        BY <4>1, SetOf
      <4>3. Once(<<>>)
        BY <4>1 DEF Once
      <4> QED
        BY <1>3, <3>1, <4>2, <4>3 DEF Queued
    <3> QED
      BY <1>5, <1>8, <2>2, <3>3, <3>4 DEF SlotGood
  <2> QED
    BY <2>1, <2>2
<1>10. LocksOk(hash2, Ls, H, proclock, wait)
  BY <1>5, <1>9 DEF LocksOk
<1> QED
  BY <1>4, <1>7, <1>8, <1>10 DEF IGood, Good

\* The queue of a new LOCK is empty.
LEMMA CreateStuck ==
    ASSUME IGood, AllStuck, NEW t, NEW s, NEW Ls, Ls = [lock EXCEPT ![s] = NewLock(t)]
    PROVE  Stuck({}, Ls, proclockHash, proclock, wait)
<1>1. lock \in [Slots -> LockRecord]
  BY DEF IGood, Good, LocksOk
<1> SUFFICES ASSUME NEW r \in Slots
             PROVE  Blocked(Ls[r].waitProcs, Holds(proclock, AtSlot(proclockHash, r)), wait)
  BY DEF Stuck
<1>2. CASE r = s
  <2>1. Ls[r] = NewLock(t)
    BY <1>1, <1>2
  <2>2. Ls[r].waitProcs = <<>>
    BY <2>1 DEF NewLock
  <2> QED
    BY <2>2, EmptyBlocked
<1>3. CASE r # s
  <2>1. Ls[r] = lock[r]
    BY <1>1, <1>3
  <2> QED
    BY <2>1 DEF AllStuck, Stuck
<1> QED
  BY <1>2, <1>3

\* From a good state, a process that runs goes on to an abort.
LEMMA GoodAborts ==
    ASSUME NEW hash, NEW free, NEW Ls, NEW H, NEW pl, NEW ph, NEW wt, NEW sm, NEW pcs,
           Good(hash, free, Ls, H, pl, ph, wt, sm, pcs), NEW p \in Procs, pcs[p] = "run"
    PROVE  Good(hash, free, Ls, H, pl, ph, wt, sm, [pcs EXCEPT ![p] = "abort"])
<1>1. /\ WaitsOk(pcs, wt, sm, H, pl) /\ wt \in [Procs -> WaitRecord] /\ sm \in [Procs -> Nat]
      /\ WaitOk(p, pcs[p], wt[p], sm[p], H, pl)
  BY DEF Good, WaitsOk
<1>2. WaitOk(p, "abort", wt[p], sm[p], H, pl)
  BY <1>1 DEF WaitOk
<1>3. WaitsOk([pcs EXCEPT ![p] = "abort"], [wt EXCEPT ![p] = wt[p]], [sm EXCEPT ![p] = sm[p]], H, pl)
  BY <1>1, <1>2, WaitsOwn
<1>4. [wt EXCEPT ![p] = wt[p]] = wt /\ [sm EXCEPT ![p] = sm[p]] = sm
  BY <1>1
<1> QED
  BY <1>3, <1>4 DEF Good

\* LockAcquire preserves the invariant when it runs out of shared memory half way.
LEMMA LockAcquireFailsStep ==
    ASSUME IInv, ~CreateWhileDangling, NEW p \in Procs, NEW t \in Tags, NEW x \in Xids, LockAcquireFails(p, t, x)
    PROVE  IInv'
<1> USE DEF IInv
<1>1. /\ pc[p] = "run" /\ LockMgrLockFree /\ pc' = [pc EXCEPT ![p] = "abort"]
      /\ UNCHANGED <<proclock, wait, sem, rest>>
  BY DEF LockAcquireFails
<1>2. pc = [q \in Procs |-> pc[q]]
  BY WaitOf
<1>3. ASSUME UNCHANGED <<tableVars, lock>> PROVE IGood' /\ AllStuck'
  <2>1. Good(lockHash, freeLocks, lock, proclockHash, proclock, procHolders, wait, sem, [pc EXCEPT ![p] = "abort"])
    BY <1>1, GoodAborts DEF IGood
  <2>2. lock' = lock /\ proclockHash' = proclockHash /\ proclock' = proclock /\ wait' = wait
    BY <1>1, <1>3 DEF tableVars
  <2>3. AllStuck'
    BY <2>2, StuckStays
  <2> QED
    BY <1>1, <1>3, <2>1, <2>3 DEF IGood, tableVars
<1>4. ASSUME lockHash[t] = 0, CanCreateLock,
             lockHash' = [lockHash EXCEPT ![t] = Head(freeLocks)], freeLocks' = Tail(freeLocks),
             lock' = [lock EXCEPT ![Head(freeLocks)] = NewLock(t)], UNCHANGED <<proclockHash, procHolders>>
      PROVE  IGood' /\ AllStuck'
  <2>1. Good(lockHash', freeLocks', lock', proclockHash, proclock, procHolders, wait, sem, pc)
    BY <1>4, CreateLock
  <2>2. Good(lockHash', freeLocks', lock', proclockHash, proclock, procHolders, wait, sem, [pc EXCEPT ![p] = "abort"])
    BY <1>1, <2>1, GoodAborts
  <2>3. Stuck({}, lock', proclockHash, proclock, wait)
    BY <1>4, CreateStuck
  <2> QED
    BY <1>1, <1>4, <2>2, <2>3 DEF IGood, AllStuck
<1>5. IGood' /\ AllStuck'
  BY <1>3, <1>4 DEF LockAcquireFails
<1>6. Releasing'
  BY <1>1, <1>2, ReleasingStays
<1> QED
  BY <1>5, <1>6

\* A PROCLOCK that holds nothing does not count.
EmptyAt(pl, H, k) == \A s : Holds(pl, AtSlot(H \ {k}, s)) = Holds(pl, AtSlot(H, s))

\* A PROCLOCK without holds can come and go unnoticed.
LEMMA EmptyStays ==
    ASSUME NEW pl, NEW H, NEW k \in H, Holds(pl, {k}) = {}
    PROVE  EmptyAt(pl, H, k)
<1>1. \A s : Holds(pl, AtSlot(H \ {k}, s)) = Holds(pl, AtSlot(H, s))
  BY EmptyGoes
<1> QED
  BY <1>1 DEF EmptyAt

\* A PROCLOCK that holds nothing enters its lists and its table.
Entering(k, H, H2, pl, pl2, ph, ph2) ==
    /\ k \in Key /\ k \notin H /\ H2 = H \cup {k}
    /\ pl2 = [pl EXCEPT ![k] = NewProclock]
    /\ ph2 = [ph EXCEPT ![k[2]] = Append(@, k)]

\* A new PROCLOCK enters the table and keeps everything right.
LEMMA AddHolder ==
    ASSUME NEW hash, NEW free, NEW Lk, NEW H, NEW pl, NEW ph, NEW wt, NEW sm, NEW pcs,
           Good(hash, free, Lk, H, pl, ph, wt, sm, pcs), NEW k, NEW H2, NEW pl2, NEW ph2,
           Entering(k, H, H2, pl, pl2, ph, ph2), k[1] \in Range(hash), pcs[k[2]] = "run"
    PROVE  /\ Good(hash, free, Lk, H2, pl2, ph2, wt, sm, pcs)
           /\ \A s : Holds(pl2, AtSlot(H2, s)) = Holds(pl, AtSlot(H, s))
<1> USE DEF Entering
<1>1. /\ LocksOk(hash, Lk, H, pl, wt) /\ TableOk(hash, free, Lk, H) /\ HoldersOk(H, pl, ph) /\ WaitsOk(pcs, wt, sm, H, pl)
      /\ H \in SUBSET Key /\ pl \in [Key -> ProclockRecord]
  BY DEF Good, HoldersOk
<1>2. k[2] \in Procs /\ k[1] \in Slots
  BY DEF Key
<1>3. H2 \in SUBSET Key /\ k \in H2 /\ H2 \ {k} = H
  BY <1>1
<1>4. pl2 \in [Key -> ProclockRecord] /\ pl2[k] = NewProclock /\ \A l \in Key : l # k => pl2[l] = pl[l]
  <2>1. NewProclock \in ProclockRecord
    BY NewProclockType
  <2> HIDE DEF NewProclock
  <2> QED
    BY <1>1, <2>1
<1>5. OnlyThis(k, H, pl, H2, pl2)
  BY <1>4 DEF OnlyThis
<1>6. Holds(pl2, {k}) = {}
  <2>1. \A m \in Modes : pl2[k].holding[m] = 0
    BY <1>4, NewProclockType
  <2> QED
    BY <2>1 DEF Holds
<1>7. CountsOwn(pl2, k)
  <2>1. pl2[k].nHolding = 0 /\ \A m \in Modes : pl2[k].holding[m] = 0
    BY <1>4, NewProclockType DEF NewProclock
  <2>2. Cardinality(Holds(pl2, {k})) = 0
    BY <1>6, FS_EmptySet
  <2> QED
    BY <2>1, <2>2, MaxHoldNat DEF CountsOwn
<1>8. ListsOk(H2, ph2)
  <2>1. ListsOk(H, ph)
    BY <1>1, ListsSplit
  <2>2. ListsOk(H \cup {k}, [ph EXCEPT ![k[2]] = Append(@, k)])
    BY <2>1, ListsAdd
  <2> QED
    BY <2>2
<1>9. HoldersOk(H2, pl2, ph2)
  BY <1>1, <1>3, <1>4, <1>5, <1>7, <1>8, OneHolder
<1>10. ASSUME NEW s PROVE Holds(pl2, AtSlot(H2, s)) = Holds(pl, AtSlot(H, s))
  <2>1. EmptyAt(pl2, H2, k)
    BY <1>3, <1>6, EmptyStays
  <2>2. AtSlot(H, s) \in SUBSET Key /\ k \notin AtSlot(H, s)
    BY <1>1 DEF AtSlot
  <2>3. OthersHold(k, H, pl, H2, pl2)
    BY <1>1, <1>3, <1>5, OtherHolds
  <2>4. Holds(pl2, AtSlot(H, s)) = Holds(pl, AtSlot(H, s))
    BY <2>2, <2>3 DEF OthersHold
  <2> QED
    BY <1>3, <2>1, <2>4 DEF EmptyAt
<1>11. LocksOk(hash, Lk, H2, pl2, wt)
  <2>1. ASSUME NEW s \in Slots PROVE SlotGood(hash, s, Lk[s], H2, pl2, wt)
    <3>1. SlotGood(hash, s, Lk[s], H, pl, wt)
      BY <1>1 DEF LocksOk
    <3>2. Holds(pl2, AtSlot(H2, s)) = Holds(pl, AtSlot(H, s))
      BY <1>10
    <3> QED
      BY <3>1, <3>2, SameSlot
  <2> QED
    BY <1>1, <2>1 DEF LocksOk
<1>12. TableOk(hash, free, Lk, H2)
  <2>1. k[1] \notin ToSet(free)
    BY <1>1 DEF TableOk
  <2>2. \A l \in H2 : l \in H \/ l[1] \notin ToSet(free)
    BY <1>3, <2>1
  <2> QED
    BY <1>1, <1>3, <2>2, SameTable
<1>13. WaitsOk(pcs, wt, sm, H2, pl2)
  <2>1. WaitOk(k[2], pcs[k[2]], wt[k[2]], sm[k[2]], H, pl) /\ pcs = [q \in Procs |-> pcs[q]]
    BY <1>1, <1>2 DEF WaitsOk
  <2>2. sm[k[2]] = 0 /\ wt[k[2]].lock = 0
    BY <2>1 DEF WaitOk
  <2> DEFINE at2 == [pcs EXCEPT ![k[2]] = "run"]
  <2>3. at2 = pcs
    BY <1>2, <2>1
  <2>4. WaitsOk(at2, wt, sm, H2, pl2)
    BY <1>1, <1>5, <2>2, OneWait
  <2> QED
    BY <2>3, <2>4
<1>14. Good(hash, free, Lk, H2, pl2, ph2, wt, sm, pcs)
  BY <1>9, <1>11, <1>12, <1>13 DEF Good
<1> QED
  BY <1>10, <1>14

\* A PROCLOCK gets one more hold.
Holding(pl, k, m, pl2, h) ==
    /\ pl2 \in [Key -> ProclockRecord]
    /\ \A l \in Key : l # k => pl2[l] = pl[l]
    /\ CountsOwn(pl2, k)
    /\ \A K \in SUBSET Key : k \in K => h \notin Holds(pl, K) /\ Holds(pl2, K) = Holds(pl, K) \cup {h}

\* Hold adds the next of the holds of its mode.
LEMMA HoldHolds ==
    ASSUME NEW pl \in [Key -> ProclockRecord], NEW k \in Key, CountsOwn(pl, k), NEW m \in Modes,
           pl[k].holding[m] < MaxHold
    PROVE  Holding(pl, k, m, [pl EXCEPT ![k] = Hold(@, m)], <<k, m, pl[k].holding[m] + 1>>)
<1> DEFINE n == pl[k].holding[m]  h == <<k, m, n + 1>>  new == Hold(pl[k], m)  pl2 == [pl EXCEPT ![k] = new]
<1>1. pl[k] \in ProclockRecord /\ pl[k].holding \in [Modes -> Nat]
  BY DEF ProclockRecord
<1>2. n \in Nat /\ n + 1 \in 1..MaxHold /\ MaxHold \in Nat /\ pl[k].nHolding = Cardinality(Holds(pl, {k}))
  BY <1>1, MaxHoldNat DEF CountsOwn
<1>3. /\ new \in ProclockRecord /\ new.nHolding = pl[k].nHolding + 1 /\ new.holding[m] = n + 1
      /\ \A i \in Modes : i # m => new.holding[i] = pl[k].holding[i]
  BY <1>1, HoldFields
<1> HIDE DEF new
<1>4. pl2 \in [Key -> ProclockRecord] /\ pl2[k] = new /\ \A l \in Key : l # k => pl2[l] = pl[l]
  BY <1>3
<1> HIDE DEF pl2, n
<1>5. ASSUME NEW K \in SUBSET Key, k \in K
      PROVE  h \notin Holds(pl, K) /\ Holds(pl2, K) = Holds(pl, K) \cup {h}
  <2>1. h \notin Holds(pl, K)
    <3>1. ~(n + 1 <= pl[k].holding[m])
      BY <1>2 DEF n
    <3> QED
      BY <3>1, HoldsMembers
  <2>2. ASSUME NEW l \in K, NEW i \in Modes, NEW j \in 1..MaxHold
        PROVE  j <= pl2[l].holding[i] <=> j <= pl[l].holding[i] \/ <<l, i, j>> = h
    <3>1. CASE l # k
      BY <1>4, <3>1
    <3>2. CASE l = k /\ i # m
      BY <1>3, <1>4, <3>2
    <3>3. CASE l = k /\ i = m
      <4>1. pl2[l].holding[i] = n + 1 /\ pl[l].holding[i] = n
        BY <1>3, <1>4, <3>3 DEF n
      <4>2. <<l, i, j>> = h <=> j = n + 1
        BY <3>3
      <4> QED
        BY <1>2, <4>1, <4>2
    <3> QED
      BY <3>1, <3>2, <3>3
  <2>3. \A g \in K \X Modes \X (1..MaxHold) :
            g[3] <= pl2[g[1]].holding[g[2]] <=> g[3] <= pl[g[1]].holding[g[2]] \/ g = h
    BY <2>2
  <2>4. h \in K \X Modes \X (1..MaxHold)
    BY <1>2, <1>5
  <2> QED
    BY <2>1, <2>3, <2>4 DEF Holds
<1>6. IsFiniteSet(Holds(pl, {k})) /\ h \notin Holds(pl, {k}) /\ Holds(pl2, {k}) = Holds(pl, {k}) \cup {h}
  <2>1. {k} \in SUBSET Key
    OBVIOUS
  <2> QED
    BY <1>5, <2>1, FiniteSets
<1>7. Cardinality(Holds(pl2, {k})) = Cardinality(Holds(pl, {k})) + 1
  BY <1>6, FS_AddElement
<1>8. CountsOwn(pl2, k)
  <2>1. pl2[k].nHolding = Cardinality(Holds(pl2, {k}))
    BY <1>2, <1>3, <1>4, <1>7
  <2>2. \A i \in Modes : pl2[k].holding[i] <= MaxHold
    <3>1. \A i \in Modes : pl[k].holding[i] <= MaxHold
      BY DEF CountsOwn
    <3>2. n + 1 <= MaxHold
      BY <1>2
    <3> QED
      BY <1>3, <1>4, <3>1, <3>2
  <2> QED
    BY <2>1, <2>2 DEF CountsOwn
<1>9. Holding(pl, k, m, pl2, h)
  BY <1>4, <1>5, <1>8 DEF Holding
<1> QED
  BY <1>9 DEF pl2, h, n, new

\* Process p, which runs, asks for one more hold of mode m of the LOCK of its PROCLOCK k.
Asking(hash, free, Lk, H, pl, ph, p, k, m) ==
    /\ Good(hash, free, Lk, H, pl, ph, wait, sem, pc)
    /\ p \in Procs /\ k \in H /\ k[2] = p /\ k[1] \in Range(hash) /\ pc[p] = "run"
    /\ m \in Modes /\ pl[k].holding[m] < MaxHold

\* The LOCK L at s with that request, if its holds are X and its requests were R.
Asked(L, s, p, m, X, R) ==
    /\ <<p, m>> \notin R /\ Tally(L, X, R \cup {<<p, m>>}) /\ Mask(L, R) /\ Apart(X)
    /\ p \notin Waiting(wait, s) /\ Once(L.waitProcs) /\ ToSet(L.waitProcs) = Waiting(wait, s)

\* A process asks: what its LOCK counts then.
LEMMA AskFacts ==
    ASSUME NEW hash, NEW free, NEW Lk, NEW H, NEW pl, NEW ph, NEW p, NEW k, NEW m,
           Asking(hash, free, Lk, H, pl, ph, p, k, m)
    PROVE  /\ k \in Key /\ k[1] \in Slots /\ H \in SUBSET Key /\ pl \in [Key -> ProclockRecord] /\ CountsOwn(pl, k)
           /\ Lk[k[1]] \in LockRecord /\ sem[p] = 0 /\ wait[p].lock = 0
           /\ Asked(Requested(Lk[k[1]], m), k[1], p, m, Holds(pl, AtSlot(H, k[1])), Asks(wait, k[1]))
           /\ Requested(Lk[k[1]], m).tag = Lk[k[1]].tag
<1> DEFINE s == k[1]  L == Lk[s]  X == Holds(pl, AtSlot(H, s))  R == Asks(wait, s)
<1>1. /\ H \in SUBSET Key /\ pl \in [Key -> ProclockRecord] /\ CountsOwn(pl, k) /\ k \in Key /\ s \in Slots
  BY DEF Asking, Good, HoldersOk, Key
<1>2. SlotGood(hash, s, L, H, pl, wait) /\ L \in LockRecord
  BY <1>1 DEF Asking, Good, LocksOk
<1>3. sem[p] = 0 /\ wait[p].lock = 0
  BY DEF Asking, Good, WaitsOk, WaitOk
<1>4. p \notin Waiting(wait, s)
  BY <1>1, <1>3, NumSlotsNat DEF Waiting, Slots
<1>5. <<p, m>> \notin R
  BY <1>4 DEF Asks, Pairs
<1>6. Tally(L, X, R) /\ Mask(L, R) /\ Apart(X) /\ Queued(L, s, wait)
  BY <1>2 DEF SlotGood, SlotOk, Asking
<1>7. m \in Modes
  BY DEF Asking
<1> HIDE DEF X, R, L
<1>8. /\ Tally(Requested(L, m), X, R \cup {<<p, m>>})
      /\ Requested(L, m).waitMask = L.waitMask /\ Requested(L, m).waitProcs = L.waitProcs
      /\ Requested(L, m).tag = L.tag
  BY <1>5, <1>6, <1>7, TallyAsk
<1>9. Mask(Requested(L, m), R)
  BY <1>6, <1>8 DEF Mask
<1>10. Asked(Requested(L, m), s, p, m, X, R)
  BY <1>4, <1>5, <1>6, <1>8, <1>9 DEF Asked, Queued
<1> QED
  BY <1>1, <1>2, <1>3, <1>8, <1>10 DEF X, R, L

\* A step by which the LOCK of the PROCLOCK k becomes L.
LockStep(hash, Lk, H, pl, wt, k, L, Ls, pl2, wt2, sm2, at2) ==
    /\ k \in H /\ L \in LockRecord /\ L.tag = Lk[k[1]].tag /\ Ls = [Lk EXCEPT ![k[1]] = L]
    /\ pl2 \in [Key -> ProclockRecord] /\ OnlyThis(k, H, pl, H, pl2) /\ CountsOwn(pl2, k)
    /\ WaitsOk(at2, wt2, sm2, H, pl2) /\ Elsewhere(k[1], hash, wt, hash, wt2)
    /\ SlotGood(hash, k[1], L, H, pl2, wt2)

\* The step of a LOCK that a request takes, granted or put in the queue, keeps everything right.
LEMMA OneAsk ==
    ASSUME NEW hash, NEW free, NEW Lk, NEW H, NEW pl, NEW ph, NEW wt, NEW sm, NEW pcs,
           Good(hash, free, Lk, H, pl, ph, wt, sm, pcs),
           NEW k, NEW L, NEW Ls, NEW pl2, NEW wt2, NEW sm2, NEW at2,
           LockStep(hash, Lk, H, pl, wt, k, L, Ls, pl2, wt2, sm2, at2)
    PROVE  Good(hash, free, Ls, H, pl2, ph, wt2, sm2, at2)
<1> USE DEF LockStep
<1>1. /\ LocksOk(hash, Lk, H, pl, wt) /\ TableOk(hash, free, Lk, H) /\ HoldersOk(H, pl, ph)
      /\ H \in SUBSET Key /\ k \in Key /\ Lk \in [Slots -> LockRecord]
  BY DEF Good, HoldersOk, LocksOk
<1>2. LocksOk(hash, [Lk EXCEPT ![k[1]] = L], H, pl2, wt2)
  BY <1>1, OneSlot
<1>3. TableOk(hash, free, Ls, H)
  <2>1. \A r \in Slots : Ls[r].tag = Lk[r].tag
    BY <1>1
  <2> QED
    BY <1>1, <2>1, SameTable
<1>4. HoldersOk(H, pl2, ph)
  <2>1. ListsOk(H, ph)
    BY <1>1, ListsSplit
  <2> QED
    BY <1>1, <2>1, OneHolder
<1> QED
  BY <1>2, <1>3, <1>4 DEF Good

\* A step that changes no wait and no place of the table.
LEMMA SameElsewhere ==
    ASSUME NEW s, NEW hash, NEW wt
    PROVE  Elsewhere(s, hash, wt, hash, wt)
BY DEF Elsewhere

\* The request is granted at once.
LEMMA AskNow ==
    ASSUME NEW hash, NEW free, NEW Lk, NEW H, NEW pl, NEW ph, NEW p, NEW k, NEW m,
           Asking(hash, free, Lk, H, pl, ph, p, k, m),
           NEW L, L = Requested(Lk[k[1]], m), NEW own,
           \A i \in Modes : own[i] = Cardinality(Of(Mine(Holds(pl, AtSlot(H, k[1])), p), i)),
           own[m] > 0 \/ LockCheckConflicts(L, m, own),
           NEW Ls, Ls = [Lk EXCEPT ![k[1]] = GrantLock(L, {<<p, m>>})],
           NEW pl2, pl2 = [pl EXCEPT ![k] = Hold(@, m)]
    PROVE  Good(hash, free, Ls, H, pl2, ph, wait, sem, pc)
<1> DEFINE s == k[1]
           X == Holds(pl, AtSlot(H, s))
           R == Asks(wait, s)
           g == <<p, m>>
           h == <<k, m, pl[k].holding[m] + 1>>
           M == GrantLock(L, {g})
<1>1. /\ Good(hash, free, Lk, H, pl, ph, wait, sem, pc) /\ p \in Procs /\ k \in H /\ k[2] = p
      /\ s \in Range(hash) /\ pc[p] = "run" /\ m \in Modes /\ pl[k].holding[m] < MaxHold
  BY DEF Asking
<1>2. /\ k \in Key /\ s \in Slots /\ H \in SUBSET Key /\ pl \in [Key -> ProclockRecord] /\ CountsOwn(pl, k)
      /\ sem[p] = 0 /\ wait[p].lock = 0 /\ Lk[s] \in LockRecord
      /\ Asked(L, s, p, m, X, R) /\ L.tag = Lk[s].tag
  BY AskFacts
<1>3. Holding(pl, k, m, pl2, h)
  BY <1>1, <1>2, HoldHolds
<1>4. /\ pl2 \in [Key -> ProclockRecord] /\ OnlyThis(k, H, pl, H, pl2) /\ CountsOwn(pl2, k)
  BY <1>3 DEF Holding, OnlyThis
<1>5. h \notin X /\ Holds(pl2, AtSlot(H, s)) = X \cup {h}
  <2>1. AtSlot(H, s) \in SUBSET Key /\ k \in AtSlot(H, s)
    BY <1>1, <1>2 DEF AtSlot
  <2> QED
    BY <1>3, <2>1 DEF Holding
<1>6. h[1] = k /\ h[2] = m /\ g[2] = m
  OBVIOUS
<1> HIDE DEF X, R, g, h
<1>7. /\ Tally(L, X, R \cup {g}) /\ g \notin R /\ Mask(L, R) /\ Apart(X)
      /\ Once(L.waitProcs) /\ ToSet(L.waitProcs) = Waiting(wait, s)
  BY <1>2 DEF Asked, g
<1>8. Tally(M, X \cup {h}, R) /\ Mask(M, R)
  <2> DEFINE G == {g}  N == {h}  R2 == R \cup {g}
  <2>1. G \subseteq R2 /\ IsFiniteSet(N) /\ N \cap X = {} /\ Cardinality(N) = 1 /\ Cardinality(G) = 1 /\ R2 \ G = R
    BY <1>5, <1>7, FS_Singleton
  <2>2. \A e \in N : e[2] \in Modes
    BY <1>1, <1>6
  <2>3. ASSUME NEW i \in Modes PROVE Cardinality(Of(N, i)) = Cardinality(Of(G, i))
    <3>1. CASE i = m
      <4>1. Of(N, i) = N /\ Of(G, i) = G
        BY <1>6, <3>1 DEF Of
      <4> QED
        BY <2>1, <4>1
    <3>2. CASE i # m
      <4>1. Of(N, i) = {} /\ Of(G, i) = {}
        BY <1>6, <3>2 DEF Of
      <4> QED
        BY <4>1
    <3> QED
      BY <3>1, <3>2
  <2>4. \A i \in Modes : i \in L.waitMask => Of(R2, i) # {}
    BY <1>7 DEF Mask, Of
  <2>5. \A i \in Modes : Of(R2 \ G, i) # {} => i \in L.waitMask
    BY <1>7, <2>1 DEF Mask
  <2>6. Tally(L, X, R2)
    BY <1>7
  <2> HIDE DEF G, N, R2
  <2>7. Tally(GrantLock(L, G), X \cup N, R2 \ G) /\ Mask(GrantLock(L, G), R2 \ G)
    BY <2>1, <2>2, <2>3, <2>4, <2>5, <2>6, TallyGrant
  <2> QED
    BY <2>1, <2>7 DEF G, N
<1>9. Apart(X \cup {h})
  <2>1. \A e \in X : e[1][2] # p => e[2] \notin ConflictTab[m]
    <3>1. CASE own[m] > 0
      <4>1. Of(Mine(X, p), m) # {}
        <5>1. Cardinality(Of(Mine(X, p), m)) # 0
          BY <1>1, <3>1 DEF X
        <5> QED
          BY <5>1, FS_EmptySet
      <4>2. PICK e \in X : e[1][2] = p /\ e[2] = m
        BY <4>1 DEF Of, Mine
      <4> QED
        BY <1>7, <4>2 DEF Apart
    <3>2. CASE LockCheckConflicts(L, m, own)
      <4>1. \A i \in Modes : own[i] = Cardinality(Of(Mine(X, p), i))
        BY DEF X
      <4> DEFINE R2 == R \cup {g}
      <4>2. Tally(L, X, R2)
        BY <1>7
      <4> HIDE DEF R2
      <4> QED
        BY <1>1, <3>2, <4>1, <4>2, NoOthers
    <3> QED
      BY <3>1, <3>2
  <2>2. \A e \in X : e[2] \in Modes
    BY <1>7 DEF Tally
  <2>3. \A e \in X : e[1][2] # p => m \notin ConflictTab[e[2]]
    BY <1>1, <2>1, <2>2, Symmetric
  <2> QED
    BY <1>1, <1>6, <1>7, <2>1, <2>3 DEF Apart
<1>10. M \in LockRecord /\ M.tag = L.tag /\ M.waitProcs = L.waitProcs
  <2>1. L \in LockRecord
    BY <1>7 DEF Tally
  <2>2. IsFiniteSet({g})
    BY FS_Singleton
  <2>3. Granted(M, L, {g})
    BY <2>1, <2>2, GrantFields
  <2> QED
    BY <2>3 DEF Granted
<1>11. SlotGood(hash, s, M, H, pl2, wait)
  <2>1. Tally(M, Holds(pl2, AtSlot(H, s)), Asks(wait, s)) /\ Apart(Holds(pl2, AtSlot(H, s))) /\ Mask(M, Asks(wait, s))
    BY <1>5, <1>8, <1>9 DEF R
  <2>2. Queued(M, s, wait)
    BY <1>7, <1>10 DEF Queued
  <2> QED
    BY <1>1, <2>1, <2>2 DEF SlotGood, SlotOk
<1>12. WaitsOk(pc, wait, sem, H, pl2)
  <2>1. WaitsOk(pc, wait, sem, H, pl) /\ pc = [q \in Procs |-> pc[q]]
    BY <1>1 DEF Good, WaitsOk
  <2> DEFINE a == "run"  at2 == [pc EXCEPT ![k[2]] = a]
  <2>2. at2 = pc
    BY <1>1, <2>1
  <2>3. a \in {"run", "abort", "release"}
    OBVIOUS
  <2> HIDE DEF a
  <2>4. WaitsOk(at2, wait, sem, H, pl2)
    BY <1>1, <1>2, <1>4, <2>1, <2>3, OneWait
  <2> QED
    BY <2>2, <2>4
<1>13. Ls = [Lk EXCEPT ![k[1]] = M] /\ M.tag = Lk[k[1]].tag
  BY <1>2, <1>10 DEF g
<1>14. Elsewhere(k[1], hash, wait, hash, wait)
  BY SameElsewhere
<1> HIDE DEF M
<1>15. LockStep(hash, Lk, H, pl, wait, k, M, Ls, pl2, wait, sem, pc)
  BY <1>1, <1>4, <1>10, <1>11, <1>12, <1>13, <1>14 DEF LockStep
<1> QED
  BY <1>1, <1>15, OneAsk

\* Nobody gets nearer by the grant.
LEMMA AskNowStuck ==
    ASSUME NEW hash, NEW free, NEW Lk, NEW H, NEW pl, NEW ph, NEW p, NEW k, NEW m,
           Asking(hash, free, Lk, H, pl, ph, p, k, m), Stuck({}, Lk, H, pl, wait),
           NEW L, L = Requested(Lk[k[1]], m),
           NEW Ls, Ls = [Lk EXCEPT ![k[1]] = GrantLock(L, {<<p, m>>})],
           NEW pl2, pl2 = [pl EXCEPT ![k] = Hold(@, m)]
    PROVE  Stuck({}, Ls, H, pl2, wait)
<1> DEFINE s == k[1]
           g == <<p, m>>
           h == <<k, m, pl[k].holding[m] + 1>>
           M == GrantLock(L, {g})
<1>1. /\ Good(hash, free, Lk, H, pl, ph, wait, sem, pc) /\ p \in Procs /\ k \in H
      /\ m \in Modes /\ pl[k].holding[m] < MaxHold
  BY DEF Asking
<1>2. /\ k \in Key /\ s \in Slots /\ H \in SUBSET Key /\ pl \in [Key -> ProclockRecord] /\ CountsOwn(pl, k)
      /\ Lk[s] \in LockRecord /\ Asked(L, s, p, m, Holds(pl, AtSlot(H, s)), Asks(wait, s))
  BY AskFacts
<1>3. Holding(pl, k, m, pl2, h)
  BY <1>1, <1>2, HoldHolds
<1>4. Holds(pl2, AtSlot(H, s)) = Holds(pl, AtSlot(H, s)) \cup {h}
  <2>1. AtSlot(H, s) \in SUBSET Key /\ k \in AtSlot(H, s)
    BY <1>1, <1>2 DEF AtSlot
  <2> QED
    BY <1>3, <2>1 DEF Holding
<1>5. \A r : r # s => Holds(pl2, AtSlot(H, r)) = Holds(pl, AtSlot(H, r))
  <2>1. OnlyThis(k, H, pl, H, pl2)
    BY <1>3 DEF Holding, OnlyThis
  <2>2. OthersHold(k, H, pl, H, pl2)
    BY <1>2, <2>1, OtherHolds
  <2> QED
    BY <2>2 DEF OthersHold
<1> HIDE DEF g, h
<1>6. M.waitProcs = Lk[s].waitProcs
  <2>1. L \in LockRecord
    BY <1>2 DEF Asked, Tally
  <2>2. IsFiniteSet({g})
    BY FS_Singleton
  <2>3. Granted(M, L, {g})
    BY <2>1, <2>2, GrantFields
  <2>4. L.waitProcs = Lk[s].waitProcs
    BY <1>2 DEF Requested, LockRecord
  <2> QED
    BY <2>3, <2>4 DEF Granted
<1>7. Ls = [Lk EXCEPT ![s] = M] /\ Lk \in [Slots -> LockRecord]
  BY <1>1 DEF g, Good, LocksOk
<1> HIDE DEF M, s
<1>8. Keeps({}, Lk, H, pl, wait, Ls, H, pl2, wait)
  <2>1. ASSUME NEW r \in Slots
        PROVE  /\ Ls[r].waitProcs = Lk[r].waitProcs
               /\ Holds(pl, AtSlot(H, r)) \subseteq Holds(pl2, AtSlot(H, r))
    <3>1. CASE r = s
      BY <1>2, <1>4, <1>6, <1>7, <3>1
    <3>2. CASE r # s
      BY <1>5, <1>7, <3>2
    <3> QED
      BY <3>1, <3>2
  <2> QED
    BY <2>1 DEF Keeps
<1> QED
  BY <1>1, <1>8, StuckKept

\* The sequence c is q and then r.
Joint(c, q, r) ==
    /\ Len(c) = Len(q) + Len(r)
    /\ \A i \in 1..Len(q) : c[i] = q[i]
    /\ \A i \in 1..Len(r) : c[Len(q) + i] = r[i]

\* A concatenation has its parts at their places.
LEMMA ConcatPlaces ==
    ASSUME NEW S, NEW q \in Seq(S), NEW r \in Seq(S)
    PROVE  Joint(q \o r, q, r) /\ q \o r \in Seq(S)
BY ConcatFacts DEF Joint

\* Where the members of a queue are once e has been inserted.
LEMMA InsertPlaces ==
    ASSUME NEW S, NEW q \in Seq(S), NEW e \in S, NEW a \in 1..Len(q) + 1, NEW r, r = InsertAt(q, a, e)
    PROVE  /\ Len(r) = Len(q) + 1 /\ r[a] = e
           /\ \A i \in 1..a - 1 : r[i] = q[i]
           /\ \A i \in a..Len(q) : r[i + 1] = q[i]
<1> DEFINE n == Len(q)
           u == SubSeq(q, 1, a - 1)
           v == SubSeq(q, a, n)
           w == <<e>>
<1>1. n \in Nat /\ a \in Nat /\ a >= 1 /\ a <= n + 1 /\ \A i \in 1..n : q[i] \in S
  OBVIOUS
<1>2. u \in Seq(S) /\ Len(u) = a - 1 /\ \A i \in 1..a - 1 : u[i] = q[i]
  BY <1>1
<1>3. v \in Seq(S) /\ Len(v) = n - a + 1 /\ \A i \in 1..n - a + 1 : v[i] = q[a + i - 1]
  BY <1>1
<1>4. w \in Seq(S) /\ Len(w) = 1 /\ w[1] = e
  OBVIOUS
<1>5. r = (u \o w) \o v
  BY DEF InsertAt
<1> HIDE DEF n, u, v, w
<1> DEFINE x == u \o w
<1>6. /\ x \in Seq(S) /\ Len(x) = a /\ x[a] = e /\ \A i \in 1..a - 1 : x[i] = q[i]
  <2>1. Joint(x, u, w) /\ x \in Seq(S)
    BY <1>2, <1>4, ConcatPlaces
  <2> HIDE DEF x
  <2>2. Len(x) = a /\ x[(a - 1) + 1] = e
    BY <1>1, <1>2, <1>4, <2>1 DEF Joint
  <2>3. \A i \in 1..a - 1 : x[i] = q[i]
    BY <1>2, <2>1 DEF Joint
  <2> QED
    BY <1>1, <2>1, <2>2, <2>3
<1> HIDE DEF x
<1>7. /\ Len(r) = n + 1
      /\ \A i \in 1..a : r[i] = x[i]
      /\ \A i \in 1..n - a + 1 : r[a + i] = v[i]
  <2>1. Joint(x \o v, x, v)
    BY <1>3, <1>6, ConcatPlaces
  <2>2. r = x \o v
    BY <1>5 DEF x
  <2>3. Joint(r, x, v)
    BY <2>1, <2>2
  <2> QED
    BY <1>1, <1>3, <1>6, <2>3 DEF Joint
<1>8. r[a] = e
  BY <1>1, <1>6, <1>7
<1>9. ASSUME NEW i \in 1..a - 1 PROVE r[i] = q[i]
  <2>1. i \in 1..a
    BY <1>1
  <2> QED
    BY <1>6, <1>7, <2>1
<1>10. ASSUME NEW i \in a..n PROVE r[i + 1] = q[i]
  <2> DEFINE j == i + 1 - a
  <2>1. j \in 1..n - a + 1 /\ a + j = i + 1 /\ a + j - 1 = i
    BY <1>1
  <2> HIDE DEF j
  <2>2. r[a + j] = v[j] /\ v[j] = q[a + j - 1]
    BY <1>3, <1>7, <2>1
  <2> QED
    BY <2>1, <2>2
<1> QED
  BY <1>7, <1>8, <1>9, <1>10 DEF n

\* p, at the place a of the queue q and with the request m, must wait.
MustWait(q, a, p, m, X, wt) ==
    \/ \E j \in 1..(a - 1) : wt[q[j]].mode \in ConflictTab[m]
    \/ \E h \in X : h[1][2] # p /\ h[2] \in ConflictTab[m]

\* A queue of processes that must wait, with one more of them inserted anywhere, is one.
LEMMA JoinedBlocked ==
    ASSUME NEW q \in Seq(Procs), NEW p \in Procs, NEW a \in 1..Len(q) + 1, NEW X, NEW wt, Blocked(q, X, wt),
           NEW m, MustWait(q, a, p, m, X, wt),
           NEW wt2, wt2[p].mode = m, \A w \in ToSet(q) : wt2[w].mode = wt[w].mode
    PROVE  Blocked(InsertAt(q, a, p), X, wt2)
<1> DEFINE r == InsertAt(q, a, p)
<1>1. /\ Len(r) = Len(q) + 1 /\ r[a] = p
      /\ \A i \in 1..a - 1 : r[i] = q[i]
      /\ \A i \in a..Len(q) : r[i + 1] = q[i]
  BY InsertPlaces
<1>2. Len(q) \in Nat /\ \A i \in 1..Len(q) : q[i] \in ToSet(q)
  BY SetOf
<1>3. \A i \in 1..Len(q) : wt2[q[i]].mode = wt[q[i]].mode
  BY <1>2
<1> HIDE DEF r
\* Where the waiter at i is, and that whoever was before him is so still.
<1> DEFINE f(i) == IF i < a THEN i ELSE i + 1
<1>4. \A i \in 1..Len(q) : r[f(i)] = q[i] /\ \A j \in 1..(i - 1) : f(j) \in 1..(f(i) - 1) /\ r[f(j)] = q[j]
  BY <1>1, <1>2
<1>5. \A b \in 1..Len(r) : b = a \/ \E i \in 1..Len(q) : b = f(i)
  <2> SUFFICES ASSUME NEW b \in 1..Len(r), b # a PROVE \E i \in 1..Len(q) : b = f(i)
    OBVIOUS
  <2>1. CASE b < a
    <3>1. b \in 1..Len(q) /\ b = f(b)
      BY <1>1, <1>2, <2>1
    <3> QED
      BY <3>1
  <2>2. CASE b > a
    <3>1. b - 1 \in 1..Len(q) /\ b = f(b - 1)
      BY <1>1, <1>2, <2>2
    <3> QED
      BY <3>1
  <2> QED
    BY <1>1, <1>2, <2>1, <2>2
<1> HIDE DEF f
<1>6. ASSUME NEW b \in 1..Len(r)
      PROVE  \/ \E c \in 1..(b - 1) : wt2[r[c]].mode \in ConflictTab[wt2[r[b]].mode]
             \/ \E h \in X : h[1][2] # r[b] /\ h[2] \in ConflictTab[wt2[r[b]].mode]
  <2>1. CASE b = a
    <3>1. ASSUME NEW j \in 1..(a - 1), wt[q[j]].mode \in ConflictTab[m]
          PROVE  \E c \in 1..(b - 1) : wt2[r[c]].mode \in ConflictTab[wt2[r[b]].mode]
      <4>1. j \in 1..Len(q) /\ j \in 1..(b - 1) /\ r[j] = q[j]
        BY <1>1, <1>2, <2>1
      <4> QED
        BY <1>1, <1>3, <2>1, <3>1, <4>1
    <3> QED
      BY <1>1, <2>1, <3>1 DEF MustWait
  <2>2. ASSUME NEW i \in 1..Len(q), b = f(i)
        PROVE  \/ \E c \in 1..(b - 1) : wt2[r[c]].mode \in ConflictTab[wt2[r[b]].mode]
               \/ \E h \in X : h[1][2] # r[b] /\ h[2] \in ConflictTab[wt2[r[b]].mode]
    <3>1. r[b] = q[i] /\ wt2[q[i]].mode = wt[q[i]].mode
      BY <1>3, <1>4, <2>2
    <3>2. ASSUME NEW j \in 1..(i - 1), wt[q[j]].mode \in ConflictTab[wt[q[i]].mode]
          PROVE  \E c \in 1..(b - 1) : wt2[r[c]].mode \in ConflictTab[wt2[r[b]].mode]
      <4>1. f(j) \in 1..(b - 1) /\ r[f(j)] = q[j]
        BY <1>4, <2>2
      <4>2. j \in 1..Len(q)
        BY <1>2
      <4> QED
        BY <1>3, <3>1, <3>2, <4>1, <4>2
    <3> QED
      BY <3>1, <3>2 DEF Blocked
  <2> QED
    BY <1>5, <2>1, <2>2
<1> QED
  BY <1>6 DEF Blocked, r

\* The LOCK M after p has entered its wait queue.
Joined(M, s, p, m, X, R) ==
    /\ Tally(M, X, R \cup {<<p, m>>}) /\ Mask(M, R \cup {<<p, m>>})
    /\ M.waitProcs \in Seq(Procs) /\ Once(M.waitProcs) /\ ToSet(M.waitProcs) = Waiting(wait, s) \cup {p}

Joining(L, p, m, a, M) ==
    /\ a \in 1..Len(L.waitProcs) + 1
    /\ M = [L EXCEPT !.waitProcs = InsertAt(L.waitProcs, a, p), !.waitMask = @ \cup {m}]

\* ProcSleep puts the request in the wait queue and its mode in waitMask.
LEMMA Joins ==
    ASSUME NEW L, NEW s, NEW p \in Procs, NEW m \in Modes, NEW X, NEW R, Asked(L, s, p, m, X, R),
           NEW a, NEW M, Joining(L, p, m, a, M)
    PROVE  Joined(M, s, p, m, X, R) /\ M.tag = L.tag
<1> DEFINE q == L.waitProcs  q2 == InsertAt(q, a, p)  g == <<p, m>>  R2 == R \cup {g}  K == L.waitMask \cup {m}
<1> USE DEF Joining
<1>1. /\ L \in LockRecord /\ Tally(L, X, R2) /\ Mask(L, R) /\ g \notin R
      /\ Once(q) /\ ToSet(q) = Waiting(wait, s) /\ p \notin ToSet(q)
  BY DEF Asked, Tally
<1>2. q \in Seq(Procs) /\ L.waitMask \subseteq Modes
  BY <1>1, RecordTypes
<1>3. q2 \in Seq(Procs) /\ Once(q2) /\ ToSet(q2) = ToSet(q) \cup {p}
  <2> HIDE DEF q
  <2> QED
    BY <1>1, <1>2, InsertFacts DEF q
<1>4. K \subseteq Modes /\ \A i : i \in K <=> i \in L.waitMask \/ i = m
  BY <1>2
<1>5. M = [L EXCEPT !.waitProcs = q2, !.waitMask = K]
  OBVIOUS
<1> HIDE DEF q2, q, K, R2, g
<1>6. M \in LockRecord
  BY <1>1, <1>3, <1>4, <1>5 DEF LockRecord
<1>7. /\ M.waitProcs = q2 /\ M.waitMask = K /\ M.tag = L.tag /\ M.granted = L.granted /\ M.grantMask = L.grantMask
      /\ M.requested = L.requested /\ M.nRequested = L.nRequested /\ M.nGranted = L.nGranted
  BY <1>1, <1>5 DEF LockRecord
<1>8. Tally(M, X, R2)
  BY <1>1, <1>6, <1>7 DEF Tally
<1>9. Mask(M, R2)
  <2>1. ASSUME NEW i \in Modes PROVE Of(R2, i) # {} <=> Of(R, i) # {} \/ i = m
    <3>1. \A h : h \in Of(R2, i) <=> h \in Of(R, i) \/ (h = g /\ h[2] = i)
      BY DEF Of, R2
    <3>2. g[2] = m
      BY DEF g
    <3> QED
      BY <3>1, <3>2
  <2> QED
    BY <1>1, <1>4, <1>7, <2>1 DEF Mask
<1> QED
  BY <1>1, <1>3, <1>7, <1>8, <1>9 DEF Joined, R2, g

\* p goes to sleep.
LEMMA AskSleep ==
    ASSUME NEW hash, NEW free, NEW Lk, NEW H, NEW pl, NEW ph, NEW p, NEW k, NEW m,
           Asking(hash, free, Lk, H, pl, ph, p, k, m),
           NEW L, L = Requested(Lk[k[1]], m), NEW a, NEW M, Joining(L, p, m, a, M),
           NEW Ls, Ls = [Lk EXCEPT ![k[1]] = M], NEW held \in SUBSET Modes,
           NEW wt2, wt2 = [wait EXCEPT ![p] = [lock |-> k[1], holder |-> k, mode |-> m,
                                               heldLocks |-> held, errType |-> "ok"]],
           NEW at2, at2 = [pc EXCEPT ![p] = "wait"]
    PROVE  Good(hash, free, Ls, H, pl, ph, wt2, sem, at2)
<1> DEFINE s == k[1]
           X == Holds(pl, AtSlot(H, s))
           R == Asks(wait, s)
           w == [lock |-> s, holder |-> k, mode |-> m, heldLocks |-> held, errType |-> "ok"]
<1>1. /\ Good(hash, free, Lk, H, pl, ph, wait, sem, pc) /\ p \in Procs /\ k \in H /\ k[2] = p
      /\ s \in Range(hash) /\ pc[p] = "run" /\ m \in Modes /\ pl[k].holding[m] < MaxHold
  BY DEF Asking
<1>2. /\ k \in Key /\ s \in Slots /\ H \in SUBSET Key /\ pl \in [Key -> ProclockRecord] /\ CountsOwn(pl, k)
      /\ sem[p] = 0 /\ wait[p].lock = 0 /\ Lk[s] \in LockRecord
      /\ Asked(L, s, p, m, X, R) /\ L.tag = Lk[s].tag
  BY AskFacts
<1> HIDE DEF X, R
<1>3. Joined(M, s, p, m, X, R) /\ M.tag = L.tag
  <2>1. Asked(L, s, p, m, X, R) /\ p \in Procs /\ m \in Modes /\ Joining(L, p, m, a, M)
    BY <1>1, <1>2
  <2> QED
    BY <2>1, Joins
<1>4. /\ WaitsOk(pc, wait, sem, H, pl) /\ wait \in [Procs -> WaitRecord] /\ sem \in [Procs -> Nat]
  BY <1>1 DEF Good, WaitsOk
<1>5. w \in WaitRecord /\ w.lock = s /\ w.holder = k /\ w.mode = m
  BY <1>1, <1>2 DEF WaitRecord
<1> HIDE DEF w
<1>6. WaitOk(p, "wait", w, 0, H, pl)
  BY <1>1, <1>2, <1>5, NumSlotsNat DEF WaitOk, Slots
<1>7. WaitsOk(at2, wt2, sem, H, pl)
  <2>1. WaitsOk([pc EXCEPT ![p] = "wait"], [wait EXCEPT ![p] = w], [sem EXCEPT ![p] = 0], H, pl)
    BY <1>1, <1>4, <1>5, <1>6, WaitsOwn
  <2>2. [sem EXCEPT ![p] = 0] = sem
    BY <1>2, <1>4
  <2>3. wt2 = [wait EXCEPT ![p] = w]
    BY DEF w
  <2> QED
    BY <2>1, <2>2, <2>3
<1>8. wt2[p] = w /\ \A q \in Procs : q # p => wt2[q] = wait[q]
  BY <1>1, <1>4, <1>5 DEF w
<1>9. /\ Waiting(wt2, s) = Waiting(wait, s) \cup {p} /\ p \notin Waiting(wait, s)
      /\ \A r \in Slots \ {s} : Waiting(wt2, r) = Waiting(wait, r) /\ p \notin Waiting(wait, r)
  <2>1. \A r \in Slots : r # 0
    BY NumSlotsNat DEF Slots
  <2> QED
    BY <1>1, <1>2, <1>5, <1>8, <2>1 DEF Waiting
<1>10. Elsewhere(s, hash, wait, hash, wt2)
  BY <1>8, <1>9 DEF Elsewhere, Waiting
<1>11. Asks(wt2, s) = R \cup {<<p, m>>}
  <2>1. Asks(wt2, s) = {<<q, wt2[q].mode>> : q \in Waiting(wait, s) \cup {p}}
    BY <1>9 DEF Asks, Pairs
  <2>2. R = {<<q, wait[q].mode>> : q \in Waiting(wait, s)}
    BY DEF Asks, Pairs, R
  <2>3. \A q \in Waiting(wait, s) : wt2[q].mode = wait[q].mode
    BY <1>8, <1>9 DEF Waiting
  <2>4. wt2[p].mode = m
    BY <1>5, <1>8
  <2> QED
    BY <2>1, <2>2, <2>3, <2>4
<1>12. SlotGood(hash, s, M, H, pl, wt2)
  <2>1. Tally(M, X, Asks(wt2, s)) /\ Mask(M, Asks(wt2, s)) /\ Apart(X)
    BY <1>2, <1>3, <1>11 DEF Joined, Asked
  <2>2. Queued(M, s, wt2)
    BY <1>3, <1>9 DEF Queued, Joined
  <2> QED
    BY <1>1, <2>1, <2>2 DEF SlotGood, SlotOk, X
<1>13. M \in LockRecord
  BY <1>3 DEF Joined, Tally
<1>14. OnlyThis(k, H, pl, H, pl)
  BY DEF OnlyThis
<1>15. LockStep(hash, Lk, H, pl, wait, k, M, Ls, pl, wt2, sem, at2)
  BY <1>1, <1>2, <1>3, <1>7, <1>10, <1>12, <1>13, <1>14 DEF LockStep
<1> QED
  BY <1>1, <1>15, OneAsk

\* Nobody gets nearer by that, and p must wait.
LEMMA AskSleepStuck ==
    ASSUME NEW hash, NEW free, NEW Lk, NEW H, NEW pl, NEW ph, NEW p, NEW k, NEW m,
           Asking(hash, free, Lk, H, pl, ph, p, k, m), Stuck({}, Lk, H, pl, wait),
           NEW L, L = Requested(Lk[k[1]], m), NEW a, NEW M, Joining(L, p, m, a, M),
           MustWait(L.waitProcs, a, p, m, Holds(pl, AtSlot(H, k[1])), wait),
           NEW Ls, Ls = [Lk EXCEPT ![k[1]] = M],
           NEW w, w.mode = m, NEW wt2, wt2 = [wait EXCEPT ![p] = w]
    PROVE  Stuck({}, Ls, H, pl, wt2)
<1> DEFINE s == k[1]
           X == Holds(pl, AtSlot(H, s))
           q == L.waitProcs
<1>1. Good(hash, free, Lk, H, pl, ph, wait, sem, pc) /\ p \in Procs
  BY DEF Asking
<1>2. /\ s \in Slots /\ wait[p].lock = 0 /\ Lk[s] \in LockRecord
      /\ Asked(L, s, p, m, X, Asks(wait, s))
  BY AskFacts
<1>3. /\ Lk \in [Slots -> LockRecord] /\ wait \in [Procs -> WaitRecord]
  BY <1>1 DEF Good, LocksOk, WaitsOk
<1>4. wt2[p].mode = m /\ \A u \in Procs : u # p => wt2[u] = wait[u]
  BY <1>1, <1>3
<1>5. q = Lk[s].waitProcs /\ q \in Seq(Procs) /\ p \notin ToSet(q) /\ Blocked(q, X, wait)
  <2>1. q = Lk[s].waitProcs
    BY <1>2 DEF Requested, LockRecord
  <2>2. q \in Seq(Procs)
    BY <1>2, <2>1, RecordTypes
  <2>3. p \notin ToSet(q)
    BY <1>2 DEF Asked
  <2> QED
    BY <1>2, <2>1, <2>2, <2>3 DEF Stuck
<1>6. a \in 1..Len(q) + 1 /\ M.waitProcs = InsertAt(q, a, p) /\ MustWait(q, a, p, m, X, wait)
  <2>1. L \in LockRecord
    BY <1>2 DEF Asked, Tally
  <2> QED
    BY <2>1 DEF Joining, LockRecord
<1>7. \A u \in ToSet(q) : wt2[u].mode = wait[u].mode
  <2>1. \A u \in ToSet(q) : u \in Procs
    BY <1>5, SetOf
  <2> QED
    BY <1>4, <1>5, <2>1
<1> HIDE DEF X, q, s
<1>8. Blocked(InsertAt(q, a, p), X, wt2)
  <2>1. /\ q \in Seq(Procs) /\ p \in Procs /\ a \in 1..Len(q) + 1 /\ Blocked(q, X, wait)
        /\ MustWait(q, a, p, m, X, wait) /\ wt2[p].mode = m /\ \A u \in ToSet(q) : wt2[u].mode = wait[u].mode
    BY <1>1, <1>4, <1>5, <1>6, <1>7
  <2> QED
    BY <2>1, JoinedBlocked
<1> DEFINE S == {s}
<1>9. Ls[s] = M /\ \A r \in Slots \ S : Ls[r] = Lk[r]
  BY <1>2, <1>3 DEF s
<1>10. Keeps(S, Lk, H, pl, wait, Ls, H, pl, wt2)
  BY <1>2, <1>4, <1>9 DEF Keeps
<1>s. S = {s}
  OBVIOUS
<1> HIDE DEF S
<1>11. Stuck(S, Ls, H, pl, wt2)
  BY <1>1, <1>10, StuckKept
<1>12. \A r \in Slots : Blocked(Ls[r].waitProcs, Holds(pl, AtSlot(H, r)), wt2)
  BY <1>6, <1>8, <1>9, <1>11, <1>s DEF Stuck, X
<1> QED
  BY <1>12 DEF Stuck

\* p finds an early deadlock: it has entered the queue, and leaves it again.
LEMMA AskDeadlock ==
    ASSUME NEW hash, NEW free, NEW Lk, NEW H, NEW pl, NEW ph, NEW p, NEW k, NEW m,
           Asking(hash, free, Lk, H, pl, ph, p, k, m), WakeupReady({k[1]}, H, pl, wait),
           NEW L, L = Requested(Lk[k[1]], m), NEW a, NEW M, Joining(L, p, m, a, M),
           NEW Ls, Ls = [Lk EXCEPT ![k[1]] = Dequeue(M, p, m)],
           ProcLockWakeup({k[1]}, Ls, pl, wait, sem), Stuck({}, Lk, H, pl, wait),
           NEW at2, at2 = [pc EXCEPT ![p] = "abort"]
    PROVE  /\ Good(hash, free, lock', H, proclock', ph, wait', sem', at2)
           /\ Stuck({}, lock', H, proclock', wait')
<1> DEFINE s == k[1]
           X == Holds(pl, AtSlot(H, s))
           R == Asks(wait, s)
           D == Dequeue(M, p, m)
<1>1. /\ Good(hash, free, Lk, H, pl, ph, wait, sem, pc) /\ p \in Procs /\ k \in H /\ k[2] = p
      /\ s \in Range(hash) /\ pc[p] = "run" /\ m \in Modes
  BY DEF Asking
<1>2. /\ k \in Key /\ s \in Slots /\ H \in SUBSET Key /\ pl \in [Key -> ProclockRecord] /\ CountsOwn(pl, k)
      /\ Asked(L, s, p, m, X, R) /\ L.tag = Lk[s].tag
  BY AskFacts
<1> HIDE DEF X, R
<1>3. Joined(M, s, p, m, X, R) /\ M.tag = L.tag
  <2>1. Asked(L, s, p, m, X, R) /\ p \in Procs /\ m \in Modes /\ Joining(L, p, m, a, M)
    BY <1>1, <1>2
  <2> QED
    BY <2>1, Joins
<1>4. M \in LockRecord /\ Dequeued(D, M, p, m)
  <2>1. M \in LockRecord
    BY <1>3 DEF Joined, Tally
  <2> QED
    BY <1>1, <2>1, DequeueFields
<1>5. Tally(D, X, R) /\ Mask(D, R)
  <2> DEFINE R2 == R \cup {<<p, m>>}
  <2>1. Tally(M, X, R2) /\ Mask(M, R2) /\ <<p, m>> \in R2 /\ R2 \ {<<p, m>>} = R
    BY <1>2, <1>3 DEF Joined, Asked
  <2> HIDE DEF R2
  <2>2. Tally(Dequeue(M, p, m), X, R2 \ {<<p, m>>}) /\ Mask(Dequeue(M, p, m), R2 \ {<<p, m>>})
    BY <1>1, <2>1, TallyDequeue
  <2> QED
    BY <2>1, <2>2
<1>6. Queued(D, s, wait)
  <2>1. /\ M.waitProcs \in Seq(Procs) /\ Once(M.waitProcs) /\ ToSet(M.waitProcs) = Waiting(wait, s) \cup {p}
        /\ p \notin Waiting(wait, s)
    BY <1>2, <1>3 DEF Joined, Asked
  <2>2. Once(Without(M.waitProcs, {p})) /\ ToSet(Without(M.waitProcs, {p})) = ToSet(M.waitProcs) \ {p}
    BY <2>1, WithoutFacts
  <2> QED
    BY <1>4, <2>1, <2>2 DEF Queued, Dequeued
<1>7. SlotGood(hash, s, D, H, pl, wait)
  <2>1. Apart(X)
    BY <1>2 DEF Asked
  <2> QED
    BY <1>1, <1>5, <1>6, <2>1 DEF SlotGood, SlotOk, X, R
<1>8. D \in LockRecord /\ D.tag = Lk[k[1]].tag /\ Ls = [Lk EXCEPT ![k[1]] = D]
  BY <1>2, <1>3, <1>4 DEF Dequeued
<1>9. WaitsOk(pc, wait, sem, H, pl) /\ OnlyThis(k, H, pl, H, pl) /\ Elsewhere(k[1], hash, wait, hash, wait)
  BY <1>1, SameElsewhere DEF Good, OnlyThis
<1> HIDE DEF D
<1>10. LockStep(hash, Lk, H, pl, wait, k, D, Ls, pl, wait, sem, pc)
  BY <1>1, <1>2, <1>7, <1>8, <1>9 DEF LockStep
<1>11. Good(hash, free, Ls, H, pl, ph, wait, sem, pc)
  BY <1>1, <1>10, OneAsk
<1>12. Good(hash, free, Ls, H, pl, ph, wait, sem, at2)
  BY <1>1, <1>11, GoodAborts
<1>13. {s} \in SUBSET Slots /\ {s} \subseteq Range(hash)
  BY <1>1, <1>2
<1> DEFINE S == {k[1]}
<1>14. Keeps(S, Lk, H, pl, wait, Ls, H, pl, wait)
  <2>1. \A r \in Slots \ S : Ls[r] = Lk[r]
    <3>1. Lk \in [Slots -> LockRecord]
      BY <1>1 DEF Good, LocksOk
    <3> QED
      BY <1>8, <3>1
  <2> QED
    BY <2>1 DEF Keeps
<1>15. S \in SUBSET Slots /\ S \subseteq Range(hash) /\ WakeupReady(S, H, pl, wait) /\ ProcLockWakeup(S, Ls, pl, wait, sem)
  BY <1>13
<1> HIDE DEF S
<1>16. Stuck(S, Ls, H, pl, wait)
  BY <1>1, <1>14, StuckKept
<1>17. Stuck({}, lock', H, proclock', wait')
  BY <1>12, <1>15, <1>16, WakeupStuck
<1>18. Good(hash, free, lock', H, proclock', ph, wait', sem', at2)
  BY <1>12, <1>15, Wakeup
<1> QED
  BY <1>17, <1>18

\* The LOCK and the PROCLOCK of a request, found or created.
Prepared(t, s, k, Lk, pl) ==
    /\ lockHash[t] # 0 => s = lockHash[t] /\ Lk = lock /\ freeLocks' = freeLocks
    /\ lockHash[t] = 0 =>
          /\ CanCreateLock /\ s = Head(freeLocks)
          /\ Lk = [lock EXCEPT ![s] = NewLock(t)] /\ freeLocks' = Tail(freeLocks)
    /\ lockHash' = [lockHash EXCEPT ![t] = s]
    /\ proclockHash' = proclockHash \cup {k}
    /\ k \in proclockHash => pl = proclock /\ procHolders' = procHolders
    /\ k \notin proclockHash =>
          /\ pl = [proclock EXCEPT ![k] = NewProclock]
          /\ procHolders' = [procHolders EXCEPT ![k[2]] = Append(@, k)]

\* LockAcquire finds or creates the LOCK.
LEMMA LockPrepared ==
    ASSUME IGood, ~CreateWhileDangling, NEW t \in Tags, NEW s, NEW k, NEW Lk, NEW pl, Prepared(t, s, k, Lk, pl)
    PROVE  /\ Good(lockHash', freeLocks', Lk, proclockHash, proclock, procHolders, wait, sem, pc)
           /\ s \in Slots /\ s \in Range(lockHash')
<1>1. CASE lockHash[t] # 0
  <2>1. s \in Slots /\ s \in Range(lockHash)
    BY <1>1, LockFound DEF Prepared
  <2>2. lockHash' = lockHash
    <3>1. lockHash \in [Tags -> {0} \cup Slots]
      BY DEF IGood, Good, TableOk
    <3> QED
      BY <1>1, <3>1 DEF Prepared
  <2> QED
    BY <1>1, <2>1, <2>2 DEF Prepared, IGood
<1>2. CASE lockHash[t] = 0
  <2>1. /\ CanCreateLock /\ s = Head(freeLocks) /\ freeLocks' = Tail(freeLocks)
        /\ Lk = [lock EXCEPT ![Head(freeLocks)] = NewLock(t)] /\ lockHash' = [lockHash EXCEPT ![t] = Head(freeLocks)]
    BY <1>2 DEF Prepared
  <2>2. /\ Good(lockHash', freeLocks', Lk, proclockHash, proclock, procHolders, wait, sem, pc)
        /\ Head(freeLocks) \in Slots /\ Head(freeLocks) \in Range(lockHash')
    BY <1>2, <2>1, CreateLock
  <2> QED
    BY <2>1, <2>2
<1> QED
  BY <1>1, <1>2

\* LockAcquire finds or creates the PROCLOCK.
LEMMA ProclockPrepared ==
    ASSUME IGood, ~CreateWhileDangling, NEW t \in Tags, NEW s, NEW k \in Key, NEW Lk, NEW pl,
           Prepared(t, s, k, Lk, pl), k[1] = s, pc[k[2]] = "run"
    PROVE  /\ Good(lockHash', freeLocks', Lk, proclockHash', pl, procHolders', wait, sem, pc)
           /\ \A r : Holds(pl, AtSlot(proclockHash', r)) = Holds(proclock, AtSlot(proclockHash, r))
<1>1. /\ Good(lockHash', freeLocks', Lk, proclockHash, proclock, procHolders, wait, sem, pc)
      /\ s \in Range(lockHash')
  BY LockPrepared
<1>2. CASE k \in proclockHash
  <2>1. proclockHash' = proclockHash /\ pl = proclock /\ procHolders' = procHolders
    BY <1>2 DEF Prepared
  <2> QED
    BY <1>1, <2>1
<1>3. CASE k \notin proclockHash
  <2>1. /\ proclockHash' = proclockHash \cup {k} /\ pl = [proclock EXCEPT ![k] = NewProclock]
        /\ procHolders' = [procHolders EXCEPT ![k[2]] = Append(@, k)]
    BY <1>3 DEF Prepared
  <2>2. Entering(k, proclockHash, proclockHash', proclock, pl, procHolders, procHolders')
    BY <1>3, <2>1 DEF Entering
  <2> QED
    BY <1>1, <2>2, AddHolder
<1> QED
  BY <1>2, <1>3

\* The LOCK and the PROCLOCK that LockAcquire creates bring nobody nearer.
LEMMA PreparedStuck ==
    ASSUME IGood, AllStuck, NEW t, NEW s, NEW k, NEW Lk, NEW pl, Prepared(t, s, k, Lk, pl),
           \A r : Holds(pl, AtSlot(proclockHash', r)) = Holds(proclock, AtSlot(proclockHash, r))
    PROVE  Stuck({}, Lk, proclockHash', pl, wait)
<1>1. Stuck({}, Lk, proclockHash, proclock, wait)
  <2>1. CASE lockHash[t] # 0
    BY <2>1 DEF Prepared, AllStuck
  <2>2. CASE lockHash[t] = 0
    <3>1. Lk = [lock EXCEPT ![s] = NewLock(t)]
      BY <2>2 DEF Prepared
    <3> QED
      BY <3>1, CreateStuck
  <2> QED
    BY <2>1, <2>2
<1> QED
  BY <1>1 DEF Stuck

\* Nobody's own counts change by that.
LEMMA CountsPrepared ==
    ASSUME IGood, NEW pl, NEW H2,
           \A r : Holds(pl, AtSlot(H2, r)) = Holds(proclock, AtSlot(proclockHash, r)), NEW s
    PROVE  /\ \A p \in Procs, i \in Modes : LockCountMyLocks(p, s)[i] = Cardinality(Of(Mine(Holds(pl, AtSlot(H2, s)), p), i))
           /\ WakeupReady({s}, H2, pl, wait)
<1>1. HoldersOk(proclockHash, proclock, procHolders)
  BY DEF IGood, Good
<1>2. ASSUME NEW p \in Procs, NEW i \in Modes
      PROVE  LockCountMyLocks(p, s)[i] = Cardinality(Of(Mine(Holds(pl, AtSlot(H2, s)), p), i))
  <2>1. LockCountMyLocks(p, s)[i] = Cardinality(Of(Mine(Holds(proclock, AtSlot(proclockHash, s)), p), i))
    BY <1>1, CountMine
  <2> QED
    BY <2>1
<1>3. Counted(s, H2, pl, wait)
  BY <1>2 DEF Counted, Waiting
<1>4. WakeupReady({s}, H2, pl, wait)
  BY <1>3 DEF WakeupReady
<1> QED
  BY <1>2, <1>4

Sleeps(p, k, m, M, held, pl) ==
    /\ lock' = [lock EXCEPT ![k[1]] = M] /\ held \in SUBSET Modes
    /\ wait' = [wait EXCEPT ![p] = [lock |-> k[1], holder |-> k, mode |-> m,
                                    heldLocks |-> held, errType |-> "ok"]]
    /\ pc' = [pc EXCEPT ![p] = "wait"] /\ proclock' = pl /\ sem' = sem

GivesUp(p, k, m, M, pl) ==
    /\ ProcLockWakeup({k[1]}, [lock EXCEPT ![k[1]] = Dequeue(M, p, m)], pl, wait, sem)
    /\ pc' = [pc EXCEPT ![p] = "abort"]

\* What makes ProcSleep sleep, with a place a in the queue.
Obstructed(L, m, own, a) ==
    \/ ConflictTab[m] \cap AheadRequests(L, a - 1, {}) # {}
    \/ ~LockCheckConflicts(L, m, own)
    \/ a = Len(L.waitProcs) + 1 /\ ConflictTab[m] \cap L.waitMask # {}

\* Whoever ProcSleep sends to sleep must wait (proc.c:581): for an earlier waiter or for a holder.
LEMMA SleeperWaits ==
    ASSUME NEW L, NEW s, NEW p, NEW m \in Modes, NEW X, Asked(L, s, p, m, X, Asks(wait, s)),
           NEW own, \A i \in Modes : own[i] = Cardinality(Of(Mine(X, p), i)),
           NEW a \in 1..Len(L.waitProcs) + 1, Obstructed(L, m, own, a)
    PROVE  MustWait(L.waitProcs, a, p, m, X, wait)
<1> DEFINE q == L.waitProcs
           R == Asks(wait, s)
           R2 == R \cup {<<p, m>>}
<1>1. Tally(L, X, R2) /\ Mask(L, R) /\ L \in LockRecord /\ ToSet(q) = Waiting(wait, s)
  BY DEF Asked, Tally
<1> HIDE DEF R2
<1>2. ASSUME ConflictTab[m] \cap AheadRequests(L, a - 1, {}) # {}
      PROVE  \E j \in 1..(a - 1) : wait[q[j]].mode \in ConflictTab[m]
  BY <1>2 DEF AheadRequests
<1>3. ASSUME ~LockCheckConflicts(L, m, own)
      PROVE  \E h \in X : h[1][2] # p /\ h[2] \in ConflictTab[m]
  BY <1>1, <1>3, Others
<1>4. ASSUME a = Len(q) + 1, NEW i \in ConflictTab[m], i \in L.waitMask
      PROVE  \E j \in 1..(a - 1) : wait[q[j]].mode \in ConflictTab[m]
  <2>1. q \in Seq(Procs) /\ i \in Modes
    BY <1>1, <1>4, RecordTypes
  <2>2. Of(R, i) # {}
    BY <1>1, <1>4, <2>1 DEF Mask
  <2>3. PICK w \in Waiting(wait, s) : wait[w].mode = i
    BY <2>2 DEF Of, Asks, Pairs
  <2>4. Len(q) \in Nat /\ \A e : e \in ToSet(q) <=> \E j \in 1..Len(q) : q[j] = e
    <3> HIDE DEF q
    <3> QED
      BY <2>1, SetOf
  <2>5. PICK j \in 1..Len(q) : q[j] = w
    BY <1>1, <2>3, <2>4
  <2>6. j \in 1..(a - 1)
    BY <1>4, <2>4
  <2> QED
    BY <1>4, <2>3, <2>5, <2>6
<1> QED
  BY <1>2, <1>3, <1>4 DEF Obstructed, MustWait

\* The three ways that ProcSleep goes on.
LEMMA SleepCases ==
    ASSUME NEW p, NEW k, NEW L, NEW m, NEW own, NEW pl, ProcSleep(p, k, L, m, own, pl), L.waitProcs \in Seq(Procs),
           ~GrantAtOnce(L, m, own)
    PROVE  \/ LockCheckConflicts(L, m, own) /\ GrantNow(k, L, m, pl)
           \/ \E a, M : Joining(L, p, m, a, M) /\ GivesUp(p, k, m, M, pl)
           \/ \E a, M, held : /\ Joining(L, p, m, a, M) /\ Obstructed(L, m, own, a)
                             /\ Sleeps(p, k, m, M, held, pl)
<1> DEFINE q == L.waitProcs
           held == {i \in Modes : own[i] > 0}
           T == {i \in 1..Len(q) : ConflictTab[wait[q[i]].mode] \cap held # {}}
           a == IF T # {} THEN Min(T) ELSE Len(q) + 1
           early == T # {} /\ ConflictTab[m] \cap wait[q[a]].heldLocks # {}
           skip == /\ T # {} /\ ~early
                   /\ ConflictTab[m] \cap AheadRequests(L, a - 1, {}) = {}
                   /\ LockCheckConflicts(L, m, own)
           M == [L EXCEPT !.waitProcs = InsertAt(q, a, p), !.waitMask = @ \cup {m}]
<1>1. a \in 1..Len(q) + 1
  <2>1. Len(q) \in Nat /\ T \in SUBSET (1..Len(q))
    OBVIOUS
  <2> HIDE DEF T
  <2>2. CASE T # {}
    <3>1. T \in SUBSET Nat
      BY <2>1
    <3>2. \E n \in T : \A i \in T : n <= i
      BY <2>2, <3>1, NatLeast
    <3>3. Min(T) \in T
      BY <3>2 DEF Min
    <3>4. a = Min(T)
      BY <2>2
    <3>5. Min(T) \in 1..Len(q)
      BY <2>1, <3>3
    <3> HIDE DEF a
    <3> QED
      BY <2>1, <3>4, <3>5
  <2>3. CASE T = {}
    <3>1. a = Len(q) + 1
      BY <2>3
    <3> HIDE DEF a
    <3> QED
      BY <2>1, <3>1
  <2> QED
    BY <2>2, <2>3
<1>2. \/ skip /\ GrantNow(k, L, m, pl)
      \/ GivesUp(p, k, m, M, pl)
      \/ Sleeps(p, k, m, M, held, pl) /\ ~skip /\ ~early
  BY DEF ProcSleep, GivesUp, Sleeps
<1>3. Joining(L, p, m, a, M)
  <2> HIDE DEF a
  <2> QED
    BY <1>1 DEF Joining
<1>4. ASSUME ~skip, ~early PROVE Obstructed(L, m, own, a)
  <2>1. T = {} => a = Len(q) + 1
    OBVIOUS
  <2> HIDE DEF a, early, T
  <2>2. T = {} => a = Len(q) + 1 /\ (ConflictTab[m] \cap L.waitMask # {} \/ ~LockCheckConflicts(L, m, own))
    BY <2>1 DEF GrantAtOnce
  <2>3. T # {} => ConflictTab[m] \cap AheadRequests(L, a - 1, {}) # {} \/ ~LockCheckConflicts(L, m, own)
    BY <1>4
  <2> QED
    BY <2>2, <2>3 DEF Obstructed
<1>5. skip => LockCheckConflicts(L, m, own)
  OBVIOUS
<1> HIDE DEF M, a, held, early, skip
<1> QED
  BY <1>2, <1>3, <1>4, <1>5

\* LockAcquire preserves the invariant, whether it grants, fails or sleeps.
LEMMA LockAcquireStep ==
    ASSUME IInv, ~CreateWhileDangling, NEW p \in Procs, NEW t \in Tags, NEW x \in Xids, NEW m \in Modes,
           LockAcquire(p, t, x, m)
    PROVE  IInv'
<1> DEFINE found == lockHash[t] # 0
           s == IF found THEN lockHash[t] ELSE Head(freeLocks)
           k == <<s, p, x>>
           Lk == IF found THEN lock ELSE [lock EXCEPT ![s] = NewLock(t)]
           L0 == IF found THEN lock[s] ELSE NewLock(t)
           L == Requested(L0, m)
           new == k \notin proclockHash
           pl == IF new THEN [proclock EXCEPT ![k] = NewProclock] ELSE proclock
           own == LockCountMyLocks(p, s)
<1>1. IGood /\ Releasing /\ AllStuck
  BY DEF IInv
<1>2. /\ pc[p] = "run" /\ LockMgrLockFree /\ (found \/ CanCreateLock) /\ pl[k].holding[m] < MaxHold
      /\ lockHash' = [lockHash EXCEPT ![t] = s]
      /\ freeLocks' = IF found THEN freeLocks ELSE Tail(freeLocks)
      /\ proclockHash' = proclockHash \cup {k}
      /\ procHolders' = IF new THEN [procHolders EXCEPT ![p] = Append(@, k)] ELSE procHolders
  BY DEF LockAcquire
<1>3. IF GrantAtOnce(L, m, own) THEN GrantNow(k, L, m, pl) ELSE ProcSleep(p, k, L, m, own, pl)
  BY DEF LockAcquire, Requested
<1>4. Prepared(t, s, k, Lk, pl) /\ k[1] = s /\ k[2] = p
  BY <1>2 DEF Prepared
<1>5. L0 = Lk[k[1]] /\ \A M : [Lk EXCEPT ![k[1]] = M] = [lock EXCEPT ![k[1]] = M]
  <2>1. lock \in [Slots -> LockRecord] /\ s \in Slots
    BY <1>1, <1>4, LockPrepared DEF IGood, Good, LocksOk
  <2> QED
    BY <2>1
<1> HIDE DEF L0, Lk, pl, own, s
<1>6. /\ Good(lockHash', freeLocks', Lk, proclockHash, proclock, procHolders, wait, sem, pc)
      /\ s \in Slots /\ s \in Range(lockHash')
  BY <1>1, <1>4, LockPrepared
<1>7. k \in Key
  BY <1>6 DEF Key
<1> HIDE DEF k
<1>8. /\ Good(lockHash', freeLocks', Lk, proclockHash', pl, procHolders', wait, sem, pc)
      /\ \A r : Holds(pl, AtSlot(proclockHash', r)) = Holds(proclock, AtSlot(proclockHash, r))
  <2>1. IGood /\ k \in Key /\ Prepared(t, s, k, Lk, pl) /\ k[1] = s /\ pc[k[2]] = "run"
    BY <1>1, <1>2, <1>4, <1>7
  <2> QED
    BY <2>1, ProclockPrepared
<1>9. /\ \A i \in Modes : own[i] = Cardinality(Of(Mine(Holds(pl, AtSlot(proclockHash', k[1])), p), i))
      /\ WakeupReady({k[1]}, proclockHash', pl, wait)
  BY <1>1, <1>4, <1>8, CountsPrepared DEF own
<1>10. Asking(lockHash', freeLocks', Lk, proclockHash', pl, procHolders', p, k, m)
  BY <1>2, <1>4, <1>6, <1>8 DEF Asking
<1>s. Stuck({}, Lk, proclockHash', pl, wait)
  BY <1>1, <1>4, <1>8, PreparedStuck
<1>11. pc = [q \in Procs |-> pc[q]]
  BY <1>1, WaitOf
<1>12. L = Requested(Lk[k[1]], m)
  BY <1>5
<1> HIDE DEF L
<1>13. ASSUME own[m] > 0 \/ LockCheckConflicts(L, m, own), GrantNow(k, L, m, pl)
       PROVE  IInv'
  <2>1. /\ lock' = [Lk EXCEPT ![k[1]] = GrantLock(L, {<<p, m>>})] /\ proclock' = [pl EXCEPT ![k] = Hold(@, m)]
        /\ UNCHANGED <<wait, sem, pc>>
    BY <1>4, <1>5, <1>13 DEF GrantNow
  <2>2. Good(lockHash', freeLocks', lock', proclockHash', proclock', procHolders', wait, sem, pc)
    BY <1>9, <1>10, <1>12, <1>13, <2>1, AskNow
  <2>3. IGood'
    BY <2>1, <2>2 DEF IGood
  <2>4. pc' = [pc EXCEPT ![p] = "run"]
    BY <1>2, <1>11, <2>1
  <2>5. Releasing'
    BY <1>1, <1>2, <1>11, <2>4, ReleasingStays
  <2>6. Stuck({}, lock', proclockHash', proclock', wait)
    BY <1>10, <1>12, <1>s, <2>1, AskNowStuck
  <2> QED
    BY <2>1, <2>3, <2>5, <2>6 DEF IInv, AllStuck
<1>14. ASSUME NEW a, NEW M, Joining(L, p, m, a, M), GivesUp(p, k, m, M, pl)
       PROVE  IInv'
  <2> DEFINE Ls == [lock EXCEPT ![k[1]] = Dequeue(M, p, m)]
  <2>1. ProcLockWakeup({k[1]}, Ls, pl, wait, sem) /\ pc' = [pc EXCEPT ![p] = "abort"]
    BY <1>14 DEF GivesUp
  <2>2. Ls = [Lk EXCEPT ![k[1]] = Dequeue(M, p, m)]
    BY <1>5
  <2> HIDE DEF Ls
  <2>3. /\ Good(lockHash', freeLocks', lock', proclockHash', proclock', procHolders', wait', sem', pc')
        /\ Stuck({}, lock', proclockHash', proclock', wait')
    BY <1>9, <1>10, <1>12, <1>14, <1>s, <2>1, <2>2, AskDeadlock
  <2>4. Releasing'
    BY <1>1, <1>2, <1>11, <2>1, ReleasingStays
  <2> QED
    BY <2>3, <2>4 DEF IInv, IGood, AllStuck
<1>15. ASSUME NEW a, NEW M, NEW held, Joining(L, p, m, a, M), Obstructed(L, m, own, a), Sleeps(p, k, m, M, held, pl)
       PROVE  IInv'
  <2>1. /\ lock' = [Lk EXCEPT ![k[1]] = M] /\ held \in SUBSET Modes
        /\ wait' = [wait EXCEPT ![p] = [lock |-> k[1], holder |-> k, mode |-> m,
                                        heldLocks |-> held, errType |-> "ok"]]
        /\ pc' = [pc EXCEPT ![p] = "wait"] /\ proclock' = pl /\ sem' = sem
    BY <1>5, <1>15 DEF Sleeps
  <2>2. Good(lockHash', freeLocks', lock', proclockHash', pl, procHolders', wait', sem, pc')
    BY <1>10, <1>12, <1>15, <2>1, AskSleep
  <2>3. Releasing'
    BY <1>1, <1>2, <1>11, <2>1, ReleasingStays
  <2>4. MustWait(L.waitProcs, a, p, m, Holds(pl, AtSlot(proclockHash', k[1])), wait)
    <3> DEFINE X == Holds(pl, AtSlot(proclockHash', k[1]))
    <3>1. Asked(L, k[1], p, m, X, Asks(wait, k[1])) /\ m \in Modes
      BY <1>10, <1>12, AskFacts
    <3>2. \A i \in Modes : own[i] = Cardinality(Of(Mine(X, p), i))
      BY <1>9
    <3>3. a \in 1..Len(L.waitProcs) + 1
      BY <1>15 DEF Joining
    <3> HIDE DEF X
    <3>4. MustWait(L.waitProcs, a, p, m, X, wait)
      BY <1>15, <3>1, <3>2, <3>3, SleeperWaits
    <3> QED
      BY <3>4 DEF X
  <2>5. Stuck({}, lock', proclockHash', pl, wait')
    <3> DEFINE w == [lock |-> k[1], holder |-> k, mode |-> m, heldLocks |-> held, errType |-> "ok"]
    <3>1. w.mode = m /\ wait' = [wait EXCEPT ![p] = w]
      BY <2>1
    <3> DEFINE H == proclockHash'  hash == lockHash'  free == freeLocks'  ph == procHolders'  Ls == lock'  wt2 == wait'
    <3>2. /\ Asking(hash, free, Lk, H, pl, ph, p, k, m) /\ Stuck({}, Lk, H, pl, wait)
          /\ L = Requested(Lk[k[1]], m) /\ Joining(L, p, m, a, M)
          /\ MustWait(L.waitProcs, a, p, m, Holds(pl, AtSlot(H, k[1])), wait)
          /\ Ls = [Lk EXCEPT ![k[1]] = M] /\ w.mode = m /\ wt2 = [wait EXCEPT ![p] = w]
      BY <1>10, <1>12, <1>15, <1>s, <2>1, <2>4, <3>1
    <3> HIDE DEF w, H, hash, free, ph, Ls, wt2
    <3>3. Stuck({}, Ls, H, pl, wt2)
      BY <3>2, AskSleepStuck
    <3> QED
      BY <3>3 DEF Ls, H, wt2
  <2> QED
    BY <2>1, <2>2, <2>3, <2>5 DEF IInv, IGood, AllStuck
<1>16. CASE GrantAtOnce(L, m, own)
  BY <1>3, <1>13, <1>16 DEF GrantAtOnce
<1>17. CASE ~GrantAtOnce(L, m, own)
  <2>1. L.waitProcs \in Seq(Procs)
    <3>1. Lk[k[1]] \in LockRecord
      BY <1>10, AskFacts
    <3>2. Requested(Lk[k[1]], m).waitProcs = Lk[k[1]].waitProcs
      BY <3>1 DEF Requested, LockRecord
    <3> QED
      BY <1>12, <3>1, <3>2, RecordTypes
  <2>2. ProcSleep(p, k, L, m, own, pl)
    BY <1>3, <1>17
  <2>3. \/ LockCheckConflicts(L, m, own) /\ GrantNow(k, L, m, pl)
        \/ \E a, M : Joining(L, p, m, a, M) /\ GivesUp(p, k, m, M, pl)
        \/ \E a, M, held : /\ Joining(L, p, m, a, M) /\ Obstructed(L, m, own, a)
                          /\ Sleeps(p, k, m, M, held, pl)
    BY <1>17, <2>1, <2>2, SleepCases
  <2> QED
    BY <1>13, <1>14, <1>15, <2>3
<1> QED
  BY <1>16, <1>17

\* The table is right at the start.
LEMMA InitTable ==
    ASSUME Init
    PROVE  /\ TableOk(lockHash, freeLocks, lock, proclockHash)
           /\ \A s \in Slots : s \notin Range(lockHash)
<1>1. lockHash \in [Tags -> {0} \cup Slots] /\ \A t \in Tags : lockHash[t] = 0
  BY DEF Init
<1>2. \A s \in Slots : s \notin Range(lockHash)
  <2>1. \A s \in Slots : s # 0
    BY NumSlotsNat DEF Slots
  <2> QED
    BY <1>1, <2>1 DEF Range
<1>3. freeLocks \in Seq(Slots) /\ Len(freeLocks) = NumSlots /\ \A i \in 1..NumSlots : freeLocks[i] = i
  <2>1. freeLocks = [i \in 1..NumSlots |-> i]
    BY DEF Init, Slots
  <2>2. NumSlots \in Nat
    BY NumSlotsNat
  <2> QED
    BY <2>1, <2>2 DEF Slots
<1>4. Once(freeLocks)
  BY <1>3 DEF Once
<1>5. ToSet(freeLocks) = Slots
  <2>1. \A e : e \in ToSet(freeLocks) <=> \E i \in 1..Len(freeLocks) : freeLocks[i] = e
    BY <1>3, SetOf
  <2>2. NumSlots \in Nat /\ Slots = 1..NumSlots
    BY NumSlotsNat DEF Slots
  <2>3. \A e \in Slots : e \in ToSet(freeLocks)
    <3>1. \A i \in 1..NumSlots : i \in 1..Len(freeLocks) /\ freeLocks[i] = i
      BY <1>3
    <3> QED
      BY <2>1, <2>2, <3>1
  <2>4. \A e \in ToSet(freeLocks) : e \in Slots
    <3>1. \A i \in 1..Len(freeLocks) : freeLocks[i] = i /\ i \in 1..NumSlots
      BY <1>3
    <3> QED
      BY <2>1, <2>2, <3>1
  <2> QED
    BY <2>3, <2>4
<1>6. proclockHash = {}
  BY DEF Init
<1> QED
  BY <1>1, <1>2, <1>3, <1>4, <1>5, <1>6 DEF TableOk

\* The invariant holds at the start.
LEMMA InitInv ==
    ASSUME Init
    PROVE  IInv
<1>1. proclockHash = {} /\ \A s : AtSlot(proclockHash, s) = {} /\ Holds(proclock, {}) = {}
  BY DEF Init, AtSlot, Holds
<1>2. \A s \in Slots : Waiting(wait, s) = {}
  <2>1. \A s \in Slots : s # 0
    BY NumSlotsNat DEF Slots
  <2> QED
    BY <2>1 DEF Init, NoWait, Waiting
<1>3. lock \in [Slots -> LockRecord] /\ \A s \in Slots : lock[s] = NewLock(AnyTag)
  <2>1. NewLock(AnyTag) \in LockRecord
    BY NewLockTally
  <2>2. lock = [s \in Slots |-> NewLock(AnyTag)]
    BY DEF Init, AnyTag
  <2> HIDE DEF NewLock
  <2> QED
    BY <2>1, <2>2
<1>4. LocksOk(lockHash, lock, proclockHash, proclock, wait)
  <2>1. ASSUME NEW s \in Slots PROVE SlotGood(lockHash, s, lock[s], proclockHash, proclock, wait)
    <3>1. s \notin Range(lockHash)
      BY InitTable
    <3>2. lock[s].nRequested = 0 /\ lock[s].waitProcs = <<>>
      BY <1>3 DEF NewLock
    <3>3. Queued(lock[s], s, wait)
      <4>1. <<>> \in Seq(Procs) /\ Len(<<>>) = 0
        OBVIOUS
      <4>2. ToSet(<<>>) = {}
        BY <4>1, SetOf
      <4>3. Once(<<>>)
        BY <4>1 DEF Once
      <4> QED
        BY <1>2, <3>2, <4>2, <4>3 DEF Queued
    <3>4. Unused(lock[s], s, proclockHash, proclock, wait)
      BY <1>1, <1>2, <3>2 DEF Unused
    <3> QED
      BY <3>1, <3>3, <3>4 DEF SlotGood
  <2> QED
    BY <1>3, <2>1 DEF LocksOk
<1>5. HoldersOk(proclockHash, proclock, procHolders)
  <2>1. proclock \in [Key -> ProclockRecord]
    <3>1. NewProclock \in ProclockRecord
      BY NewProclockType
    <3> HIDE DEF NewProclock
    <3> QED
      BY <3>1 DEF Init
  <2>2. procHolders \in [Procs -> Seq(Key)] /\ \A p \in Procs : procHolders[p] = <<>>
    <3>1. <<>> \in Seq(Key)
      OBVIOUS
    <3> QED
      BY <3>1 DEF Init
  <2>3. <<>> \in Seq(Key) /\ Len(<<>>) = 0
    OBVIOUS
  <2>4. ToSet(<<>>) = {} /\ Once(<<>>)
    BY <2>3, SetOf DEF Once
  <2> QED
    BY <1>1, <2>1, <2>2, <2>4 DEF HoldersOk
<1>6. WaitsOk(pc, wait, sem, proclockHash, proclock)
  <2>1. /\ pc = [p \in Procs |-> "run"] /\ wait = [p \in Procs |-> NoWait] /\ sem = [p \in Procs |-> 0]
    BY DEF Init
  <2>2. NoWait \in WaitRecord /\ NoWait.lock = 0
    BY NoWaitType DEF NoWait
  <2>3. \A p \in Procs : WaitOk(p, "run", NoWait, 0, proclockHash, proclock)
    BY <2>2 DEF WaitOk
  <2> HIDE DEF NoWait
  <2> QED
    BY <2>1, <2>2, <2>3 DEF WaitsOk
<1>7. IGood
  BY <1>4, <1>5, <1>6, InitTable DEF IGood, Good
<1>8. Releasing
  BY DEF Releasing, Init
<1>9. AllStuck
  <2>1. \A s \in Slots : lock[s].waitProcs = <<>>
    BY <1>3 DEF NewLock
  <2> QED
    BY <2>1, EmptyBlocked DEF AllStuck, Stuck
<1> QED
  BY <1>7, <1>8, <1>9 DEF IInv

\* Every step preserves the invariant.
LEMMA NextInv ==
    ASSUME IInv, ~CreateWhileDangling, [Next]_vars
    PROVE  IInv'
<1>1. ASSUME NEW p \in Procs, Step(p)
      PROVE  IInv'
  <2>1. ASSUME Abort(p) PROVE IInv'
    <3> DEFINE X == Xids
    <3>1. StartReleaseAll(p, X) /\ pc[p] \in {"run", "abort"}
      BY <2>1 DEF Abort
    <3> HIDE DEF X
    <3> QED
      BY <3>1, StartReleaseAllStep
  <2> QED
    BY <1>1, <2>1, AwaitGrantStep, ResumeStep, LockWaitCancelStep, ResetSemaphoreStep, LockReleaseAllStep DEF Step
<1>2. ASSUME NEW p \in Procs, Call(p)
      PROVE  IInv'
  <2>1. ASSUME Commit(p) PROVE IInv'
    <3> DEFINE X == {"xact"}
    <3>1. StartReleaseAll(p, X) /\ pc[p] \in {"run", "abort"}
      BY <2>1 DEF Commit
    <3> HIDE DEF X
    <3> QED
      BY <3>1, StartReleaseAllStep
  <2>2. ASSUME NEW t \in Tags, NEW x \in Xids,
               \/ LockAcquireFails(p, t, x)
               \/ \E m \in Modes : LockAcquire(p, t, x, m) \/ LockRelease(p, t, x, m)
        PROVE  IInv'
    BY <2>2, LockAcquireFailsStep, LockAcquireStep, LockReleaseStep
  <2> QED
    BY <1>2, <2>1, <2>2, CancelStep, CheckDeadLockStep DEF Call
<1>3. ASSUME UNCHANGED vars PROVE IInv'
  BY <1>3 DEF vars, tableVars, IInv, IGood, Releasing, AllStuck
<1> QED
  BY <1>1, <1>2, <1>3 DEF Next

\* The state of the lock manager is consistent in every reachable state: the
\* table and its free list, the counts and masks of every LOCK, the PROCLOCKs and
\* the lists they are in, the waits and the semaphores.  Without the hypothesis it is
\* false of the code (lock.c:1314): RemoveFromWaitQueue can leave a PROCLOCK whose
\* LOCK is freed, and LockReleaseAll may then free a new LOCK with its tag.
THEOREM LockMgrInvariant ==
    ASSUME ~CreateWhileDangling
    PROVE  Spec => []IInv
<1>1. Init => IInv
  BY InitInv
<1>2. IInv /\ [Next]_vars => IInv'
  BY NextInv
<1> QED
  BY <1>1, <1>2, PTL DEF Spec

\* The invariant, with one LOCK per tag, excludes conflicting holds.
LEMMA NobodyConflicts ==
    ASSUME IInv
    PROVE  NoConflict
<1> SUFFICES ASSUME NEW k \in proclockHash, NEW l \in proclockHash, lock[k[1]].tag = lock[l[1]].tag, k[2] # l[2],
                    NEW i \in Modes, NEW j \in Modes, proclock[k].holding[i] > 0, proclock[l].holding[j] > 0
             PROVE  j \notin ConflictTab[i]
  BY DEF NoConflict
<1>1. /\ proclockHash \in SUBSET Key /\ proclock \in [Key -> ProclockRecord]
      /\ TableOk(lockHash, freeLocks, lock, proclockHash) /\ k \in Key /\ l \in Key
      /\ \A e \in proclockHash : CountsOwn(proclock, e)
  BY DEF IInv, IGood, Good, HoldersOk
<1>2. ASSUME NEW e \in proclockHash, NEW m \in Modes, proclock[e].holding[m] > 0
      PROVE  /\ <<e, m, 1>> \in Holds(proclock, AtSlot(proclockHash, e[1])) /\ e[1] \in Slots
             /\ SlotGood(lockHash, e[1], lock[e[1]], proclockHash, proclock, wait)
  <2>1. e \in Key /\ proclock[e].holding[m] \in Nat /\ proclock[e].holding[m] <= MaxHold /\ MaxHold \in Nat
    <3>1. e \in Key
      BY <1>1
    <3>2. proclock[e] \in ProclockRecord
      BY <1>1, <3>1
    <3>3. proclock[e].holding[m] \in Nat
      BY <3>2 DEF ProclockRecord
    <3> QED
      BY <1>1, <3>1, <3>3, MaxHoldNat DEF CountsOwn
  <2>2. 1 \in 1..MaxHold /\ 1 <= proclock[e].holding[m] /\ e \in AtSlot(proclockHash, e[1])
    BY <1>2, <2>1 DEF AtSlot
  <2>3. e[1] \in Slots
    BY <2>1 DEF Key
  <2> QED
    BY <2>2, <2>3, HoldsMembers DEF IInv, IGood, Good, LocksOk
<1>3. ASSUME NEW e \in proclockHash, NEW m \in Modes, proclock[e].holding[m] > 0
      PROVE  /\ <<e, m, 1>> \in Holds(proclock, AtSlot(proclockHash, e[1])) /\ e[1] \in Range(lockHash)
             /\ e[1] \in Slots /\ Apart(Holds(proclock, AtSlot(proclockHash, e[1])))
  BY <1>2, <1>3 DEF SlotGood, Unused, SlotOk
<1>4. k[1] = l[1]
  <2>1. k[1] \in Range(lockHash) /\ l[1] \in Range(lockHash) /\ k[1] \in Slots /\ l[1] \in Slots
    BY <1>3
  <2>2. PICK t \in Tags : lockHash[t] = k[1]
    BY <1>1, <2>1, TableFacts
  <2>3. PICK u \in Tags : lockHash[u] = l[1]
    BY <1>1, <2>1, TableFacts
  <2>4. k[1] # 0 /\ l[1] # 0
    BY <2>1, NumSlotsNat DEF Slots
  <2>5. lock[k[1]].tag = t /\ lock[l[1]].tag = u
    BY <1>1, <2>2, <2>3, <2>4 DEF TableOk
  <2> QED
    BY <2>2, <2>3, <2>5
<1> DEFINE g == <<k, i, 1>>  h == <<l, j, 1>>
<1>5. /\ g \in Holds(proclock, AtSlot(proclockHash, k[1])) /\ h \in Holds(proclock, AtSlot(proclockHash, k[1]))
      /\ Apart(Holds(proclock, AtSlot(proclockHash, k[1])))
  BY <1>3, <1>4
<1>6. g[1][2] # h[1][2] /\ g[2] = i /\ h[2] = j
  OBVIOUS
<1> HIDE DEF g, h
<1> QED
  BY <1>5, <1>6 DEF Apart

\* The invariant gives the counts of each LOCK in the table.
LEMMA EveryCount ==
    ASSUME IInv, NEW s \in Slots, s \in Range(lockHash)
    PROVE  CountsOf(s)
<1> DEFINE L == lock[s]
           K == {k \in proclockHash : k[1] = s}
           X == Holds(proclock, K)
           W == Waiters(s)
           R == Pairs(wait, W)
<1>1. K = AtSlot(proclockHash, s) /\ W = Waiting(wait, s)
  BY DEF AtSlot, Waiters, Waiting
<1>2. SlotOk(L, s, proclockHash, proclock, wait)
  BY DEF IInv, IGood, Good, LocksOk, SlotGood
<1>3. Tally(L, X, R) /\ Mask(L, R)
  BY <1>1, <1>2 DEF SlotOk, Asks
<1>4. IsFiniteSet(W)
  BY <1>1, ProcSets
<1>5. \A m \in Modes : HoldsOf(proclock, K, m) = Of(X, m)
  BY DEF HoldsOf, Of
<1> HIDE DEF X, L, K
<1>6. /\ Cardinality(R) = Cardinality(W)
      /\ \A m : Cardinality(Of(R, m)) = Cardinality({p \in W : wait[p].mode = m})
  <2>1. /\ Cardinality(Pairs(wait, W)) = Cardinality(W)
        /\ \A m : Cardinality(Of(Pairs(wait, W), m)) = Cardinality(InMode(wait, W, m))
    <3> HIDE DEF W
    <3> QED
      BY <1>4, PairsSize
  <2> QED
    BY <2>1 DEF InMode
<1> HIDE DEF R, W
<1>7. ASSUME NEW m \in Modes
      PROVE  /\ L.granted[m] = Cardinality(HoldsOf(proclock, K, m))
             /\ L.requested[m] = L.granted[m] + Cardinality({p \in W : wait[p].mode = m})
             /\ m \in L.grantMask <=> L.granted[m] > 0
             /\ m \in L.waitMask <=> L.requested[m] > L.granted[m]
  <2> DEFINE A == Of(X, m)  B == Of(R, m)
  <2>1. /\ L.granted[m] = Cardinality(A) /\ L.requested[m] = Cardinality(A) + Cardinality(B)
        /\ m \in L.grantMask <=> A # {}
        /\ m \in L.waitMask <=> B # {}
        /\ IsFiniteSet(X) /\ IsFiniteSet(R)
    BY <1>3 DEF Tally, Mask
  <2>2. IsFiniteSet(A) /\ IsFiniteSet(B)
    BY <2>1, OfFinite
  <2>3. HoldsOf(proclock, K, m) = A /\ Cardinality(B) = Cardinality({p \in W : wait[p].mode = m})
    BY <1>5, <1>6
  <2> HIDE DEF A, B
  <2>4. Cardinality(A) \in Nat /\ (A = {} <=> Cardinality(A) = 0)
    BY <2>2, Sizes
  <2>5. Cardinality(B) \in Nat /\ (B = {} <=> Cardinality(B) = 0)
    BY <2>2, Sizes
  <2> QED
    BY <2>1, <2>3, <2>4, <2>5
<1>8. L.nGranted = Cardinality(X) /\ L.nRequested = L.nGranted + Cardinality(W)
  BY <1>3, <1>6 DEF Tally
<1> QED
  BY <1>7, <1>8 DEF CountsOf, L, K, X, W

\* The invariant gives all counts.
LEMMA EverythingCounts ==
    ASSUME IInv
    PROVE  CountsExact
<1>1. TableOk(lockHash, freeLocks, lock, proclockHash) /\ \A k \in proclockHash : CountsOwn(proclock, k)
  BY DEF IInv, IGood, Good, HoldersOk
<1>2. ASSUME NEW t \in Tags, lockHash[t] # 0
      PROVE  lock[lockHash[t]].tag = t /\ CountsOf(lockHash[t])
  <2>1. lockHash[t] \in Slots /\ lockHash[t] \in Range(lockHash) /\ lock[lockHash[t]].tag = t
    BY <1>2, LockFound DEF IInv
  <2> DEFINE s == lockHash[t]
  <2>2. s \in Slots /\ s \in Range(lockHash)
    BY <2>1
  <2> HIDE DEF s
  <2>3. CountsOf(s)
    BY <2>2, EveryCount
  <2> QED
    BY <2>1, <2>3 DEF s
<1> QED
  BY <1>1, <1>2 DEF CountsExact, TableOk, CountsOwn

\* A waiter that must wait is not one that ProcLockWakeup would wake.
LEMMA NobodyMissed ==
    ASSUME IInv
    PROVE  NoMissedWakeup
<1> SUFFICES ASSUME NEW t \in Tags, lockHash[t] # 0 PROVE Wakable(lockHash[t], lock[lockHash[t]], {})
  BY DEF NoMissedWakeup
<1> DEFINE s == lockHash[t]
           L == lock[s]
           q == L.waitProcs
           X == Holds(proclock, AtSlot(proclockHash, s))
           V == {}
           before(i) == {q[j] : j \in 1..(i - 1)}
           S == {s}
<1>1. s \in Slots /\ s \in Range(lockHash)
  BY LockFound DEF IInv
<1> HIDE DEF s
<1>2. Good(lockHash, freeLocks, lock, proclockHash, proclock, procHolders, wait, sem, pc) /\ Blocked(q, X, wait)
  BY <1>1 DEF IInv, IGood, AllStuck, Stuck
<1>3. /\ HoldersOk(proclockHash, proclock, procHolders)
      /\ L \in LockRecord /\ ToSet(q) = Waiting(wait, s)
  BY <1>1, <1>2 DEF Good, LocksOk, SlotGood, Queued
<1>4. ReadyFor(s, L, proclockHash, proclock, wait)
  <2>1. Counted(s, proclockHash, proclock, wait)
    BY <1>3, NowCounted
  <2>2. S \in SUBSET Slots /\ S \subseteq Range(lockHash) /\ s \in S /\ WakeupReady(S, proclockHash, proclock, wait)
    BY <1>1, <2>1 DEF WakeupReady
  <2> HIDE DEF S
  <2> QED
    BY <1>2, <2>2, SlotIsReady
<1>v. V = {} /\ V \subseteq Waiting(wait, s)
  OBVIOUS
<1>5. Len(q) \in Nat /\ \A e : e \in ToSet(q) <=> \E i \in 1..Len(q) : q[i] = e
  <2>1. q \in Seq(Procs)
    BY <1>3, RecordTypes
  <2> HIDE DEF q
  <2> QED
    BY <2>1, SetOf
<1> HIDE DEF V, L, X
<1>6. Tally(GrantWaiters(L, V), X, Pairs(wait, Waiting(wait, s) \ V))
  <2>1. Tally(GrantWaiters(L, V), Holds(proclock, AtSlot(proclockHash, s)) \cup Gains(proclock, wait, V),
              Pairs(wait, Waiting(wait, s) \ V))
    BY <1>4, <1>v, GrantAt
  <2>2. Gains(proclock, wait, V) = {}
    BY <1>v DEF Gains
  <2> QED
    BY <2>1, <2>2 DEF X
<1>7. ASSUME NEW i \in 1..Len(q)
      PROVE  ~ /\ ConflictTab[wait[q[i]].mode] \cap AheadRequests(L, i - 1, V) = {}
               /\ LockCheckConflicts(GrantWaiters(L, V), wait[q[i]].mode, LockCountMyLocks(q[i], s))
  <2> DEFINE p == q[i]  m == wait[p].mode  own == LockCountMyLocks(p, s)
             M == GrantWaiters(L, V)  R == Pairs(wait, Waiting(wait, s) \ V)
  <2>1. p \in Waiting(wait, s)
    BY <1>3, <1>5
  <2>2. p \in Procs /\ m \in Modes
    BY <1>4, <2>1 DEF Waiting, ReadyFor, CanGain
  <2>3. ASSUME NEW j \in 1..(i - 1), wait[q[j]].mode \in ConflictTab[m]
        PROVE  ConflictTab[m] \cap AheadRequests(L, i - 1, V) # {}
    <3>1. wait[q[j]].mode \in AheadRequests(L, i - 1, V)
      BY <1>v DEF AheadRequests
    <3> QED
      BY <2>3, <3>1
  <2>4. ASSUME NEW h \in X, h[1][2] # p, h[2] \in ConflictTab[m], LockCheckConflicts(M, m, own)
        PROVE  FALSE
    <3>1. \A n \in Modes : own[n] = Cardinality(Of(Mine(X, p), n))
      BY <1>3, <2>2, CountMine DEF X
    <3>2. Tally(M, X, R)
      BY <1>6
    <3> HIDE DEF M, R, own, m, p
    <3> QED
      BY <2>2, <2>4, <3>1, <3>2, NoOthers
  <2> HIDE DEF q
  <2> QED
    BY <1>2, <2>3, <2>4 DEF Blocked
<1>8. \A i : V \cap before(i) = V /\ V \subseteq ToSet(q)
  BY <1>v
<1>9. Wakable(s, L, V)
  <2> SUFFICES ASSUME NEW i \in 1..Len(q)
               PROVE  q[i] \in V <=>
                        /\ ConflictTab[wait[q[i]].mode] \cap AheadRequests(L, i - 1, V) = {}
                        /\ LockCheckConflicts(GrantWaiters(L, V \cap before(i)), wait[q[i]].mode, LockCountMyLocks(q[i], s))
    BY <1>8 DEF Wakable
  <2> HIDE DEF before
  <2> QED
    BY <1>7, <1>8, <1>v
<1> QED
  BY <1>9, <1>v DEF s, L

\* The invariant gives what a process that was awakened holds.
LEMMA GrantsAreKept ==
    ASSUME IInv
    PROVE  GrantKept
BY WaitOf DEF IInv, GrantKept, IsGranted, WaitOk

\* LockCheckConflicts, the shortcuts of LockAcquire, ProcLockWakeup and the
\* rearrangements of CheckDeadLock together never let two processes hold modes
\* that conflict on one object.
THEOREM LockMgrNoConflict ==
    ASSUME ~CreateWhileDangling
    PROVE  Spec => []NoConflict
<1>1. IInv => NoConflict
  BY NobodyConflicts
<1> QED
  BY <1>1, LockMgrInvariant, PTL

\* nRequested, requested, nGranted, granted, grantMask and waitMask of every LOCK,
\* and nHolding of every PROCLOCK, which nine places update and none recomputes,
\* are what is held and asked for.
THEOREM LockMgrCountsExact ==
    ASSUME ~CreateWhileDangling
    PROVE  Spec => []CountsExact
<1>1. IInv => CountsExact
  BY EverythingCounts
<1> QED
  BY <1>1, LockMgrInvariant, PTL

\* Nobody is left in a queue whom ProcLockWakeup would wake, although LockRelease
\* and LockReleaseAll do not always call it: "whatever conflict made them wait must
\* still exist" (lock.c:1094).
THEOREM LockMgrNoMissedWakeup ==
    ASSUME ~CreateWhileDangling
    PROVE  Spec => []NoMissedWakeup
<1>1. IInv => NoMissedWakeup
  BY NobodyMissed
<1> QED
  BY <1>1, LockMgrInvariant, PTL

\* A process that the grantor has taken out of the queue holds what it waited for,
\* before it runs again and whatever happens in between (lock.c:882).
THEOREM LockMgrGrantKept ==
    ASSUME ~CreateWhileDangling
    PROVE  Spec => []GrantKept
<1>1. IInv => GrantKept
  BY GrantsAreKept
<1> QED
  BY <1>1, LockMgrInvariant, PTL
=============================================================================
