---------------------------- MODULE LWLockProofs ----------------------------
(***************************************************************************)
(* Proofs about LWLock for any number of backends and locks.               *)
(***************************************************************************)
EXTENDS LWLock, FiniteSetTheorems, TLAPS

\* The types that follow from the assignments alone: the counters are
\* integers, and a releaser in its wakeup loop has a waiter to wake.
TypeInt ==
    /\ exclusive \in [Locks -> Int] /\ shared \in [Locks -> Int]
    /\ releaseOK \in [Locks -> BOOLEAN]
    /\ queue \in [Locks -> Seq(Backends)]
    /\ pc \in [Backends -> PCs]
    /\ req \in [Backends -> Request]
    /\ lwWaiting \in [Backends -> BOOLEAN]
    /\ lwExclusive \in [Backends -> BOOLEAN]
    /\ sem \in [Backends -> Int] /\ extraWaits \in [Backends -> Int]
    /\ held \in [Backends -> Seq(Locks)]
    /\ holdoff \in [Backends -> Int]
    /\ inError \in [Backends -> BOOLEAN]
    /\ chain \in [Backends -> Seq(Backends)]
    /\ woken \in [Backends -> Backends]
    /\ owed \in [Backends -> Int]
    /\ grant \in [Backends -> [Locks -> Modes \union {"none"}]]
    /\ \A p \in Backends : pc[p] = "wake" => chain[p] # <<>>

\* Taking an entry out of a sequence leaves a sequence.
LEMMA WithoutType ==
    ASSUME NEW S, NEW s \in Seq(S), NEW i \in 1..Len(s)
    PROVE  /\ Without(s, i) \in Seq(S)
           /\ Len(Without(s, i)) = Len(s) - 1
           /\ DOMAIN Without(s, i) = 1..(Len(s) - 1)
           /\ \A j \in 1..(Len(s) - 1) :
                 Without(s, i)[j] = IF j < i THEN s[j] ELSE s[j + 1]
BY DEF Without

\* The values outside of LWLockAcquire are a request.
LEMMA NoRequestType == NoRequest \in Request
<1>1. PICK l \in Locks : TRUE
  BY LocksNat
<1>2. [lock |-> l, mode |-> "shared"] \in Request
  BY DEF Request, Modes
<1>3. \E r \in Request : TRUE
  BY <1>2
<1> HIDE DEF Request
<1> QED
  BY <1>3 DEF NoRequest

\* The two parts of the queue that a releaser cuts.
LEMMA CutType ==
    ASSUME NEW S, NEW s \in Seq(S), NEW n \in 1..Len(s)
    PROVE  /\ SubSeq(s, 1, n) \in Seq(S)
           /\ SubSeq(s, 1, n) # <<>>
           /\ Len(SubSeq(s, 1, n)) = n
           /\ \A j \in 1..n : SubSeq(s, 1, n)[j] = s[j]
           /\ SubSeq(s, n + 1, Len(s)) \in Seq(S)
           /\ Len(SubSeq(s, n + 1, Len(s))) = Len(s) - n
           /\ \A j \in 1..(Len(s) - n) : SubSeq(s, n + 1, Len(s))[j] = s[n + j]
OBVIOUS

\* The same for the queue of waiters.
LEMMA CutParts ==
    ASSUME NEW s \in Seq(Backends), NEW n \in 1..Len(s)
    PROVE  /\ SubSeq(s, 1, n) \in Seq(Backends)
           /\ SubSeq(s, 1, n) # <<>>
           /\ SubSeq(s, n + 1, Len(s)) \in Seq(Backends)
BY CutType

\* The section of LWLockAcquire keeps the types.
LEMMA SectionType ==
    ASSUME TypeInt, NEW p \in Backends, NEW l \in Locks, NEW m \in Modes,
           Section(p, l, m)
    PROVE  /\ exclusive' \in [Locks -> Int] /\ shared' \in [Locks -> Int]
           /\ queue' \in [Locks -> Seq(Backends)]
           /\ pc' \in [Backends -> PCs]
           /\ req' \in [Backends -> Request]
           /\ lwWaiting' \in [Backends -> BOOLEAN]
           /\ lwExclusive' \in [Backends -> BOOLEAN]
           /\ held' \in [Backends -> Seq(Locks)]
           /\ grant' \in [Backends -> [Locks -> Modes \union {"none"}]]
           /\ \A q \in Backends : pc'[q] = "wake" => pc[q] = "wake"
<1>1. CASE Free(l, m) /\ Count(l, m) /\ Hold(p, l, m)
          /\ req' = [req EXCEPT ![p] = NoRequest]
          /\ pc' = [pc EXCEPT ![p] = IF extraWaits[p] > 0 THEN "repost" ELSE "run"]
          /\ UNCHANGED <<queue, lwWaiting, lwExclusive>>
  BY <1>1, NoRequestType DEF TypeInt, Count, Hold, PCs
<1>2. CASE Enqueue(p, l, m)
          /\ req' = [req EXCEPT ![p] = [lock |-> l, mode |-> m]]
          /\ pc' = [pc EXCEPT ![p] = "wait"]
          /\ UNCHANGED <<exclusive, shared, held, grant>>
  <2>1. lwWaiting' \in [Backends -> BOOLEAN] /\ lwExclusive' \in [Backends -> BOOLEAN]
    BY <1>2 DEF TypeInt, Enqueue
  <2>2. queue' \in [Locks -> Seq(Backends)]
    <3>1. Append(queue[l], p) \in Seq(Backends)
      BY DEF TypeInt
    <3>2. queue' = [queue EXCEPT ![l] = Append(queue[l], p)] /\ queue \in [Locks -> Seq(Backends)]
      BY <1>2 DEF TypeInt, Enqueue
    <3> QED
      BY <3>1, <3>2
  <2>3. req' \in [Backends -> Request]
    <3>1. [lock |-> l, mode |-> m] \in Request
      BY DEF Request
    <3> QED
      BY <1>2, <3>1 DEF TypeInt
  <2>4. pc' \in [Backends -> PCs] /\ \A q \in Backends : pc'[q] = "wake" => pc[q] = "wake"
    BY <1>2 DEF TypeInt, PCs
  <2> QED
    BY <1>2, <2>1, <2>2, <2>3, <2>4 DEF TypeInt
<1> QED
  BY <1>1, <1>2 DEF Section

\* So does a release, which wakes only a list that is not empty.
LEMMA ReleaseType ==
    ASSUME TypeInt, NEW p \in Backends, NEW i \in 1..Len(held[p]), NEW h \in Int,
           ReleaseHeld(p, i, h)
    PROVE  /\ exclusive' \in [Locks -> Int] /\ shared' \in [Locks -> Int]
           /\ releaseOK' \in [Locks -> BOOLEAN]
           /\ queue' \in [Locks -> Seq(Backends)]
           /\ pc' \in [Backends -> PCs]
           /\ held' \in [Backends -> Seq(Locks)]
           /\ holdoff' \in [Backends -> Int]
           /\ chain' \in [Backends -> Seq(Backends)]
           /\ grant' \in [Backends -> [Locks -> Modes \union {"none"}]]
           /\ \A q \in Backends : pc'[q] = "wake" => chain'[q] # <<>>
<1> DEFINE l == held[p][i]
<1>1. l \in Locks
  BY DEF TypeInt
<1>2. /\ exclusive' \in [Locks -> Int] /\ shared' \in [Locks -> Int]
      /\ held' \in [Backends -> Seq(Locks)]
      /\ grant' \in [Backends -> [Locks -> Modes \union {"none"}]]
  <2>1. exclusive' \in [Locks -> Int] /\ shared' \in [Locks -> Int]
    <3>1. Uncount(l)
      BY DEF ReleaseHeld
    <3> HIDE DEF l
    <3>2. \/ /\ exclusive' = [exclusive EXCEPT ![l] = exclusive[l] - 1]
             /\ shared' = shared
          \/ /\ shared' = [shared EXCEPT ![l] = shared[l] - 1]
             /\ exclusive' = exclusive
      BY <3>1 DEF Uncount
    <3>3. exclusive \in [Locks -> Int] /\ shared \in [Locks -> Int]
      BY DEF TypeInt
    <3> QED
      BY <1>1, <3>2, <3>3
  <2>2. Without(held[p], i) \in Seq(Locks)
    BY WithoutType DEF TypeInt
  <2>3. held' \in [Backends -> Seq(Locks)]
    BY <2>2 DEF TypeInt, ReleaseHeld
  <2>4. grant' \in [Backends -> [Locks -> Modes \union {"none"}]]
    BY <1>1 DEF TypeInt, ReleaseHeld
  <2> QED
    BY <2>1, <2>3, <2>4
<1>3. CASE /\ queue[l] # <<>> /\ exclusive'[l] = 0 /\ shared'[l] = 0
           /\ releaseOK[l]
  <2>1. PICK n \in WakeCounts(queue[l]) :
            /\ chain' = [chain EXCEPT ![p] = SubSeq(queue[l], 1, n)]
            /\ queue' = [queue EXCEPT ![l] = SubSeq(queue[l], n + 1, Len(queue[l]))]
            /\ releaseOK' = [releaseOK EXCEPT ![l] = FALSE]
            /\ pc' = [pc EXCEPT ![p] = "wake"]
            /\ holdoff' = [holdoff EXCEPT ![p] = h]
    BY <1>1, <1>3 DEF ReleaseHeld, CutWaiters, TypeInt
  <2>2. n \in 1..Len(queue[l]) /\ queue[l] \in Seq(Backends)
    BY <1>1, <2>1 DEF WakeCounts, TypeInt
  <2> HIDE DEF l
  <2>3. /\ SubSeq(queue[l], 1, n) \in Seq(Backends)
        /\ SubSeq(queue[l], 1, n) # <<>>
        /\ SubSeq(queue[l], n + 1, Len(queue[l])) \in Seq(Backends)
    BY <2>2, CutParts
  <2>4. /\ releaseOK' \in [Locks -> BOOLEAN]
        /\ queue' \in [Locks -> Seq(Backends)]
        /\ holdoff' \in [Backends -> Int]
        /\ chain' \in [Backends -> Seq(Backends)]
    BY <1>1, <2>1, <2>3 DEF TypeInt
  <2>5. /\ pc' \in [Backends -> PCs]
        /\ \A q \in Backends : pc'[q] = "wake" => chain'[q] # <<>>
    BY <2>1, <2>3 DEF TypeInt, PCs
  <2> QED
    BY <1>2, <2>4, <2>5
<1>4. CASE ~(/\ queue[l] # <<>> /\ exclusive'[l] = 0 /\ shared'[l] = 0
             /\ releaseOK[l])
  <2>1. Return(p, h) /\ UNCHANGED <<chain, queue, releaseOK>>
    BY <1>4 DEF ReleaseHeld, CutWaiters
  <2>2. /\ pc' \in [Backends -> PCs]
        /\ \A q \in Backends : pc'[q] = "wake" => chain'[q] # <<>>
    BY <2>1 DEF Return, TypeInt, PCs
  <2>3. holdoff' \in [Backends -> Int]
    BY <2>1 DEF Return, TypeInt
  <2> QED
    BY <1>2, <2>1, <2>2, <2>3 DEF TypeInt
<1> QED
  BY <1>3, <1>4

\* Every step keeps the types.
THEOREM TypeIntStep == TypeInt /\ [Next]_vars => TypeInt'
<1> SUFFICES ASSUME TypeInt, [Next]_vars PROVE TypeInt'
  OBVIOUS
<1> USE DEF lockVars, waitVars, semVars, heldVars, wakeVars
<1>1. ASSUME NEW p \in Backends, NEW l \in Locks, NEW m \in Modes,
             LWLockAcquire(p, l, m)
      PROVE  TypeInt'
  <2>1. Section(p, l, m)
    BY <1>1 DEF LWLockAcquire
  <2>2. holdoff' \in [Backends -> Int] /\ UNCHANGED <<releaseOK, semVars, inError, wakeVars>>
    BY <1>1 DEF LWLockAcquire, TypeInt
  <2> QED
    BY <2>1, <2>2, SectionType DEF TypeInt
<1>2. ASSUME NEW p \in Backends, AwaitWakeup(p) PROVE TypeInt'
  <2>1. sem' \in [Backends -> Int] /\ extraWaits' \in [Backends -> Int]
    BY <1>2 DEF AwaitWakeup, TypeInt
  <2>2. /\ pc' \in [Backends -> PCs]
        /\ \A q \in Backends : pc'[q] = "wake" => pc[q] = "wake"
    BY <1>2 DEF AwaitWakeup, TypeInt, PCs
  <2>3. UNCHANGED <<lockVars, waitVars, owed, heldVars, wakeVars>>
    BY <1>2 DEF AwaitWakeup
  <2> QED
    BY <2>1, <2>2, <2>3 DEF TypeInt
<1>3. ASSUME NEW p \in Backends, Retry(p) PROVE TypeInt'
  <2>1. req[p].lock \in Locks /\ req[p].mode \in Modes
    BY DEF TypeInt, Request
  <2>2. Section(p, req[p].lock, req[p].mode)
    BY <1>3 DEF Retry
  <2>3. /\ releaseOK' \in [Locks -> BOOLEAN]
        /\ UNCHANGED <<semVars, holdoff, inError, wakeVars>>
    BY <1>3 DEF Retry, TypeInt
  <2> QED
    BY <2>1, <2>2, <2>3, SectionType DEF TypeInt
<1>4. ASSUME NEW p \in Backends, Repost(p) PROVE TypeInt'
  <2>1. sem' \in [Backends -> Int] /\ extraWaits' \in [Backends -> Int]
    BY <1>4 DEF Repost, TypeInt
  <2>2. /\ pc' \in [Backends -> PCs]
        /\ \A q \in Backends : pc'[q] = "wake" => pc[q] = "wake"
    BY <1>4 DEF Repost, TypeInt, PCs
  <2>3. UNCHANGED <<lockVars, waitVars, owed, heldVars, wakeVars>>
    BY <1>4 DEF Repost
  <2> QED
    BY <2>1, <2>2, <2>3 DEF TypeInt
<1>5. ASSUME NEW p \in Backends, NEW l \in Locks, NEW m \in Modes,
             LWLockConditionalAcquire(p, l, m)
      PROVE  TypeInt'
  BY <1>5 DEF LWLockConditionalAcquire, Count, Hold, TypeInt
<1>6. ASSUME NEW p \in Backends, NEW i \in 1..Len(held[p]), LWLockRelease(p, i)
      PROVE  TypeInt'
  <2>1. ReleaseHeld(p, i, holdoff[p]) /\ holdoff[p] \in Int /\ UNCHANGED inError
    BY <1>6 DEF LWLockRelease, TypeInt
  <2>2. UNCHANGED <<waitVars, semVars, woken>>
    BY <2>1 DEF ReleaseHeld
  <2> QED
    BY <2>1, <2>2, ReleaseType DEF TypeInt
<1>7. ASSUME NEW p \in Backends, WakeFirst(p) PROVE TypeInt'
  <2>1. Head(chain[p]) \in Backends /\ Tail(chain[p]) \in Seq(Backends)
    BY <1>7 DEF WakeFirst, TypeInt
  <2>2. /\ chain' \in [Backends -> Seq(Backends)]
        /\ woken' \in [Backends -> Backends]
        /\ lwWaiting' \in [Backends -> BOOLEAN]
    BY <1>7, <2>1 DEF WakeFirst, TypeInt
  <2>3. /\ pc' \in [Backends -> PCs]
        /\ \A q \in Backends : pc'[q] = "wake" => q # p /\ pc[q] = "wake"
    BY <1>7 DEF WakeFirst, TypeInt, PCs
  <2>4. \A q \in Backends : q # p => chain'[q] = chain[q]
    BY <1>7 DEF WakeFirst, TypeInt
  <2>5. UNCHANGED <<lockVars, req, lwExclusive, semVars, heldVars>>
    BY <1>7 DEF WakeFirst
  <2> QED
    BY <2>2, <2>3, <2>4, <2>5 DEF TypeInt
<1>8. ASSUME NEW p \in Backends, PostWoken(p) PROVE TypeInt'
  <2>1. sem' \in [Backends -> Int] /\ woken' \in [Backends -> Backends]
    BY <1>8 DEF PostWoken, TypeInt
  <2>2. holdoff' \in [Backends -> Int]
    <3>1. holdoff \in [Backends -> Int] /\ holdoff[p] - 1 \in Int
      BY DEF TypeInt
    <3>2. holdoff' = holdoff \/ holdoff' = [holdoff EXCEPT ![p] = holdoff[p] - 1]
      BY <1>8 DEF PostWoken, Return
    <3> QED
      BY <3>1, <3>2
  <2>3. /\ pc' \in [Backends -> PCs]
        /\ \A q \in Backends : pc'[q] = "wake" => chain[q] # <<>>
    BY <1>8 DEF PostWoken, Return, TypeInt, PCs
  <2>4. UNCHANGED <<lockVars, waitVars, extraWaits, owed, held, inError, grant, chain>>
    BY <1>8 DEF PostWoken
  <2> QED
    BY <2>1, <2>2, <2>3, <2>4 DEF TypeInt
<1>9. ASSUME NEW p \in Backends, Error(p) PROVE TypeInt'
  BY <1>9 DEF Error, TypeInt, PCs
<1>10. ASSUME NEW p \in Backends, LWLockReleaseAll(p) PROVE TypeInt'
  <2>1. /\ ReleaseHeld(p, Len(held[p]), holdoff[p] + 1)
        /\ holdoff[p] + 1 \in Int
        /\ Len(held[p]) \in 1..Len(held[p])
        /\ UNCHANGED inError
    BY <1>10 DEF LWLockReleaseAll, TypeInt
  <2>2. UNCHANGED <<waitVars, semVars, woken>>
    BY <2>1 DEF ReleaseHeld
  <2> QED
    BY <2>1, <2>2, ReleaseType DEF TypeInt
<1>11. ASSUME NEW p \in Backends, EndRecovery(p) PROVE TypeInt'
  BY <1>11 DEF EndRecovery, TypeInt, PCs
<1>12. ASSUME NEW p \in Backends, SemPost(p) \/ SemTake(p) \/ SemReset(p)
       PROVE  TypeInt'
  <2>1. sem' \in [Backends -> Int] /\ owed' \in [Backends -> Int]
    <3>1. sem \in [Backends -> Int] /\ owed \in [Backends -> Int] /\ sem[p] \in Int /\ owed[p] \in Int
      BY DEF TypeInt
    <3>2. CASE SemPost(p)
      BY <3>1, <3>2 DEF SemPost
    <3>3. CASE SemTake(p)
      BY <3>1, <3>3 DEF SemTake
    <3>4. CASE SemReset(p)
      <4>1. owed[p] - sem[p] \in Int /\ 0 \in Int
        BY <3>1
      <4>2. sem' = [sem EXCEPT ![p] = 0] /\ owed' = [owed EXCEPT ![p] = owed[p] - sem[p]]
        BY <3>4 DEF SemReset
      <4> QED
        BY <3>1, <4>1, <4>2
    <3> QED
      BY <1>12, <3>2, <3>3, <3>4
  <2>2. UNCHANGED <<lockVars, pc, waitVars, extraWaits, heldVars, wakeVars>>
    BY <1>12 DEF SemPost, SemTake, SemReset
  <2> QED
    BY <2>1, <2>2 DEF TypeInt
<1>13. CASE UNCHANGED vars
  BY <1>13 DEF vars, TypeInt
<1> QED
  BY <1>1, <1>2, <1>3, <1>4, <1>5, <1>6, <1>7, <1>8, <1>9, <1>10, <1>11, <1>12,
     <1>13 DEF Next, Step, Call

\* Type correctness, up to the signs of the counters.
THEOREM TypeIntInvariant == Spec => []TypeInt
<1>1. Init => TypeInt
  BY NoRequestType DEF Init, TypeInt, PCs
<1> QED
  BY <1>1, TypeIntStep, PTL DEF Spec
-----------------------------------------------------------------------------
(***************************************************************************)
(* The holders of a lock.                                                  *)
(***************************************************************************)
\* The lock a backend waits for is not one it holds already.
WaitsForFree ==
    \A p \in Backends :
        pc[p] \in {"wait", "retry"} => grant[p][req[p].lock] = "none"

\* Appending a new entry to a list without duplicates.
LEMMA AppendNoDup ==
    ASSUME NEW S, NEW s \in Seq(S), NEW x \in S, IsInjective(s), x \notin Range(s)
    PROVE  IsInjective(Append(s, x)) /\ Range(Append(s, x)) = Range(s) \union {x}
<1>1. /\ Len(Append(s, x)) = Len(s) + 1
      /\ \A j \in 1..Len(s) : Append(s, x)[j] = s[j]
      /\ Append(s, x)[Len(s) + 1] = x
  OBVIOUS
<1>2. Len(s) \in Nat
  OBVIOUS
<1> DEFINE t == Append(s, x)
<1> HIDE DEF t
<1>3. \A j \in 1..(Len(s) + 1) : j \in 1..Len(s) \/ j = Len(s) + 1
  BY <1>2
<1>4. /\ Len(t) = Len(s) + 1
      /\ \A j \in 1..Len(s) : t[j] = s[j]
      /\ t[Len(s) + 1] = x
      /\ DOMAIN t = 1..(Len(s) + 1) /\ DOMAIN s = 1..Len(s)
  BY <1>1 DEF t
<1>5. IsInjective(t)
  BY <1>2, <1>3, <1>4 DEF IsInjective, Range
<1>6. Range(t) = Range(s) \union {x}
  BY <1>2, <1>3, <1>4 DEF Range
<1> QED
  BY <1>5, <1>6 DEF t

\* Taking an entry out of a list without duplicates.
LEMMA WithoutNoDup ==
    ASSUME NEW S, NEW s \in Seq(S), NEW i \in 1..Len(s), IsInjective(s)
    PROVE  IsInjective(Without(s, i)) /\ Range(Without(s, i)) = Range(s) \ {s[i]}
<1> DEFINE t == Without(s, i)
           n == Len(s)
<1>1. /\ n \in Nat /\ i \in 1..n /\ DOMAIN s = 1..n /\ DOMAIN t = 1..(n - 1)
      /\ \A j \in 1..(n - 1) : t[j] = IF j < i THEN s[j] ELSE s[j + 1]
      /\ \A j, k \in 1..n : s[j] = s[k] => j = k
  <2>1. \A j, k \in 1..n : s[j] = s[k] => j = k
    BY DEF IsInjective
  <2>2. n \in Nat /\ i \in 1..n /\ DOMAIN s = 1..n
    OBVIOUS
  <2> QED
    BY <2>1, <2>2, WithoutType
<1> HIDE DEF t, n
<1>2. IsInjective(t)
  <2> SUFFICES ASSUME NEW j \in 1..(n - 1), NEW k \in 1..(n - 1), t[j] = t[k]
               PROVE  j = k
    BY <1>1 DEF IsInjective
  <2> QED
    BY <1>1
<1>3. ASSUME NEW j \in 1..(n - 1) PROVE t[j] \in Range(s) \ {s[i]}
  BY <1>1 DEF Range, n
<1>4. ASSUME NEW k \in 1..n, k # i PROVE s[k] \in Range(t)
  <2>1. CASE k < i
    <3>1. k \in 1..(n - 1) /\ t[k] = s[k]
      BY <1>1, <2>1
    <3> QED
      BY <3>1, <1>1 DEF Range
  <2>2. CASE k > i
    <3>1. k - 1 \in 1..(n - 1) /\ ~(k - 1 < i) /\ (k - 1) + 1 = k
      BY <1>1, <1>4, <2>2
    <3>2. t[k - 1] = s[k]
      BY <1>1, <3>1
    <3> QED
      BY <3>1, <3>2, <1>1 DEF Range
  <2> QED
    BY <1>1, <1>4, <2>1, <2>2
<1>5. Range(t) = Range(s) \ {s[i]}
  <2>1. Range(t) \subseteq Range(s) \ {s[i]}
    BY <1>1, <1>3 DEF Range
  <2>2. Range(s) \ {s[i]} \subseteq Range(t)
    BY <1>4 DEF Range, n
  <2> QED
    BY <2>1, <2>2
<1> QED
  BY <1>2, <1>5 DEF t

\* The sets of holders are finite, and counted by natural numbers.
LEMMA HoldersFinite ==
    \A l, m : IsFiniteSet(Holders(l, m)) /\ Cardinality(Holders(l, m)) \in Nat
<1> SUFFICES ASSUME NEW l, NEW m
             PROVE  IsFiniteSet(Holders(l, m)) /\ Cardinality(Holders(l, m)) \in Nat
  OBVIOUS
<1>1. Holders(l, m) \subseteq Backends
  BY DEF Holders
<1> QED
  BY <1>1, BackendsFinite, FS_Subset, FS_CardinalityType

\* A lock is granted: LWLockAcquire and LWLockConditionalAcquire.
LEMMA GrantCounted ==
    ASSUME TypeInt, HoldersCounted, NEW p \in Backends, NEW l \in Locks,
           NEW m \in Modes, grant[p][l] = "none",
           Free(l, m), Count(l, m), Hold(p, l, m)
    PROVE  HoldersCounted'
<1>1. /\ grant \in [Backends -> [Locks -> Modes \union {"none"}]]
      /\ grant' = [grant EXCEPT ![p][l] = m]
      /\ held \in [Backends -> Seq(Locks)]
      /\ held' = [held EXCEPT ![p] = Append(held[p], l)]
      /\ exclusive \in [Locks -> Int] /\ shared \in [Locks -> Int]
  BY DEF TypeInt, Hold
<1>2. \A q \in Backends, k \in Locks :
          grant'[q][k] = IF q = p /\ k = l THEN m ELSE grant[q][k]
  BY <1>1
<1>3. \A k \in Locks, x \in Modes :
          Holders(k, x)' = IF k = l /\ x = m THEN Holders(l, m) \union {p}
                                             ELSE Holders(k, x)
  BY <1>2 DEF Modes, Holders
<1>4. \A k \in Locks, x \in Modes :
          Cardinality(Holders(k, x)') =
              IF k = l /\ x = m THEN Cardinality(Holders(l, m)) + 1
                                ELSE Cardinality(Holders(k, x))
  <2>1. IsFiniteSet(Holders(l, m)) /\ p \notin Holders(l, m)
    BY HoldersFinite DEF Holders, Modes
  <2>2. Cardinality(Holders(l, m) \union {p}) = Cardinality(Holders(l, m)) + 1
    BY <2>1, FS_AddElement
  <2> QED
    BY <1>3, <2>2
<1>5. \A k \in Locks : /\ exclusive[k] = Cardinality(Holders(k, "exclusive"))
                       /\ shared[k] = Cardinality(Holders(k, "shared"))
                       /\ exclusive[k] + shared[k] > 1 => exclusive[k] = 0
                       /\ exclusive[k] \in Nat /\ shared[k] \in Nat
  BY HoldersFinite DEF HoldersCounted, CountersExact
<1>6. CountersExact'
  <2>1. CASE m = "exclusive"
    <3>1. exclusive' = [exclusive EXCEPT ![l] = exclusive[l] + 1] /\ shared' = shared
      BY <2>1 DEF Count
    <3>2. exclusive[l] = 0 /\ shared[l] = 0
      BY <2>1 DEF Free
    <3> QED
      BY <1>1, <1>4, <1>5, <2>1, <3>1, <3>2 DEF Modes, CountersExact
  <2>2. CASE m = "shared"
    <3>1. shared' = [shared EXCEPT ![l] = shared[l] + 1] /\ exclusive' = exclusive
      BY <2>2 DEF Count
    <3>2. exclusive[l] = 0
      BY DEF Free
    <3> QED
      BY <1>1, <1>4, <1>5, <2>2, <3>1, <3>2 DEF Modes, CountersExact
  <2> QED
    BY <2>1, <2>2 DEF Modes
<1>7. HeldListed'
  <2>1. \A q \in Backends :
            /\ IsInjective(held[q])
            /\ \A k \in Locks : k \in Range(held[q]) <=> grant[q][k] # "none"
    BY DEF HoldersCounted, HeldListed
  <2>2. held[p] \in Seq(Locks) /\ l \notin Range(held[p])
    BY <1>1, <2>1
  <2>3. IsInjective(held'[p]) /\ Range(held'[p]) = Range(held[p]) \union {l}
    BY <1>1, <2>1, <2>2, AppendNoDup
  <2>4. \A k \in Locks : k \in Range(held'[p]) <=> grant'[p][k] # "none"
    BY <1>2, <2>1, <2>3 DEF Modes
  <2>5. ASSUME NEW q \in Backends, q # p
        PROVE  /\ IsInjective(held'[q])
               /\ \A k \in Locks : k \in Range(held'[q]) <=> grant'[q][k] # "none"
    <3>1. held'[q] = held[q]
      BY <1>1, <2>5
    <3> QED
      BY <1>2, <2>1, <2>5, <3>1
  <2> QED
    BY <2>3, <2>4, <2>5 DEF HeldListed
<1> QED
  BY <1>6, <1>7 DEF HoldersCounted

\* A lock is given back: LWLockRelease.
LEMMA ReleaseCounted ==
    ASSUME TypeInt, HoldersCounted, NEW p \in Backends, NEW i \in 1..Len(held[p]),
           NEW h \in Int, ReleaseHeld(p, i, h)
    PROVE  /\ HoldersCounted'
           /\ grant[p][held[p][i]] # "none"
<1> DEFINE l == held[p][i]
<1>1. /\ grant \in [Backends -> [Locks -> Modes \union {"none"}]]
      /\ grant' = [grant EXCEPT ![p][l] = "none"]
      /\ held \in [Backends -> Seq(Locks)]
      /\ held' = [held EXCEPT ![p] = Without(held[p], i)]
      /\ exclusive \in [Locks -> Int] /\ shared \in [Locks -> Int]
  BY DEF TypeInt, ReleaseHeld
<1>2. Uncount(l)
  BY DEF ReleaseHeld
<1>3. l \in Locks /\ l \in Range(held[p])
  BY <1>1 DEF Range
<1>4. \A q \in Backends :
          /\ IsInjective(held[q])
          /\ \A k \in Locks : k \in Range(held[q]) <=> grant[q][k] # "none"
  BY DEF HoldersCounted, HeldListed
<1>5. IsInjective(held'[p]) /\ Range(held'[p]) = Range(held[p]) \ {l}
  <2>1. held[p] \in Seq(Locks) /\ IsInjective(held[p]) /\ held'[p] = Without(held[p], i)
    BY <1>1, <1>4
  <2> QED
    BY <2>1, WithoutNoDup
<1> HIDE DEF l
<1>6. grant[p][l] \in Modes
  BY <1>1, <1>3, <1>4
<1>7. \A q \in Backends, k \in Locks :
          grant'[q][k] = IF q = p /\ k = l THEN "none" ELSE grant[q][k]
  BY <1>1, <1>3
<1>8. \A k \in Locks, x \in Modes :
          Holders(k, x)' = IF k = l THEN Holders(k, x) \ {p} ELSE Holders(k, x)
  BY <1>7 DEF Modes, Holders
<1>9. \A k \in Locks, x \in Modes :
          Cardinality(Holders(k, x)') =
              IF k = l /\ x = grant[p][l] THEN Cardinality(Holders(k, x)) - 1
                                          ELSE Cardinality(Holders(k, x))
  <2>1. ASSUME NEW x \in Modes
        PROVE  Cardinality(Holders(l, x) \ {p}) =
                  IF x = grant[p][l] THEN Cardinality(Holders(l, x)) - 1
                                     ELSE Cardinality(Holders(l, x))
    <3>1. p \in Holders(l, x) <=> x = grant[p][l]
      BY DEF Holders
    <3> QED
      BY <3>1, HoldersFinite, FS_RemoveElement
  <2> QED
    BY <1>3, <1>8, <2>1
<1>10. \A k \in Locks : /\ exclusive[k] = Cardinality(Holders(k, "exclusive"))
                        /\ shared[k] = Cardinality(Holders(k, "shared"))
                        /\ exclusive[k] + shared[k] > 1 => exclusive[k] = 0
                        /\ exclusive[k] \in Nat /\ shared[k] \in Nat
  BY HoldersFinite DEF HoldersCounted, CountersExact
<1>11. \A x \in Modes : x = grant[p][l] => Cardinality(Holders(l, x)) > 0
  <2>1. p \in Holders(l, grant[p][l])
    BY DEF Holders
  <2>2. Cardinality(Holders(l, grant[p][l])) # 0
    BY <2>1, HoldersFinite, FS_EmptySet
  <2> QED
    BY <2>2, HoldersFinite
<1>12. CountersExact'
  <2>1. CASE grant[p][l] = "exclusive"
    <3>1. exclusive[l] > 0
      BY <1>3, <1>10, <1>11, <2>1 DEF Modes
    <3>2. exclusive' = [exclusive EXCEPT ![l] = exclusive[l] - 1] /\ shared' = shared
      BY <1>2, <3>1 DEF Uncount
    <3> QED
      BY <1>1, <1>3, <1>9, <1>10, <2>1, <3>1, <3>2 DEF Modes, CountersExact
  <2>2. CASE grant[p][l] = "shared"
    <3>1. shared[l] > 0 /\ exclusive[l] = 0
      BY <1>3, <1>10, <1>11, <2>2 DEF Modes
    <3>2. shared' = [shared EXCEPT ![l] = shared[l] - 1] /\ exclusive' = exclusive
      BY <1>2, <3>1 DEF Uncount
    <3> QED
      BY <1>1, <1>3, <1>9, <1>10, <2>2, <3>1, <3>2 DEF Modes, CountersExact
  <2> QED
    BY <1>6, <2>1, <2>2 DEF Modes
<1>13. HeldListed'
  <2>1. \A k \in Locks : k \in Range(held'[p]) <=> grant'[p][k] # "none"
    BY <1>4, <1>5, <1>7
  <2>2. ASSUME NEW q \in Backends, q # p
        PROVE  /\ IsInjective(held'[q])
               /\ \A k \in Locks : k \in Range(held'[q]) <=> grant'[q][k] # "none"
    <3>1. held'[q] = held[q]
      BY <1>1, <2>2
    <3> QED
      BY <1>4, <1>7, <2>2, <3>1
  <2> QED
    BY <1>5, <2>1, <2>2 DEF HeldListed
<1> QED
  BY <1>3, <1>4, <1>12, <1>13 DEF HoldersCounted, l

\* Steps that touch neither the counters nor the lists of holders.
LEMMA HoldersSame ==
    ASSUME HoldersCounted, UNCHANGED <<exclusive, shared, held, grant>>
    PROVE  HoldersCounted'
<1>1. CountersExact'
  <2>1. \A l, m : Holders(l, m)' = Holders(l, m)
    BY DEF Holders
  <2> QED
    BY <2>1 DEF HoldersCounted, CountersExact
<1>2. HeldListed'
  BY DEF HoldersCounted, HeldListed
<1> QED
  BY <1>1, <1>2 DEF HoldersCounted

\* Steps after which nobody new waits, and the holds of the waiters are the same.
LEMMA WaitsSame ==
    ASSUME WaitsForFree,
           \A q \in Backends : pc'[q] \in {"wait", "retry"} =>
               /\ pc[q] \in {"wait", "retry"}
               /\ req'[q] = req[q]
               /\ grant'[q] = grant[q]
    PROVE  WaitsForFree'
BY DEF WaitsForFree

\* The section of LWLockAcquire keeps the counters exact.
LEMMA SectionHolders ==
    ASSUME TypeInt, HoldersCounted, WaitsForFree,
           NEW p \in Backends, NEW l \in Locks, NEW m \in Modes,
           grant[p][l] = "none", Section(p, l, m)
    PROVE  HoldersCounted' /\ WaitsForFree'
<1>1. CASE Free(l, m) /\ Count(l, m) /\ Hold(p, l, m)
          /\ req' = [req EXCEPT ![p] = NoRequest]
          /\ pc' = [pc EXCEPT ![p] = IF extraWaits[p] > 0 THEN "repost" ELSE "run"]
          /\ UNCHANGED <<queue, lwWaiting, lwExclusive>>
  <2>1. HoldersCounted'
    BY <1>1, GrantCounted
  <2>2. pc'[p] \notin {"wait", "retry"}
    BY <1>1 DEF TypeInt
  <2>3. ASSUME NEW q \in Backends, q # p
        PROVE  pc'[q] = pc[q] /\ req'[q] = req[q] /\ grant'[q] = grant[q]
    BY <1>1, <2>3 DEF TypeInt, Hold
  <2> QED
    BY <2>1, <2>2, <2>3, WaitsSame
<1>2. CASE Enqueue(p, l, m)
          /\ req' = [req EXCEPT ![p] = [lock |-> l, mode |-> m]]
          /\ pc' = [pc EXCEPT ![p] = "wait"]
          /\ UNCHANGED <<exclusive, shared, held, grant>>
  <2>1. HoldersCounted'
    BY <1>2, HoldersSame
  <2>2. req'[p].lock = l
    BY <1>2 DEF TypeInt
  <2>3. ASSUME NEW q \in Backends, q # p
        PROVE  pc'[q] = pc[q] /\ req'[q] = req[q]
    BY <1>2, <2>3 DEF TypeInt
  <2> QED
    BY <1>2, <2>1, <2>2, <2>3 DEF WaitsForFree
<1> QED
  BY <1>1, <1>2 DEF Section

\* What a release does besides the counters.
LEMMA ReleaseEffect ==
    ASSUME TypeInt, NEW p \in Backends, NEW i \in 1..Len(held[p]), NEW h \in Int,
           ReleaseHeld(p, i, h)
    PROVE  /\ pc'[p] \in {"run", "cleanup", "wake"}
           /\ \A q \in Backends : q # p => /\ pc'[q] = pc[q]
                                           /\ grant'[q] = grant[q]
                                           /\ held'[q] = held[q]
                                           /\ holdoff'[q] = holdoff[q]
                                           /\ chain'[q] = chain[q]
           /\ UNCHANGED <<waitVars, semVars, woken>>
<1>1. CutWaiters(p, held[p][i], h)
  BY DEF ReleaseHeld
<1>2. \/ pc' = [pc EXCEPT ![p] = "wake"]
      \/ pc' = [pc EXCEPT ![p] = IF inError[p] THEN "cleanup" ELSE "run"]
  BY <1>1 DEF CutWaiters, Return
<1>3. \/ holdoff' = [holdoff EXCEPT ![p] = h]
      \/ holdoff' = [holdoff EXCEPT ![p] = h - 1]
  BY <1>1 DEF CutWaiters, Return
<1>4. \/ \E x : chain' = [chain EXCEPT ![p] = x]
      \/ chain' = chain
  BY <1>1 DEF CutWaiters
<1>5. /\ grant' = [grant EXCEPT ![p][held[p][i]] = "none"]
      /\ held' = [held EXCEPT ![p] = Without(held[p], i)]
      /\ UNCHANGED <<waitVars, semVars, woken>>
  BY DEF ReleaseHeld
<1>6. /\ pc \in [Backends -> PCs] /\ holdoff \in [Backends -> Int]
      /\ chain \in [Backends -> Seq(Backends)]
      /\ grant \in [Backends -> [Locks -> Modes \union {"none"}]]
      /\ held \in [Backends -> Seq(Locks)]
  BY DEF TypeInt
<1>7. pc'[p] \in {"run", "cleanup", "wake"}
  BY <1>2, <1>6
<1>8. ASSUME NEW q \in Backends, q # p
      PROVE  /\ pc'[q] = pc[q]
             /\ grant'[q] = grant[q]
             /\ held'[q] = held[q]
             /\ holdoff'[q] = holdoff[q]
             /\ chain'[q] = chain[q]
  BY <1>2, <1>3, <1>4, <1>5, <1>6, <1>8
<1> QED
  BY <1>5, <1>7, <1>8

\* So does a release.
LEMMA ReleaseHolders ==
    ASSUME TypeInt, HoldersCounted, WaitsForFree,
           NEW p \in Backends, NEW i \in 1..Len(held[p]), NEW h \in Int,
           ReleaseHeld(p, i, h)
    PROVE  HoldersCounted' /\ WaitsForFree'
<1>1. HoldersCounted'
  BY ReleaseCounted
<1>2. req' = req
  BY ReleaseEffect DEF waitVars
<1> QED
  BY <1>1, <1>2, ReleaseEffect, WaitsSame

\* A caller that nests in order does not ask for a lock that it holds.
LEMMA InOrderFree ==
    ASSUME TypeInt, HoldersCounted, NEW p \in Backends, NEW l \in Locks,
           l \notin Range(held[p]) \/ InOrder(p, l)
    PROVE  grant[p][l] = "none"
<1>1. l \notin Range(held[p])
  <2>1. l \in Nat
    BY LocksNat
  <2> QED
    BY <2>1 DEF InOrder
<1> QED
  BY <1>1 DEF HoldersCounted, HeldListed

\* Every step keeps the counters and the lists of held locks exact.
THEOREM HoldersStep ==
    TypeInt /\ HoldersCounted /\ WaitsForFree /\ [Next]_vars
        => HoldersCounted' /\ WaitsForFree'
<1> SUFFICES ASSUME TypeInt, HoldersCounted, WaitsForFree, [Next]_vars
             PROVE  HoldersCounted' /\ WaitsForFree'
  OBVIOUS
<1> USE DEF lockVars, waitVars, semVars, heldVars, wakeVars
<1>1. ASSUME NEW p \in Backends, NEW l \in Locks, NEW m \in Modes,
             LWLockAcquire(p, l, m)
      PROVE  HoldersCounted' /\ WaitsForFree'
  <2>1. Section(p, l, m) /\ InOrder(p, l)
    BY <1>1 DEF LWLockAcquire
  <2> QED
    BY <2>1, InOrderFree, SectionHolders
<1>2. ASSUME NEW p \in Backends, NEW l \in Locks, NEW m \in Modes,
             LWLockConditionalAcquire(p, l, m)
      PROVE  HoldersCounted' /\ WaitsForFree'
  <2>1. Free(l, m) /\ Count(l, m) /\ Hold(p, l, m) /\ l \notin Range(held[p])
    BY <1>2 DEF LWLockConditionalAcquire
  <2>2. HoldersCounted'
    BY <2>1, InOrderFree, GrantCounted
  <2>3. pc'[p] = "run" /\ pc' = pc /\ req' = req
    BY <1>2 DEF LWLockConditionalAcquire
  <2>4. \A q \in Backends : q # p => grant'[q] = grant[q]
    BY <2>1 DEF Hold, TypeInt
  <2> QED
    BY <2>2, <2>3, <2>4, WaitsSame
<1>3. ASSUME NEW p \in Backends, Retry(p) PROVE HoldersCounted' /\ WaitsForFree'
  <2>1. req[p].lock \in Locks /\ req[p].mode \in Modes
    BY DEF TypeInt, Request
  <2>2. Section(p, req[p].lock, req[p].mode) /\ pc[p] = "retry"
    BY <1>3 DEF Retry
  <2>3. grant[p][req[p].lock] = "none"
    BY <2>2 DEF WaitsForFree
  <2> QED
    BY <2>1, <2>2, <2>3, SectionHolders
<1>4. ASSUME NEW p \in Backends, NEW i \in 1..Len(held[p]), LWLockRelease(p, i)
      PROVE  HoldersCounted' /\ WaitsForFree'
  <2>1. ReleaseHeld(p, i, holdoff[p]) /\ holdoff[p] \in Int
    BY <1>4 DEF LWLockRelease, TypeInt
  <2> QED
    BY <2>1, ReleaseHolders
<1>5. ASSUME NEW p \in Backends, LWLockReleaseAll(p)
      PROVE  HoldersCounted' /\ WaitsForFree'
  <2>1. /\ ReleaseHeld(p, Len(held[p]), holdoff[p] + 1)
        /\ holdoff[p] + 1 \in Int /\ Len(held[p]) \in 1..Len(held[p])
    BY <1>5 DEF LWLockReleaseAll, TypeInt
  <2> QED
    BY <2>1, ReleaseHolders
<1>6. ASSUME UNCHANGED <<exclusive, shared, held, grant, req>>,
             \A q \in Backends : pc'[q] \in {"wait", "retry"} =>
                 pc[q] \in {"wait", "retry"}
      PROVE  HoldersCounted' /\ WaitsForFree'
  BY <1>6, HoldersSame, WaitsSame
<1>7. ASSUME NEW p \in Backends, AwaitWakeup(p)
      PROVE  HoldersCounted' /\ WaitsForFree'
  BY <1>6, <1>7 DEF AwaitWakeup, TypeInt
<1>8. ASSUME NEW p \in Backends, Repost(p) PROVE HoldersCounted' /\ WaitsForFree'
  BY <1>6, <1>8 DEF Repost, TypeInt
<1>9. ASSUME NEW p \in Backends, WakeFirst(p) PROVE HoldersCounted' /\ WaitsForFree'
  BY <1>6, <1>9 DEF WakeFirst, TypeInt
<1>10. ASSUME NEW p \in Backends, PostWoken(p) PROVE HoldersCounted' /\ WaitsForFree'
  BY <1>6, <1>10 DEF PostWoken, Return, TypeInt
<1>11. ASSUME NEW p \in Backends, Error(p) \/ EndRecovery(p)
       PROVE  HoldersCounted' /\ WaitsForFree'
  BY <1>6, <1>11 DEF Error, EndRecovery, TypeInt
<1>12. ASSUME NEW p \in Backends, SemPost(p) \/ SemTake(p) \/ SemReset(p)
       PROVE  HoldersCounted' /\ WaitsForFree'
  BY <1>6, <1>12 DEF SemPost, SemTake, SemReset
<1>13. CASE UNCHANGED vars
  BY <1>6, <1>13 DEF vars
<1> QED
  BY <1>1, <1>2, <1>3, <1>4, <1>5, <1>7, <1>8, <1>9, <1>10, <1>11, <1>12, <1>13
     DEF Next, Step, Call

\* The counters of a lock and the list from which error recovery releases are
\* exact for every number of backends and locks (HoldersCounted).
THEOREM HoldersInvariant == Spec => [](HoldersCounted /\ WaitsForFree)
<1>1. Init => HoldersCounted /\ WaitsForFree
  <2> SUFFICES ASSUME Init PROVE HoldersCounted /\ WaitsForFree
    OBVIOUS
  <2>1. \A l \in Locks, m \in Modes : Holders(l, m) = {}
    BY DEF Init, Holders, Modes
  <2>2. CountersExact
    BY <2>1, FS_EmptySet DEF Init, CountersExact, Modes
  <2>3. HeldListed
    BY DEF Init, HeldListed, IsInjective, Range
  <2> QED
    BY <2>2, <2>3 DEF HoldersCounted, WaitsForFree, Init
<1>2. TypeInt /\ HoldersCounted /\ WaitsForFree /\ [Next]_vars
        => HoldersCounted' /\ WaitsForFree'
  BY HoldersStep
<1> QED
  BY <1>1, <1>2, TypeIntInvariant, PTL DEF Spec

\* What the counters let a backend take, the abstract lock allows.
LEMMA GrantAllowed ==
    ASSUME TypeInt, HoldersCounted, NEW p \in Backends, NEW l \in Locks,
           NEW m \in Modes, grant[p][l] = "none", Free(l, m), Hold(p, l, m)
    PROVE  RW!Acquire(p, l, m)
<1>1. \A x : Cardinality(Holders(l, x)) = 0 => Holders(l, x) = {}
  BY HoldersFinite, FS_EmptySet
<1>2. /\ Holders(l, "exclusive") = {}
      /\ m = "exclusive" => Holders(l, "shared") = {}
  BY <1>1 DEF Free, HoldersCounted, CountersExact
<1>3. grant \in [Backends -> [Locks -> Modes \union {"none"}]]
  BY DEF TypeInt
<1>4. RW!Compatible(p, l, m)
  <2> SUFFICES ASSUME NEW q \in Backends \ {p}
               PROVE  /\ m = "exclusive" => grant[q][l] = "none"
                      /\ grant[q][l] # "exclusive"
    BY DEF RW!Compatible
  <2>1. grant[q][l] \in {"exclusive", "shared", "none"}
    BY <1>3 DEF Modes
  <2> QED
    BY <1>2, <2>1 DEF Holders
<1> QED
  BY <1>4 DEF RW!Acquire, Hold

\* Every step is one of the abstract locks, or none.
THEOREM RefinementStep ==
    TypeInt /\ HoldersCounted /\ WaitsForFree /\ [Next]_vars => [RW!Next]_grant
<1> SUFFICES ASSUME TypeInt, HoldersCounted, WaitsForFree, [Next]_vars
             PROVE  [RW!Next]_grant
  OBVIOUS
<1> USE DEF heldVars
<1>1. ASSUME NEW p \in Backends, NEW l \in Locks, NEW m \in Modes,
             Section(p, l, m), grant[p][l] = "none"
      PROVE  RW!Next \/ UNCHANGED grant
  <2>1. CASE Free(l, m) /\ Hold(p, l, m)
    <3>1. RW!Acquire(p, l, m)
      BY <1>1, <2>1, GrantAllowed
    <3> QED
      BY <3>1 DEF RW!Next, RW!Modes, Modes
  <2>2. CASE UNCHANGED grant
    BY <2>2
  <2> QED
    BY <1>1, <2>1, <2>2 DEF Section
<1>2. ASSUME NEW p \in Backends, NEW i \in 1..Len(held[p]), NEW h \in Int,
             ReleaseHeld(p, i, h)
      PROVE  RW!Next
  <2>1. held[p][i] \in Locks
    BY DEF TypeInt
  <2>2. RW!Release(p, held[p][i])
    BY <1>2, ReleaseCounted DEF ReleaseHeld, RW!Release
  <2> QED
    BY <2>1, <2>2 DEF RW!Next
<1>3. ASSUME NEW p \in Backends, NEW l \in Locks, NEW m \in Modes,
             LWLockAcquire(p, l, m)
      PROVE  RW!Next \/ UNCHANGED grant
  BY <1>1, <1>3, InOrderFree DEF LWLockAcquire
<1>4. ASSUME NEW p \in Backends, NEW l \in Locks, NEW m \in Modes,
             LWLockConditionalAcquire(p, l, m)
      PROVE  RW!Next
  <2>1. Free(l, m) /\ Hold(p, l, m) /\ l \notin Range(held[p])
    BY <1>4 DEF LWLockConditionalAcquire
  <2>2. RW!Acquire(p, l, m)
    BY <2>1, InOrderFree, GrantAllowed
  <2> QED
    BY <2>2 DEF RW!Next, RW!Modes, Modes
<1>5. ASSUME NEW p \in Backends, Retry(p) PROVE RW!Next \/ UNCHANGED grant
  <2>1. req[p].lock \in Locks /\ req[p].mode \in Modes
    BY DEF TypeInt, Request
  <2>2. Section(p, req[p].lock, req[p].mode) /\ grant[p][req[p].lock] = "none"
    BY <1>5 DEF Retry, WaitsForFree
  <2> QED
    BY <1>1, <2>1, <2>2
<1>6. ASSUME NEW p \in Backends, NEW i \in 1..Len(held[p]), LWLockRelease(p, i)
      PROVE  RW!Next
  BY <1>2, <1>6 DEF LWLockRelease, TypeInt
<1>7. ASSUME NEW p \in Backends, LWLockReleaseAll(p) PROVE RW!Next
  <2>1. /\ ReleaseHeld(p, Len(held[p]), holdoff[p] + 1)
        /\ holdoff[p] + 1 \in Int /\ Len(held[p]) \in 1..Len(held[p])
    BY <1>7 DEF LWLockReleaseAll, TypeInt
  <2> QED
    BY <1>2, <2>1
<1>8. ASSUME NEW p \in Backends,
             \/ AwaitWakeup(p) \/ Repost(p) \/ WakeFirst(p) \/ PostWoken(p)
             \/ Error(p) \/ EndRecovery(p)
             \/ SemPost(p) \/ SemTake(p) \/ SemReset(p)
      PROVE  UNCHANGED grant
  BY <1>8 DEF AwaitWakeup, Repost, WakeFirst, PostWoken, Error, EndRecovery,
              SemPost, SemTake, SemReset
<1>9. CASE UNCHANGED vars
  BY <1>9 DEF vars
<1> QED
  BY <1>3, <1>4, <1>5, <1>6, <1>7, <1>8, <1>9 DEF Next, Step, Call

\* The holds the locks grant are those of readers-writer locks (RWSpec): each
\* step is a step of RWLock or leaves the holds alone.
THEOREM Refinement == Spec => RWSpec
<1>1. Init => RW!Init
  BY DEF Init, RW!Init
<1> QED
  BY <1>1, RefinementStep, TypeIntInvariant, HoldersInvariant, PTL
     DEF Spec, RWSpec, RW!Spec
-----------------------------------------------------------------------------
(***************************************************************************)
(* Interrupt holdoff.                                                      *)
(***************************************************************************)
\* Which parts of the code error recovery can be in.
RecoveryPhase ==
    \A p \in Backends :
        /\ pc[p] \in {"run", "wait", "retry", "repost"} => ~inError[p]
        /\ pc[p] = "cleanup" => inError[p]

Inside == {"wait", "retry", "wake", "post"}

\* HoldoffCounted case by case.
HoldoffCases ==
    \A p \in Backends :
        /\ inError[p] => \/ pc[p] \in Inside /\ holdoff[p] = 2
                         \/ pc[p] \notin Inside /\ holdoff[p] = 1
        /\ ~inError[p] => \/ pc[p] \in Inside /\ holdoff[p] = Len(held[p]) + 1
                          \/ pc[p] \notin Inside /\ holdoff[p] = Len(held[p])

\* HoldoffCases is the same as HoldoffCounted.
LEMMA HoldoffByCases == TypeInt /\ HoldoffCases => HoldoffCounted
<1> SUFFICES ASSUME TypeInt, HoldoffCases, NEW p \in Backends
             PROVE  holdoff[p] = (IF inError[p] THEN 1 ELSE Len(held[p]))
                       + (IF pc[p] \in {"wait", "retry", "wake", "post"} THEN 1 ELSE 0)
  BY DEF HoldoffCounted
<1>1. Len(held[p]) \in Nat
  BY DEF TypeInt
<1>2. CASE inError[p]
  BY <1>2 DEF HoldoffCases, Inside
<1>3. CASE ~inError[p] /\ pc[p] \in Inside
  <2>1. holdoff[p] = Len(held[p]) + 1
    BY <1>3 DEF HoldoffCases
  <2> QED
    BY <1>3, <2>1 DEF Inside
<1>4. CASE ~inError[p] /\ pc[p] \notin Inside
  <2>1. holdoff[p] = Len(held[p])
    BY <1>4 DEF HoldoffCases
  <2>2. Len(held[p]) + 0 = Len(held[p])
    BY <1>1
  <2> QED
    BY <1>4, <2>1, <2>2 DEF Inside
<1> QED
  BY <1>2, <1>3, <1>4

\* Steps that leave alone what HoldoffCases is about.
LEMMA HoldoffSame ==
    ASSUME HoldoffCases, RecoveryPhase, UNCHANGED <<held, holdoff, inError>>,
           \A q \in Backends :
               \/ pc'[q] = pc[q]
               \/ pc[q] = "wait" /\ pc'[q] = "retry"
               \/ pc[q] = "repost" /\ pc'[q] = "run"
               \/ pc[q] = "wake" /\ pc'[q] = "post"
    PROVE  HoldoffCases' /\ RecoveryPhase'
<1>1. ASSUME NEW q \in Backends
      PROVE  pc'[q] \in Inside <=> pc[q] \in Inside
  BY DEF Inside
<1>2. HoldoffCases'
  BY <1>1 DEF HoldoffCases
<1>3. RecoveryPhase'
  BY DEF RecoveryPhase
<1> QED
  BY <1>2, <1>3

\* The section of LWLockAcquire keeps the holdoff count.
LEMMA SectionHoldoff ==
    ASSUME TypeInt, HoldoffCases, RecoveryPhase,
           NEW p \in Backends, NEW l \in Locks, NEW m \in Modes,
           Section(p, l, m), UNCHANGED inError,
           \/ /\ pc[p] = "run"
              /\ holdoff' = [holdoff EXCEPT ![p] = @ + 1]
           \/ /\ pc[p] = "retry"
              /\ UNCHANGED holdoff
    PROVE  HoldoffCases' /\ RecoveryPhase'
<1>1. ~inError[p] /\ inError' = inError
  BY DEF RecoveryPhase
<1>2. /\ holdoff'[p] = Len(held[p]) + 1
      /\ \A q \in Backends : q # p => holdoff'[q] = holdoff[q]
  <2>1. /\ holdoff \in [Backends -> Int]
        /\ held[p] \in Seq(Locks)
    BY DEF TypeInt
  <2>2. \/ pc[p] = "retry" /\ holdoff[p] = Len(held[p]) + 1
        \/ pc[p] = "run" /\ holdoff[p] = Len(held[p])
    BY <1>1 DEF HoldoffCases, Inside
  <2> QED
    BY <2>1, <2>2
<1>3. /\ \/ pc'[p] \in {"run", "repost"} /\ Len(held'[p]) = Len(held[p]) + 1
         \/ pc'[p] = "wait" /\ held'[p] = held[p]
      /\ \A q \in Backends : q # p => pc'[q] = pc[q] /\ held'[q] = held[q]
  <2>1. pc \in [Backends -> PCs] /\ held \in [Backends -> Seq(Locks)]
    BY DEF TypeInt
  <2>2. \/ /\ held' = [held EXCEPT ![p] = Append(held[p], l)]
           /\ pc' = [pc EXCEPT ![p] = IF extraWaits[p] > 0 THEN "repost" ELSE "run"]
        \/ /\ pc' = [pc EXCEPT ![p] = "wait"]
           /\ held' = held
    BY DEF Section, Hold
  <2>3. Len(Append(held[p], l)) = Len(held[p]) + 1
    BY <2>1
  <2> QED
    BY <2>1, <2>2, <2>3
<1>4. HoldoffCases'
  <2>1. held[p] \in Seq(Locks)
    BY DEF TypeInt
  <2>2. \/ pc'[p] \in Inside /\ holdoff'[p] = Len(held'[p]) + 1
        \/ pc'[p] \notin Inside /\ holdoff'[p] = Len(held'[p])
    BY <1>2, <1>3, <2>1 DEF Inside
  <2> QED
    BY <1>1, <1>2, <1>3, <2>2 DEF HoldoffCases
<1>5. RecoveryPhase'
  BY <1>1, <1>3 DEF RecoveryPhase
<1> QED
  BY <1>4, <1>5

\* So does a release, in error recovery or not.
LEMMA ReleaseHoldoff ==
    ASSUME TypeInt, HoldoffCases, RecoveryPhase,
           NEW p \in Backends, NEW i \in 1..Len(held[p]), NEW h \in Int,
           ReleaseHeld(p, i, h), UNCHANGED inError,
           \/ pc[p] = "run" /\ h = holdoff[p]
           \/ pc[p] = "cleanup" /\ h = holdoff[p] + 1
    PROVE  HoldoffCases' /\ RecoveryPhase'
<1>1. \A q \in Backends : q # p => /\ pc'[q] = pc[q]
                                   /\ held'[q] = held[q]
                                   /\ holdoff'[q] = holdoff[q]
  BY ReleaseEffect
<1>2. /\ inError[p] => h = 2
      /\ ~inError[p] => h = Len(held[p])
  BY DEF HoldoffCases, RecoveryPhase, Inside
<1>3. Len(held'[p]) = Len(held[p]) - 1 /\ Len(held[p]) \in Nat
  <2>1. held[p] \in Seq(Locks) /\ held' = [held EXCEPT ![p] = Without(held[p], i)]
    BY DEF TypeInt, ReleaseHeld
  <2>2. Len(Without(held[p], i)) = Len(held[p]) - 1
    BY <2>1, WithoutType
  <2> QED
    BY <2>1, <2>2 DEF TypeInt
<1>4. \/ pc'[p] = "wake" /\ holdoff'[p] = h
      \/ /\ pc'[p] = IF inError[p] THEN "cleanup" ELSE "run"
         /\ holdoff'[p] = h - 1
  <2>1. CutWaiters(p, held[p][i], h)
    BY DEF ReleaseHeld
  <2> QED
    BY <2>1 DEF CutWaiters, Return, TypeInt
<1>5. /\ inError[p] => \/ pc'[p] \in Inside /\ holdoff'[p] = 2
                       \/ pc'[p] \notin Inside /\ holdoff'[p] = 1
      /\ ~inError[p] => \/ pc'[p] \in Inside /\ holdoff'[p] = Len(held'[p]) + 1
                        \/ pc'[p] \notin Inside /\ holdoff'[p] = Len(held'[p])
  <2>1. Len(held'[p]) + 1 = Len(held[p])
    BY <1>3
  <2>2. CASE pc'[p] = "wake" /\ holdoff'[p] = h
    <3>1. pc'[p] \in Inside
      BY <2>2 DEF Inside
    <3>2. inError[p] => holdoff'[p] = 2
      BY <1>2, <2>2
    <3>3. ~inError[p] => holdoff'[p] = Len(held'[p]) + 1
      BY <1>2, <2>1, <2>2
    <3> QED
      BY <3>1, <3>2, <3>3
  <2>3. CASE /\ pc'[p] \in {"cleanup", "run"}
             /\ holdoff'[p] = h - 1
    <3>1. pc'[p] \notin Inside
      BY <2>3 DEF Inside
    <3>2. inError[p] => holdoff'[p] = 1
      BY <1>2, <2>3
    <3>3. ~inError[p] => holdoff'[p] = Len(held'[p])
      BY <1>2, <1>3, <2>3
    <3> QED
      BY <3>1, <3>2, <3>3
  <2> QED
    BY <1>4, <2>2, <2>3
<1>6. HoldoffCases'
  <2>1. inError' = inError
    OBVIOUS
  <2>2. ASSUME NEW q \in Backends, q # p
        PROVE  /\ pc'[q] = pc[q] /\ held'[q] = held[q]
               /\ holdoff'[q] = holdoff[q] /\ inError'[q] = inError[q]
    BY <1>1, <2>1, <2>2
  <2> QED
    BY <1>5, <2>1, <2>2 DEF HoldoffCases
<1>7. RecoveryPhase'
  BY <1>1, <1>4 DEF RecoveryPhase
<1> QED
  BY <1>6, <1>7

\* Every step keeps the holdoff count.
THEOREM HoldoffStep ==
    TypeInt /\ HoldoffCases /\ RecoveryPhase /\ [Next]_vars
        => HoldoffCases' /\ RecoveryPhase'
<1> SUFFICES ASSUME TypeInt, HoldoffCases, RecoveryPhase, [Next]_vars
             PROVE  HoldoffCases' /\ RecoveryPhase'
  OBVIOUS
<1> USE DEF lockVars, waitVars, semVars, heldVars, wakeVars
<1>1. ASSUME NEW p \in Backends, NEW l \in Locks, NEW m \in Modes,
             LWLockAcquire(p, l, m)
      PROVE  HoldoffCases' /\ RecoveryPhase'
  BY <1>1, SectionHoldoff DEF LWLockAcquire
<1>2. ASSUME NEW p \in Backends, NEW l \in Locks, NEW m \in Modes,
             LWLockConditionalAcquire(p, l, m)
      PROVE  HoldoffCases' /\ RecoveryPhase'
  <2>1. /\ held' = [held EXCEPT ![p] = Append(held[p], l)]
        /\ holdoff' = [holdoff EXCEPT ![p] = holdoff[p] + 1]
        /\ pc[p] = "run" /\ pc' = pc /\ inError' = inError
    BY <1>2 DEF LWLockConditionalAcquire, Hold
  <2>2. held \in [Backends -> Seq(Locks)] /\ holdoff \in [Backends -> Int]
    BY DEF TypeInt
  <2>3. Len(held'[p]) = Len(held[p]) + 1 /\ Len(held[p]) \in Nat
    BY <2>1, <2>2
  <2>4. \A q \in Backends : q # p => held'[q] = held[q] /\ holdoff'[q] = holdoff[q]
    BY <2>1, <2>2
  <2>5. ~inError[p] /\ pc[p] \notin Inside /\ holdoff[p] = Len(held[p])
    BY <2>1 DEF HoldoffCases, RecoveryPhase, Inside
  <2>6. holdoff'[p] = Len(held'[p])
    BY <2>1, <2>2, <2>3, <2>5
  <2>7. HoldoffCases'
    BY <2>1, <2>4, <2>5, <2>6 DEF HoldoffCases
  <2> QED
    BY <2>1, <2>7 DEF RecoveryPhase
<1>3. ASSUME NEW p \in Backends, Retry(p) PROVE HoldoffCases' /\ RecoveryPhase'
  <2>1. req[p].lock \in Locks /\ req[p].mode \in Modes
    BY DEF TypeInt, Request
  <2> QED
    BY <1>3, <2>1, SectionHoldoff DEF Retry
<1>4. ASSUME NEW p \in Backends, NEW i \in 1..Len(held[p]), LWLockRelease(p, i)
      PROVE  HoldoffCases' /\ RecoveryPhase'
  <2>1. holdoff[p] \in Int
    BY DEF TypeInt
  <2> QED
    BY <1>4, <2>1, ReleaseHoldoff DEF LWLockRelease
<1>5. ASSUME NEW p \in Backends, LWLockReleaseAll(p)
      PROVE  HoldoffCases' /\ RecoveryPhase'
  <2>1. holdoff[p] + 1 \in Int /\ Len(held[p]) \in 1..Len(held[p])
    BY <1>5 DEF TypeInt, LWLockReleaseAll
  <2> QED
    BY <1>5, <2>1, ReleaseHoldoff DEF LWLockReleaseAll
<1>6. ASSUME NEW p \in Backends, AwaitWakeup(p) \/ Repost(p) \/ WakeFirst(p)
      PROVE  HoldoffCases' /\ RecoveryPhase'
  BY <1>6, HoldoffSame DEF AwaitWakeup, Repost, WakeFirst, TypeInt
<1>7. ASSUME NEW p \in Backends, PostWoken(p)
      PROVE  HoldoffCases' /\ RecoveryPhase'
  <2>1. held' = held /\ inError' = inError /\ pc[p] = "post"
    BY <1>7 DEF PostWoken
  <2>2. \/ pc'[p] = "wake" /\ holdoff'[p] = holdoff[p]
        \/ /\ pc'[p] = IF inError[p] THEN "cleanup" ELSE "run"
           /\ holdoff'[p] = holdoff[p] - 1
    BY <1>7 DEF PostWoken, Return, TypeInt
  <2>3. \A q \in Backends : q # p => pc'[q] = pc[q] /\ holdoff'[q] = holdoff[q]
    BY <1>7 DEF PostWoken, Return, TypeInt
  <2>4. /\ inError[p] => holdoff[p] = 2
        /\ ~inError[p] => holdoff[p] = Len(held[p]) + 1
    BY <2>1 DEF HoldoffCases, Inside
  <2>5. Len(held[p]) \in Nat
    BY DEF TypeInt
  <2>6. /\ inError[p] => \/ pc'[p] \in Inside /\ holdoff'[p] = 2
                         \/ pc'[p] \notin Inside /\ holdoff'[p] = 1
        /\ ~inError[p] => \/ pc'[p] \in Inside /\ holdoff'[p] = Len(held[p]) + 1
                          \/ pc'[p] \notin Inside /\ holdoff'[p] = Len(held[p])
    BY <2>2, <2>4, <2>5 DEF Inside
  <2>7. HoldoffCases'
    BY <2>1, <2>3, <2>6 DEF HoldoffCases
  <2> QED
    BY <2>1, <2>2, <2>3, <2>7 DEF RecoveryPhase
<1>8. ASSUME NEW p \in Backends, Error(p)
      PROVE  HoldoffCases' /\ RecoveryPhase'
  <2>1. /\ inError'[p] /\ holdoff'[p] = 1 /\ pc'[p] = "cleanup"
        /\ \A q \in Backends : q # p => /\ inError'[q] = inError[q]
                                        /\ holdoff'[q] = holdoff[q]
                                        /\ pc'[q] = pc[q]
        /\ held' = held
    BY <1>8 DEF Error, TypeInt
  <2>2. HoldoffCases'
    BY <2>1 DEF HoldoffCases, Inside
  <2> QED
    BY <2>1, <2>2 DEF RecoveryPhase
<1>9. ASSUME NEW p \in Backends, EndRecovery(p)
      PROVE  HoldoffCases' /\ RecoveryPhase'
  <2>1. /\ inError[p] /\ Len(held[p]) = 0
        /\ holdoff' = [holdoff EXCEPT ![p] = holdoff[p] - 1]
        /\ inError' = [inError EXCEPT ![p] = FALSE]
        /\ pc' = [pc EXCEPT ![p] = "run"]
        /\ pc[p] = "cleanup" /\ held' = held
    BY <1>9 DEF EndRecovery, RecoveryPhase
  <2>2. holdoff[p] = 1
    BY <2>1 DEF HoldoffCases, Inside
  <2>3. holdoff'[p] = Len(held[p]) /\ pc'[p] = "run" /\ ~inError'[p]
    BY <2>1, <2>2 DEF TypeInt
  <2>4. \A q \in Backends : q # p => /\ pc'[q] = pc[q]
                                     /\ inError'[q] = inError[q]
                                     /\ holdoff'[q] = holdoff[q]
    BY <2>1 DEF TypeInt
  <2>5. HoldoffCases'
    BY <2>1, <2>3, <2>4 DEF HoldoffCases, Inside
  <2> QED
    BY <2>3, <2>4, <2>5 DEF RecoveryPhase
<1>10. ASSUME NEW p \in Backends, SemPost(p) \/ SemTake(p) \/ SemReset(p)
       PROVE  HoldoffCases' /\ RecoveryPhase'
  BY <1>10, HoldoffSame DEF SemPost, SemTake, SemReset
<1>11. CASE UNCHANGED vars
  BY <1>11, HoldoffSame DEF vars
<1> QED
  BY <1>1, <1>2, <1>3, <1>4, <1>5, <1>6, <1>7, <1>8, <1>9, <1>10, <1>11
     DEF Next, Step, Call

\* Interrupts are held off exactly while a lock is held, taken or given back
\* (HoldoffCounted), whatever mixture of releases and errors occurs.
THEOREM HoldoffInvariant == Spec => []HoldoffCounted
<1>1. Init => HoldoffCases /\ RecoveryPhase
  BY DEF Init, HoldoffCases, RecoveryPhase, Inside
<1>2. TypeInt /\ HoldoffCases /\ RecoveryPhase /\ [Next]_vars
        => HoldoffCases' /\ RecoveryPhase'
  BY HoldoffStep
<1> QED
  BY <1>1, <1>2, TypeIntInvariant, HoldoffByCases, PTL DEF Spec
-----------------------------------------------------------------------------
(***************************************************************************)
(* The wait queues.                                                        *)
(***************************************************************************)
\* A backend asleep until a releaser takes it off its list.
Asleep(q) == pc[q] = "wait" /\ lwWaiting[q]

QueueListed ==
    \A l \in Locks :
        /\ IsInjective(queue[l])
        /\ \A q \in Range(queue[l]) : Asleep(q) /\ req[q].lock = l

ChainListed ==
    \A r \in Backends :
        /\ IsInjective(chain[r])
        /\ chain[r] # <<>> => pc[r] \in {"wake", "post"}
        /\ \A q \in Range(chain[r]) :
              Asleep(q) /\ \A l \in Locks : q \notin Range(queue[l])

ChainsApart ==
    \A r1, r2 \in Backends :
        r1 # r2 => Range(chain[r1]) \intersect Range(chain[r2]) = {}

SleepersListed ==
    \A q \in Backends :
        Asleep(q) => \/ \E l \in Locks : q \in Range(queue[l])
                     \/ \E r \in Backends : q \in Range(chain[r])

Lists == QueueListed /\ ChainListed /\ ChainsApart /\ SleepersListed

\* Nothing the lists are about changes.
LEMMA ListsSame ==
    ASSUME Lists, UNCHANGED <<queue, chain>>,
           \A q \in Backends :
               /\ Asleep(q) <=> Asleep(q)'
               /\ Asleep(q) => req'[q] = req[q]
               /\ pc[q] \in {"wake", "post"} /\ chain[q] # <<>>
                      => pc'[q] \in {"wake", "post"},
           TypeInt
    PROVE  Lists'
<1>1. \A l \in Locks : Range(queue[l]) \subseteq Backends
  BY DEF TypeInt, Range
<1>2. \A r \in Backends : Range(chain[r]) \subseteq Backends
  BY DEF TypeInt, Range
<1>3. QueueListed'
  BY <1>1 DEF Lists, QueueListed
<1>4. ChainListed'
  BY <1>2 DEF Lists, ChainListed
<1>5. ChainsApart'
  BY DEF Lists, ChainsApart
<1>6. SleepersListed'
  BY DEF Lists, SleepersListed
<1> QED
  BY <1>3, <1>4, <1>5, <1>6 DEF Lists

\* The step of a backend that is awake, and of the counters and flags of a lock,
\* changes neither the lists nor who is on them.
LEMMA AwakeInNoList ==
    ASSUME Lists, NEW p \in Backends, ~Asleep(p)
    PROVE  /\ \A l \in Locks : p \notin Range(queue[l])
           /\ \A r \in Backends : p \notin Range(chain[r])
BY DEF Lists, QueueListed, ChainListed

\* The section of LWLockAcquire keeps the lists of waiters.
LEMMA SectionLists ==
    ASSUME TypeInt, Lists, NEW p \in Backends, NEW l \in Locks, NEW m \in Modes,
           pc[p] \in {"run", "retry"}, Section(p, l, m), UNCHANGED chain
    PROVE  Lists'
<1>1. ~Asleep(p) /\ chain[p] = <<>>
  BY DEF Asleep, Lists, ChainListed
<1>2. CASE UNCHANGED <<queue, lwWaiting>> /\ pc'[p] \in {"run", "repost"}
           /\ req' = [req EXCEPT ![p] = NoRequest]
           /\ pc' = [pc EXCEPT ![p] = IF extraWaits[p] > 0 THEN "repost" ELSE "run"]
  <2>1. \A q \in Backends : q # p => pc'[q] = pc[q] /\ req'[q] = req[q]
    BY <1>2 DEF TypeInt
  <2> QED
    BY <1>1, <1>2, <2>1, ListsSame DEF Asleep
<1>3. CASE /\ queue' = [queue EXCEPT ![l] = Append(queue[l], p)]
           /\ lwWaiting' = [lwWaiting EXCEPT ![p] = TRUE]
           /\ req' = [req EXCEPT ![p] = [lock |-> l, mode |-> m]]
           /\ pc' = [pc EXCEPT ![p] = "wait"]
  <2>1. /\ Asleep(p)' /\ req'[p].lock = l
        /\ \A q \in Backends : q # p => /\ Asleep(q)' <=> Asleep(q)
                                        /\ req'[q] = req[q]
                                        /\ pc'[q] = pc[q]
    BY <1>3 DEF Asleep, TypeInt
  <2>2. queue[l] \in Seq(Backends) /\ IsInjective(queue[l]) /\ p \notin Range(queue[l])
    BY <1>1, AwakeInNoList DEF TypeInt, Lists, QueueListed
  <2>3. /\ IsInjective(queue'[l])
        /\ Range(queue'[l]) = Range(queue[l]) \union {p}
        /\ \A k \in Locks : k # l => queue'[k] = queue[k]
    BY <1>3, <2>2, AppendNoDup DEF TypeInt
  <2>4. \A k \in Locks : Range(queue[k]) \subseteq Backends
    BY DEF TypeInt, Range
  <2>5. \A r \in Backends : Range(chain[r]) \subseteq Backends
    BY DEF TypeInt, Range
  <2>6. QueueListed'
    <3> SUFFICES ASSUME NEW k \in Locks
                 PROVE  /\ IsInjective(queue'[k])
                        /\ \A q \in Range(queue'[k]) : Asleep(q)' /\ req'[q].lock = k
      BY DEF QueueListed
    <3>1. /\ IsInjective(queue[k])
          /\ \A q \in Range(queue[k]) : q # p /\ Asleep(q) /\ req[q].lock = k
      BY <1>1 DEF Lists, QueueListed
    <3>2. CASE k = l
      BY <2>1, <2>3, <2>4, <3>1, <3>2
    <3>3. CASE k # l
      BY <2>1, <2>3, <2>4, <3>1, <3>3
    <3> QED
      BY <3>2, <3>3
  <2>7. ChainListed'
    <3> SUFFICES ASSUME NEW r \in Backends
                 PROVE  /\ IsInjective(chain[r])
                        /\ chain[r] # <<>> => pc'[r] \in {"wake", "post"}
                        /\ \A q \in Range(chain[r]) :
                              Asleep(q)' /\ \A k \in Locks : q \notin Range(queue'[k])
      BY DEF ChainListed
    <3>1. /\ IsInjective(chain[r])
          /\ chain[r] # <<>> => pc[r] \in {"wake", "post"}
          /\ \A q \in Range(chain[r]) :
                q # p /\ Asleep(q) /\ \A k \in Locks : q \notin Range(queue[k])
      BY <1>1 DEF Lists, ChainListed
    <3> QED
      BY <1>1, <2>1, <2>3, <2>5, <3>1
  <2>8. ChainsApart'
    BY DEF Lists, ChainsApart
  <2>9. SleepersListed'
    <3> SUFFICES ASSUME NEW q \in Backends, Asleep(q)'
                 PROVE  \/ \E k \in Locks : q \in Range(queue'[k])
                        \/ \E r \in Backends : q \in Range(chain[r])
      BY DEF SleepersListed
    <3>1. CASE q = p
      BY <2>3, <3>1
    <3>2. CASE q # p
      <4>1. \/ \E k \in Locks : q \in Range(queue[k])
            \/ \E r \in Backends : q \in Range(chain[r])
        BY <2>1, <3>2 DEF Lists, SleepersListed
      <4> QED
        BY <2>3, <4>1
    <3> QED
      BY <3>1, <3>2
  <2> QED
    BY <2>6, <2>7, <2>8, <2>9 DEF Lists
<1>4. \/ /\ UNCHANGED <<queue, lwWaiting>> /\ req' = [req EXCEPT ![p] = NoRequest]
         /\ pc' = [pc EXCEPT ![p] = IF extraWaits[p] > 0 THEN "repost" ELSE "run"]
      \/ /\ queue' = [queue EXCEPT ![l] = Append(queue[l], p)]
         /\ lwWaiting' = [lwWaiting EXCEPT ![p] = TRUE]
         /\ req' = [req EXCEPT ![p] = [lock |-> l, mode |-> m]]
         /\ pc' = [pc EXCEPT ![p] = "wait"]
  BY DEF Section, Enqueue
<1>5. pc' = [pc EXCEPT ![p] = IF extraWaits[p] > 0 THEN "repost" ELSE "run"]
        => pc'[p] \in {"run", "repost"}
  BY DEF TypeInt
<1> QED
  BY <1>2, <1>3, <1>4, <1>5

\* A list cut in two.
LEMMA CutLists ==
    ASSUME NEW S, NEW s \in Seq(S), NEW n \in 1..Len(s), IsInjective(s)
    PROVE  /\ IsInjective(SubSeq(s, 1, n))
           /\ IsInjective(SubSeq(s, n + 1, Len(s)))
           /\ Range(SubSeq(s, 1, n)) \union Range(SubSeq(s, n + 1, Len(s))) = Range(s)
           /\ Range(SubSeq(s, 1, n)) \intersect Range(SubSeq(s, n + 1, Len(s))) = {}
           /\ s[1] \in Range(SubSeq(s, 1, n))
<1> DEFINE a == SubSeq(s, 1, n)
           b == SubSeq(s, n + 1, Len(s))
           k == Len(s)
<1>1. /\ k \in Nat /\ n \in 1..k
      /\ DOMAIN s = 1..k /\ DOMAIN a = 1..n /\ DOMAIN b = 1..(k - n)
  OBVIOUS
<1>2. /\ \A j \in 1..n : a[j] = s[j]
      /\ \A j \in 1..(k - n) : b[j] = s[n + j]
  BY CutType
<1>3. \A i, j \in 1..k : s[i] = s[j] => i = j
  BY DEF IsInjective
<1> HIDE DEF a, b, k
<1>4. IsInjective(a)
  BY <1>1, <1>2, <1>3 DEF IsInjective
<1>5. IsInjective(b)
  <2> SUFFICES ASSUME NEW i \in 1..(k - n), NEW j \in 1..(k - n), b[i] = b[j]
               PROVE  i = j
    BY <1>1 DEF IsInjective
  <2>1. n + i \in 1..k /\ n + j \in 1..k /\ s[n + i] = s[n + j]
    BY <1>1, <1>2
  <2>2. n + i = n + j
    BY <1>3, <2>1
  <2> QED
    BY <1>1, <2>2
<1>6. Range(s) \subseteq Range(a) \union Range(b)
  <2> SUFFICES ASSUME NEW i \in 1..k
               PROVE  s[i] \in Range(a) \union Range(b)
    BY <1>1 DEF Range
  <2>1. CASE i <= n
    BY <1>1, <1>2, <2>1 DEF Range
  <2>2. CASE i > n
    <3>1. i - n \in 1..(k - n) /\ n + (i - n) = i
      BY <1>1, <2>2
    <3>2. b[i - n] = s[i]
      BY <1>2, <3>1
    <3> QED
      BY <1>1, <3>1, <3>2 DEF Range
  <2> QED
    BY <1>1, <2>1, <2>2
<1>7. Range(a) \union Range(b) \subseteq Range(s)
  <2>1. ASSUME NEW j \in 1..n PROVE a[j] \in Range(s)
    BY <1>1, <1>2 DEF Range
  <2>2. ASSUME NEW j \in 1..(k - n) PROVE b[j] \in Range(s)
    <3>1. n + j \in 1..k
      BY <1>1
    <3> QED
      BY <1>1, <1>2, <3>1 DEF Range
  <2> QED
    BY <1>1, <2>1, <2>2 DEF Range
<1>8. ASSUME NEW i \in 1..n, NEW j \in 1..(k - n) PROVE a[i] # b[j]
  <2>1. i \in 1..k /\ n + j \in 1..k /\ i # n + j
    BY <1>1
  <2> QED
    BY <1>2, <1>3, <2>1
<1>9. Range(a) \intersect Range(b) = {}
  BY <1>1, <1>8 DEF Range
<1>10. s[1] \in Range(a)
  <2>1. 1 \in 1..n /\ a[1] = s[1]
    BY <1>1, <1>2
  <2> QED
    BY <1>1, <2>1 DEF Range
<1> QED
  BY <1>4, <1>5, <1>6, <1>7, <1>9, <1>10 DEF a, b, k

\* The members of a list are backends.
LEMMA ListTypes ==
    ASSUME TypeInt
    PROVE  /\ \A k \in Locks : Range(queue[k]) \subseteq Backends
           /\ \A r \in Backends : Range(chain[r]) \subseteq Backends
<1>1. ASSUME NEW k \in Locks PROVE Range(queue[k]) \subseteq Backends
  BY DEF TypeInt, Range
<1>2. ASSUME NEW r \in Backends PROVE Range(chain[r]) \subseteq Backends
  BY DEF TypeInt, Range
<1> QED
  BY <1>1, <1>2

\* The two outcomes of the last part of a release.
LEMMA CutOrNot ==
    ASSUME TypeInt, NEW p \in Backends, NEW l \in Locks, NEW h \in Int,
           CutWaiters(p, l, h)
    PROVE  \/ /\ queue[l] # <<>> /\ exclusive'[l] = 0 /\ shared'[l] = 0
              /\ releaseOK[l]
              /\ releaseOK' = [releaseOK EXCEPT ![l] = FALSE]
              /\ pc' = [pc EXCEPT ![p] = "wake"]
              /\ \E n \in 1..Len(queue[l]) :
                    /\ chain' = [chain EXCEPT ![p] = SubSeq(queue[l], 1, n)]
                    /\ queue' = [queue EXCEPT ![l] =
                                    SubSeq(queue[l], n + 1, Len(queue[l]))]
           \/ /\ ~(queue[l] # <<>> /\ exclusive'[l] = 0 /\ shared'[l] = 0
                   /\ releaseOK[l])
              /\ pc' = [pc EXCEPT ![p] = IF inError[p] THEN "cleanup" ELSE "run"]
              /\ UNCHANGED <<chain, queue, releaseOK>>
<1>1. \A n \in WakeCounts(queue[l]) : n \in 1..Len(queue[l])
  BY DEF WakeCounts
<1> QED
  BY <1>1 DEF CutWaiters, Return

\* So does a release, which moves the front of a queue to its own list.
LEMMA ReleaseLists ==
    ASSUME TypeInt, Lists, NEW p \in Backends, NEW l \in Locks, NEW h \in Int,
           pc[p] \in {"run", "cleanup"}, CutWaiters(p, l, h),
           UNCHANGED <<lwWaiting, req>>
    PROVE  Lists'
<1>1. ~Asleep(p) /\ chain[p] = <<>>
  BY DEF Asleep, Lists, ChainListed
<1>2. CASE /\ pc' = [pc EXCEPT ![p] = IF inError[p] THEN "cleanup" ELSE "run"]
           /\ UNCHANGED <<chain, queue, releaseOK>>
  <2>1. pc'[p] \in {"run", "cleanup"} /\ \A q \in Backends : q # p => pc'[q] = pc[q]
    BY <1>2 DEF TypeInt
  <2> QED
    BY <1>1, <1>2, <2>1, ListsSame DEF Asleep
<1>3. ASSUME NEW n \in 1..Len(queue[l]),
             pc' = [pc EXCEPT ![p] = "wake"],
             chain' = [chain EXCEPT ![p] = SubSeq(queue[l], 1, n)],
             queue' = [queue EXCEPT ![l] = SubSeq(queue[l], n + 1, Len(queue[l]))]
      PROVE  Lists'
  <2> DEFINE a == SubSeq(queue[l], 1, n)
             b == SubSeq(queue[l], n + 1, Len(queue[l]))
  <2>1. /\ queue[l] \in Seq(Backends) /\ IsInjective(queue[l])
        /\ \A q \in Range(queue[l]) : Asleep(q) /\ req[q].lock = l
    BY DEF TypeInt, Lists, QueueListed
  <2>2. /\ IsInjective(a) /\ IsInjective(b)
        /\ Range(a) \union Range(b) = Range(queue[l])
        /\ Range(a) \intersect Range(b) = {}
    BY <2>1, CutLists
  <2>3. /\ chain'[p] = a /\ \A r \in Backends : r # p => chain'[r] = chain[r]
        /\ queue'[l] = b /\ \A k \in Locks : k # l => queue'[k] = queue[k]
    BY <1>3 DEF TypeInt
  <2> HIDE DEF a, b
  <2>4. /\ pc'[p] = "wake"
        /\ \A q \in Backends : /\ Asleep(q)' <=> Asleep(q)
                               /\ q # p => pc'[q] = pc[q]
                               /\ req'[q] = req[q]
    <3>1. pc'[p] = "wake" /\ \A q \in Backends : q # p => pc'[q] = pc[q]
      BY <1>3 DEF TypeInt
    <3>2. ASSUME NEW q \in Backends PROVE Asleep(q)' <=> Asleep(q)
      BY <1>1, <3>1 DEF Asleep
    <3> QED
      BY <3>1, <3>2
  <2>5. /\ \A k \in Locks : Range(queue[k]) \subseteq Backends
        /\ \A r \in Backends : Range(chain[r]) \subseteq Backends
    BY ListTypes
  <2>6. QueueListed'
    <3> SUFFICES ASSUME NEW k \in Locks
                 PROVE  /\ IsInjective(queue'[k])
                        /\ \A q \in Range(queue'[k]) : Asleep(q)' /\ req'[q].lock = k
      BY DEF QueueListed
    <3>1. CASE k = l
      BY <2>1, <2>2, <2>3, <2>4, <2>5, <3>1
    <3>2. CASE k # l
      BY <2>3, <2>4, <2>5, <3>2 DEF Lists, QueueListed
    <3> QED
      BY <3>1, <3>2
  <2>7. ASSUME NEW q \in Range(a), NEW k \in Locks
        PROVE  q \notin Range(queue'[k])
    <3>1. q \in Range(queue[l]) /\ req[q].lock = l
      BY <2>1, <2>2
    <3>2. CASE k = l
      BY <2>2, <2>3, <3>2
    <3>3. CASE k # l
      BY <2>3, <3>1, <3>3 DEF Lists, QueueListed
    <3> QED
      BY <3>2, <3>3
  <2>8. ChainListed'
    <3> SUFFICES ASSUME NEW r \in Backends
                 PROVE  /\ IsInjective(chain'[r])
                        /\ chain'[r] # <<>> => pc'[r] \in {"wake", "post"}
                        /\ \A q \in Range(chain'[r]) :
                              Asleep(q)' /\ \A k \in Locks : q \notin Range(queue'[k])
      BY DEF ChainListed
    <3>1. CASE r = p
      <4>1. \A q \in Range(a) : Asleep(q)'
        BY <2>1, <2>2, <2>4, <2>5
      <4> QED
        BY <2>2, <2>3, <2>4, <2>7, <3>1, <4>1
    <3>2. CASE r # p
      <4>1. /\ IsInjective(chain[r])
            /\ chain[r] # <<>> => pc[r] \in {"wake", "post"}
            /\ \A q \in Range(chain[r]) :
                  Asleep(q) /\ \A k \in Locks : q \notin Range(queue[k])
        BY DEF Lists, ChainListed
      <4>2. \A k \in Locks : Range(queue'[k]) \subseteq Range(queue[k])
        BY <2>2, <2>3
      <4> QED
        BY <2>3, <2>4, <2>5, <3>2, <4>1, <4>2
    <3> QED
      BY <3>1, <3>2
  <2>9. ChainsApart'
    <3>1. ASSUME NEW r \in Backends, r # p
          PROVE  Range(a) \intersect Range(chain[r]) = {}
      BY <2>2 DEF Lists, ChainListed
    <3> QED
      BY <2>3, <3>1 DEF Lists, ChainsApart
  <2>10. SleepersListed'
    <3> SUFFICES ASSUME NEW q \in Backends, Asleep(q)'
                 PROVE  \/ \E k \in Locks : q \in Range(queue'[k])
                        \/ \E r \in Backends : q \in Range(chain'[r])
      BY DEF SleepersListed
    <3>1. CASE \E k \in Locks : q \in Range(queue[k])
      BY <2>2, <2>3, <3>1
    <3>2. CASE \E r \in Backends : q \in Range(chain[r])
      <4>1. Range(chain[p]) = {}
        BY <1>1 DEF Range
      <4> QED
        BY <2>3, <3>2, <4>1
    <3> QED
      BY <2>4, <3>1, <3>2 DEF Lists, SleepersListed
  <2> QED
    BY <2>6, <2>8, <2>9, <2>10 DEF Lists
<1> QED
  BY <1>2, <1>3, CutOrNot

\* The first waiter of a releaser's list is told that it may go on.
LEMMA WakeLists ==
    ASSUME TypeInt, Lists, NEW p \in Backends, WakeFirst(p),
           NEW w \in Backends, w = Head(chain[p])
    PROVE  /\ Lists'
           /\ Asleep(w) /\ ~Asleep(w)' /\ w # p
           /\ \A q \in Backends \ {w} : Asleep(q)' <=> Asleep(q)
<1> DEFINE t == Tail(chain[p])
<1>1. /\ chain[p] \in Seq(Backends) /\ chain[p] # <<>> /\ pc[p] = "wake"
      /\ IsInjective(chain[p])
  BY DEF TypeInt, WakeFirst, Lists, ChainListed
<1>2. /\ t = SubSeq(chain[p], 2, Len(chain[p]))
      /\ 1 \in 1..Len(chain[p])
      /\ w = chain[p][1]
  BY <1>1
<1>3. /\ IsInjective(t) /\ w \notin Range(t)
      /\ Range(chain[p]) = {w} \union Range(t)
  <2> DEFINE a == SubSeq(chain[p], 1, 1)
             b == SubSeq(chain[p], 1 + 1, Len(chain[p]))
  <2>1. /\ IsInjective(b)
        /\ Range(a) \union Range(b) = Range(chain[p])
        /\ Range(a) \intersect Range(b) = {}
    BY <1>1, <1>2, CutLists
  <2>2. Range(a) = {w}
    <3>1. DOMAIN a = 1..1 /\ a[1] = w
      BY <1>1, <1>2
    <3> QED
      BY <3>1 DEF Range
  <2>3. b = t
    BY <1>2
  <2> QED
    BY <2>1, <2>2, <2>3
<1> HIDE DEF t
<1>4. /\ chain'[p] = t /\ \A r \in Backends : r # p => chain'[r] = chain[r]
      /\ lwWaiting'[w] = FALSE
      /\ \A q \in Backends : q # w => lwWaiting'[q] = lwWaiting[q]
      /\ pc'[p] = "post" /\ \A q \in Backends : q # p => pc'[q] = pc[q]
      /\ queue' = queue /\ req' = req
  BY <1>1, <1>2 DEF WakeFirst, TypeInt, lockVars, t
<1>5. Asleep(w) /\ \A k \in Locks : w \notin Range(queue[k])
  BY <1>3 DEF Lists, ChainListed
<1>6. w # p
  BY <1>1, <1>5 DEF Asleep
<1>7. ~Asleep(w)' /\ \A q \in Backends : q # w => (Asleep(q)' <=> Asleep(q))
  BY <1>1, <1>4 DEF Asleep
<1>8. /\ \A k \in Locks : Range(queue[k]) \subseteq Backends
      /\ \A r \in Backends : Range(chain[r]) \subseteq Backends
  BY ListTypes
<1>9. QueueListed'
  BY <1>4, <1>5, <1>7, <1>8 DEF Lists, QueueListed
<1>10. ASSUME NEW r \in Backends, r # p PROVE w \notin Range(chain[r])
  BY <1>3, <1>10 DEF Lists, ChainsApart
<1>11. ChainListed'
  <2> SUFFICES ASSUME NEW r \in Backends
               PROVE  /\ IsInjective(chain'[r])
                      /\ chain'[r] # <<>> => pc'[r] \in {"wake", "post"}
                      /\ \A q \in Range(chain'[r]) :
                            Asleep(q)' /\ \A k \in Locks : q \notin Range(queue'[k])
    BY DEF ChainListed
  <2>1. /\ IsInjective(chain[r])
        /\ chain[r] # <<>> => pc[r] \in {"wake", "post"}
        /\ \A q \in Range(chain[r]) :
              Asleep(q) /\ \A k \in Locks : q \notin Range(queue[k])
    BY DEF Lists, ChainListed
  <2>2. CASE r = p
    BY <1>3, <1>4, <1>7, <1>8, <2>1, <2>2
  <2>3. CASE r # p
    BY <1>4, <1>7, <1>8, <1>10, <2>1, <2>3
  <2> QED
    BY <2>2, <2>3
<1>12. ChainsApart'
  BY <1>3, <1>4 DEF Lists, ChainsApart
<1>13. SleepersListed'
  <2> SUFFICES ASSUME NEW q \in Backends, Asleep(q)'
               PROVE  \/ \E k \in Locks : q \in Range(queue'[k])
                      \/ \E r \in Backends : q \in Range(chain'[r])
    BY DEF SleepersListed
  <2>1. q # w /\ Asleep(q)
    BY <1>7
  <2> QED
    BY <1>3, <1>4, <2>1 DEF Lists, SleepersListed
<1> QED
  BY <1>2, <1>5, <1>6, <1>7, <1>9, <1>11, <1>12, <1>13 DEF Lists

\* A step of a backend that is awake before and after, outside of the lists.
LEMMA AwakeStep ==
    ASSUME TypeInt, Lists, NEW p \in Backends, ~Asleep(p), ~Asleep(p)',
           UNCHANGED <<queue, chain>>,
           pc[p] \in {"wake", "post"} /\ chain[p] # <<>> => pc'[p] \in {"wake", "post"},
           \A q \in Backends \ {p} : /\ pc'[q] = pc[q]
                                     /\ lwWaiting'[q] = lwWaiting[q]
                                     /\ req'[q] = req[q]
    PROVE  Lists'
<1>1. ASSUME NEW q \in Backends
      PROVE  /\ Asleep(q) <=> Asleep(q)'
             /\ Asleep(q) => req'[q] = req[q]
             /\ pc[q] \in {"wake", "post"} /\ chain[q] # <<>>
                    => pc'[q] \in {"wake", "post"}
  <2>1. CASE q = p
    BY <2>1
  <2>2. CASE q # p
    BY <2>2 DEF Asleep
  <2> QED
    BY <2>1, <2>2
<1> QED
  BY <1>1, ListsSame

\* The lists of waiters stay disjoint, and stay lists of the sleepers.
THEOREM ListsStep == TypeInt /\ Lists /\ [Next]_vars => Lists'
<1> SUFFICES ASSUME TypeInt, Lists, [Next]_vars PROVE Lists'
  OBVIOUS
<1>1. ASSUME NEW p \in Backends, NEW l \in Locks, NEW m \in Modes,
             LWLockAcquire(p, l, m)
      PROVE  Lists'
  BY <1>1, SectionLists DEF LWLockAcquire, wakeVars
<1>2. ASSUME NEW p \in Backends, Retry(p)
      PROVE  Lists'
  <2>1. req[p].lock \in Locks /\ req[p].mode \in Modes
    BY DEF TypeInt, Request
  <2> QED
    BY <1>2, <2>1, SectionLists DEF Retry, wakeVars
<1>3. ASSUME NEW p \in Backends, NEW l \in Locks, NEW m \in Modes,
             LWLockConditionalAcquire(p, l, m)
      PROVE  Lists'
  BY <1>3, ListsSame DEF LWLockConditionalAcquire, waitVars, wakeVars, Asleep
<1>4. ASSUME NEW p \in Backends, AwaitWakeup(p)
      PROVE  Lists'
  <2>1. CASE UNCHANGED pc
    BY <1>4, <2>1, ListsSame DEF AwaitWakeup, lockVars, waitVars, wakeVars, Asleep
  <2>2. CASE ~lwWaiting[p] /\ pc' = [pc EXCEPT ![p] = "retry"]
    <3>1. /\ ~Asleep(p) /\ ~Asleep(p)' /\ pc[p] = "wait"
          /\ \A q \in Backends \ {p} : pc'[q] = pc[q]
      BY <1>4, <2>2 DEF AwaitWakeup, waitVars, Asleep, TypeInt
    <3> QED
      BY <1>4, <3>1, AwakeStep DEF AwaitWakeup, lockVars, waitVars, wakeVars
  <2> QED
    BY <1>4, <2>1, <2>2 DEF AwaitWakeup
<1>5. ASSUME NEW p \in Backends, Repost(p)
      PROVE  Lists'
  <2>1. /\ pc[p] = "repost" /\ pc'[p] \in {"repost", "run"}
        /\ \A q \in Backends \ {p} : pc'[q] = pc[q]
    BY <1>5 DEF Repost, TypeInt
  <2>2. ~Asleep(p) /\ ~Asleep(p)'
    BY <2>1 DEF Asleep
  <2> QED
    BY <1>5, <2>1, <2>2, AwakeStep DEF Repost, lockVars, waitVars, wakeVars
<1>6. ASSUME NEW p \in Backends, NEW i \in 1..Len(held[p]), NEW h \in Int,
             pc[p] \in {"run", "cleanup"}, ReleaseHeld(p, i, h)
      PROVE  Lists'
  <2>1. held[p][i] \in Locks
    BY DEF TypeInt
  <2> QED
    BY <1>6, <2>1, ReleaseLists DEF ReleaseHeld, waitVars
<1>7. ASSUME NEW p \in Backends, NEW i \in 1..Len(held[p]), LWLockRelease(p, i)
      PROVE  Lists'
  <2>1. holdoff[p] \in Int
    BY DEF TypeInt
  <2> QED
    BY <1>6, <1>7, <2>1 DEF LWLockRelease
<1>8. ASSUME NEW p \in Backends, LWLockReleaseAll(p)
      PROVE  Lists'
  <2>1. holdoff[p] + 1 \in Int /\ Len(held[p]) \in 1..Len(held[p])
    BY <1>8 DEF TypeInt, LWLockReleaseAll
  <2> QED
    BY <1>6, <1>8, <2>1 DEF LWLockReleaseAll
<1>9. ASSUME NEW p \in Backends, WakeFirst(p)
      PROVE  Lists'
  <2>1. Head(chain[p]) \in Backends
    BY <1>9 DEF TypeInt, WakeFirst
  <2> QED
    BY <1>9, <2>1, WakeLists
<1>10. ASSUME NEW p \in Backends, PostWoken(p)
       PROVE  Lists'
  <2>1. /\ pc[p] = "post" /\ pc'[p] \in {"wake", "cleanup", "run"}
        /\ chain[p] # <<>> => pc'[p] = "wake"
        /\ \A q \in Backends \ {p} : pc'[q] = pc[q]
    BY <1>10 DEF PostWoken, Return, TypeInt
  <2>2. ~Asleep(p) /\ ~Asleep(p)'
    BY <2>1 DEF Asleep
  <2> QED
    BY <1>10, <2>1, <2>2, AwakeStep DEF PostWoken, lockVars, waitVars
<1>11. ASSUME NEW p \in Backends, Error(p) \/ EndRecovery(p)
       PROVE  Lists'
  <2>1. /\ pc[p] \in {"run", "cleanup"} /\ pc'[p] \in {"run", "cleanup"}
        /\ \A q \in Backends \ {p} : pc'[q] = pc[q]
    BY <1>11 DEF Error, EndRecovery, TypeInt
  <2>2. ~Asleep(p) /\ ~Asleep(p)'
    BY <2>1 DEF Asleep
  <2>3. UNCHANGED <<queue, chain, lwWaiting, req>>
    BY <1>11 DEF Error, EndRecovery, lockVars, waitVars, wakeVars
  <2> QED
    BY <2>1, <2>2, <2>3, AwakeStep
<1>12. ASSUME NEW p \in Backends, SemPost(p) \/ SemTake(p) \/ SemReset(p)
       PROVE  Lists'
  <2>1. UNCHANGED <<queue, chain, lwWaiting, req, pc>>
    BY <1>12 DEF SemPost, SemTake, SemReset, lockVars, waitVars, wakeVars
  <2> QED
    BY <2>1, ListsSame DEF Asleep
<1>13. CASE UNCHANGED vars
  <2>1. UNCHANGED <<queue, chain, lwWaiting, req, pc>>
    BY <1>13 DEF vars, lockVars, waitVars, wakeVars
  <2> QED
    BY <2>1, ListsSame DEF Asleep
<1> QED
  BY <1>1, <1>2, <1>3, <1>4, <1>5, <1>7, <1>8, <1>9, <1>10, <1>11, <1>12, <1>13
     DEF Next, Step, Call

\* Every sleeper is on exactly one list, its lock's queue or the list of a
\* releaser about to wake it, and no list holds anything else.
THEOREM ListsInvariant == Spec => []Lists
<1>1. Init => Lists
  <2>1. Init => /\ \A l \in Locks : queue[l] = <<>>
                /\ \A r \in Backends : chain[r] = <<>>
                /\ \A q \in Backends : ~Asleep(q)
    BY DEF Init, Asleep
  <2>2. IsInjective(<<>>) /\ Range(<<>>) = {}
    BY DEF IsInjective, Range
  <2> QED
    BY <2>1, <2>2 DEF Lists, QueueListed, ChainListed, ChainsApart, SleepersListed
<1>2. TypeInt /\ Lists /\ [Next]_vars => Lists'
  BY ListsStep
<1> QED
  BY <1>1, <1>2, TypeIntInvariant, PTL DEF Spec

\* Exact counters are natural numbers.
LEMMA CountersNat ==
    HoldersCounted => \A l \in Locks : exclusive[l] \in Nat /\ shared[l] \in Nat
BY HoldersFinite DEF HoldersCounted, CountersExact

\* The same in the next state.
LEMMA CountersNatNext ==
    HoldersCounted' => \A l \in Locks : exclusive'[l] \in Nat /\ shared'[l] \in Nat
<1> SUFFICES ASSUME HoldersCounted', NEW l \in Locks
             PROVE  exclusive'[l] \in Nat /\ shared'[l] \in Nat
  OBVIOUS
<1>1. \A m : Holders(l, m)' \subseteq Backends
  BY DEF Holders
<1>2. \A m : Cardinality(Holders(l, m)') \in Nat
  BY <1>1, BackendsFinite, FS_Subset, FS_CardinalityType
<1> QED
  BY <1>2 DEF HoldersCounted, CountersExact

\* Neither the queue nor the wakeup flag of a lock changes.
LEMMA QuietNoLost ==
    ASSUME NoLostWaiter, UNCHANGED <<releaseOK, queue>>,
           \A l \in Locks : exclusive[l] + shared[l] > 0
                                => exclusive'[l] + shared'[l] > 0,
           \A q \in Backends : pc[q] \in {"wait", "retry"}
                                => pc'[q] \in {"wait", "retry"} /\ req'[q] = req[q]
    PROVE  NoLostWaiter'
<1>1. ASSUME NEW l \in Locks, ~releaseOK'[l]
      PROVE  \E q \in Backends : Retryer(q, l)'
  BY <1>1 DEF NoLostWaiter, Retryer
<1>2. ASSUME NEW l \in Locks, releaseOK'[l], queue'[l] # <<>>
      PROVE  exclusive'[l] + shared'[l] > 0
  BY <1>2 DEF NoLostWaiter
<1> QED
  BY <1>1, <1>2 DEF NoLostWaiter

\* After its locked section LWLockAcquire leaves the lock held, by its caller or
\* by those it has to wait for.
LEMMA SectionLeavesHeld ==
    ASSUME TypeInt, HoldersCounted, NEW p \in Backends, NEW l \in Locks,
           NEW m \in Modes, Section(p, l, m)
    PROVE  /\ exclusive'[l] + shared'[l] > 0
           /\ \A k \in Locks : exclusive[k] + shared[k] > 0
                                => exclusive'[k] + shared'[k] > 0
           /\ \A k \in Locks \ {l} : queue'[k] = queue[k]
           /\ \A q \in Backends \ {p} :
                 /\ pc'[q] = pc[q] /\ req'[q] = req[q]
                 /\ q \notin Range(queue[l]) => q \notin Range(queue'[l])
<1>1. /\ \A k \in Locks : exclusive[k] \in Nat /\ shared[k] \in Nat
      /\ exclusive \in [Locks -> Int] /\ shared \in [Locks -> Int]
  BY CountersNat DEF TypeInt
<1>2. CASE Free(l, m) /\ Count(l, m) /\ UNCHANGED queue
  <2>1. /\ m = "exclusive" => /\ exclusive' = [exclusive EXCEPT ![l] = exclusive[l] + 1]
                              /\ shared' = shared
        /\ m = "shared" => /\ shared' = [shared EXCEPT ![l] = shared[l] + 1]
                           /\ exclusive' = exclusive
    BY <1>2 DEF Count, Modes
  <2>2. exclusive'[l] + shared'[l] > 0
    BY <1>1, <2>1 DEF Modes
  <2>3. ASSUME NEW k \in Locks, exclusive[k] + shared[k] > 0
        PROVE  exclusive'[k] + shared'[k] > 0
    BY <1>1, <2>1, <2>3 DEF Modes
  <2>4. \A q \in Backends \ {p} : pc'[q] = pc[q] /\ req'[q] = req[q]
    BY DEF Section, TypeInt
  <2> QED
    BY <1>2, <2>2, <2>3, <2>4
<1>3. CASE ~Free(l, m) /\ Enqueue(p, l, m) /\ UNCHANGED <<exclusive, shared>>
  <2>1. exclusive[l] + shared[l] > 0
    BY <1>1, <1>3 DEF Free
  <2>2. /\ queue[l] \in Seq(Backends)
        /\ queue'[l] = Append(queue[l], p)
        /\ \A k \in Locks \ {l} : queue'[k] = queue[k]
    BY <1>3 DEF Enqueue, TypeInt
  <2>3. Range(queue'[l]) \subseteq Range(queue[l]) \union {p}
    BY <2>2 DEF Range
  <2>4. \A q \in Backends \ {p} : pc'[q] = pc[q] /\ req'[q] = req[q]
    BY DEF Section, TypeInt
  <2> QED
    BY <1>3, <2>1, <2>2, <2>3, <2>4
<1> QED
  BY <1>2, <1>3 DEF Section

\* The section of LWLockAcquire forgets no waiter.
LEMMA SectionNoLost ==
    ASSUME TypeInt, HoldersCounted, NoLostWaiter,
           NEW p \in Backends, NEW l \in Locks, NEW m \in Modes, Section(p, l, m),
           \/ pc[p] = "run" /\ releaseOK' = releaseOK
           \/ /\ pc[p] = "retry" /\ req[p].lock = l
              /\ releaseOK' = [releaseOK EXCEPT ![l] = TRUE]
    PROVE  NoLostWaiter'
<1>1. ASSUME NEW k \in Locks, ~releaseOK'[k]
      PROVE  \E q \in Backends : Retryer(q, k)'
  <2>1. ~releaseOK[k] /\ (k = l => pc[p] = "run")
    BY <1>1 DEF TypeInt
  <2>2. PICK q \in Backends : Retryer(q, k)
    BY <2>1 DEF NoLostWaiter
  <2>3. q # p
    BY <2>1, <2>2 DEF Retryer
  <2>4. q \notin Range(queue'[k])
    BY <2>2, <2>3, SectionLeavesHeld DEF Retryer
  <2> QED
    BY <2>2, <2>3, <2>4, SectionLeavesHeld DEF Retryer
<1>2. ASSUME NEW k \in Locks, releaseOK'[k], queue'[k] # <<>>
      PROVE  exclusive'[k] + shared'[k] > 0
  <2>1. CASE k = l
    BY <2>1, SectionLeavesHeld
  <2>2. CASE k # l
    <3>1. releaseOK[k] /\ queue[k] # <<>>
      <4>1. queue'[k] = queue[k]
        BY <2>2, SectionLeavesHeld
      <4>2. releaseOK' = releaseOK \/ releaseOK' = [releaseOK EXCEPT ![l] = TRUE]
        OBVIOUS
      <4>3. releaseOK'[k] <=> releaseOK[k]
        BY <2>2, <4>2 DEF TypeInt
      <4> QED
        BY <1>2, <4>1, <4>3
    <3> QED
      BY <3>1, SectionLeavesHeld DEF NoLostWaiter
  <2> QED
    BY <2>1, <2>2
<1> QED
  BY <1>1, <1>2 DEF NoLostWaiter

\* The release of a lock: either nobody is cut off the queue, because there is
\* nobody, or a holder, or a wakeup is on its way already; or the first waiter
\* of the queue is cut off, and will enable wakeups again.
LEMMA ReleaseNoLost ==
    ASSUME TypeInt, HoldersCounted, Lists, NoLostWaiter, HoldersCounted',
           NEW p \in Backends, NEW i \in 1..Len(held[p]), NEW h \in Int,
           pc[p] \in {"run", "cleanup"}, ReleaseHeld(p, i, h),
           NEW l \in Locks, l = held[p][i]
    PROVE  NoLostWaiter'
<1>1. CutWaiters(p, l, h) /\ Uncount(l)
  BY DEF ReleaseHeld
<1>2. /\ \A q \in Backends : q # p => pc'[q] = pc[q]
      /\ req' = req
  BY ReleaseEffect DEF waitVars
<1>3. \A k \in Locks \ {l} : exclusive'[k] = exclusive[k] /\ shared'[k] = shared[k]
  BY <1>1 DEF Uncount, TypeInt
<1>4. \A k \in Locks : exclusive'[k] \in Nat /\ shared'[k] \in Nat
  BY CountersNatNext
<1>5. ASSUME NEW q \in Backends, NEW k \in Locks, Retryer(q, k), queue'[k] = queue[k]
      PROVE  Retryer(q, k)'
  BY <1>2, <1>5 DEF Retryer
<1>6. CASE /\ ~(queue[l] # <<>> /\ exclusive'[l] = 0 /\ shared'[l] = 0 /\ releaseOK[l])
           /\ UNCHANGED <<queue, releaseOK>>
  <2>1. ASSUME NEW k \in Locks, ~releaseOK'[k]
        PROVE  \E q \in Backends : Retryer(q, k)'
    BY <1>5, <1>6, <2>1 DEF NoLostWaiter
  <2>2. ASSUME NEW k \in Locks, releaseOK'[k], queue'[k] # <<>>
        PROVE  exclusive'[k] + shared'[k] > 0
    <3>1. CASE k = l
      BY <1>4, <1>6, <2>2, <3>1
    <3>2. CASE k # l
      BY <1>3, <1>6, <2>2, <3>2 DEF NoLostWaiter
    <3> QED
      BY <3>1, <3>2
  <2> QED
    BY <2>1, <2>2 DEF NoLostWaiter
<1>7. ASSUME NEW n \in 1..Len(queue[l]), queue[l] # <<>>,
             releaseOK' = [releaseOK EXCEPT ![l] = FALSE],
             queue' = [queue EXCEPT ![l] = SubSeq(queue[l], n + 1, Len(queue[l]))]
      PROVE  NoLostWaiter'
  <2>1. /\ releaseOK'[l] = FALSE /\ queue'[l] = SubSeq(queue[l], n + 1, Len(queue[l]))
        /\ \A k \in Locks \ {l} : releaseOK'[k] = releaseOK[k] /\ queue'[k] = queue[k]
    BY <1>1, <1>7 DEF TypeInt
  <2>2. /\ queue[l] \in Seq(Backends) /\ IsInjective(queue[l])
        /\ \A q \in Range(queue[l]) : Asleep(q) /\ req[q].lock = l
    BY <1>1 DEF TypeInt, Lists, QueueListed
  <2>3. PICK w \in Backends : w = queue[l][1] /\ w \in Range(queue[l])
    BY <1>7, <2>2 DEF Range
  <2>4. w \notin Range(queue'[l])
    BY <2>1, <2>2, <2>3, CutLists
  <2>5. pc[w] = "wait" /\ req[w].lock = l /\ w # p
    BY <2>2, <2>3 DEF Asleep
  <2>6. Retryer(w, l)'
    BY <1>2, <2>3, <2>4, <2>5 DEF Retryer
  <2>7. ASSUME NEW k \in Locks, ~releaseOK'[k]
        PROVE  \E q \in Backends : Retryer(q, k)'
    BY <1>5, <2>1, <2>3, <2>6, <2>7 DEF NoLostWaiter
  <2>8. ASSUME NEW k \in Locks, releaseOK'[k], queue'[k] # <<>>
        PROVE  exclusive'[k] + shared'[k] > 0
    BY <1>3, <2>1, <2>8 DEF NoLostWaiter
  <2> QED
    BY <2>7, <2>8 DEF NoLostWaiter
<1> QED
  BY <1>1, <1>6, <1>7, CutOrNot

\* No step forgets a waiter.
THEOREM NoLostStep ==
    TypeInt /\ HoldersCounted /\ Lists /\ NoLostWaiter /\ HoldersCounted' /\ [Next]_vars
        => NoLostWaiter'
<1> SUFFICES ASSUME TypeInt, HoldersCounted, Lists, NoLostWaiter, HoldersCounted',
                    [Next]_vars
             PROVE  NoLostWaiter'
  OBVIOUS
<1>1. ASSUME NEW p \in Backends, NEW l \in Locks, NEW m \in Modes,
             LWLockAcquire(p, l, m)
      PROVE  NoLostWaiter'
  BY <1>1, SectionNoLost DEF LWLockAcquire
<1>2. ASSUME NEW p \in Backends, Retry(p)
      PROVE  NoLostWaiter'
  <2>1. req[p].lock \in Locks /\ req[p].mode \in Modes
    BY DEF TypeInt, Request
  <2> QED
    BY <1>2, <2>1, SectionNoLost DEF Retry
<1>3. ASSUME NEW p \in Backends, NEW l \in Locks, NEW m \in Modes,
             LWLockConditionalAcquire(p, l, m)
      PROVE  NoLostWaiter'
  <2>1. UNCHANGED <<releaseOK, queue, pc, req>> /\ Count(l, m)
    BY <1>3 DEF LWLockConditionalAcquire, waitVars
  <2>2. ASSUME NEW k \in Locks, exclusive[k] + shared[k] > 0
        PROVE  exclusive'[k] + shared'[k] > 0
    <3>1. /\ m = "exclusive" => /\ exclusive' = [exclusive EXCEPT ![l] = exclusive[l] + 1]
                                /\ shared' = shared
          /\ m = "shared" => /\ shared' = [shared EXCEPT ![l] = shared[l] + 1]
                             /\ exclusive' = exclusive
      BY <2>1 DEF Count, Modes
    <3>2. /\ exclusive[k] \in Int /\ shared[k] \in Int
          /\ exclusive \in [Locks -> Int] /\ shared \in [Locks -> Int]
      BY DEF TypeInt
    <3> QED
      BY <2>2, <3>1, <3>2 DEF Modes
  <2> QED
    BY <2>1, <2>2, QuietNoLost
<1>4. ASSUME NEW p \in Backends, NEW i \in 1..Len(held[p]), LWLockRelease(p, i)
      PROVE  NoLostWaiter'
  <2>1. holdoff[p] \in Int /\ held[p][i] \in Locks
    BY DEF TypeInt
  <2> QED
    BY <1>4, <2>1, ReleaseNoLost DEF LWLockRelease
<1>5. ASSUME NEW p \in Backends, LWLockReleaseAll(p)
      PROVE  NoLostWaiter'
  <2>1. /\ holdoff[p] + 1 \in Int /\ Len(held[p]) \in 1..Len(held[p])
        /\ held[p][Len(held[p])] \in Locks
    BY <1>5 DEF TypeInt, LWLockReleaseAll
  <2> QED
    BY <1>5, <2>1, ReleaseNoLost DEF LWLockReleaseAll
<1>6. ASSUME NEW p \in Backends,
             \/ AwaitWakeup(p) \/ Repost(p) \/ WakeFirst(p) \/ PostWoken(p)
             \/ Error(p) \/ EndRecovery(p) \/ SemPost(p) \/ SemTake(p) \/ SemReset(p)
      PROVE  NoLostWaiter'
  <2>1. UNCHANGED <<exclusive, shared, releaseOK, queue, req>>
    BY <1>6 DEF AwaitWakeup, Repost, WakeFirst, PostWoken, Error, EndRecovery,
                SemPost, SemTake, SemReset, lockVars, waitVars
  <2>2. \/ UNCHANGED pc
        \/ pc[p] = "wait" /\ pc' = [pc EXCEPT ![p] = "retry"]
        \/ pc[p] \notin {"wait", "retry"} /\ \E c : pc' = [pc EXCEPT ![p] = c]
    BY <1>6 DEF AwaitWakeup, Repost, WakeFirst, PostWoken, Return, Error, EndRecovery,
                SemPost, SemTake, SemReset
  <2>3. ASSUME NEW q \in Backends, pc[q] \in {"wait", "retry"}
        PROVE  pc'[q] \in {"wait", "retry"}
    BY <2>2, <2>3 DEF TypeInt
  <2> QED
    BY <2>1, <2>3, QuietNoLost
<1>7. CASE UNCHANGED vars
  BY <1>7, QuietNoLost DEF vars, lockVars, waitVars
<1> QED
  BY <1>1, <1>2, <1>3, <1>4, <1>5, <1>6, <1>7 DEF Next, Step, Call

\* No waiter is ever forgotten (NoLostWaiter), whatever the number of backends
\* and locks: wakeups of a lock are disabled only while some backend is about to
\* enable them, and a lock with sleepers and enabled wakeups has a holder.
THEOREM NoLostWaiterInvariant == Spec => []NoLostWaiter
<1>1. Init => NoLostWaiter
  BY DEF Init, NoLostWaiter
<1>2. TypeInt /\ HoldersCounted /\ Lists /\ NoLostWaiter /\ HoldersCounted' /\ [Next]_vars
        => NoLostWaiter'
  BY NoLostStep
<1> QED
  BY <1>1, <1>2, TypeIntInvariant, HoldersInvariant, ListsInvariant, PTL DEF Spec

\* The lists are apart: that is OneList.
LEMMA OneListByLists == Lists => OneList
<1> SUFFICES ASSUME Lists PROVE OneList
  OBVIOUS
<1>1. ASSUME NEW p \in Backends
      PROVE  Cardinality({l \in Locks : p \in Range(queue[l])})
           + Cardinality({r \in Backends : p \in Range(chain[r])}) =
                IF pc[p] = "wait" /\ lwWaiting[p] THEN 1 ELSE 0
  <2> DEFINE Q == {l \in Locks : p \in Range(queue[l])}
             C == {r \in Backends : p \in Range(chain[r])}
  <2>1. CASE ~Asleep(p)
    <3>1. Q = {} /\ C = {}
      BY <2>1, AwakeInNoList
    <3> QED
      BY <2>1, <3>1, FS_EmptySet DEF Asleep
  <2>2. CASE Asleep(p) /\ \E l \in Locks : p \in Range(queue[l])
    <3>1. PICK l \in Locks : p \in Range(queue[l])
      BY <2>2
    <3>2. \A k \in Locks : p \in Range(queue[k]) => k = l
      BY <3>1 DEF Lists, QueueListed
    <3>3. \A r \in Backends : p \notin Range(chain[r])
      BY <3>1 DEF Lists, ChainListed
    <3>4. Q = {l}
      BY <3>1, <3>2
    <3>5. C = {}
      BY <3>3
    <3>6. Cardinality(Q) = 1
      BY <3>4, FS_Singleton
    <3>7. Cardinality(C) = 0
      BY <3>5, FS_EmptySet
    <3> QED
      BY <2>2, <3>6, <3>7 DEF Asleep
  <2>3. CASE Asleep(p) /\ \A l \in Locks : p \notin Range(queue[l])
    <3>1. PICK r \in Backends : p \in Range(chain[r])
      BY <2>3 DEF Lists, SleepersListed
    <3>2. \A k \in Backends : p \in Range(chain[k]) => k = r
      BY <3>1 DEF Lists, ChainsApart
    <3>3. Q = {} /\ C = {r}
      BY <2>3, <3>1, <3>2
    <3> QED
      BY <2>3, <3>3, FS_EmptySet, FS_Singleton DEF Asleep
  <2> QED
    BY <2>1, <2>2, <2>3
<1> QED
  BY <1>1 DEF OneList, Lists, QueueListed, ChainListed

\* lwWaitLink is never on two lists (OneList), whatever the number of backends.
THEOREM OneListInvariant == Spec => []OneList
BY ListsInvariant, OneListByLists, PTL
-----------------------------------------------------------------------------
(***************************************************************************)
(* The process semaphore that LWLock shares with the other modules, and    *)
(* with it the type of all counters.                                       *)
(***************************************************************************)
\* A sleeper whose wakeup has been announced and not yet consumed.
Promised(q) == pc[q] = "wait" /\ ~lwWaiting[q]

Due(q) == Cardinality(PostsDue(q))

\* SemaphoreAccounting, by cases.
Balanced(q) ==
    /\ Promised(q) => sem[q] + extraWaits[q] + Due(q) = owed[q] + 1
    /\ ~Promised(q) => sem[q] + extraWaits[q] + Due(q) = owed[q]

\* The counts of one backend are natural numbers, and the loop that gives
\* absorbed wakeups back has one to give.
CountsNat(q) ==
    /\ sem[q] >= 0 /\ extraWaits[q] >= 0 /\ owed[q] >= 0
    /\ pc[q] = "repost" => extraWaits[q] > 0

SemInv == \A q \in Backends : Balanced(q) /\ CountsNat(q)

\* The posts that are due are counted by natural numbers.
LEMMA DueNat == \A q : IsFiniteSet(PostsDue(q)) /\ Due(q) \in Nat
<1> SUFFICES ASSUME NEW q PROVE IsFiniteSet(PostsDue(q)) /\ Due(q) \in Nat
  OBVIOUS
<1>1. PostsDue(q) \subseteq Backends
  BY DEF PostsDue
<1> QED
  BY <1>1, BackendsFinite, FS_Subset, FS_CardinalityType DEF Due

\* The counts of a semaphore are integers.
LEMMA SemInts ==
    ASSUME TypeInt, NEW q \in Backends
    PROVE  sem[q] \in Int /\ extraWaits[q] \in Int /\ owed[q] \in Int
BY DEF TypeInt

\* The counts of q do not change, and nobody announces or makes a post to it.
LEMMA BalanceSame ==
    ASSUME NEW q \in Backends, Balanced(q), CountsNat(q),
           sem'[q] = sem[q], extraWaits'[q] = extraWaits[q], owed'[q] = owed[q],
           PostsDue(q)' = PostsDue(q), Promised(q)' <=> Promised(q),
           pc'[q] = "repost" => pc[q] = "repost" \/ extraWaits[q] > 0
    PROVE  (Balanced(q) /\ CountsNat(q))'
<1>1. Due(q)' = Due(q)
  BY DEF Due
<1>2. Balanced(q)'
  BY <1>1 DEF Balanced
<1>3. CountsNat(q)'
  BY DEF CountsNat
<1> QED
  BY <1>2, <1>3

\* p is not between the announcement of a post and the post, before or after.
LEMMA DueSame ==
    ASSUME NEW p \in Backends, pc[p] # "post", pc'[p] # "post", woken' = woken,
           \A q \in Backends \ {p} : pc'[q] = pc[q]
    PROVE  \A q : PostsDue(q)' = PostsDue(q)
BY DEF PostsDue

\* A step of p outside of the wakeup loop that leaves the semaphores alone.
LEMMA QuietStep ==
    ASSUME SemInv, NEW p \in Backends, pc[p] # "post", pc'[p] # "post",
           ~Promised(p), ~Promised(p)',
           UNCHANGED <<sem, extraWaits, owed, woken>>,
           pc'[p] = "repost" => pc[p] = "repost" \/ extraWaits[p] > 0,
           \A q \in Backends \ {p} : pc'[q] = pc[q] /\ lwWaiting'[q] = lwWaiting[q]
    PROVE  SemInv'
<1>1. \A q : PostsDue(q)' = PostsDue(q)
  BY DueSame
<1>2. ASSUME NEW q \in Backends PROVE (Balanced(q) /\ CountsNat(q))'
  <2>1. Promised(q)' <=> Promised(q)
    BY DEF Promised
  <2>2. pc'[q] = "repost" => pc[q] = "repost" \/ extraWaits[q] > 0
    OBVIOUS
  <2>3. Balanced(q) /\ CountsNat(q)
    BY DEF SemInv
  <2> QED
    BY <1>1, <2>1, <2>2, <2>3, BalanceSame
<1> QED
  BY <1>2 DEF SemInv

\* The section of LWLockAcquire keeps the balance.
LEMMA SectionSem ==
    ASSUME TypeInt, SemInv, NEW p \in Backends, NEW l \in Locks, NEW m \in Modes,
           pc[p] \in {"run", "retry"}, Section(p, l, m),
           UNCHANGED <<semVars, wakeVars>>
    PROVE  SemInv'
<1>1. CASE /\ pc' = [pc EXCEPT ![p] = IF extraWaits[p] > 0 THEN "repost" ELSE "run"]
           /\ UNCHANGED lwWaiting
  <2>1. /\ pc'[p] \in {"repost", "run"}
        /\ pc'[p] = "repost" => extraWaits[p] > 0
        /\ \A q \in Backends \ {p} : pc'[q] = pc[q] /\ lwWaiting'[q] = lwWaiting[q]
    BY <1>1 DEF TypeInt
  <2> QED
    BY <2>1, QuietStep DEF semVars, wakeVars, Promised
<1>2. CASE pc' = [pc EXCEPT ![p] = "wait"] /\ lwWaiting' = [lwWaiting EXCEPT ![p] = TRUE]
  <2>1. /\ pc'[p] = "wait" /\ lwWaiting'[p]
        /\ \A q \in Backends \ {p} : pc'[q] = pc[q] /\ lwWaiting'[q] = lwWaiting[q]
    BY <1>2 DEF TypeInt
  <2> QED
    BY <2>1, QuietStep DEF semVars, wakeVars, Promised
<1> QED
  BY <1>1, <1>2 DEF Section, Enqueue

\* So does a release, before it wakes anybody.
LEMMA ReleaseSem ==
    ASSUME TypeInt, SemInv, NEW p \in Backends, NEW i, NEW h,
           pc[p] \in {"run", "cleanup"}, ReleaseHeld(p, i, h)
    PROVE  SemInv'
<1>1. /\ pc'[p] \in {"wake", "cleanup", "run"}
      /\ \A q \in Backends \ {p} : pc'[q] = pc[q]
  BY DEF ReleaseHeld, CutWaiters, Return, TypeInt
<1>2. UNCHANGED <<sem, extraWaits, owed, woken, lwWaiting>>
  BY DEF ReleaseHeld, semVars, waitVars
<1> QED
  BY <1>1, <1>2, QuietStep DEF Promised

\* One return of PGSemaphoreLock: the wakeup is absorbed, or it was announced.
LEMMA AwaitSem ==
    ASSUME TypeInt, SemInv, NEW p \in Backends, AwaitWakeup(p)
    PROVE  SemInv'
<1>1. /\ pc[p] = "wait" /\ sem[p] > 0
      /\ sem'[p] = sem[p] - 1
      /\ \A q \in Backends \ {p} : sem'[q] = sem[q]
      /\ UNCHANGED <<lwWaiting, owed, woken>>
  BY DEF AwaitWakeup, waitVars, wakeVars, TypeInt
<1>2. \/ /\ lwWaiting[p] /\ pc' = pc
         /\ extraWaits'[p] = extraWaits[p] + 1
         /\ \A q \in Backends \ {p} : extraWaits'[q] = extraWaits[q]
      \/ /\ ~lwWaiting[p] /\ extraWaits' = extraWaits
         /\ pc'[p] = "retry" /\ \A q \in Backends \ {p} : pc'[q] = pc[q]
  BY DEF AwaitWakeup, TypeInt
<1>3. \A q : PostsDue(q)' = PostsDue(q)
  BY <1>1, <1>2, DueSame
<1>4. Due(p)' = Due(p) /\ Due(p) \in Nat
  BY <1>3, DueNat DEF Due
<1>5. Balanced(p) /\ CountsNat(p) /\ sem[p] \in Int /\ extraWaits[p] \in Int /\ owed[p] \in Int
  BY SemInts DEF SemInv
<1>6. (Balanced(p) /\ CountsNat(p))'
  <2>1. CASE lwWaiting[p] /\ pc' = pc /\ extraWaits'[p] = extraWaits[p] + 1
    <3>1. ~Promised(p) /\ ~Promised(p)' /\ pc'[p] # "repost"
      BY <1>1, <2>1 DEF Promised
    <3>2. sem'[p] + extraWaits'[p] + Due(p)' = owed'[p]
      BY <1>1, <1>4, <1>5, <2>1, <3>1 DEF Balanced
    <3> QED
      BY <1>1, <1>5, <2>1, <3>1, <3>2 DEF Balanced, CountsNat
  <2>2. CASE ~lwWaiting[p] /\ pc'[p] = "retry" /\ extraWaits' = extraWaits
    <3>1. Promised(p) /\ ~Promised(p)'
      BY <1>1, <2>2 DEF Promised
    <3>2. sem'[p] + extraWaits'[p] + Due(p)' = owed'[p]
      BY <1>1, <1>4, <1>5, <2>2, <3>1 DEF Balanced
    <3> QED
      BY <1>1, <1>5, <2>2, <3>1, <3>2 DEF Balanced, CountsNat
  <2> QED
    BY <1>2, <2>1, <2>2
<1>7. ASSUME NEW q \in Backends, q # p PROVE (Balanced(q) /\ CountsNat(q))'
  <2>1. /\ sem'[q] = sem[q] /\ extraWaits'[q] = extraWaits[q] /\ owed'[q] = owed[q]
        /\ pc'[q] = pc[q]
    BY <1>1, <1>2, <1>7
  <2>2. Promised(q)' <=> Promised(q)
    BY <1>1, <2>1 DEF Promised
  <2> QED
    BY <1>3, <2>1, <2>2, BalanceSame DEF SemInv
<1> QED
  BY <1>6, <1>7 DEF SemInv

\* Absorbed wakeups are given back one by one.
LEMMA RepostSem ==
    ASSUME TypeInt, SemInv, NEW p \in Backends, Repost(p)
    PROVE  SemInv'
<1>1. /\ pc[p] = "repost"
      /\ extraWaits'[p] = extraWaits[p] - 1 /\ sem'[p] = sem[p] + 1
      /\ pc'[p] \in {"repost", "run"} /\ (pc'[p] = "repost" => extraWaits[p] > 1)
      /\ \A q \in Backends \ {p} : /\ extraWaits'[q] = extraWaits[q]
                                   /\ sem'[q] = sem[q] /\ pc'[q] = pc[q]
      /\ UNCHANGED <<lwWaiting, owed, woken>>
  BY DEF Repost, waitVars, wakeVars, TypeInt
<1>2. \A q : PostsDue(q)' = PostsDue(q)
  BY <1>1, DueSame
<1>3. Due(p)' = Due(p) /\ Due(p) \in Nat
  BY <1>2, DueNat DEF Due
<1>4. Balanced(p) /\ CountsNat(p) /\ sem[p] \in Int /\ extraWaits[p] \in Int /\ owed[p] \in Int
  BY SemInts DEF SemInv
<1>5. (Balanced(p) /\ CountsNat(p))'
  <2>1. ~Promised(p) /\ ~Promised(p)'
    BY <1>1 DEF Promised
  <2>2. sem'[p] + extraWaits'[p] + Due(p)' = owed'[p]
    BY <1>1, <1>3, <1>4, <2>1 DEF Balanced
  <2>3. CountsNat(p)'
    BY <1>1, <1>4 DEF CountsNat
  <2> QED
    BY <2>1, <2>2, <2>3 DEF Balanced
<1>6. ASSUME NEW q \in Backends, q # p PROVE (Balanced(q) /\ CountsNat(q))'
  <2>1. Promised(q)' <=> Promised(q)
    BY <1>1, <1>6 DEF Promised
  <2> QED
    BY <1>1, <1>2, <1>6, <2>1, BalanceSame DEF SemInv
<1> QED
  BY <1>5, <1>6 DEF SemInv

\* lwWaiting is cleared: the post is announced, and it is due.
LEMMA WakeSem ==
    ASSUME TypeInt, Lists, SemInv, NEW p \in Backends, WakeFirst(p)
    PROVE  SemInv'
<1>1. PICK w \in Backends : w = Head(chain[p])
  <2>1. chain[p] \in Seq(Backends) /\ chain[p] # <<>>
    BY DEF WakeFirst, TypeInt
  <2>2. Head(chain[p]) \in Backends
    BY <2>1
  <2> QED
    BY <2>2
<1>2. Asleep(w) /\ w # p
  BY <1>1, WakeLists
<1>3. /\ pc[p] = "wake" /\ pc'[p] = "post"
      /\ \A q \in Backends \ {p} : pc'[q] = pc[q]
      /\ woken'[p] = w /\ \A q \in Backends \ {p} : woken'[q] = woken[q]
      /\ lwWaiting'[w] = FALSE
      /\ \A q \in Backends \ {w} : lwWaiting'[q] = lwWaiting[q]
      /\ UNCHANGED <<sem, extraWaits, owed>>
  BY <1>1 DEF WakeFirst, semVars, TypeInt
<1>4. PostsDue(w)' = PostsDue(w) \union {p} /\ p \notin PostsDue(w)
  BY <1>3 DEF PostsDue
<1>5. \A q \in Backends \ {w} : PostsDue(q)' = PostsDue(q)
  BY <1>3 DEF PostsDue
<1>6. Due(w)' = Due(w) + 1 /\ Due(w) \in Nat
  BY <1>4, DueNat, FS_AddElement DEF Due
<1>7. (Balanced(w) /\ CountsNat(w))'
  <2>1. ~Promised(w) /\ Promised(w)'
    BY <1>2, <1>3 DEF Promised, Asleep
  <2>2. Balanced(w) /\ CountsNat(w) /\ sem[w] \in Int /\ extraWaits[w] \in Int /\ owed[w] \in Int
    BY SemInts DEF SemInv
  <2>3. sem'[w] + extraWaits'[w] + Due(w)' = owed'[w] + 1
    BY <1>3, <1>6, <2>1, <2>2 DEF Balanced
  <2>4. pc'[w] = pc[w]
    BY <1>2, <1>3
  <2> QED
    BY <1>3, <2>1, <2>2, <2>3, <2>4 DEF Balanced, CountsNat
<1>8. ASSUME NEW q \in Backends, q # w PROVE (Balanced(q) /\ CountsNat(q))'
  <2>1. Promised(q)' <=> Promised(q)
    BY <1>3, <1>8 DEF Promised
  <2>2. pc'[q] = "repost" => pc[q] = "repost"
    BY <1>3
  <2> QED
    BY <1>3, <1>5, <1>8, <2>1, <2>2, BalanceSame DEF SemInv
<1> QED
  BY <1>7, <1>8 DEF SemInv

\* PGSemaphoreUnlock: the post that was due is made.
LEMMA PostSem ==
    ASSUME TypeInt, SemInv, NEW p \in Backends, PostWoken(p)
    PROVE  SemInv'
<1>1. PICK w \in Backends : w = woken[p]
  BY DEF TypeInt
<1>2. /\ pc[p] = "post" /\ pc'[p] \in {"wake", "cleanup", "run"}
      /\ \A q \in Backends \ {p} : pc'[q] = pc[q] /\ woken'[q] = woken[q]
      /\ sem'[w] = sem[w] + 1 /\ \A q \in Backends \ {w} : sem'[q] = sem[q]
      /\ UNCHANGED <<lwWaiting, extraWaits, owed>>
  <2>1. pc'[p] \in {"wake", "cleanup", "run"} /\ \A q \in Backends \ {p} : pc'[q] = pc[q]
    BY DEF PostWoken, Return, TypeInt
  <2>2. \A q \in Backends \ {p} : woken'[q] = woken[q]
    BY DEF PostWoken, TypeInt
  <2>3. sem'[w] = sem[w] + 1 /\ \A q \in Backends \ {w} : sem'[q] = sem[q]
    <3>1. sem' = [sem EXCEPT ![w] = sem[w] + 1]
      BY <1>1 DEF PostWoken
    <3> QED
      BY <3>1 DEF TypeInt
  <2> QED
    BY <2>1, <2>2, <2>3 DEF PostWoken, waitVars
<1>3. PostsDue(w)' = PostsDue(w) \ {p} /\ p \in PostsDue(w)
  BY <1>1, <1>2 DEF PostsDue
<1>4. \A q \in Backends \ {w} : PostsDue(q)' = PostsDue(q)
  BY <1>1, <1>2 DEF PostsDue
<1>5. Due(w)' = Due(w) - 1 /\ Due(w) \in Nat
  BY <1>3, DueNat, FS_RemoveElement DEF Due
<1>6. \A q \in Backends : Promised(q)' <=> Promised(q)
  BY <1>2 DEF Promised
<1>7. \A q \in Backends : pc'[q] = "repost" => pc[q] = "repost"
  BY <1>2
<1>8. (Balanced(w) /\ CountsNat(w))'
  <2>1. Balanced(w) /\ CountsNat(w) /\ sem[w] \in Int /\ extraWaits[w] \in Int /\ owed[w] \in Int
    BY SemInts DEF SemInv
  <2>2. sem'[w] + extraWaits'[w] + Due(w)' = sem[w] + extraWaits[w] + Due(w)
    BY <1>2, <1>5, <2>1
  <2>3. Balanced(w)'
    BY <1>2, <1>6, <2>1, <2>2 DEF Balanced
  <2>4. CountsNat(w)'
    BY <1>2, <1>7, <2>1 DEF CountsNat
  <2> QED
    BY <2>3, <2>4
<1>9. ASSUME NEW q \in Backends, q # w PROVE (Balanced(q) /\ CountsNat(q))'
  BY <1>2, <1>4, <1>6, <1>7, <1>9, BalanceSame DEF SemInv
<1> QED
  BY <1>8, <1>9 DEF SemInv

\* The other users of the semaphore of p.
LEMMA OthersSem ==
    ASSUME TypeInt, SemInv, NEW p \in Backends, SemPost(p) \/ SemTake(p) \/ SemReset(p)
    PROVE  SemInv'
<1>1. /\ \A q \in Backends \ {p} : sem'[q] = sem[q] /\ owed'[q] = owed[q]
      /\ UNCHANGED <<pc, lwWaiting, extraWaits, woken>>
  BY DEF SemPost, SemTake, SemReset, waitVars, wakeVars, TypeInt
<1>2. \A q : PostsDue(q)' = PostsDue(q)
  BY <1>1 DEF PostsDue
<1>3. \A q : Promised(q)' <=> Promised(q)
  BY <1>1 DEF Promised
<1>4. Due(p)' = Due(p) /\ Due(p) \in Nat
  BY <1>2, DueNat DEF Due
<1>5. Balanced(p) /\ CountsNat(p) /\ sem[p] \in Int /\ extraWaits[p] \in Int /\ owed[p] \in Int
  BY SemInts DEF SemInv
<1>6. \/ sem'[p] = sem[p] + 1 /\ owed'[p] = owed[p] + 1
      \/ pc[p] = "run" /\ sem[p] > 0 /\ sem'[p] = sem[p] - 1 /\ owed'[p] = owed[p] - 1
      \/ pc[p] = "run" /\ sem'[p] = 0 /\ owed'[p] = owed[p] - sem[p]
  BY DEF SemPost, SemTake, SemReset, TypeInt
<1>7. sem'[p] + extraWaits'[p] + Due(p)' - owed'[p] = sem[p] + extraWaits[p] + Due(p) - owed[p]
  BY <1>1, <1>4, <1>5, <1>6
<1>8. Balanced(p)'
  <2>1. CASE Promised(p)
    BY <1>1, <1>3, <1>4, <1>5, <1>6, <1>7, <2>1 DEF Balanced
  <2>2. CASE ~Promised(p)
    BY <1>1, <1>3, <1>4, <1>5, <1>6, <1>7, <2>2 DEF Balanced
  <2> QED
    BY <2>1, <2>2
<1>9. CountsNat(p)'
  <2>1. CASE pc[p] # "run"
    BY <1>1, <1>5, <1>6, <2>1 DEF CountsNat
  <2>2. CASE pc[p] = "run"
    <3>1. sem[p] + extraWaits[p] + Due(p) = owed[p]
      BY <1>5, <2>2 DEF Balanced, Promised
    <3>2. sem'[p] >= 0 /\ owed'[p] >= 0
      BY <1>4, <1>5, <1>6, <3>1 DEF CountsNat
    <3> QED
      BY <1>1, <1>5, <3>2 DEF CountsNat
  <2> QED
    BY <2>1, <2>2
<1>10. ASSUME NEW q \in Backends, q # p PROVE (Balanced(q) /\ CountsNat(q))'
  BY <1>1, <1>2, <1>3, <1>10, BalanceSame DEF SemInv
<1> QED
  BY <1>8, <1>9, <1>10 DEF SemInv

\* The balance of every semaphore is kept by every step.
THEOREM SemStep == TypeInt /\ Lists /\ SemInv /\ [Next]_vars => SemInv'
<1> SUFFICES ASSUME TypeInt, Lists, SemInv, [Next]_vars PROVE SemInv'
  OBVIOUS
<1>1. ASSUME NEW p \in Backends, NEW l \in Locks, NEW m \in Modes,
             LWLockAcquire(p, l, m)
      PROVE  SemInv'
  BY <1>1, SectionSem DEF LWLockAcquire
<1>2. ASSUME NEW p \in Backends, NEW l \in Locks, NEW m \in Modes,
             LWLockConditionalAcquire(p, l, m)
      PROVE  SemInv'
  BY <1>2, QuietStep DEF LWLockConditionalAcquire, waitVars, semVars, wakeVars, Promised
<1>3. ASSUME NEW p \in Backends, Retry(p) PROVE SemInv'
  <2>1. req[p].lock \in Locks /\ req[p].mode \in Modes
    BY DEF TypeInt, Request
  <2> QED
    BY <1>3, <2>1, SectionSem DEF Retry
<1>4. ASSUME NEW p \in Backends, NEW i \in 1..Len(held[p]), LWLockRelease(p, i)
      PROVE  SemInv'
  BY <1>4, ReleaseSem DEF LWLockRelease
<1>5. ASSUME NEW p \in Backends, LWLockReleaseAll(p) PROVE SemInv'
  BY <1>5, ReleaseSem DEF LWLockReleaseAll
<1>6. ASSUME NEW p \in Backends, Error(p) \/ EndRecovery(p) PROVE SemInv'
  <2>1. /\ pc[p] \in {"run", "cleanup"} /\ pc'[p] \in {"run", "cleanup"}
        /\ \A q \in Backends \ {p} : pc'[q] = pc[q]
    BY <1>6 DEF Error, EndRecovery, TypeInt
  <2>2. UNCHANGED <<sem, extraWaits, owed, woken, lwWaiting>>
    BY <1>6 DEF Error, EndRecovery, waitVars, semVars, wakeVars
  <2> QED
    BY <2>1, <2>2, QuietStep DEF Promised
<1>7. CASE UNCHANGED vars
  <2>1. UNCHANGED <<sem, extraWaits, owed, woken, lwWaiting, pc>>
    BY <1>7 DEF vars, waitVars, semVars, wakeVars
  <2>2. \A q : PostsDue(q)' = PostsDue(q) /\ (Promised(q)' <=> Promised(q))
    BY <2>1 DEF PostsDue, Promised
  <2> QED
    BY <2>1, <2>2, BalanceSame DEF SemInv
<1> QED
  BY <1>1, <1>2, <1>3, <1>4, <1>5, <1>6, <1>7, AwaitSem, RepostSem, WakeSem, PostSem,
     OthersSem DEF Next, Step, Call

\* No wakeup of another module is lost or invented (SemaphoreAccounting), with
\* any number of them and of backends.
THEOREM SemaphoreInvariant == Spec => [](SemaphoreAccounting /\ SemInv)
<1>1. Init => SemInv
  <2> SUFFICES ASSUME Init, NEW q \in Backends PROVE Balanced(q) /\ CountsNat(q)
    BY DEF SemInv
  <2>1. /\ sem[q] = 0 /\ extraWaits[q] = 0 /\ owed[q] = 0 /\ pc[q] = "run"
        /\ ~Promised(q) /\ PostsDue(q) = {}
    BY DEF Init, Promised, PostsDue
  <2>2. Due(q) = 0
    BY <2>1, FS_EmptySet DEF Due
  <2> QED
    BY <2>1, <2>2 DEF Balanced, CountsNat
<1>2. TypeInt /\ Lists /\ SemInv /\ [Next]_vars => SemInv'
  BY SemStep
<1>3. TypeInt /\ SemInv => SemaphoreAccounting
  <2> SUFFICES ASSUME TypeInt, SemInv, NEW q \in Backends
               PROVE  sem[q] + extraWaits[q] + Cardinality(PostsDue(q)) =
                        owed[q] + (IF Promised(q) THEN 1 ELSE 0)
    BY DEF SemaphoreAccounting, Promised
  <2>1. Balanced(q) /\ owed[q] \in Int
    BY SemInts DEF SemInv
  <2> QED
    BY <2>1 DEF Balanced, Due
<1> QED
  BY <1>1, <1>2, <1>3, TypeIntInvariant, ListsInvariant, PTL DEF Spec

\* Every variable has its type: no counter of a lock, a semaphore or the
\* interrupts ever goes below zero.
THEOREM TypeInvariant == Spec => []TypeOK
<1>1. TypeInt /\ HoldersCounted /\ HoldoffCounted /\ SemInv => TypeOK
  <2> SUFFICES ASSUME TypeInt, HoldersCounted, HoldoffCounted, SemInv PROVE TypeOK
    OBVIOUS
  <2>1. exclusive \in [Locks -> Nat] /\ shared \in [Locks -> Nat]
    BY CountersNat DEF TypeInt
  <2>2. sem \in [Backends -> Nat] /\ extraWaits \in [Backends -> Nat] /\ owed \in [Backends -> Nat]
    <3>1. \A q \in Backends : sem[q] \in Nat /\ extraWaits[q] \in Nat /\ owed[q] \in Nat
      BY SemInts DEF SemInv, CountsNat
    <3> QED
      BY <3>1 DEF TypeInt
  <2>3. holdoff \in [Backends -> Nat]
    <3>1. ASSUME NEW q \in Backends PROVE holdoff[q] \in Nat
      <4>1. Len(held[q]) \in Nat
        BY DEF TypeInt
      <4>2. PICK a \in Nat, b \in Nat : holdoff[q] = a + b
        <5>1. (IF inError[q] THEN 1 ELSE Len(held[q])) \in Nat
          BY <4>1
        <5>2. (IF pc[q] \in {"wait", "retry", "wake", "post"} THEN 1 ELSE 0) \in Nat
          OBVIOUS
        <5> QED
          BY <5>1, <5>2, Zenon DEF HoldoffCounted
      <4> QED
        BY <4>2
    <3> QED
      BY <3>1 DEF TypeInt
  <2> QED
    BY <2>1, <2>2, <2>3 DEF TypeInt, TypeOK
<1> QED
  BY <1>1, TypeIntInvariant, HoldersInvariant, HoldoffInvariant, SemaphoreInvariant, PTL
=============================================================================
