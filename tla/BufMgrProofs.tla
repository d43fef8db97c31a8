---------------------------- MODULE BufMgrProofs ----------------------------
(***************************************************************************)
(* Proofs about BufMgr for any number of backends, blocks and buffers:     *)
(* reference counts are exact, a block is in one buffer and its page there *)
(* is the last version, no change is lost, and the lock for cleanup is     *)
(* exclusive and its waiter is signalled.                                  *)
(*                                                                         *)
(* One step under BufMgrLock may unpin a buffer, pin another one and take  *)
(* a third one from the free list.  The parts of the invariant are         *)
(* therefore stated of a pool s, of where the processes are (at, loc), and *)
(* of their own sets (look, chg), so that they can be shown to hold        *)
(* between the parts of a step.                                            *)
(***************************************************************************)
EXTENDS BufMgr, FunctionTheorems, FiniteSetTheorems, SequenceTheorems, TLAPS

Reading == {"reading", "abortin"}
Replacing == {"replace", "write", "written"}
Syncing == {"synclock", "syncwrite", "syncdone"}
Doing == Reading \cup Replacing \cup Syncing \cup {"abortout"}   \* I/O on a buffer
Failing == {"abortin", "abortout", "unlock", "unpin"}
PCs == Doing \cup Failing \cup {"idle", "spin", "failed", "waitio", "cleanup", "sleeping", "sync"}

BufRec == [tag : Blocks \cup {NoBlock}, ref : Nat, dirty : BOOLEAN, just : BOOLEAN, cntx : BOOLEAN,
           io : BOOLEAN, err : BOOLEAN, waiter : Procs \cup {Nobody}, page : Int]
PoolType == [buf : [Buffers -> BufRec], free : Seq(Buffers), pins : [Procs -> [Buffers -> Nat]],
             sem : [Procs -> Nat]]

Types(s, at, loc, wnt, look, chg) ==
    /\ plan \in Plans /\ s \in PoolType
    /\ share \in [Buffers -> SUBSET Procs] /\ excl \in [Buffers -> Procs \cup {Nobody}]
    /\ cleaning \in [Buffers -> Procs \cup {Nobody}]
    /\ at \in [Procs -> PCs] /\ loc \in [Procs -> Buffers] /\ wnt \in [Procs -> Blocks \cup {NoBlock}]
    /\ next \in Nat /\ lsn \in Nat /\ flushed \in Nat /\ disk \in [Blocks -> Int]
    /\ latest \in [Blocks -> Nat] /\ redo \in [Blocks -> Nat] /\ ckpt \in [Blocks -> Nat]
    /\ look \in [Procs -> SUBSET Buffers] /\ chg \in [Procs -> SUBSET Buffers]

\* A buffer's count is that of the processes that have it pinned; it is on the
\* free list, once, when there are none.
PinnedBy(s, b) == {p \in Procs : s.pins[p][b] > 0}
Counts(s) ==
    /\ \A b \in Buffers : s.buf[b].ref = Cardinality(PinnedBy(s, b))
    /\ \A b \in Buffers : s.buf[b].ref = 0 <=> \E i \in 1..Len(s.free) : s.free[i] = b
    /\ \A i, j \in 1..Len(s.free) : s.free[i] = s.free[j] => i = j

\* One block in a buffer, one buffer for a block; unused buffers have none.
Tags(s) ==
    /\ \A b, c \in Buffers : s.buf[b].tag = s.buf[c].tag /\ s.buf[b].tag # NoBlock => b = c
    /\ \A b \in Buffers : s.buf[b].tag = NoBlock =>
          ~Unwritten(s.buf[b]) /\ \A p \in Procs : s.pins[p][b] = 0

\* A process has the buffer pinned that it is at.  I/O is done by one process at
\* a time, and those that want a buffer that is being replaced wait.
Places(s, at, loc, wnt) ==
    \A p \in Procs :
        /\ at[p] \in Doing \cup {"waitio", "cleanup", "sleeping"} => s.pins[p][loc[p]] > 0
        /\ at[p] \in Doing =>
              /\ s.buf[loc[p]].io
              /\ \A q \in Procs : at[q] \in Doing /\ loc[q] = loc[p] => q = p
        /\ at[p] \in Replacing =>
              /\ wnt[p] \in Blocks
              /\ \A q \in Procs \ {p} : s.pins[q][loc[p]] > 0 => at[q] = "waitio" /\ loc[q] = loc[p]
        /\ at[p] \in Syncing => p = Checkpointer /\ loc[p] = next

\* The locks on the contents, and who may have pointers into a page.
Locks(s, at, loc, wnt, look, chg) ==
    /\ look[Checkpointer] = {} /\ chg[Checkpointer] = {} /\ at[Checkpointer] # "sleeping"
    /\ \A b \in Buffers :
          /\ excl[b] # Nobody => share[b] = {}
          /\ cleaning[b] # Nobody => excl[b] = cleaning[b]
          /\ excl[b] # Checkpointer
          /\ excl[b] # Nobody => s.buf[b].cntx
          /\ Checkpointer \in share[b] <=> at[Checkpointer] = "syncwrite" /\ loc[Checkpointer] = b
    /\ \A p \in Procs, b \in Buffers :
          /\ Holds(p, b) => /\ s.pins[p][b] > 0 /\ at[p] \notin Failing
                            /\ at[p] \in Replacing => s.buf[b].tag # wnt[p]
                            /\ loc[p] = b => at[p] \notin {"waitio", "reading"} \cup Replacing
          /\ at[p] = "cleanup" /\ loc[p] = b => excl[b] = p /\ cleaning[b] = Nobody
          /\ b \in chg[p] => s.pins[p][b] > 0 /\ p \notin share[b]
          /\ b \in look[p] => s.pins[p][b] > 0 /\ (cleaning[b] # Nobody => cleaning[b] = p)
          /\ at[p] \in Replacing /\ loc[p] = b => b \notin look[p] /\ b \notin chg[p]

\* Who sleeps will be signalled.
Signals(s, at, loc) ==
    \A p \in Procs : at[p] = "sleeping" /\ s.sem[p] = 0 =>
        s.buf[loc[p]].waiter = p /\ s.buf[loc[p]].ref > 1

\* The log of a page that is being written is on disk.
Logs(s, at, loc) ==
    /\ \A k \in Blocks : disk[k] <= flushed /\ latest[k] <= lsn
    /\ \A p \in Procs : at[p] \in {"write", "syncwrite"} => s.buf[loc[p]].page <= flushed

\* The page of a bad buffer has not been read; nobody uses it.
Bad(s, at, loc, b) == s.buf[b].err \/ \E p \in Procs : at[p] \in Reading /\ loc[p] = b

\* Where no write fails, a page in a buffer is current unless it is bad, and a
\* page on disk is current unless cntxDirty is set.
Contents(s, at, loc) ==
    "write" \notin plan.may =>
        /\ \A b \in Buffers :
              /\ Bad(s, at, loc, b) =>
                    /\ ~Unwritten(s.buf[b])
                    /\ \A q \in Procs : s.pins[q][b] > 0 =>
                          \/ at[q] \in Reading \cup {"waitio"} /\ loc[q] = b
                          \/ at[q] \in {"unlock", "unpin"}
              /\ s.buf[b].tag # NoBlock =>
                    /\ Bad(s, at, loc, b) \/ s.buf[b].page = latest[s.buf[b].tag]
                    /\ s.buf[b].cntx \/ disk[s.buf[b].tag] = latest[s.buf[b].tag]
        /\ \A k \in Blocks : disk[k] = latest[k] \/ \E b \in Buffers : s.buf[b].tag = k
        /\ \A p \in Procs : /\ at[p] # "abortout"
                            /\ at[p] = "written" =>
                                  disk[s.buf[loc[p]].tag] = latest[s.buf[loc[p]].tag]

\* What BufferSync has passed is on disk as it was when the checkpoint began.
Synced(s, at) ==
    "write" \notin plan.may =>
        /\ \A k \in Blocks : disk[k] <= latest[k] /\ redo[k] <= latest[k] /\ ckpt[k] <= disk[k]
        /\ at[Checkpointer] \in Syncing \cup {"sync"} =>
              \A k \in Blocks : disk[k] < redo[k] =>
                  \E b \in Buffers : /\ s.buf[b].tag = k /\ b >= next
                                     /\ at[Checkpointer] = "syncdone" => b > next

Core(s, at, loc, wnt, look, chg) ==
    /\ Types(s, at, loc, wnt, look, chg) /\ Counts(s) /\ Tags(s) /\ Places(s, at, loc, wnt)
    /\ Locks(s, at, loc, wnt, look, chg) /\ Signals(s, at, loc) /\ Logs(s, at, loc)
    /\ Contents(s, at, loc)

Inv == Core(Pool, pc, cur, want, looked, changed) /\ Synced(Pool, pc)
-----------------------------------------------------------------------------
(***************************************************************************)
(* The free list and the functions on the pool.                            *)
(***************************************************************************)
LEMMA ProcsFinite == IsFiniteSet(Procs)
BY BackendsAssumption, FS_AddElement DEF Procs

\* The count of a buffer when p's pins of it change and nobody else's do.
LEMMA CountStep ==
    ASSUME NEW s \in PoolType, NEW t \in PoolType, NEW p \in Procs, NEW b \in Buffers,
           \A q \in Procs \ {p} : t.pins[q][b] = s.pins[q][b]
    PROVE  /\ Cardinality(PinnedBy(s, b)) \in Nat
           /\ Cardinality(PinnedBy(t, b)) = Cardinality(PinnedBy(s, b))
                + (IF t.pins[p][b] > 0 THEN 1 ELSE 0) - (IF s.pins[p][b] > 0 THEN 1 ELSE 0)
<1>1. IsFiniteSet(PinnedBy(s, b)) /\ IsFiniteSet(PinnedBy(t, b))
  BY ProcsFinite, FS_Subset DEF PinnedBy
<1>2. Cardinality(PinnedBy(s, b)) \in Nat /\ Cardinality(PinnedBy(t, b)) \in Nat
  BY <1>1, FS_CardinalityType
<1>3. CASE (s.pins[p][b] > 0) <=> (t.pins[p][b] > 0)
  <2>1. PinnedBy(s, b) = PinnedBy(t, b)
    BY <1>3 DEF PinnedBy
  <2>2. Cardinality(PinnedBy(t, b)) = Cardinality(PinnedBy(s, b))
    BY <2>1
  <2> QED
    BY <1>2, <1>3, <2>2
<1>4. CASE ~(s.pins[p][b] > 0) /\ t.pins[p][b] > 0
  <2>1. PinnedBy(t, b) = PinnedBy(s, b) \cup {p} /\ p \notin PinnedBy(s, b)
    BY <1>4 DEF PinnedBy
  <2>2. Cardinality(PinnedBy(t, b)) = Cardinality(PinnedBy(s, b)) + 1
    BY <1>1, <2>1, FS_AddElement
  <2> QED
    BY <1>2, <1>4, <2>2
<1>5. CASE s.pins[p][b] > 0 /\ ~(t.pins[p][b] > 0)
  <2>1. PinnedBy(t, b) = PinnedBy(s, b) \ {p} /\ p \in PinnedBy(s, b)
    BY <1>5 DEF PinnedBy
  <2>2. Cardinality(PinnedBy(t, b)) = Cardinality(PinnedBy(s, b)) - 1
    BY <1>1, <2>1, FS_RemoveElement
  <2> QED
    BY <1>2, <1>5, <2>2
<1> QED
  BY <1>2, <1>3, <1>4, <1>5

\* An element is taken out of a list without duplicates.
Without(list, new, i) ==
    /\ \A e : (\E j \in 1..Len(new) : new[j] = e) <=> e # list[i] /\ \E j \in 1..Len(list) : list[j] = e
    /\ \A j, k \in 1..Len(new) : new[j] = new[k] => j = k

LEMMA TakeOut ==
    ASSUME NEW S, NEW list \in Seq(S), NEW i \in 1..Len(list),
           \A j, k \in 1..Len(list) : list[j] = list[k] => j = k
    PROVE  /\ SubSeq(list, 1, i - 1) \o SubSeq(list, i + 1, Len(list)) \in Seq(S)
           /\ Without(list, SubSeq(list, 1, i - 1) \o SubSeq(list, i + 1, Len(list)), i)
           /\ SubSeq(list, i + 1, Len(list)) \o SubSeq(list, 1, i - 1) \in Seq(S)
           /\ Without(list, SubSeq(list, i + 1, Len(list)) \o SubSeq(list, 1, i - 1), i)
<1> DEFINE n == Len(list)
           f == SubSeq(list, 1, i - 1)
           g == SubSeq(list, i + 1, n)
           fg == f \o g
           gf == g \o f
<1>1. n \in Nat /\ i \in Int /\ 1 <= i /\ i <= n /\ \A j \in 1..n : list[j] \in S
  BY ElementOfSeq, LenProperties
<1>2. f \in Seq(S) /\ Len(f) = i - 1 /\ \A j \in 1..(i - 1) : f[j] = list[j]
  BY <1>1, SubSeqProperties
<1>3. g \in Seq(S) /\ Len(g) = n - i /\ \A j \in 1..(n - i) : g[j] = list[i + j]
  <2>1. \A j \in (i + 1)..n : list[j] \in S
    BY <1>1
  <2>2. /\ g \in Seq(S) /\ Len(g) = (IF i + 1 <= n THEN n - (i + 1) + 1 ELSE 0)
        /\ \A j \in 1..(n - (i + 1) + 1) : g[j] = list[(i + 1) + j - 1]
    BY <1>1, <2>1, SubSeqProperties
  <2> QED
    BY <1>1, <2>2
<1> HIDE DEF n, f, g
<1>4. f \in Seq(S) /\ g \in Seq(S)
  BY <1>2, <1>3
<1>5. /\ fg \in Seq(S) /\ Len(fg) = Len(f) + Len(g)
      /\ \A j \in 1..(Len(f) + Len(g)) : fg[j] = IF j <= Len(f) THEN f[j] ELSE g[j - Len(f)]
  BY <1>4, ConcatProperties
<1>6. /\ gf \in Seq(S) /\ Len(gf) = Len(g) + Len(f)
      /\ \A j \in 1..(Len(g) + Len(f)) : gf[j] = IF j <= Len(g) THEN g[j] ELSE f[j - Len(g)]
  BY <1>4, ConcatProperties
<1> HIDE DEF fg, gf
<1>7. /\ Len(fg) = n - 1
      /\ \A j \in 1..(n - 1) : fg[j] = IF j < i THEN list[j] ELSE list[j + 1]
  BY <1>1, <1>2, <1>3, <1>5
<1>8. /\ Len(gf) = n - 1
      /\ \A j \in 1..(n - 1) : gf[j] = IF j <= n - i THEN list[i + j] ELSE list[j - (n - i)]
  BY <1>1, <1>2, <1>3, <1>6
<1>9. \A j, k \in 1..n : list[j] = list[k] => j = k
  BY DEF n
<1>10. Without(list, fg, i)
  <2>1. ASSUME NEW k \in 1..n, k # i
        PROVE  \E j \in 1..(n - 1) : fg[j] = list[k]
    <3>1. CASE k < i
      <4>1. k \in 1..(n - 1) /\ fg[k] = list[k]
        BY <1>1, <1>7, <3>1
      <4> QED
        BY <4>1
    <3>2. CASE k > i
      <4>1. k - 1 \in 1..(n - 1) /\ ~(k - 1 < i) /\ (k - 1) + 1 = k
        BY <1>1, <3>2
      <4>2. fg[k - 1] = list[k]
        BY <1>7, <4>1
      <4> QED
        BY <4>1, <4>2
    <3> QED
      BY <1>1, <2>1, <3>1, <3>2
  <2>2. ASSUME NEW j \in 1..(n - 1)
        PROVE  \E k \in 1..n : k # i /\ fg[j] = list[k]
    <3>1. CASE j < i
      BY <1>1, <1>7, <3>1
    <3>2. CASE ~(j < i)
      <4>1. j + 1 \in 1..n /\ j + 1 # i /\ fg[j] = list[j + 1]
        BY <1>1, <1>7, <3>2
      <4> QED
        BY <4>1
    <3> QED
      BY <3>1, <3>2
  <2>3. ASSUME NEW j \in 1..(n - 1), NEW k \in 1..(n - 1), fg[j] = fg[k]
        PROVE  j = k
    <3> DEFINE At(x) == IF x < i THEN x ELSE x + 1
    <3>1. At(j) \in 1..n /\ At(k) \in 1..n /\ fg[j] = list[At(j)] /\ fg[k] = list[At(k)]
      BY <1>1, <1>7
    <3>2. At(j) = At(k)
      BY <1>9, <2>3, <3>1
    <3> QED
      BY <1>1, <3>2
  <2>4. ASSUME NEW e
        PROVE  (\E j \in 1..(n - 1) : fg[j] = e) <=> e # list[i] /\ \E j \in 1..n : list[j] = e
    <3>1. i \in 1..n /\ \A k \in 1..n : k # i => list[k] # list[i]
      BY <1>1, <1>9
    <3> QED
      <4>1. ASSUME NEW j \in 1..(n - 1), fg[j] = e
            PROVE  e # list[i] /\ \E k \in 1..n : list[k] = e
        <5>1. PICK k \in 1..n : k # i /\ fg[j] = list[k]
          BY <2>2
        <5> QED
          BY <3>1, <4>1, <5>1
      <4>2. ASSUME e # list[i], NEW k \in 1..n, list[k] = e
            PROVE  \E j \in 1..(n - 1) : fg[j] = e
        <5>1. k # i
          BY <4>2
        <5> QED
          BY <2>1, <4>2, <5>1
      <4> QED
        BY <4>1, <4>2
  <2> QED
    BY <1>7, <2>3, <2>4 DEF Without, n
<1>11. Without(list, gf, i)
  <2>1. ASSUME NEW k \in 1..n, k # i
        PROVE  \E j \in 1..(n - 1) : gf[j] = list[k]
    <3>1. CASE k < i
      <4>1. k + (n - i) \in 1..(n - 1) /\ ~(k + (n - i) <= n - i) /\ (k + (n - i)) - (n - i) = k
        BY <1>1, <3>1
      <4>2. gf[k + (n - i)] = list[k]
        BY <1>8, <4>1
      <4> QED
        BY <4>1, <4>2
    <3>2. CASE k > i
      <4>1. k - i \in 1..(n - 1) /\ k - i <= n - i /\ i + (k - i) = k
        BY <1>1, <3>2
      <4>2. gf[k - i] = list[k]
        BY <1>8, <4>1
      <4> QED
        BY <4>1, <4>2
    <3> QED
      BY <1>1, <2>1, <3>1, <3>2
  <2>2. ASSUME NEW j \in 1..(n - 1)
        PROVE  \E k \in 1..n : k # i /\ gf[j] = list[k]
    <3>1. CASE j <= n - i
      <4>1. i + j \in 1..n /\ i + j # i /\ gf[j] = list[i + j]
        BY <1>1, <1>8, <3>1
      <4> QED
        BY <4>1
    <3>2. CASE ~(j <= n - i)
      <4>1. j - (n - i) \in 1..n /\ j - (n - i) # i /\ gf[j] = list[j - (n - i)]
        BY <1>1, <1>8, <3>2
      <4> QED
        BY <4>1
    <3> QED
      BY <3>1, <3>2
  <2>3. ASSUME NEW j \in 1..(n - 1), NEW k \in 1..(n - 1), gf[j] = gf[k]
        PROVE  j = k
    <3> DEFINE At(x) == IF x <= n - i THEN i + x ELSE x - (n - i)
    <3>1. At(j) \in 1..n /\ At(k) \in 1..n /\ gf[j] = list[At(j)] /\ gf[k] = list[At(k)]
      BY <1>1, <1>8
    <3>2. At(j) = At(k)
      BY <1>9, <2>3, <3>1
    <3> QED
      BY <1>1, <3>2
  <2>4. ASSUME NEW e
        PROVE  (\E j \in 1..(n - 1) : gf[j] = e) <=> e # list[i] /\ \E j \in 1..n : list[j] = e
    <3>1. i \in 1..n /\ \A k \in 1..n : k # i => list[k] # list[i]
      BY <1>1, <1>9
    <3> QED
      <4>1. ASSUME NEW j \in 1..(n - 1), gf[j] = e
            PROVE  e # list[i] /\ \E k \in 1..n : list[k] = e
        <5>1. PICK k \in 1..n : k # i /\ gf[j] = list[k]
          BY <2>2
        <5> QED
          BY <3>1, <4>1, <5>1
      <4>2. ASSUME e # list[i], NEW k \in 1..n, list[k] = e
            PROVE  \E j \in 1..(n - 1) : gf[j] = e
        <5>1. k # i
          BY <4>2
        <5> QED
          BY <2>1, <4>2, <5>1
      <4> QED
        BY <4>1, <4>2
  <2> QED
    BY <1>8, <2>3, <2>4 DEF Without, n
<1> QED
  BY <1>5, <1>6, <1>10, <1>11 DEF f, g, n, fg, gf

\* Two pools differ only in b, in p's pins of b, in the list and in the semaphores.
Differ(s, t, p, b) ==
    /\ \A q \in Procs, c \in Buffers : q # p \/ c # b => t.pins[q][c] = s.pins[q][c]
    /\ \A c \in Buffers \ {b} : t.buf[c] = s.buf[c]

LEMMA CountsStep ==
    ASSUME NEW s \in PoolType, NEW t \in PoolType, Counts(s), NEW p \in Procs, NEW b \in Buffers,
           Differ(s, t, p, b),
           t.buf[b].ref = (IF t.pins[p][b] > 0 THEN 1 ELSE 0) - (IF s.pins[p][b] > 0 THEN 1 ELSE 0)
                          + s.buf[b].ref,
           \A c \in Buffers : (\E i \in 1..Len(t.free) : t.free[i] = c) <=>
                (IF c = b THEN t.buf[b].ref = 0 ELSE \E i \in 1..Len(s.free) : s.free[i] = c),
           \A i, j \in 1..Len(t.free) : t.free[i] = t.free[j] => i = j
    PROVE  Counts(t)
<1>1. \A c \in Buffers \ {b} : PinnedBy(t, c) = PinnedBy(s, c)
  BY DEF Differ, PinnedBy
<1>2. t.buf[b].ref = Cardinality(PinnedBy(t, b))
  <2>1. s.buf[b].ref = Cardinality(PinnedBy(s, b))
    BY DEF Counts
  <2>2. \A q \in Procs \ {p} : t.pins[q][b] = s.pins[q][b]
    BY DEF Differ
  <2>3. /\ Cardinality(PinnedBy(s, b)) \in Nat
        /\ Cardinality(PinnedBy(t, b)) = Cardinality(PinnedBy(s, b))
                + (IF t.pins[p][b] > 0 THEN 1 ELSE 0) - (IF s.pins[p][b] > 0 THEN 1 ELSE 0)
    BY <2>2, CountStep
  <2> QED
    BY <2>1, <2>3
<1>3. ASSUME NEW c \in Buffers
      PROVE  /\ t.buf[c].ref = Cardinality(PinnedBy(t, c))
             /\ t.buf[c].ref = 0 <=> \E i \in 1..Len(t.free) : t.free[i] = c
  <2>1. CASE c = b
    BY <1>2, <2>1
  <2>2. CASE c # b
    <3>1. t.buf[c] = s.buf[c] /\ PinnedBy(t, c) = PinnedBy(s, c)
      BY <1>1, <2>2 DEF Differ
    <3> QED
      BY <2>2, <3>1 DEF Counts
  <2> QED
    BY <2>1, <2>2
<1> QED
  BY <1>3 DEF Counts

LEMMA PoolFields ==
    ASSUME NEW s \in PoolType
    PROVE  /\ s.buf \in [Buffers -> BufRec] /\ s.free \in Seq(Buffers)
           /\ s.pins \in [Procs -> [Buffers -> Nat]] /\ s.sem \in [Procs -> Nat]
           /\ \A b \in Buffers : s.buf[b].ref \in Nat
           /\ \A p \in Procs, b \in Buffers : s.pins[p][b] \in Nat
           /\ Len(s.free) \in Nat /\ DOMAIN s.free = 1..Len(s.free)
           /\ \A i \in 1..Len(s.free) : s.free[i] \in Buffers
<1>1. s.free \in Seq(Buffers) /\ s.buf \in [Buffers -> BufRec]
  BY DEF PoolType
<1>2. \A b \in Buffers : s.buf[b].ref \in Nat
  BY <1>1 DEF BufRec
<1>3. Len(s.free) \in Nat /\ DOMAIN s.free = 1..Len(s.free) /\ \A i \in 1..Len(s.free) : s.free[i] \in Buffers
  BY <1>1, LenProperties, ElementOfSeq
<1> QED
  BY <1>1, <1>2, <1>3 DEF PoolType

\* A pinned buffer is counted; one on the free list has no pin.
LEMMA PinCounted ==
    ASSUME NEW s \in PoolType, Counts(s), NEW p \in Procs, NEW b \in Buffers, s.pins[p][b] > 0
    PROVE  s.buf[b].ref > 0 /\ \A i \in 1..Len(s.free) : s.free[i] # b
<1>1. Cardinality(PinnedBy(s, b)) > 0
  <2>1. IsFiniteSet(PinnedBy(s, b)) /\ p \in PinnedBy(s, b)
    BY ProcsFinite, FS_Subset DEF PinnedBy
  <2> QED
    BY <2>1, FS_CardinalityType, FS_EmptySet
<1>2. s.buf[b].ref > 0
  BY <1>1 DEF Counts
<1> QED
  <2>1. s.buf[b].ref # 0
    BY <1>2
  <2>2. s.buf[b].ref = 0 <=> \E i \in 1..Len(s.free) : s.free[i] = b
    BY DEF Counts
  <2> QED
    BY <1>2, <2>1, <2>2

LEMMA OnlyPin ==
    ASSUME NEW s \in PoolType, Counts(s), NEW p \in Procs, NEW b \in Buffers, s.pins[p][b] > 0,
           s.buf[b].ref = 1
    PROVE  \A q \in Procs : s.pins[q][b] > 0 => q = p
<1>1. IsFiniteSet(PinnedBy(s, b))
  BY ProcsFinite, FS_Subset DEF PinnedBy
<1>2. Cardinality(PinnedBy(s, b)) = 1
  BY DEF Counts
<1>3. PICK x : PinnedBy(s, b) = {x}
  BY <1>1, <1>2, FS_Singleton
<1> QED
  BY <1>3 DEF PinnedBy

\* Only reference counts and waiters differ.
Same(s, t) ==
    \A c \in Buffers :
        /\ t.buf[c].tag = s.buf[c].tag /\ t.buf[c].page = s.buf[c].page /\ t.buf[c].io = s.buf[c].io
        /\ t.buf[c].dirty = s.buf[c].dirty /\ t.buf[c].just = s.buf[c].just
        /\ t.buf[c].cntx = s.buf[c].cntx /\ t.buf[c].err = s.buf[c].err

LEMMA PinPool ==
    ASSUME NEW s \in PoolType, Counts(s), NEW p \in Procs, NEW b \in Buffers,
           NEW t, t = PinBuffer(s, p, b)
    PROVE  /\ t \in PoolType /\ Counts(t) /\ Differ(s, t, p, b) /\ t.sem = s.sem
           /\ t.pins[p][b] = s.pins[p][b] + 1
           /\ Same(s, t) /\ t.buf[b].ref >= s.buf[b].ref /\ t.buf[b].waiter = s.buf[b].waiter
<1> DEFINE r == IF s.pins[p][b] = 0 THEN s.buf[b].ref + 1 ELSE s.buf[b].ref
           f == IF s.buf[b].ref = 0 THEN Unlinked(s.free, b) ELSE s.free
<1>1. /\ s.buf \in [Buffers -> BufRec] /\ s.free \in Seq(Buffers)
      /\ s.pins \in [Procs -> [Buffers -> Nat]] /\ s.sem \in [Procs -> Nat]
      /\ s.buf[b].ref \in Nat /\ s.pins[p][b] \in Nat
  BY PoolFields
<1>2. s = [buf |-> s.buf, free |-> s.free, pins |-> s.pins, sem |-> s.sem]
  BY DEF PoolType
<1>3. t = [buf |-> [s.buf EXCEPT ![b].ref = r], free |-> f,
           pins |-> [s.pins EXCEPT ![p][b] = s.pins[p][b] + 1], sem |-> s.sem]
  BY <1>2 DEF PinBuffer
<1>4. /\ f \in Seq(Buffers)
      /\ \A i, j \in 1..Len(f) : f[i] = f[j] => i = j
      /\ \A c \in Buffers : (\E i \in 1..Len(f) : f[i] = c) <=>
            (c # b /\ \E i \in 1..Len(s.free) : s.free[i] = c)
  <2>1. CASE s.buf[b].ref = 0
    <3> DEFINE i == CHOOSE j \in DOMAIN s.free : s.free[j] = b
    <3>1. i \in 1..Len(s.free) /\ s.free[i] = b
      BY <2>1, PoolFields DEF Counts
    <3> HIDE DEF i
    <3>2. \A j, k \in 1..Len(s.free) : s.free[j] = s.free[k] => j = k
      BY DEF Counts
    <3>3. f = SubSeq(s.free, 1, i - 1) \o SubSeq(s.free, i + 1, Len(s.free))
      BY <2>1 DEF Unlinked, i
    <3>4. /\ SubSeq(s.free, 1, i - 1) \o SubSeq(s.free, i + 1, Len(s.free)) \in Seq(Buffers)
          /\ Without(s.free, SubSeq(s.free, 1, i - 1) \o SubSeq(s.free, i + 1, Len(s.free)), i)
      <4> HIDE DEF f
      <4> QED
        BY <1>1, <3>1, <3>2, TakeOut
    <3> QED
      <4>1. f \in Seq(Buffers) /\ Without(s.free, f, i)
        BY <3>3, <3>4, Zenon
      <4> HIDE DEF f
      <4> QED
        BY <3>1, <4>1 DEF Without
  <2>2. CASE s.buf[b].ref # 0
    BY <1>1, <2>2 DEF Counts
  <2> QED
    BY <2>1, <2>2
<1> HIDE DEF f
<1>5. /\ r \in Nat /\ r > 0 /\ r >= s.buf[b].ref
      /\ r = 1 - (IF s.pins[p][b] > 0 THEN 1 ELSE 0) + s.buf[b].ref
  <2>1. s.pins[p][b] > 0 => s.buf[b].ref > 0
    BY PinCounted
  <2> QED
    BY <1>1, <2>1
<1> HIDE DEF r
<1>6. [s.buf[b] EXCEPT !.ref = r] \in BufRec
  <2>1. s.buf[b] \in BufRec /\ r \in Nat
    BY <1>1, <1>5
  <2> QED
    BY <2>1 DEF BufRec
<1>7. /\ t.buf[b] = [s.buf[b] EXCEPT !.ref = r] /\ t.buf[b].ref = r
      /\ \A c \in Buffers \ {b} : t.buf[c] = s.buf[c]
      /\ t.buf \in [Buffers -> BufRec]
  BY <1>1, <1>3, <1>6 DEF BufRec
<1>8. /\ t.pins \in [Procs -> [Buffers -> Nat]] /\ t.pins[p][b] = s.pins[p][b] + 1
      /\ \A q \in Procs, c \in Buffers : q # p \/ c # b => t.pins[q][c] = s.pins[q][c]
  BY <1>1, <1>3
<1>9. t \in PoolType /\ t.free = f /\ t.sem = s.sem
  BY <1>1, <1>3, <1>4, <1>7, <1>8 DEF PoolType
<1>10. Differ(s, t, p, b)
  BY <1>7, <1>8 DEF Differ
<1>11. Counts(t)
  <2>1. t.buf[b].ref = (IF t.pins[p][b] > 0 THEN 1 ELSE 0) - (IF s.pins[p][b] > 0 THEN 1 ELSE 0)
                       + s.buf[b].ref
    BY <1>1, <1>5, <1>7, <1>8
  <2>2. \A c \in Buffers : (\E i \in 1..Len(t.free) : t.free[i] = c) <=>
            (IF c = b THEN t.buf[b].ref = 0 ELSE \E i \in 1..Len(s.free) : s.free[i] = c)
    <3>1. t.free = f /\ t.buf[b].ref # 0
      BY <1>5, <1>7, <1>9
    <3>2. ASSUME NEW c \in Buffers, c = b
          PROVE  ~\E i \in 1..Len(t.free) : t.free[i] = c
      BY <1>4, <3>1, <3>2, Zenon
    <3>3. ASSUME NEW c \in Buffers, c # b
          PROVE  (\E i \in 1..Len(t.free) : t.free[i] = c) <=> \E i \in 1..Len(s.free) : s.free[i] = c
      <4>1. (\E i \in 1..Len(f) : f[i] = c) <=> \E i \in 1..Len(s.free) : s.free[i] = c
        BY <1>4, <3>3
      <4> QED
        BY <3>1, <4>1, Zenon
    <3> QED
      BY <3>1, <3>2, <3>3
  <2>3. \A i, j \in 1..Len(t.free) : t.free[i] = t.free[j] => i = j
    BY <1>4, <1>9
  <2> QED
    BY <1>9, <1>10, <2>1, <2>2, <2>3, CountsStep
<1>12. Same(s, t) /\ t.buf[b].waiter = s.buf[b].waiter
  <2>1. /\ t.buf[b].tag = s.buf[b].tag /\ t.buf[b].page = s.buf[b].page /\ t.buf[b].io = s.buf[b].io
        /\ t.buf[b].dirty = s.buf[b].dirty /\ t.buf[b].just = s.buf[b].just
        /\ t.buf[b].cntx = s.buf[b].cntx /\ t.buf[b].err = s.buf[b].err
        /\ t.buf[b].waiter = s.buf[b].waiter
    BY <1>1, <1>7 DEF BufRec
  <2> QED
    BY <1>7, <2>1 DEF Same
<1> QED
  BY <1>5, <1>7, <1>8, <1>9, <1>10, <1>11, <1>12

\* Flags of buffers, tags and pages may change.
LEMMA CountsKept ==
    ASSUME NEW s \in PoolType, NEW t \in PoolType, Counts(s), t.free = s.free,
           \A p \in Procs, b \in Buffers : t.pins[p][b] > 0 <=> s.pins[p][b] > 0,
           \A b \in Buffers : t.buf[b].ref = s.buf[b].ref
    PROVE  Counts(t)
<1>1. \A b \in Buffers : PinnedBy(t, b) = PinnedBy(s, b)
  BY DEF PinnedBy
<1> QED
  BY <1>1 DEF Counts

LEMMA UnpinPool ==
    ASSUME NEW s \in PoolType, Counts(s), NEW p \in Procs, NEW b \in Buffers, s.pins[p][b] > 0,
           NEW t, t = UnpinBuffer(s, p, b)
    PROVE  /\ t \in PoolType /\ Counts(t) /\ Differ(s, t, p, b)
           /\ t.pins[p][b] = s.pins[p][b] - 1
           /\ Same(s, t)
           /\ \A q \in Procs : t.sem[q] >= s.sem[q]
           /\ \A q \in Procs : s.buf[b].waiter = q /\ s.buf[b].ref > 1 =>
                 t.sem[q] > 0 \/ (t.buf[b].waiter = q /\ t.buf[b].ref > 1)
<1> DEFINE r == IF s.pins[p][b] = 1 THEN s.buf[b].ref - 1 ELSE s.buf[b].ref
           w == s.buf[b].waiter
           signal == r = 1 /\ w # Nobody
           f == IF r = 0 THEN Append(s.free, b) ELSE s.free
           w2 == IF signal THEN Nobody ELSE w
           m == IF signal THEN [s.sem EXCEPT ![w] = s.sem[w] + 1] ELSE s.sem
<1>1. /\ s.buf \in [Buffers -> BufRec] /\ s.free \in Seq(Buffers)
      /\ s.pins \in [Procs -> [Buffers -> Nat]] /\ s.sem \in [Procs -> Nat]
      /\ s.buf[b].ref \in Nat /\ s.pins[p][b] \in Nat /\ s.buf[b] \in BufRec
      /\ w \in Procs \cup {Nobody} /\ Nobody \notin Procs
  BY PoolFields, ProcessesDistinct DEF BufRec, Procs
<1>2. s = [buf |-> s.buf, free |-> s.free, pins |-> s.pins, sem |-> s.sem]
  BY DEF PoolType
<1>3. /\ r \in Nat /\ s.buf[b].ref > 0
      /\ r = (IF s.pins[p][b] - 1 > 0 THEN 1 ELSE 0) - 1 + s.buf[b].ref
      /\ \A i \in 1..Len(s.free) : s.free[i] # b
  BY <1>1, PinCounted
<1>4. w2 \in Procs \cup {Nobody} /\ m \in [Procs -> Nat] /\ \A q \in Procs : m[q] >= s.sem[q]
  BY <1>1
<1>5. \A q \in Procs : w = q /\ s.buf[b].ref > 1 => m[q] > 0 \/ (w2 = q /\ r > 1)
  BY <1>1, <1>3
<1>6. /\ f \in Seq(Buffers)
      /\ \A c \in Buffers : (\E i \in 1..Len(f) : f[i] = c) <=>
            (IF c = b THEN r = 0 ELSE \E i \in 1..Len(s.free) : s.free[i] = c)
      /\ \A i, j \in 1..Len(f) : f[i] = f[j] => i = j
  <2>1. CASE r = 0
    <3>1. f = Append(s.free, b)
      BY <2>1
    <3>2. /\ f \in Seq(Buffers) /\ Len(f) = Len(s.free) + 1 /\ Len(s.free) \in Nat
          /\ \A i \in 1..Len(s.free) : f[i] = s.free[i]
          /\ f[Len(s.free) + 1] = b
      BY <1>1, <3>1, AppendProperties, LenProperties
    <3> HIDE DEF f, r
    <3>3. ASSUME NEW c \in Buffers
          PROVE  (\E i \in 1..Len(f) : f[i] = c) <=> (c = b \/ \E i \in 1..Len(s.free) : s.free[i] = c)
      BY <3>2
    <3>4. ASSUME NEW i \in 1..Len(f), NEW j \in 1..Len(f), f[i] = f[j] PROVE i = j
      <4>1. \A k, n \in 1..Len(s.free) : s.free[k] = s.free[n] => k = n
        BY DEF Counts
      <4>2. (i = Len(s.free) + 1 \/ i \in 1..Len(s.free)) /\ (j = Len(s.free) + 1 \/ j \in 1..Len(s.free))
        BY <3>2
      <4> QED
        BY <1>3, <3>2, <3>4, <4>1, <4>2
    <3>5. \A c \in Buffers : (\E i \in 1..Len(f) : f[i] = c) <=>
            (IF c = b THEN r = 0 ELSE \E i \in 1..Len(s.free) : s.free[i] = c)
      BY <2>1, <3>3
    <3> QED
      BY <3>2, <3>4, <3>5
  <2>2. CASE r # 0
    <3>1. f = s.free
      BY <2>2
    <3> HIDE DEF f, r
    <3> QED
      BY <1>1, <1>3, <2>2, <3>1 DEF Counts
  <2> QED
    BY <2>1, <2>2
<1>7. t = [buf |-> [s.buf EXCEPT ![b] = [s.buf[b] EXCEPT !.ref = r, !.waiter = w2]], free |-> f,
           pins |-> [s.pins EXCEPT ![p][b] = s.pins[p][b] - 1], sem |-> m]
  <2> DEFINE rec == [s.buf[b] EXCEPT !.ref = r, !.waiter = w2]
  <2>1. t = [s EXCEPT !.pins[p][b] = @ - 1, !.buf[b] = rec, !.free = f, !.sem = m]
    BY DEF UnpinBuffer
  <2> HIDE DEF r, f, m, w2, signal, w, rec
  <2>2. t = [buf |-> [s.buf EXCEPT ![b] = rec], free |-> f,
             pins |-> [s.pins EXCEPT ![p][b] = s.pins[p][b] - 1], sem |-> m]
    BY <1>2, <2>1
  <2> QED
    BY <2>2, Zenon DEF rec
<1> HIDE DEF r, w2, m, f
<1>8. [s.buf[b] EXCEPT !.ref = r, !.waiter = w2] \in BufRec
  BY <1>1, <1>3, <1>4 DEF BufRec
<1>9. /\ t.buf[b] = [s.buf[b] EXCEPT !.ref = r, !.waiter = w2]
      /\ t.buf[b].ref = r /\ t.buf[b].waiter = w2
      /\ \A c \in Buffers \ {b} : t.buf[c] = s.buf[c]
      /\ t.buf \in [Buffers -> BufRec]
  <2>1. t.buf = [s.buf EXCEPT ![b] = [s.buf[b] EXCEPT !.ref = r, !.waiter = w2]]
    BY <1>1, <1>7
  <2>2. /\ t.buf[b] = [s.buf[b] EXCEPT !.ref = r, !.waiter = w2]
        /\ \A c \in Buffers \ {b} : t.buf[c] = s.buf[c]
        /\ t.buf \in [Buffers -> BufRec]
    BY <1>1, <1>8, <2>1
  <2>3. t.buf[b].ref = r /\ t.buf[b].waiter = w2
    BY <1>1, <2>2 DEF BufRec
  <2> QED
    BY <2>2, <2>3
<1>10. /\ t.pins \in [Procs -> [Buffers -> Nat]] /\ t.pins[p][b] = s.pins[p][b] - 1
       /\ \A q \in Procs, c \in Buffers : q # p \/ c # b => t.pins[q][c] = s.pins[q][c]
  BY <1>1, <1>7
<1>11. t \in PoolType /\ t.free = f /\ t.sem = m
  BY <1>4, <1>6, <1>7, <1>9, <1>10 DEF PoolType
<1>12. Differ(s, t, p, b)
  BY <1>9, <1>10 DEF Differ
<1>13. Counts(t)
  <2>1. t.buf[b].ref = (IF t.pins[p][b] > 0 THEN 1 ELSE 0) - (IF s.pins[p][b] > 0 THEN 1 ELSE 0)
                       + s.buf[b].ref
    BY <1>1, <1>3, <1>9, <1>10
  <2>2. \A c \in Buffers : (\E i \in 1..Len(t.free) : t.free[i] = c) <=>
            (IF c = b THEN t.buf[b].ref = 0 ELSE \E i \in 1..Len(s.free) : s.free[i] = c)
    BY <1>6, <1>9, <1>11
  <2>3. \A i, j \in 1..Len(t.free) : t.free[i] = t.free[j] => i = j
    BY <1>6, <1>11
  <2> QED
    BY <1>11, <1>12, <2>1, <2>2, <2>3, CountsStep
<1>14. Same(s, t)
  <2>1. /\ t.buf[b].tag = s.buf[b].tag /\ t.buf[b].page = s.buf[b].page /\ t.buf[b].io = s.buf[b].io
        /\ t.buf[b].dirty = s.buf[b].dirty /\ t.buf[b].just = s.buf[b].just
        /\ t.buf[b].cntx = s.buf[b].cntx /\ t.buf[b].err = s.buf[b].err
    BY <1>1, <1>9 DEF BufRec
  <2> QED
    BY <1>9, <2>1 DEF Same
<1> QED
  BY <1>4, <1>5, <1>9, <1>10, <1>11, <1>12, <1>13, <1>14

\* GetFreeBuffer with what it does to the list.
TakeFrom(s, p, i) ==
    [s EXCEPT !.free = SubSeq(@, i + 1, Len(@)) \o SubSeq(@, 1, i - 1),
              !.buf[s.free[i]].ref = 1, !.pins[p][s.free[i]] = 1]

LEMMA TakePool ==
    ASSUME NEW s \in PoolType, Counts(s), NEW p \in Procs, NEW b \in Buffers,
           NEW i \in 1..Len(s.free), s.free[i] = b,
           NEW t, t = TakeFrom(s, p, i)
    PROVE  /\ \A q \in Procs : s.pins[q][b] = 0
           /\ t \in PoolType /\ Counts(t) /\ Differ(s, t, p, b) /\ t.sem = s.sem
           /\ t.pins[p][b] = 1 /\ Same(s, t) /\ t.buf[b].waiter = s.buf[b].waiter
<1> DEFINE f == SubSeq(s.free, i + 1, Len(s.free)) \o SubSeq(s.free, 1, i - 1)
<1>1. /\ s.buf \in [Buffers -> BufRec] /\ s.free \in Seq(Buffers)
      /\ s.pins \in [Procs -> [Buffers -> Nat]] /\ s.sem \in [Procs -> Nat]
      /\ s.buf[b] \in BufRec /\ \A q \in Procs : s.pins[q][b] \in Nat
  BY PoolFields
<1>2. s = [buf |-> s.buf, free |-> s.free, pins |-> s.pins, sem |-> s.sem]
  BY DEF PoolType
<1>3. s.buf[b].ref = 0
  BY <1>1 DEF Counts
<1>4. \A q \in Procs : s.pins[q][b] = 0
  <2>1. ASSUME NEW q \in Procs, s.pins[q][b] > 0 PROVE FALSE
    BY <1>1, <1>3, <2>1, PinCounted
  <2> QED
    BY <1>1, <2>1
<1>5. f \in Seq(Buffers) /\ Without(s.free, f, i)
  <2>1. \A j, k \in 1..Len(s.free) : s.free[j] = s.free[k] => j = k
    BY DEF Counts
  <2> QED
    BY <1>1, <2>1, TakeOut
<1>6. t = [buf |-> [s.buf EXCEPT ![b].ref = 1], free |-> f, pins |-> [s.pins EXCEPT ![p][b] = 1],
           sem |-> s.sem]
  BY <1>2 DEF TakeFrom
<1> HIDE DEF f
<1>7. [s.buf[b] EXCEPT !.ref = 1] \in BufRec
  BY <1>1 DEF BufRec
<1>8. /\ t.buf[b] = [s.buf[b] EXCEPT !.ref = 1] /\ t.buf[b].ref = 1
      /\ \A c \in Buffers \ {b} : t.buf[c] = s.buf[c]
      /\ t.buf \in [Buffers -> BufRec]
  <2>1. t.buf = [s.buf EXCEPT ![b] = [s.buf[b] EXCEPT !.ref = 1]]
    BY <1>1, <1>6
  <2>2. /\ t.buf[b] = [s.buf[b] EXCEPT !.ref = 1]
        /\ \A c \in Buffers \ {b} : t.buf[c] = s.buf[c]
        /\ t.buf \in [Buffers -> BufRec]
    BY <1>1, <1>7, <2>1
  <2>3. t.buf[b].ref = 1
    BY <1>1, <2>2 DEF BufRec
  <2> QED
    BY <2>2, <2>3
<1>9. /\ t.pins \in [Procs -> [Buffers -> Nat]] /\ t.pins[p][b] = 1
      /\ \A q \in Procs, c \in Buffers : q # p \/ c # b => t.pins[q][c] = s.pins[q][c]
  BY <1>1, <1>6
<1>10. t \in PoolType /\ t.free = f /\ t.sem = s.sem
  BY <1>1, <1>5, <1>6, <1>8, <1>9 DEF PoolType
<1>11. Differ(s, t, p, b)
  BY <1>8, <1>9 DEF Differ
<1>12. Counts(t)
  <2>1. t.buf[b].ref = (IF t.pins[p][b] > 0 THEN 1 ELSE 0) - (IF s.pins[p][b] > 0 THEN 1 ELSE 0)
                       + s.buf[b].ref
    BY <1>3, <1>4, <1>8, <1>9
  <2>2. \A c \in Buffers : (\E j \in 1..Len(t.free) : t.free[j] = c) <=>
            (IF c = b THEN t.buf[b].ref = 0 ELSE \E j \in 1..Len(s.free) : s.free[j] = c)
    <3>1. t.free = f /\ t.buf[b].ref # 0
      BY <1>8, <1>10
    <3>2. \A c \in Buffers : (\E j \in 1..Len(f) : f[j] = c) <=> c # b /\ \E j \in 1..Len(s.free) : s.free[j] = c
      BY <1>5, Zenon DEF Without
    <3>3. ASSUME NEW c \in Buffers, c = b
          PROVE  ~\E j \in 1..Len(t.free) : t.free[j] = c
      BY <3>1, <3>2, <3>3, Zenon
    <3>4. ASSUME NEW c \in Buffers, c # b
          PROVE  (\E j \in 1..Len(t.free) : t.free[j] = c) <=> \E j \in 1..Len(s.free) : s.free[j] = c
      BY <3>1, <3>2, <3>4, Zenon
    <3> QED
      BY <3>1, <3>3, <3>4
  <2>3. \A j, k \in 1..Len(t.free) : t.free[j] = t.free[k] => j = k
    BY <1>5, <1>10 DEF Without
  <2> QED
    BY <1>10, <1>11, <2>1, <2>2, <2>3, CountsStep
<1>13. Same(s, t) /\ t.buf[b].waiter = s.buf[b].waiter
  <2>1. /\ t.buf[b].tag = s.buf[b].tag /\ t.buf[b].page = s.buf[b].page /\ t.buf[b].io = s.buf[b].io
        /\ t.buf[b].dirty = s.buf[b].dirty /\ t.buf[b].just = s.buf[b].just
        /\ t.buf[b].cntx = s.buf[b].cntx /\ t.buf[b].err = s.buf[b].err
        /\ t.buf[b].waiter = s.buf[b].waiter
    BY <1>1, <1>8 DEF BufRec
  <2> QED
    BY <1>8, <2>1 DEF Same
<1> QED
  BY <1>4, <1>9, <1>10, <1>11, <1>12, <1>13
-----------------------------------------------------------------------------
(***************************************************************************)
(* The parts of a step under BufMgrLock keep the invariant.                *)
(***************************************************************************)
\* p gives up a pin of b, and what it knew of the page with the last one.
LEMMA UnpinCore ==
    ASSUME NEW s, NEW at, NEW loc, NEW wnt, NEW look, NEW chg, Core(s, at, loc, wnt, look, chg),
           NEW p \in Procs, NEW b \in Buffers, s.pins[p][b] > 0, ~Holds(p, b),
           at[p] \notin Doing \cup {"waitio", "cleanup", "sleeping"},
           NEW t, t = UnpinBuffer(s, p, b),
           NEW look2 \in [Procs -> SUBSET Buffers], NEW chg2 \in [Procs -> SUBSET Buffers],
           \A q \in Procs : look2[q] \subseteq look[q] /\ chg2[q] \subseteq chg[q],
           s.pins[p][b] = 1 => b \notin look2[p] /\ b \notin chg2[p]
    PROVE  Core(t, at, loc, wnt, look2, chg2)
<1>1. s \in PoolType /\ Counts(s) /\ Types(s, at, loc, wnt, look, chg)
  BY DEF Core, Types
<1>2. /\ t \in PoolType /\ Counts(t) /\ Differ(s, t, p, b)
      /\ t.pins[p][b] = s.pins[p][b] - 1
      /\ Same(s, t)
      /\ \A q \in Procs : t.sem[q] >= s.sem[q]
      /\ \A q \in Procs : s.buf[b].waiter = q /\ s.buf[b].ref > 1 =>
            t.sem[q] > 0 \/ (t.buf[b].waiter = q /\ t.buf[b].ref > 1)
  BY <1>1, UnpinPool
<1>3. Same(s, t)
  BY <1>2
<1>4. \A q \in Procs, c \in Buffers : /\ s.pins[q][c] \in Nat /\ t.pins[q][c] \in Nat
                                      /\ t.pins[q][c] > 0 => s.pins[q][c] > 0
                                      /\ q # p \/ c # b => t.pins[q][c] = s.pins[q][c]
  BY <1>1, <1>2, PoolFields DEF Differ
<1>5. \A q \in Procs : at[q] \in PCs /\ loc[q] \in Buffers /\ look[q] \subseteq Buffers
  BY <1>1 DEF Types
<1>6. Types(t, at, loc, wnt, look2, chg2)
  BY <1>1, <1>2 DEF Types
<1>7. Tags(t)
  BY <1>3, <1>4 DEF Core, Tags, Same, Unwritten
<1>8. Places(t, at, loc, wnt)
  BY <1>3, <1>4, <1>5 DEF Core, Places, Same, Doing
<1>9. Locks(t, at, loc, wnt, look2, chg2)
  <2>1. Locks(s, at, loc, wnt, look, chg)
    BY DEF Core
  <2>2. /\ look2[Checkpointer] = {} /\ chg2[Checkpointer] = {} /\ at[Checkpointer] # "sleeping"
        /\ \A c \in Buffers :
              /\ excl[c] # Nobody => share[c] = {}
              /\ cleaning[c] # Nobody => excl[c] = cleaning[c]
              /\ excl[c] # Checkpointer
              /\ excl[c] # Nobody => t.buf[c].cntx
              /\ Checkpointer \in share[c] <=> at[Checkpointer] = "syncwrite" /\ loc[Checkpointer] = c
    BY <1>3, <2>1 DEF Locks, Procs, Same
  <2>3. ASSUME NEW q \in Procs, NEW c \in Buffers
        PROVE  /\ Holds(q, c) => /\ t.pins[q][c] > 0 /\ at[q] \notin Failing
                                 /\ at[q] \in Replacing => t.buf[c].tag # wnt[q]
                                 /\ loc[q] = c => at[q] \notin {"waitio", "reading"} \cup Replacing
               /\ at[q] = "cleanup" /\ loc[q] = c => excl[c] = q /\ cleaning[c] = Nobody
               /\ c \in chg2[q] => t.pins[q][c] > 0 /\ q \notin share[c]
               /\ c \in look2[q] => t.pins[q][c] > 0 /\ (cleaning[c] # Nobody => cleaning[c] = q)
               /\ at[q] \in Replacing /\ loc[q] = c => c \notin look2[q] /\ c \notin chg2[q]
    <3>1. c \in look2[q] \/ c \in chg2[q] => t.pins[q][c] > 0
      BY <1>2, <1>4, <2>1 DEF Locks
    <3>2. Holds(q, c) => t.pins[q][c] > 0
      BY <1>4, <2>1 DEF Locks
    <3> QED
      BY <1>3, <2>1, <3>1, <3>2 DEF Locks, Same
  <2> QED
    BY <2>2, <2>3 DEF Locks
<1>10. Signals(t, at, loc)
  <2>1. ASSUME NEW q \in Procs, at[q] = "sleeping", t.sem[q] = 0
        PROVE  t.buf[loc[q]].waiter = q /\ t.buf[loc[q]].ref > 1
    <3>1. s.sem[q] = 0
      BY <1>1, <1>2, <2>1, PoolFields
    <3>2. s.buf[loc[q]].waiter = q /\ s.buf[loc[q]].ref > 1
      BY <2>1, <3>1 DEF Core, Signals
    <3>3. loc[q] # b => t.buf[loc[q]] = s.buf[loc[q]]
      BY <1>2, <1>5 DEF Differ
    <3> QED
      BY <1>2, <2>1, <3>2, <3>3
  <2> QED
    BY <2>1 DEF Signals
<1>11. Logs(t, at, loc)
  BY <1>3, <1>5 DEF Core, Logs, Same
<1>12. Contents(t, at, loc)
  <2>1. \A c \in Buffers : Bad(t, at, loc, c) <=> Bad(s, at, loc, c)
    BY <1>3 DEF Bad, Same
  <2> QED
    BY <1>3, <1>4, <1>5, <2>1 DEF Core, Contents, Same, Unwritten
<1> QED
  BY <1>2, <1>6, <1>7, <1>8, <1>9, <1>10, <1>11, <1>12 DEF Core
-----------------------------------------------------------------------------
\* One buffer gets other flags, another name or page; it keeps its count.
Put(s, b, r) == [s EXCEPT !.buf[b] = r]

LEMMA SetBuffer ==
    ASSUME NEW s \in PoolType, NEW b \in Buffers, NEW r \in BufRec, r.ref = s.buf[b].ref,
           NEW t, t = Put(s, b, r)
    PROVE  /\ t \in PoolType /\ t.buf[b] = r /\ \A c \in Buffers \ {b} : t.buf[c] = s.buf[c]
           /\ t.pins = s.pins /\ t.free = s.free /\ t.sem = s.sem
           /\ Counts(s) => Counts(t)
<1>1. s = [buf |-> s.buf, free |-> s.free, pins |-> s.pins, sem |-> s.sem] /\ s.buf \in [Buffers -> BufRec]
  BY DEF PoolType
<1>2. t = [buf |-> [s.buf EXCEPT ![b] = r], free |-> s.free, pins |-> s.pins, sem |-> s.sem]
  BY <1>1 DEF Put
<1>3. /\ t.buf = [s.buf EXCEPT ![b] = r] /\ t.pins = s.pins /\ t.free = s.free /\ t.sem = s.sem
      /\ t = [buf |-> t.buf, free |-> t.free, pins |-> t.pins, sem |-> t.sem]
  BY <1>2
<1>4. t.buf[b] = r /\ \A c \in Buffers \ {b} : t.buf[c] = s.buf[c]
  BY <1>1, <1>3
<1>5. t.buf \in [Buffers -> BufRec]
  BY <1>1, <1>3
<1>6. t \in PoolType
  <2>1. s.free \in Seq(Buffers) /\ s.pins \in [Procs -> [Buffers -> Nat]] /\ s.sem \in [Procs -> Nat]
    BY PoolFields
  <2> QED
    BY <1>3, <1>5, <2>1 DEF PoolType
<1>7. Counts(s) => Counts(t)
  <2>1. \A c \in Buffers : t.buf[c].ref = s.buf[c].ref
    BY <1>4
  <2> QED
    BY <1>3, <1>6, <2>1, CountsKept
<1> QED
  BY <1>3, <1>4, <1>6, <1>7

\* The block that p wants is in b: p has it pinned before it looks at the flags.
LEMMA PinCore ==
    ASSUME NEW s, NEW at, NEW loc, NEW wnt, NEW look, NEW chg, Core(s, at, loc, wnt, look, chg),
           NEW p \in Procs, NEW b \in Buffers, at[p] = "idle", s.buf[b].tag # NoBlock, ~Holds(p, b),
           NEW t, t = PinBuffer(s, p, b),
           NEW at2, at2 = [at EXCEPT ![p] = "waitio"], NEW loc2, loc2 = [loc EXCEPT ![p] = b]
    PROVE  Core(t, at2, loc2, wnt, look, chg) /\ \A c \in Buffers : t.buf[c].tag = s.buf[c].tag
<1>1. s \in PoolType /\ Counts(s) /\ Types(s, at, loc, wnt, look, chg)
  BY DEF Core, Types
<1>2. /\ t \in PoolType /\ Counts(t) /\ Differ(s, t, p, b) /\ t.sem = s.sem
      /\ t.pins[p][b] = s.pins[p][b] + 1
      /\ Same(s, t) /\ t.buf[b].ref >= s.buf[b].ref /\ t.buf[b].waiter = s.buf[b].waiter
  BY <1>1, PinPool
<1>3. Same(s, t)
  BY <1>2
<1>4. \A q \in Procs, c \in Buffers : /\ s.pins[q][c] \in Nat /\ t.pins[q][c] \in Nat
                                      /\ s.pins[q][c] > 0 => t.pins[q][c] > 0
                                      /\ q # p \/ c # b => t.pins[q][c] = s.pins[q][c]
  BY <1>1, <1>2, PoolFields DEF Differ
<1>5. t.pins[p][b] > 0
  BY <1>1, <1>2, PoolFields
<1>6. /\ \A q \in Procs : at[q] \in PCs /\ loc[q] \in Buffers /\ look[q] \subseteq Buffers
      /\ at2 \in [Procs -> PCs] /\ loc2 \in [Procs -> Buffers]
      /\ at2[p] = "waitio" /\ loc2[p] = b
      /\ \A q \in Procs \ {p} : at2[q] = at[q] /\ loc2[q] = loc[q]
  BY <1>1 DEF Types, PCs
<1>7. Types(t, at2, loc2, wnt, look, chg)
  BY <1>1, <1>2, <1>6 DEF Types
<1>8. Tags(t)
  BY <1>3, <1>4 DEF Core, Tags, Same, Unwritten
<1>9. Places(t, at2, loc2, wnt)
  <2>1. ASSUME NEW q \in Procs, q # p
        PROVE  /\ at2[q] \in Doing \cup {"waitio", "cleanup", "sleeping"} => t.pins[q][loc2[q]] > 0
               /\ at2[q] \in Doing =>
                     /\ t.buf[loc2[q]].io
                     /\ \A o \in Procs : at2[o] \in Doing /\ loc2[o] = loc2[q] => o = q
               /\ at2[q] \in Replacing =>
                     /\ wnt[q] \in Blocks
                     /\ \A o \in Procs \ {q} : t.pins[o][loc2[q]] > 0 => at2[o] = "waitio" /\ loc2[o] = loc2[q]
               /\ at2[q] \in Syncing => q = Checkpointer /\ loc2[q] = next
    BY <1>3, <1>4, <1>6, <2>1 DEF Core, Places, Same, Doing, Reading, Replacing, Syncing
  <2> QED
    BY <1>5, <1>6, <2>1 DEF Places, Doing, Reading, Replacing, Syncing
<1>10. Locks(t, at2, loc2, wnt, look, chg)
  BY <1>3, <1>4, <1>5, <1>6 DEF Core, Locks, Same, Failing, Replacing
<1>11. Signals(t, at2, loc2)
  <2>1. ASSUME NEW q \in Procs, at2[q] = "sleeping", t.sem[q] = 0
        PROVE  t.buf[loc2[q]].waiter = q /\ t.buf[loc2[q]].ref > 1
    <3>1. q # p /\ at[q] = "sleeping" /\ loc2[q] = loc[q] /\ s.sem[q] = 0 /\ loc[q] \in Buffers
      BY <1>2, <1>6, <2>1
    <3>2. s.buf[loc[q]].waiter = q /\ s.buf[loc[q]].ref > 1
      BY <3>1 DEF Core, Signals
    <3>3. loc[q] # b => t.buf[loc[q]] = s.buf[loc[q]]
      BY <1>2, <3>1 DEF Differ
    <3>4. t.buf[b].ref \in Nat /\ s.buf[b].ref \in Nat
      BY <1>1, <1>2, PoolFields
    <3> QED
      BY <1>2, <3>1, <3>2, <3>3, <3>4
  <2> QED
    BY <2>1 DEF Signals
<1>12. Logs(t, at2, loc2)
  BY <1>3, <1>6 DEF Core, Logs, Same
<1>13. Contents(t, at2, loc2)
  <2>1. \A c \in Buffers : Bad(t, at2, loc2, c) <=> Bad(s, at, loc, c)
    BY <1>3, <1>6 DEF Bad, Same, Reading
  <2>2. SUFFICES ASSUME "write" \notin plan.may PROVE Contents(t, at2, loc2)
    BY DEF Contents
  <2>3. ASSUME NEW c \in Buffers, Bad(t, at2, loc2, c)
        PROVE  /\ ~Unwritten(t.buf[c])
               /\ \A q \in Procs : t.pins[q][c] > 0 =>
                     \/ at2[q] \in Reading \cup {"waitio"} /\ loc2[q] = c
                     \/ at2[q] \in {"unlock", "unpin"}
    <3>1. /\ ~Unwritten(s.buf[c])
          /\ \A q \in Procs : s.pins[q][c] > 0 =>
                \/ at[q] \in Reading \cup {"waitio"} /\ loc[q] = c
                \/ at[q] \in {"unlock", "unpin"}
      BY <2>1, <2>2, <2>3 DEF Core, Contents
    <3> QED
      BY <1>3, <1>4, <1>6, <3>1 DEF Same, Unwritten, Reading
  <2>4. /\ \A c \in Buffers : s.buf[c].tag # NoBlock =>
              /\ Bad(s, at, loc, c) \/ s.buf[c].page = latest[s.buf[c].tag]
              /\ s.buf[c].cntx \/ disk[s.buf[c].tag] = latest[s.buf[c].tag]
        /\ \A k \in Blocks : disk[k] = latest[k] \/ \E c \in Buffers : s.buf[c].tag = k
        /\ \A q \in Procs : /\ at[q] # "abortout"
                            /\ at[q] = "written" =>
                                  disk[s.buf[loc[q]].tag] = latest[s.buf[loc[q]].tag]
    BY <2>2 DEF Core, Contents
  <2>5. \A c \in Buffers : t.buf[c].tag # NoBlock =>
              /\ Bad(t, at2, loc2, c) \/ t.buf[c].page = latest[t.buf[c].tag]
              /\ t.buf[c].cntx \/ disk[t.buf[c].tag] = latest[t.buf[c].tag]
    <3>1. ASSUME NEW c \in Buffers, t.buf[c].tag # NoBlock
          PROVE  /\ Bad(t, at2, loc2, c) \/ t.buf[c].page = latest[t.buf[c].tag]
                 /\ t.buf[c].cntx \/ disk[t.buf[c].tag] = latest[t.buf[c].tag]
      <4>1. t.buf[c].tag = s.buf[c].tag /\ t.buf[c].page = s.buf[c].page /\ t.buf[c].cntx = s.buf[c].cntx
        BY <1>3 DEF Same
      <4>2. /\ Bad(s, at, loc, c) \/ s.buf[c].page = latest[s.buf[c].tag]
            /\ s.buf[c].cntx \/ disk[s.buf[c].tag] = latest[s.buf[c].tag]
        BY <2>4, <3>1, <4>1
      <4>3. Bad(s, at, loc, c) => Bad(t, at2, loc2, c)
        BY <2>1
      <4> QED
        BY <4>1, <4>2, <4>3
    <3> QED
      BY <3>1
  <2>6. \A k \in Blocks : disk[k] = latest[k] \/ \E c \in Buffers : t.buf[c].tag = k
    BY <1>3, <2>4 DEF Same
  <2>7. \A q \in Procs : /\ at2[q] # "abortout"
                         /\ at2[q] = "written" =>
                               disk[t.buf[loc2[q]].tag] = latest[t.buf[loc2[q]].tag]
    BY <1>3, <1>6, <2>4 DEF Same
  <2> QED
    BY <2>3, <2>5, <2>6, <2>7 DEF Contents
<1> QED
  BY <1>2, <1>3, <1>7, <1>8, <1>9, <1>10, <1>11, <1>12, <1>13 DEF Core, Same

\* No I/O on the buffer, and its page cannot be used: p reads it again.
SetIO(s, b) == [s EXCEPT !.buf[b].io = TRUE]

LEMMA ReadAgainCore ==
    ASSUME NEW s, NEW at, NEW loc, NEW wnt, NEW look, NEW chg, Core(s, at, loc, wnt, look, chg),
           NEW p \in Procs, NEW b \in Buffers, at[p] = "waitio", loc[p] = b,
           ~s.buf[b].io, BUFFER_IS_BROKEN(s.buf[b]),
           NEW t, t = SetIO(s, b),
           NEW at2, at2 = [at EXCEPT ![p] = "reading"]
    PROVE  Core(t, at2, loc, wnt, look, chg) /\ \A c \in Buffers : t.buf[c].tag = s.buf[c].tag
<1> DEFINE r == [s.buf[b] EXCEPT !.io = TRUE]
<1>1. s \in PoolType /\ Counts(s) /\ Types(s, at, loc, wnt, look, chg) /\ s.buf[b] \in BufRec
  BY PoolFields DEF Core, Types
<1>2. /\ r \in BufRec /\ r.ref = s.buf[b].ref /\ r.waiter = s.buf[b].waiter /\ r.tag = s.buf[b].tag
      /\ r.page = s.buf[b].page /\ r.dirty = s.buf[b].dirty /\ r.cntx = s.buf[b].cntx
      /\ r.err = s.buf[b].err /\ r.io = TRUE
  BY <1>1 DEF BufRec
<1>3. t = Put(s, b, r)
  BY <1>1 DEF PoolType, Put, SetIO
<1> HIDE DEF r
<1>4. /\ t \in PoolType /\ t.buf[b] = r /\ \A c \in Buffers \ {b} : t.buf[c] = s.buf[c]
      /\ t.pins = s.pins /\ t.free = s.free /\ t.sem = s.sem /\ Counts(t)
  BY <1>1, <1>2, <1>3, SetBuffer
<1>5. /\ \A c \in Buffers : /\ t.buf[c].tag = s.buf[c].tag /\ t.buf[c].page = s.buf[c].page
                            /\ t.buf[c].dirty = s.buf[c].dirty /\ t.buf[c].cntx = s.buf[c].cntx
                            /\ t.buf[c].err = s.buf[c].err /\ t.buf[c].ref = s.buf[c].ref
                            /\ t.buf[c].waiter = s.buf[c].waiter
                            /\ c # b => t.buf[c].io = s.buf[c].io
      /\ t.buf[b].io = TRUE
  BY <1>2, <1>4
<1>6. /\ \A q \in Procs : at[q] \in PCs /\ loc[q] \in Buffers
      /\ at2 \in [Procs -> PCs] /\ at2[p] = "reading" /\ \A q \in Procs \ {p} : at2[q] = at[q]
  BY <1>1 DEF Types, PCs, Doing, Reading
<1>7. Types(t, at2, loc, wnt, look, chg)
  BY <1>1, <1>4, <1>6 DEF Types
<1>8. Tags(t)
  BY <1>4, <1>5 DEF Core, Tags, Unwritten
<1>9. Places(t, at2, loc, wnt)
  <2>1. Places(s, at, loc, wnt)
    BY DEF Core
  <2>2. \A q \in Procs : at[q] \in Doing => loc[q] # b
    BY <2>1 DEF Places
  <2>3. t.pins[p][b] > 0
    BY <1>4, <2>1 DEF Places
  <2>4. ASSUME NEW q \in Procs, q # p
        PROVE  /\ at2[q] \in Doing \cup {"waitio", "cleanup", "sleeping"} => t.pins[q][loc[q]] > 0
               /\ at2[q] \in Doing =>
                     /\ t.buf[loc[q]].io
                     /\ \A o \in Procs : at2[o] \in Doing /\ loc[o] = loc[q] => o = q
               /\ at2[q] \in Replacing =>
                     /\ wnt[q] \in Blocks
                     /\ \A o \in Procs \ {q} : t.pins[o][loc[q]] > 0 => at2[o] = "waitio" /\ loc[o] = loc[q]
               /\ at2[q] \in Syncing => q = Checkpointer /\ loc[q] = next
    BY <1>4, <1>5, <1>6, <2>1, <2>2, <2>4 DEF Places, Doing, Replacing
  <2>5. \A o \in Procs : at2[o] \in Doing /\ loc[o] = b => o = p
    BY <1>6, <2>2
  <2> QED
    BY <1>5, <1>6, <2>3, <2>4, <2>5 DEF Places, Doing, Reading, Replacing, Syncing
<1>10. Locks(t, at2, loc, wnt, look, chg)
  BY <1>4, <1>5, <1>6 DEF Core, Locks, Failing, Replacing
<1>11. Signals(t, at2, loc)
  BY <1>4, <1>5, <1>6 DEF Core, Signals
<1>12. Logs(t, at2, loc)
  BY <1>5, <1>6 DEF Core, Logs
<1>13. Contents(t, at2, loc)
  <2>1. \A c \in Buffers : Bad(t, at2, loc, c) <=> Bad(s, at, loc, c)
    <3>1. Bad(s, at, loc, b) /\ Bad(t, at2, loc, b)
      BY <1>5, <1>6 DEF Bad, Reading, BUFFER_IS_BROKEN
    <3>2. \A c \in Buffers \ {b} : Bad(t, at2, loc, c) <=> Bad(s, at, loc, c)
      BY <1>5, <1>6 DEF Bad, Reading
    <3> QED
      BY <3>1, <3>2
  <2>2. SUFFICES ASSUME "write" \notin plan.may PROVE Contents(t, at2, loc)
    BY DEF Contents
  <2>3. ASSUME NEW c \in Buffers, Bad(t, at2, loc, c)
        PROVE  /\ ~Unwritten(t.buf[c])
               /\ \A q \in Procs : t.pins[q][c] > 0 =>
                     \/ at2[q] \in Reading \cup {"waitio"} /\ loc[q] = c
                     \/ at2[q] \in {"unlock", "unpin"}
    <3>1. /\ ~Unwritten(s.buf[c])
          /\ \A q \in Procs : s.pins[q][c] > 0 =>
                \/ at[q] \in Reading \cup {"waitio"} /\ loc[q] = c
                \/ at[q] \in {"unlock", "unpin"}
      BY <2>1, <2>2, <2>3 DEF Core, Contents
    <3> QED
      BY <1>4, <1>5, <1>6, <3>1 DEF Unwritten, Reading
  <2>4. /\ \A c \in Buffers : s.buf[c].tag # NoBlock =>
              /\ Bad(s, at, loc, c) \/ s.buf[c].page = latest[s.buf[c].tag]
              /\ s.buf[c].cntx \/ disk[s.buf[c].tag] = latest[s.buf[c].tag]
        /\ \A k \in Blocks : disk[k] = latest[k] \/ \E c \in Buffers : s.buf[c].tag = k
        /\ \A q \in Procs : /\ at[q] # "abortout"
                            /\ at[q] = "written" =>
                                  disk[s.buf[loc[q]].tag] = latest[s.buf[loc[q]].tag]
    BY <2>2 DEF Core, Contents
  <2>5. ASSUME NEW c \in Buffers, t.buf[c].tag # NoBlock
        PROVE  /\ Bad(t, at2, loc, c) \/ t.buf[c].page = latest[t.buf[c].tag]
               /\ t.buf[c].cntx \/ disk[t.buf[c].tag] = latest[t.buf[c].tag]
    <3>1. /\ Bad(s, at, loc, c) \/ s.buf[c].page = latest[s.buf[c].tag]
          /\ s.buf[c].cntx \/ disk[s.buf[c].tag] = latest[s.buf[c].tag]
      BY <1>5, <2>4, <2>5
    <3> QED
      BY <1>5, <2>1, <3>1
  <2>6. \A k \in Blocks : disk[k] = latest[k] \/ \E c \in Buffers : t.buf[c].tag = k
    BY <1>5, <2>4
  <2>7. \A q \in Procs : /\ at2[q] # "abortout"
                         /\ at2[q] = "written" =>
                               disk[t.buf[loc[q]].tag] = latest[t.buf[loc[q]].tag]
    BY <1>5, <1>6, <2>4
  <2> QED
    BY <2>3, <2>5, <2>6, <2>7 DEF Contents
<1> QED
  BY <1>4, <1>5, <1>7, <1>8, <1>9, <1>10, <1>11, <1>12, <1>13 DEF Core

\* No I/O on the buffer, and its page is good: ReadBuffer is done.
LEMMA FoundCore ==
    ASSUME NEW s, NEW at, NEW loc, NEW wnt, NEW look, NEW chg, Core(s, at, loc, wnt, look, chg),
           NEW p \in Procs, NEW b \in Buffers, at[p] = "waitio", loc[p] = b,
           ~s.buf[b].io, ~BUFFER_IS_BROKEN(s.buf[b]),
           NEW at2, at2 = [at EXCEPT ![p] = "idle"]
    PROVE  Core(s, at2, loc, wnt, look, chg)
<1>1. s \in PoolType /\ Counts(s) /\ Types(s, at, loc, wnt, look, chg)
  BY DEF Core, Types
<1>2. /\ \A q \in Procs : at[q] \in PCs /\ loc[q] \in Buffers
      /\ at2 \in [Procs -> PCs] /\ at2[p] = "idle" /\ \A q \in Procs \ {p} : at2[q] = at[q]
  BY <1>1 DEF Types, PCs
<1>3. Types(s, at2, loc, wnt, look, chg)
  BY <1>1, <1>2 DEF Types
<1>4. \A q \in Procs : at[q] \in Doing => loc[q] # b
  BY DEF Core, Places
<1>5. Places(s, at2, loc, wnt)
  BY <1>2, <1>4 DEF Core, Places, Doing, Reading, Replacing, Syncing
<1>6. Locks(s, at2, loc, wnt, look, chg)
  BY <1>2 DEF Core, Locks, Failing, Replacing
<1>7. Signals(s, at2, loc)
  BY <1>2 DEF Core, Signals
<1>8. Logs(s, at2, loc)
  BY <1>2 DEF Core, Logs
<1>9. Contents(s, at2, loc)
  <2>1. SUFFICES ASSUME "write" \notin plan.may PROVE Contents(s, at2, loc)
    BY DEF Contents
  <2>2. \A c \in Buffers : Bad(s, at2, loc, c) <=> Bad(s, at, loc, c)
    BY <1>2 DEF Bad, Reading
  <2>3. ~Bad(s, at, loc, b)
    <3>1. SUFFICES ASSUME Bad(s, at, loc, b) PROVE FALSE
      OBVIOUS
    <3>2. ~Unwritten(s.buf[b])
      BY <2>1, <3>1 DEF Core, Contents
    <3>3. \A q \in Procs : at[q] \in Reading => loc[q] # b
      BY <1>4 DEF Doing
    <3> QED
      BY <3>1, <3>2, <3>3 DEF Bad, Unwritten, BUFFER_IS_BROKEN
  <2>4. ASSUME NEW c \in Buffers, Bad(s, at2, loc, c)
        PROVE  /\ ~Unwritten(s.buf[c])
               /\ \A q \in Procs : s.pins[q][c] > 0 =>
                     \/ at2[q] \in Reading \cup {"waitio"} /\ loc[q] = c
                     \/ at2[q] \in {"unlock", "unpin"}
    <3>1. /\ ~Unwritten(s.buf[c])
          /\ \A q \in Procs : s.pins[q][c] > 0 =>
                \/ at[q] \in Reading \cup {"waitio"} /\ loc[q] = c
                \/ at[q] \in {"unlock", "unpin"}
      BY <2>1, <2>2, <2>4 DEF Core, Contents
    <3>2. c # b
      BY <2>2, <2>3, <2>4
    <3> QED
      BY <1>2, <3>1, <3>2 DEF Reading
  <2>5. /\ \A c \in Buffers : s.buf[c].tag # NoBlock =>
              /\ Bad(s, at, loc, c) \/ s.buf[c].page = latest[s.buf[c].tag]
              /\ s.buf[c].cntx \/ disk[s.buf[c].tag] = latest[s.buf[c].tag]
        /\ \A k \in Blocks : disk[k] = latest[k] \/ \E c \in Buffers : s.buf[c].tag = k
        /\ \A q \in Procs : /\ at[q] # "abortout"
                            /\ at[q] = "written" =>
                                  disk[s.buf[loc[q]].tag] = latest[s.buf[loc[q]].tag]
    BY <2>1 DEF Core, Contents
  <2>6. \A q \in Procs : /\ at2[q] # "abortout"
                         /\ at2[q] = "written" =>
                               disk[s.buf[loc[q]].tag] = latest[s.buf[loc[q]].tag]
    BY <1>2, <2>5
  <2> QED
    BY <2>2, <2>4, <2>5, <2>6 DEF Contents
<1> QED
  BY <1>3, <1>5, <1>6, <1>7, <1>8, <1>9 DEF Core

\* Buffers that get another name had a page that is on disk.
Moved(s, t) ==
    "write" \notin plan.may =>
        \A b \in Buffers : t.buf[b].tag = s.buf[b].tag \/ s.buf[b].tag = NoBlock
                           \/ disk[s.buf[b].tag] = latest[s.buf[b].tag]

\* A clean buffer that nobody else has pinned gets the name of a block that is
\* in no buffer, and p reads it.
Renamed(s, at, loc, look, chg, t, at2, loc2, p, b, k) ==
    /\ at[p] = "idle" /\ \A q \in Procs \ {p} : s.pins[q][b] = 0
    /\ ~Unwritten(s.buf[b]) /\ ~Holds(p, b) /\ b \notin look[p] /\ b \notin chg[p]
    /\ \A c \in Buffers : s.buf[c].tag # k
    /\ t \in PoolType /\ Counts(t) /\ Differ(s, t, p, b) /\ t.sem = s.sem /\ t.pins[p][b] > 0
    /\ t.buf[b].tag = k /\ t.buf[b].io = TRUE
    /\ t.buf[b].dirty = s.buf[b].dirty /\ t.buf[b].cntx = s.buf[b].cntx
    /\ at2 = [at EXCEPT ![p] = "reading"] /\ loc2 = [loc EXCEPT ![p] = b]

LEMMA RenameCore ==
    ASSUME NEW s, NEW at, NEW loc, NEW wnt, NEW look, NEW chg, Core(s, at, loc, wnt, look, chg),
           NEW p \in Procs, NEW b \in Buffers, NEW k \in Blocks, NEW t, NEW at2, NEW loc2,
           Renamed(s, at, loc, look, chg, t, at2, loc2, p, b, k)
    PROVE  Core(t, at2, loc2, wnt, look, chg) /\ Moved(s, t)
<1> USE DEF Renamed
<1>1. s \in PoolType /\ Counts(s) /\ Types(s, at, loc, wnt, look, chg) /\ s.buf[b] \in BufRec /\ k # NoBlock
  BY PoolFields, ProcessesDistinct DEF Core, Types, NoBlock
<1>2. /\ \A q \in Procs, c \in Buffers : /\ s.pins[q][c] \in Nat /\ t.pins[q][c] \in Nat
                                         /\ q # p \/ c # b => t.pins[q][c] = s.pins[q][c]
                                         /\ s.pins[q][c] > 0 => t.pins[q][c] > 0
      /\ \A c \in Buffers \ {b} : t.buf[c] = s.buf[c]
      /\ \A q \in Procs \ {p} : t.pins[q][b] = 0
  BY <1>1, PoolFields DEF Differ
<1>3. /\ \A q \in Procs : at[q] \in PCs /\ loc[q] \in Buffers
      /\ at2 \in [Procs -> PCs] /\ loc2 \in [Procs -> Buffers]
      /\ at2[p] = "reading" /\ loc2[p] = b
      /\ \A q \in Procs \ {p} : at2[q] = at[q] /\ loc2[q] = loc[q]
  BY <1>1 DEF Types, PCs, Doing, Reading
<1>4. Types(t, at2, loc2, wnt, look, chg)
  BY <1>1, <1>3 DEF Types
<1>5. Tags(t)
  <2>1. \A c, d \in Buffers : t.buf[c].tag = t.buf[d].tag /\ t.buf[c].tag # NoBlock => c = d
    BY <1>2 DEF Core, Tags
  <2>2. \A c \in Buffers : t.buf[c].tag = NoBlock => ~Unwritten(t.buf[c]) /\ \A q \in Procs : t.pins[q][c] = 0
    BY <1>1, <1>2 DEF Core, Tags, Unwritten
  <2> QED
    BY <2>1, <2>2 DEF Tags
<1>6. \A q \in Procs \ {p} : at[q] \in Doing \cup {"waitio", "cleanup", "sleeping"} => loc[q] # b
  <2>1. \A q \in Procs : at[q] \in Doing \cup {"waitio", "cleanup", "sleeping"} => s.pins[q][loc[q]] > 0
    BY DEF Core, Places
  <2> QED
    BY <2>1
<1>7. Places(t, at2, loc2, wnt)
  <2>1. Places(s, at, loc, wnt)
    BY DEF Core
  <2>2. ASSUME NEW q \in Procs, q # p
        PROVE  /\ at2[q] \in Doing \cup {"waitio", "cleanup", "sleeping"} => t.pins[q][loc2[q]] > 0
               /\ at2[q] \in Doing =>
                     /\ t.buf[loc2[q]].io
                     /\ \A o \in Procs : at2[o] \in Doing /\ loc2[o] = loc2[q] => o = q
               /\ at2[q] \in Replacing =>
                     /\ wnt[q] \in Blocks
                     /\ \A o \in Procs \ {q} : t.pins[o][loc2[q]] > 0 => at2[o] = "waitio" /\ loc2[o] = loc2[q]
               /\ at2[q] \in Syncing => q = Checkpointer /\ loc2[q] = next
    <3>1. at2[q] = at[q] /\ loc2[q] = loc[q] /\ loc[q] \in Buffers
      BY <1>3, <2>2
    <3>2. at[q] \in Doing \cup {"waitio", "cleanup", "sleeping"} => t.pins[q][loc[q]] > 0 /\ loc[q] # b
      BY <1>2, <1>6, <2>1, <2>2, <3>1 DEF Places
    <3>3. at[q] \in Doing =>
                     /\ t.buf[loc[q]].io
                     /\ \A o \in Procs : at2[o] \in Doing /\ loc2[o] = loc[q] => o = q
      BY <1>2, <1>3, <2>1, <2>2, <3>1, <3>2 DEF Places
    <3>4. at[q] \in Replacing =>
                     /\ wnt[q] \in Blocks
                     /\ \A o \in Procs \ {q} : t.pins[o][loc[q]] > 0 => at2[o] = "waitio" /\ loc2[o] = loc[q]
      BY <1>2, <1>3, <2>1, <2>2, <3>1, <3>2 DEF Places, Doing
    <3> QED
      BY <2>1, <3>1, <3>2, <3>3, <3>4 DEF Places
  <2>3. \A o \in Procs : at2[o] \in Doing /\ loc2[o] = b => o = p
    BY <1>3, <1>6
  <2> QED
    BY <1>3, <2>2, <2>3 DEF Places, Doing, Reading, Replacing, Syncing
<1>8. Locks(t, at2, loc2, wnt, look, chg)
  <2>1. Locks(s, at, loc, wnt, look, chg)
    BY DEF Core
  <2>2. \A q \in Procs : ~Holds(q, b) /\ b \notin look[q] /\ b \notin chg[q]
    BY <2>1 DEF Locks
  <2>3. \A c \in Buffers : Checkpointer \in share[c] <=> at2[Checkpointer] = "syncwrite" /\ loc2[Checkpointer] = c
    BY <1>3, <2>1 DEF Locks, Procs
  <2>4. ASSUME NEW q \in Procs, NEW c \in Buffers
        PROVE  /\ Holds(q, c) => /\ t.pins[q][c] > 0 /\ at2[q] \notin Failing
                                 /\ at2[q] \in Replacing => t.buf[c].tag # wnt[q]
                                 /\ loc2[q] = c => at2[q] \notin {"waitio", "reading"} \cup Replacing
               /\ at2[q] = "cleanup" /\ loc2[q] = c => excl[c] = q /\ cleaning[c] = Nobody
               /\ c \in chg[q] => t.pins[q][c] > 0 /\ q \notin share[c]
               /\ c \in look[q] => t.pins[q][c] > 0 /\ (cleaning[c] # Nobody => cleaning[c] = q)
               /\ at2[q] \in Replacing /\ loc2[q] = c => c \notin look[q] /\ c \notin chg[q]
    <3>1. CASE c = b
      <4>1. q # p => at[q] # "cleanup" \/ loc[q] # b
        BY <1>6
      <4> QED
        BY <1>3, <2>2, <3>1, <4>1 DEF Failing, Replacing
    <3>2. CASE c # b
      BY <1>2, <1>3, <2>1, <3>2 DEF Locks, Failing, Replacing
    <3> QED
      BY <3>1, <3>2
  <2>5. \A c \in Buffers : t.buf[c].cntx = s.buf[c].cntx
    BY <1>2
  <2>6. at2[Checkpointer] # "sleeping"
    BY <1>3, <2>1 DEF Locks, Procs
  <2> QED
    BY <2>1, <2>3, <2>4, <2>5, <2>6 DEF Locks
<1>9. Signals(t, at2, loc2)
  BY <1>2, <1>3, <1>6 DEF Core, Signals
<1>10. Logs(t, at2, loc2)
  <2>1. \A q \in Procs \ {p} : at[q] \in {"write", "syncwrite"} => loc[q] # b
    BY <1>6 DEF Doing, Replacing, Syncing
  <2> QED
    BY <1>2, <1>3, <2>1 DEF Core, Logs
<1>11. "write" \notin plan.may => s.buf[b].tag = NoBlock \/ disk[s.buf[b].tag] = latest[s.buf[b].tag]
  BY DEF Core, Contents, Unwritten
<1>12. Moved(s, t)
  BY <1>2, <1>11 DEF Moved
<1>13. Contents(t, at2, loc2)
  <2>1. SUFFICES ASSUME "write" \notin plan.may PROVE Contents(t, at2, loc2)
    BY DEF Contents
  <2>2. Bad(t, at2, loc2, b)
    BY <1>3 DEF Bad, Reading
  <2>3. \A c \in Buffers \ {b} : Bad(t, at2, loc2, c) <=> Bad(s, at, loc, c)
    BY <1>2, <1>3 DEF Bad, Reading
  <2>4. ASSUME NEW c \in Buffers, Bad(t, at2, loc2, c)
        PROVE  /\ ~Unwritten(t.buf[c])
               /\ \A q \in Procs : t.pins[q][c] > 0 =>
                     \/ at2[q] \in Reading \cup {"waitio"} /\ loc2[q] = c
                     \/ at2[q] \in {"unlock", "unpin"}
    <3>1. CASE c = b
      <4>1. ~Unwritten(t.buf[b])
        BY DEF Unwritten
      <4> QED
        BY <1>2, <1>3, <3>1, <4>1 DEF Reading
    <3>2. CASE c # b
      <4>1. /\ ~Unwritten(s.buf[c])
            /\ \A q \in Procs : s.pins[q][c] > 0 =>
                \/ at[q] \in Reading \cup {"waitio"} /\ loc[q] = c
                \/ at[q] \in {"unlock", "unpin"}
        BY <2>1, <2>3, <2>4, <3>2 DEF Core, Contents
      <4> QED
        BY <1>2, <1>3, <3>2, <4>1 DEF Reading
    <3> QED
      BY <3>1, <3>2
  <2>5. /\ \A c \in Buffers : s.buf[c].tag # NoBlock =>
              /\ Bad(s, at, loc, c) \/ s.buf[c].page = latest[s.buf[c].tag]
              /\ s.buf[c].cntx \/ disk[s.buf[c].tag] = latest[s.buf[c].tag]
        /\ \A j \in Blocks : disk[j] = latest[j] \/ \E c \in Buffers : s.buf[c].tag = j
        /\ \A q \in Procs : /\ at[q] # "abortout"
                            /\ at[q] = "written" =>
                                  disk[s.buf[loc[q]].tag] = latest[s.buf[loc[q]].tag]
    BY <2>1 DEF Core, Contents
  <2>6. ASSUME NEW c \in Buffers, t.buf[c].tag # NoBlock
        PROVE  /\ Bad(t, at2, loc2, c) \/ t.buf[c].page = latest[t.buf[c].tag]
               /\ t.buf[c].cntx \/ disk[t.buf[c].tag] = latest[t.buf[c].tag]
    <3>1. CASE c = b
      BY <2>2, <2>5, <3>1
    <3>2. CASE c # b
      <4>1. t.buf[c] = s.buf[c]
        BY <1>2, <3>2
      <4>2. /\ Bad(s, at, loc, c) \/ s.buf[c].page = latest[s.buf[c].tag]
            /\ s.buf[c].cntx \/ disk[s.buf[c].tag] = latest[s.buf[c].tag]
        BY <2>5, <2>6, <4>1
      <4> QED
        BY <2>3, <3>2, <4>1, <4>2
    <3> QED
      BY <3>1, <3>2
  <2>7. \A j \in Blocks : disk[j] = latest[j] \/ \E c \in Buffers : t.buf[c].tag = j
    <3>1. ASSUME NEW j \in Blocks, disk[j] # latest[j]
          PROVE  \E c \in Buffers : t.buf[c].tag = j
      <4>1. PICK c \in Buffers : s.buf[c].tag = j
        BY <2>5, <3>1
      <4>2. c # b /\ t.buf[c].tag = j
        BY <1>2, <1>11, <2>1, <3>1, <4>1, ProcessesDistinct DEF NoBlock
      <4> QED
        BY <4>2
    <3> QED
      BY <3>1
  <2>8. \A q \in Procs : /\ at2[q] # "abortout"
                         /\ at2[q] = "written" =>
                               disk[t.buf[loc2[q]].tag] = latest[t.buf[loc2[q]].tag]
    <3>1. \A q \in Procs \ {p} : at[q] = "written" => loc[q] # b
      BY <1>6 DEF Doing, Replacing
    <3> QED
      BY <1>2, <1>3, <2>5, <3>1
  <2> QED
    BY <2>4, <2>6, <2>7, <2>8 DEF Contents
<1> QED
  BY <1>4, <1>5, <1>7, <1>8, <1>9, <1>10, <1>12, <1>13 DEF Core

\* A buffer without pins that has to be written: p takes it for wnt[p].
TakenFor(s, at, loc, wnt, t, at2, loc2, p, b) ==
    /\ at[p] = "idle" /\ wnt[p] \in Blocks /\ \A c \in Buffers : s.buf[c].tag # wnt[p]
    /\ \A q \in Procs : s.pins[q][b] = 0
    /\ Unwritten(s.buf[b]) /\ ~s.buf[b].err
    /\ t \in PoolType /\ Counts(t) /\ Differ(s, t, p, b) /\ t.sem = s.sem /\ t.pins[p][b] > 0
    /\ t.buf[b].tag = s.buf[b].tag /\ t.buf[b].io = TRUE /\ t.buf[b].page = s.buf[b].page
    /\ t.buf[b].dirty = s.buf[b].dirty /\ t.buf[b].cntx = s.buf[b].cntx /\ t.buf[b].err = s.buf[b].err
    /\ at2 = [at EXCEPT ![p] = "replace"] /\ loc2 = [loc EXCEPT ![p] = b]

LEMMA ReplaceCore ==
    ASSUME NEW s, NEW at, NEW loc, NEW wnt, NEW look, NEW chg, Core(s, at, loc, wnt, look, chg),
           NEW p \in Procs, NEW b \in Buffers, NEW t, NEW at2, NEW loc2,
           TakenFor(s, at, loc, wnt, t, at2, loc2, p, b)
    PROVE  Core(t, at2, loc2, wnt, look, chg) /\ \A c \in Buffers : t.buf[c].tag = s.buf[c].tag
<1> USE DEF TakenFor
<1>1. s \in PoolType /\ Counts(s) /\ Types(s, at, loc, wnt, look, chg) /\ s.buf[b] \in BufRec
  BY PoolFields DEF Core, Types
<1>2. /\ \A q \in Procs, c \in Buffers : /\ s.pins[q][c] \in Nat /\ t.pins[q][c] \in Nat
                                         /\ q # p \/ c # b => t.pins[q][c] = s.pins[q][c]
                                         /\ s.pins[q][c] > 0 => t.pins[q][c] > 0
      /\ \A c \in Buffers \ {b} : t.buf[c] = s.buf[c]
      /\ \A q \in Procs \ {p} : t.pins[q][b] = 0
  BY <1>1, PoolFields DEF Differ
<1>3. /\ \A q \in Procs : at[q] \in PCs /\ loc[q] \in Buffers
      /\ at2 \in [Procs -> PCs] /\ loc2 \in [Procs -> Buffers]
      /\ at2[p] = "replace" /\ loc2[p] = b
      /\ \A q \in Procs \ {p} : at2[q] = at[q] /\ loc2[q] = loc[q]
  BY <1>1 DEF Types, PCs, Doing, Replacing
<1>4. Types(t, at2, loc2, wnt, look, chg)
  BY <1>1, <1>3 DEF Types
<1>5. Tags(t)
  <2>1. \A c \in Buffers : t.buf[c].tag = s.buf[c].tag /\ (Unwritten(t.buf[c]) <=> Unwritten(s.buf[c]))
    BY <1>2 DEF Unwritten
  <2>2. s.buf[b].tag # NoBlock
    BY DEF Core, Tags
  <2> QED
    BY <1>2, <2>1, <2>2 DEF Core, Tags
<1>6. \A q \in Procs \ {p} : at[q] \in Doing \cup {"waitio", "cleanup", "sleeping"} => loc[q] # b
  <2>1. \A q \in Procs : at[q] \in Doing \cup {"waitio", "cleanup", "sleeping"} => s.pins[q][loc[q]] > 0
    BY DEF Core, Places
  <2> QED
    BY <2>1
<1>7. Places(t, at2, loc2, wnt)
  <2>1. Places(s, at, loc, wnt)
    BY DEF Core
  <2>2. ASSUME NEW q \in Procs, q # p
        PROVE  /\ at2[q] \in Doing \cup {"waitio", "cleanup", "sleeping"} => t.pins[q][loc2[q]] > 0
               /\ at2[q] \in Doing =>
                     /\ t.buf[loc2[q]].io
                     /\ \A o \in Procs : at2[o] \in Doing /\ loc2[o] = loc2[q] => o = q
               /\ at2[q] \in Replacing =>
                     /\ wnt[q] \in Blocks
                     /\ \A o \in Procs \ {q} : t.pins[o][loc2[q]] > 0 => at2[o] = "waitio" /\ loc2[o] = loc2[q]
               /\ at2[q] \in Syncing => q = Checkpointer /\ loc2[q] = next
    <3>1. at2[q] = at[q] /\ loc2[q] = loc[q] /\ loc[q] \in Buffers
      BY <1>3, <2>2
    <3>2. at[q] \in Doing \cup {"waitio", "cleanup", "sleeping"} => t.pins[q][loc[q]] > 0 /\ loc[q] # b
      BY <1>2, <1>6, <2>1, <2>2, <3>1 DEF Places
    <3>3. at[q] \in Doing =>
                     /\ t.buf[loc[q]].io
                     /\ \A o \in Procs : at2[o] \in Doing /\ loc2[o] = loc[q] => o = q
      BY <1>2, <1>3, <2>1, <2>2, <3>1, <3>2 DEF Places
    <3>4. at[q] \in Replacing =>
                     /\ wnt[q] \in Blocks
                     /\ \A o \in Procs \ {q} : t.pins[o][loc[q]] > 0 => at2[o] = "waitio" /\ loc2[o] = loc[q]
      BY <1>2, <1>3, <2>1, <2>2, <3>1, <3>2 DEF Places, Doing
    <3> QED
      BY <2>1, <3>1, <3>2, <3>3, <3>4 DEF Places
  <2>3. \A o \in Procs : at2[o] \in Doing /\ loc2[o] = b => o = p
    BY <1>3, <1>6
  <2>4. \A q \in Procs \ {p} : ~(t.pins[q][b] > 0)
    BY <1>2
  <2> QED
    BY <1>3, <2>2, <2>3, <2>4 DEF Places, Doing, Reading, Replacing, Syncing
<1>8. Locks(t, at2, loc2, wnt, look, chg)
  <2>1. Locks(s, at, loc, wnt, look, chg)
    BY DEF Core
  <2>2. \A q \in Procs : ~Holds(q, b) /\ b \notin look[q] /\ b \notin chg[q]
    BY <2>1 DEF Locks
  <2>3. \A c \in Buffers : Checkpointer \in share[c] <=> at2[Checkpointer] = "syncwrite" /\ loc2[Checkpointer] = c
    BY <1>3, <2>1 DEF Locks, Procs
  <2>4. ASSUME NEW q \in Procs, NEW c \in Buffers
        PROVE  /\ Holds(q, c) => /\ t.pins[q][c] > 0 /\ at2[q] \notin Failing
                                 /\ at2[q] \in Replacing => t.buf[c].tag # wnt[q]
                                 /\ loc2[q] = c => at2[q] \notin {"waitio", "reading"} \cup Replacing
               /\ at2[q] = "cleanup" /\ loc2[q] = c => excl[c] = q /\ cleaning[c] = Nobody
               /\ c \in chg[q] => t.pins[q][c] > 0 /\ q \notin share[c]
               /\ c \in look[q] => t.pins[q][c] > 0 /\ (cleaning[c] # Nobody => cleaning[c] = q)
               /\ at2[q] \in Replacing /\ loc2[q] = c => c \notin look[q] /\ c \notin chg[q]
    <3>1. CASE c = b
      <4>1. q # p => at[q] # "cleanup" \/ loc[q] # b
        BY <1>6
      <4> QED
        BY <1>3, <2>2, <3>1, <4>1 DEF Failing, Replacing
    <3>2. CASE c # b
      BY <1>2, <1>3, <2>1, <3>2 DEF Locks, Failing, Replacing
    <3> QED
      BY <3>1, <3>2
  <2>5. \A c \in Buffers : t.buf[c].cntx = s.buf[c].cntx
    BY <1>2
  <2>6. at2[Checkpointer] # "sleeping"
    BY <1>3, <2>1 DEF Locks, Procs
  <2> QED
    BY <2>1, <2>3, <2>4, <2>5, <2>6 DEF Locks
<1>9. Signals(t, at2, loc2)
  BY <1>2, <1>3, <1>6 DEF Core, Signals
<1>10. Logs(t, at2, loc2)
  <2>1. \A q \in Procs \ {p} : at[q] \in {"write", "syncwrite"} => loc[q] # b
    BY <1>6 DEF Doing, Replacing, Syncing
  <2> QED
    BY <1>2, <1>3, <2>1 DEF Core, Logs
<1>11. \A c \in Buffers : /\ t.buf[c].tag = s.buf[c].tag /\ t.buf[c].page = s.buf[c].page
                          /\ t.buf[c].dirty = s.buf[c].dirty /\ t.buf[c].cntx = s.buf[c].cntx
                          /\ t.buf[c].err = s.buf[c].err
  BY <1>2
<1>12. Contents(t, at2, loc2)
  <2>1. SUFFICES ASSUME "write" \notin plan.may PROVE Contents(t, at2, loc2)
    BY DEF Contents
  <2>2. ~Bad(t, at2, loc2, b)
    BY <1>3, <1>6 DEF Bad, Doing, Reading
  <2>3. \A c \in Buffers \ {b} : Bad(t, at2, loc2, c) <=> Bad(s, at, loc, c)
    BY <1>2, <1>3 DEF Bad, Reading
  <2>4. ASSUME NEW c \in Buffers, Bad(t, at2, loc2, c)
        PROVE  /\ ~Unwritten(t.buf[c])
               /\ \A q \in Procs : t.pins[q][c] > 0 =>
                     \/ at2[q] \in Reading \cup {"waitio"} /\ loc2[q] = c
                     \/ at2[q] \in {"unlock", "unpin"}
    <3>1. c # b /\ Bad(s, at, loc, c)
      BY <2>2, <2>3, <2>4
    <3>2. /\ ~Unwritten(s.buf[c])
          /\ \A q \in Procs : s.pins[q][c] > 0 =>
                \/ at[q] \in Reading \cup {"waitio"} /\ loc[q] = c
                \/ at[q] \in {"unlock", "unpin"}
      BY <2>1, <3>1 DEF Core, Contents
    <3> QED
      BY <1>2, <1>3, <3>1, <3>2 DEF Reading
  <2>5. /\ \A c \in Buffers : s.buf[c].tag # NoBlock =>
              /\ Bad(s, at, loc, c) \/ s.buf[c].page = latest[s.buf[c].tag]
              /\ s.buf[c].cntx \/ disk[s.buf[c].tag] = latest[s.buf[c].tag]
        /\ \A j \in Blocks : disk[j] = latest[j] \/ \E c \in Buffers : s.buf[c].tag = j
        /\ \A q \in Procs : /\ at[q] # "abortout"
                            /\ at[q] = "written" =>
                                  disk[s.buf[loc[q]].tag] = latest[s.buf[loc[q]].tag]
    BY <2>1 DEF Core, Contents
  <2>6. ASSUME NEW c \in Buffers, t.buf[c].tag # NoBlock
        PROVE  /\ Bad(t, at2, loc2, c) \/ t.buf[c].page = latest[t.buf[c].tag]
               /\ t.buf[c].cntx \/ disk[t.buf[c].tag] = latest[t.buf[c].tag]
    <3>1. /\ Bad(s, at, loc, c) \/ s.buf[c].page = latest[s.buf[c].tag]
          /\ s.buf[c].cntx \/ disk[s.buf[c].tag] = latest[s.buf[c].tag]
      BY <1>11, <2>5, <2>6
    <3>2. Bad(s, at, loc, c) => Bad(t, at2, loc2, c)
      <4>1. ~Bad(s, at, loc, b)
        BY <1>3, <1>6 DEF Bad, Doing, Reading
      <4> QED
        BY <2>3, <4>1
    <3> QED
      BY <1>11, <3>1, <3>2
  <2>7. \A j \in Blocks : disk[j] = latest[j] \/ \E c \in Buffers : t.buf[c].tag = j
    BY <1>11, <2>5
  <2>8. \A q \in Procs : /\ at2[q] # "abortout"
                         /\ at2[q] = "written" =>
                               disk[t.buf[loc2[q]].tag] = latest[t.buf[loc2[q]].tag]
    BY <1>3, <1>11, <2>5
  <2> QED
    BY <2>4, <2>6, <2>7, <2>8 DEF Contents
<1> QED
  BY <1>4, <1>5, <1>7, <1>8, <1>9, <1>10, <1>11, <1>12 DEF Core

\* p has no buffer to take.
LEMMA QuietCore ==
    ASSUME NEW s, NEW at, NEW loc, NEW wnt, NEW look, NEW chg, Core(s, at, loc, wnt, look, chg),
           NEW p \in Procs, at[p] = "idle", NEW l \in {"spin", "failed"},
           NEW at2, at2 = [at EXCEPT ![p] = l]
    PROVE  Core(s, at2, loc, wnt, look, chg)
<1>1. Types(s, at, loc, wnt, look, chg)
  BY DEF Core
<1>2. /\ \A q \in Procs : at[q] \in PCs /\ loc[q] \in Buffers
      /\ at2 \in [Procs -> PCs] /\ at2[p] = l /\ \A q \in Procs \ {p} : at2[q] = at[q]
  BY <1>1 DEF Types, PCs
<1>3. Types(s, at2, loc, wnt, look, chg)
  BY <1>1, <1>2 DEF Types
<1>4. Places(s, at2, loc, wnt)
  BY <1>2 DEF Core, Places, Doing, Reading, Replacing, Syncing
<1>5. Locks(s, at2, loc, wnt, look, chg)
  BY <1>2 DEF Core, Locks, Failing, Replacing
<1>6. Signals(s, at2, loc)
  BY <1>2 DEF Core, Signals
<1>7. Logs(s, at2, loc)
  BY <1>2 DEF Core, Logs
<1>8. Contents(s, at2, loc)
  <2>1. \A c \in Buffers : Bad(s, at2, loc, c) <=> Bad(s, at, loc, c)
    BY <1>2 DEF Bad, Reading
  <2> QED
    BY <1>2, <2>1 DEF Core, Contents, Reading
<1> QED
  BY <1>3, <1>4, <1>5, <1>6, <1>7, <1>8 DEF Core

\* No other process moves, and p is not in BufferSync.
OnlyMoves(p) == /\ \A q \in Procs \ {p} : pc'[q] = pc[q]
                /\ pc'[p] \notin Syncing \cup {"sync"}

LEMMA PoolSet ==
    ASSUME NEW s \in PoolType, SetPool(s)
    PROVE  Pool' = s
BY DEF SetPool, Pool, PoolType

LEMMA RetagPool ==
    ASSUME NEW s \in PoolType, NEW b \in Buffers, NEW k \in Blocks, NEW p, Retag(s, p, b, k)
    PROVE  /\ Pool' \in PoolType
           /\ Counts(s) => Counts(Pool')
           /\ Pool'.pins = s.pins /\ Pool'.sem = s.sem
           /\ \A c \in Buffers \ {b} : Pool'.buf[c] = s.buf[c]
           /\ Pool'.buf[b].tag = k /\ Pool'.buf[b].io = TRUE
           /\ Pool'.buf[b].dirty = s.buf[b].dirty /\ Pool'.buf[b].cntx = s.buf[b].cntx
<1> DEFINE r == [s.buf[b] EXCEPT !.tag = k, !.io = TRUE, !.page = Garbage]
           t == Put(s, b, r)
<1>1. s = [buf |-> s.buf, free |-> s.free, pins |-> s.pins, sem |-> s.sem] /\ s.buf \in [Buffers -> BufRec]
  BY DEF PoolType
<1>2. /\ r \in BufRec /\ r.ref = s.buf[b].ref /\ r.tag = k /\ r.io = TRUE
      /\ r.dirty = s.buf[b].dirty /\ r.cntx = s.buf[b].cntx
  <2>1. s.buf[b] \in BufRec /\ Garbage \in Int
    BY <1>1 DEF Garbage
  <2>2. r \in BufRec
    BY <2>1 DEF BufRec
  <2> QED
    BY <2>1, <2>2 DEF BufRec
<1>3. SetPool(t)
  BY <1>1 DEF Retag, Put
<1> HIDE DEF r, t
<1>4. /\ t \in PoolType /\ t.buf[b] = r /\ \A c \in Buffers \ {b} : t.buf[c] = s.buf[c]
      /\ t.pins = s.pins /\ t.free = s.free /\ t.sem = s.sem
      /\ Counts(s) => Counts(t)
  BY <1>2, SetBuffer DEF t
<1>5. Pool' = t
  BY <1>3, <1>4, PoolSet
<1> QED
  BY <1>2, <1>4, <1>5

\* GetFreeBuffer and what follows, for a process that holds BufMgrLock and is
\* at no buffer, whatever pc says of it.
LEMMA GetBufferCore ==
    ASSUME NEW s, NEW at, NEW wnt, NEW look, NEW chg, Core(s, at, cur, wnt, look, chg),
           NEW p \in Procs, NEW k \in Blocks, wnt[p] = k,
           pc \in [Procs -> PCs], at = [pc EXCEPT ![p] = "idle"],
           \A c \in Buffers : s.buf[c].tag # k,
           GetBuffer(s, p, k)
    PROVE  /\ Core(Pool', pc', cur', wnt, look, chg) /\ Moved(s, Pool')
           /\ OnlyMoves(p)
<1>1. s \in PoolType /\ Counts(s) /\ cur \in [Procs -> Buffers]
  BY DEF Core, Types
<1>2. at[p] = "idle"
  OBVIOUS
<1>3. ASSUME NEW l \in {"spin", "failed", "reading", "replace"}, Goto(p, l)
      PROVE  pc' = [at EXCEPT ![p] = l] /\ OnlyMoves(p)
  BY <1>3 DEF Goto, OnlyMoves, Syncing
<1>4. ASSUME NEW l \in {"spin", "failed"}, SetPool(s), GotoWith(p, l, cur[p])
      PROVE  /\ Core(Pool', pc', cur', wnt, look, chg) /\ Moved(s, Pool')
             /\ OnlyMoves(p)
  <2>1. cur' = cur /\ Pool' = s /\ pc' = [at EXCEPT ![p] = l]
    BY <1>1, <1>3, <1>4, PoolSet DEF GotoWith
  <2>2. OnlyMoves(p)
    BY <1>3, <1>4 DEF GotoWith
  <2>3. Core(s, pc', cur, wnt, look, chg)
    BY <1>2, <2>1, QuietCore
  <2> QED
    BY <2>1, <2>2, <2>3 DEF Moved
<1>5. ASSUME NEW i \in 1..Len(s.free), NEW b \in Buffers, b = s.free[i],
             ~Unwritten(s.buf[b]), Retag(TakeFrom(s, p, i), p, b, k)
      PROVE  /\ Core(Pool', pc', cur', wnt, look, chg) /\ Moved(s, Pool')
             /\ OnlyMoves(p)
  <2> DEFINE u == TakeFrom(s, p, i)
             t == Pool'
             cur2 == [cur EXCEPT ![p] = b]
             at2 == [at EXCEPT ![p] = "reading"]
  <2>1. pc' = at2 /\ cur' = cur2 /\ OnlyMoves(p)
    BY <1>3, <1>5 DEF Retag, GotoWith
  <2>2. Retag(u, p, b, k)
    BY <1>5
  <2> HIDE DEF u
  <2>3. /\ \A q \in Procs : s.pins[q][b] = 0
        /\ u \in PoolType /\ Counts(u) /\ Differ(s, u, p, b) /\ u.sem = s.sem
        /\ u.pins[p][b] = 1 /\ Same(s, u) /\ u.buf[b].waiter = s.buf[b].waiter
    <3>1. /\ s \in PoolType /\ Counts(s) /\ p \in Procs /\ b \in Buffers
          /\ i \in 1..Len(s.free) /\ s.free[i] = b /\ u = TakeFrom(s, p, i)
      BY <1>1, <1>5 DEF u
    <3> QED
      BY <3>1, TakePool
  <2>4. /\ t \in PoolType /\ Counts(t) /\ t.pins = u.pins /\ t.sem = u.sem
        /\ \A c \in Buffers \ {b} : t.buf[c] = u.buf[c]
        /\ t.buf[b].tag = k /\ t.buf[b].io = TRUE
        /\ t.buf[b].dirty = u.buf[b].dirty /\ t.buf[b].cntx = u.buf[b].cntx
    <3>1. u \in PoolType /\ Counts(u) /\ b \in Buffers /\ k \in Blocks /\ Retag(u, p, b, k)
      BY <2>2, <2>3
    <3> QED
      BY <3>1, RetagPool
  <2> HIDE DEF t
  <2>5. Differ(s, t, p, b)
    BY <2>3, <2>4 DEF Differ
  <2>6. t.buf[b].dirty = s.buf[b].dirty /\ t.buf[b].cntx = s.buf[b].cntx /\ t.sem = s.sem /\ t.pins[p][b] > 0
    BY <2>3, <2>4 DEF Same
  <2>7. ~Holds(p, b) /\ b \notin look[p] /\ b \notin chg[p]
    BY <2>3 DEF Core, Locks
  <2> HIDE DEF at2, cur2
  <2>8. Core(t, at2, cur2, wnt, look, chg) /\ Moved(s, t)
    <3>1. at2 = [at EXCEPT ![p] = "reading"] /\ cur2 = [cur EXCEPT ![p] = b]
      BY DEF at2, cur2
    <3>2. \A q \in Procs \ {p} : s.pins[q][b] = 0
      BY <2>3
    <3> QED
      <4>1. Renamed(s, at, cur, look, chg, t, at2, cur2, p, b, k)
        BY <1>2, <1>5, <2>4, <2>5, <2>6, <2>7, <3>1, <3>2 DEF Renamed
      <4> QED
        BY <4>1, RenameCore
  <2> QED
    BY <2>1, <2>8 DEF t
<1>6. ASSUME NEW i \in 1..Len(s.free), NEW b \in Buffers, b = s.free[i],
             Unwritten(s.buf[b]), ~s.buf[b].err,
             SetPool([TakeFrom(s, p, i) EXCEPT !.buf[b].io = TRUE, !.buf[b].just = FALSE]),
             GotoWith(p, "replace", b)
      PROVE  /\ Core(Pool', pc', cur', wnt, look, chg) /\ Moved(s, Pool')
             /\ OnlyMoves(p)
  <2> DEFINE u == TakeFrom(s, p, i)
             r == [u.buf[b] EXCEPT !.io = TRUE, !.just = FALSE]
             t == Put(u, b, r)
             cur2 == [cur EXCEPT ![p] = b]
             at2 == [at EXCEPT ![p] = "replace"]
  <2>1. pc' = at2 /\ cur' = cur2 /\ OnlyMoves(p)
    BY <1>3, <1>6 DEF GotoWith
  <2>2. SetPool([u EXCEPT !.buf[b].io = TRUE, !.buf[b].just = FALSE])
    BY <1>6
  <2> HIDE DEF u
  <2>3. /\ \A q \in Procs : s.pins[q][b] = 0
        /\ u \in PoolType /\ Counts(u) /\ Differ(s, u, p, b) /\ u.sem = s.sem
        /\ u.pins[p][b] = 1 /\ Same(s, u) /\ u.buf[b].waiter = s.buf[b].waiter
    <3>1. /\ s \in PoolType /\ Counts(s) /\ p \in Procs /\ b \in Buffers
          /\ i \in 1..Len(s.free) /\ s.free[i] = b /\ u = TakeFrom(s, p, i)
      BY <1>1, <1>6 DEF u
    <3> QED
      BY <3>1, TakePool
  <2>4. /\ r \in BufRec /\ r.ref = u.buf[b].ref /\ r.tag = u.buf[b].tag /\ r.io = TRUE
        /\ r.dirty = u.buf[b].dirty /\ r.cntx = u.buf[b].cntx /\ r.page = u.buf[b].page
        /\ r.err = u.buf[b].err
    <3>1. u.buf[b] \in BufRec
      BY <2>3, PoolFields
    <3>2. r \in BufRec
      BY <3>1 DEF BufRec
    <3> QED
      BY <3>1, <3>2 DEF BufRec
  <2>5. SetPool(t)
    BY <2>2, <2>3 DEF Put, PoolType
  <2> HIDE DEF r, t
  <2>6. /\ t \in PoolType /\ t.buf[b] = r /\ \A c \in Buffers \ {b} : t.buf[c] = u.buf[c]
        /\ t.pins = u.pins /\ t.sem = u.sem /\ Counts(t)
    BY <2>3, <2>4, SetBuffer DEF t
  <2>7. Pool' = t
    BY <2>5, <2>6, PoolSet
  <2>8. /\ Differ(s, t, p, b) /\ t.sem = s.sem /\ t.pins[p][b] > 0
        /\ t.buf[b].tag = s.buf[b].tag /\ t.buf[b].io = TRUE /\ t.buf[b].page = s.buf[b].page
        /\ t.buf[b].dirty = s.buf[b].dirty /\ t.buf[b].cntx = s.buf[b].cntx
        /\ t.buf[b].err = s.buf[b].err
    BY <2>3, <2>4, <2>6 DEF Differ, Same
  <2> HIDE DEF at2, cur2
  <2>9. Core(t, at2, cur2, wnt, look, chg) /\ \A c \in Buffers : t.buf[c].tag = s.buf[c].tag
    <3>1. at2 = [at EXCEPT ![p] = "replace"] /\ cur2 = [cur EXCEPT ![p] = b]
      BY DEF at2, cur2
    <3> QED
      <4>1. wnt[p] \in Blocks /\ \A c \in Buffers : s.buf[c].tag # wnt[p]
        OBVIOUS
      <4>2. TakenFor(s, at, cur, wnt, t, at2, cur2, p, b)
        BY <1>2, <1>6, <2>3, <2>6, <2>8, <3>1, <4>1 DEF TakenFor
      <4> QED
        BY <4>2, ReplaceCore
  <2> QED
    BY <2>1, <2>7, <2>9 DEF Moved
<1>7. DOMAIN s.free = 1..Len(s.free) /\ \A i \in 1..Len(s.free) : s.free[i] \in Buffers
  BY <1>1, PoolFields
<1>8. CASE SetPool(s) /\ (GotoWith(p, "failed", cur[p]) \/ GotoWith(p, "spin", cur[p]))
  BY <1>4, <1>8
<1>9. CASE \E i \in 1..Len(s.free) :
              LET b == s.free[i]
              IN  /\ ~(Unwritten(s.buf[b]) /\ s.buf[b].err)
                  /\ \/ ~Unwritten(s.buf[b]) /\ Retag(TakeFrom(s, p, i), p, b, k)
                     \/ /\ Unwritten(s.buf[b])
                        /\ SetPool([TakeFrom(s, p, i) EXCEPT !.buf[b].io = TRUE, !.buf[b].just = FALSE])
                        /\ GotoWith(p, "replace", b)
  BY <1>5, <1>6, <1>7, <1>9
<1> QED
  <2>1. \/ SetPool(s) /\ (GotoWith(p, "failed", cur[p]) \/ GotoWith(p, "spin", cur[p]))
        \/ \E i \in DOMAIN s.free :
              LET b == s.free[i]
              IN  /\ ~(Unwritten(s.buf[b]) /\ s.buf[b].err)
                  /\ \/ ~Unwritten(s.buf[b]) /\ Retag(TakeFrom(s, p, i), p, b, k)
                     \/ /\ Unwritten(s.buf[b])
                        /\ SetPool([TakeFrom(s, p, i) EXCEPT !.buf[b].io = TRUE, !.buf[b].just = FALSE])
                        /\ GotoWith(p, "replace", b)
    <3> DEFINE usable == {i \in DOMAIN s.free : ~(Unwritten(s.buf[s.free[i]]) /\ s.buf[s.free[i]].err)}
    <3>1. \/ SetPool(s) /\ (GotoWith(p, "failed", cur[p]) \/ GotoWith(p, "spin", cur[p]))
          \/ \E i \in usable :
                \/ ~Unwritten(s.buf[s.free[i]]) /\ Retag(TakeFrom(s, p, i), p, s.free[i], k)
                \/ /\ Unwritten(s.buf[s.free[i]])
                   /\ SetPool([TakeFrom(s, p, i) EXCEPT !.buf[s.free[i]].io = TRUE, !.buf[s.free[i]].just = FALSE])
                   /\ GotoWith(p, "replace", s.free[i])
      BY Zenon DEF GetBuffer, TakeFrom
    <3>2. \A i \in usable : i \in DOMAIN s.free /\ ~(Unwritten(s.buf[s.free[i]]) /\ s.buf[s.free[i]].err)
      OBVIOUS
    <3> HIDE DEF usable
    <3> QED
      BY <3>1, <3>2, Zenon
  <2> QED
    BY <1>7, <1>8, <1>9, <2>1

\* What p does with the buffer of its block, which it has pinned.
LEMMA FoundStep ==
    ASSUME NEW s, NEW at, NEW loc, NEW wnt, NEW look, NEW chg, Core(s, at, loc, wnt, look, chg),
           NEW p \in Procs, NEW b \in Buffers, pc \in [Procs -> PCs], cur \in [Procs -> Buffers],
           at = [pc EXCEPT ![p] = "waitio"], loc = [cur EXCEPT ![p] = b],
           Found(s, p, b)
    PROVE  /\ Core(Pool', pc', cur', wnt, look, chg)
           /\ \A c \in Buffers : Pool'.buf[c].tag = s.buf[c].tag
           /\ OnlyMoves(p)
<1>1. s \in PoolType /\ at[p] = "waitio" /\ loc[p] = b
  BY DEF Core, Types
<1>2. ASSUME NEW l \in {"waitio", "reading", "idle"}, GotoWith(p, l, b)
      PROVE  pc' = [at EXCEPT ![p] = l] /\ cur' = loc /\ OnlyMoves(p)
  BY <1>2 DEF Goto, GotoWith, OnlyMoves, Syncing
<1>3. CASE s.buf[b].io /\ SetPool(s) /\ GotoWith(p, "waitio", b)
  <2>1. Pool' = s
    BY <1>1, <1>3, PoolSet
  <2>2. pc' = at /\ cur' = loc /\ OnlyMoves(p)
    BY <1>2, <1>3
  <2> QED
    BY <2>1, <2>2
<1>4. CASE /\ ~s.buf[b].io /\ BUFFER_IS_BROKEN(s.buf[b])
           /\ SetPool([s EXCEPT !.buf[b].io = TRUE]) /\ GotoWith(p, "reading", b)
  <2> DEFINE t == SetIO(s, b)
             at2 == [at EXCEPT ![p] = "reading"]
  <2>1. pc' = at2 /\ cur' = loc /\ OnlyMoves(p)
    BY <1>2, <1>4
  <2>2. SetPool(t)
    BY <1>4 DEF SetIO
  <2> HIDE DEF t, at2
  <2>3. Core(t, at2, loc, wnt, look, chg) /\ \A c \in Buffers : t.buf[c].tag = s.buf[c].tag
    <3>1. at2 = [at EXCEPT ![p] = "reading"] /\ t = SetIO(s, b)
      BY DEF at2, t
    <3> QED
      BY <1>1, <1>4, <3>1, ReadAgainCore
  <2>4. Pool' = t
    BY <2>2, <2>3, PoolSet DEF Core, Types
  <2> QED
    BY <2>1, <2>3, <2>4
<1>5. CASE ~s.buf[b].io /\ ~BUFFER_IS_BROKEN(s.buf[b]) /\ SetPool(s) /\ GotoWith(p, "idle", b)
  <2>1. Pool' = s
    BY <1>1, <1>5, PoolSet
  <2>2. pc' = [at EXCEPT ![p] = "idle"] /\ cur' = loc /\ OnlyMoves(p)
    BY <1>2, <1>5
  <2>3. Core(s, pc', loc, wnt, look, chg)
    BY <1>1, <1>5, <2>2, FoundCore
  <2> QED
    BY <2>1, <2>2, <2>3
<1> QED
  BY <1>3, <1>4, <1>5 DEF Found

\* BufferAlloc, for a process that holds BufMgrLock and is at no buffer,
\* whatever pc says of it.
LEMMA AllocCore ==
    ASSUME NEW s, NEW at, NEW wnt, NEW look, NEW chg, Core(s, at, cur, wnt, look, chg),
           NEW p \in Procs, NEW k \in Blocks, wnt[p] = k,
           pc \in [Procs -> PCs], at = [pc EXCEPT ![p] = "idle"],
           \A c \in Having(s, k) : ~Holds(p, c),
           BufferAlloc(s, p, k)
    PROVE  /\ Core(Pool', pc', cur', wnt, look, chg) /\ Moved(s, Pool')
           /\ OnlyMoves(p)
<1>1. cur \in [Procs -> Buffers] /\ at[p] = "idle"
  BY DEF Core, Types
<1>2. ASSUME NEW b \in Having(s, k), Found(PinBuffer(s, p, b), p, b)
      PROVE  /\ Core(Pool', pc', cur', wnt, look, chg) /\ Moved(s, Pool')
             /\ OnlyMoves(p)
  <2> DEFINE t == PinBuffer(s, p, b)
             at2 == [at EXCEPT ![p] = "waitio"]
             loc2 == [cur EXCEPT ![p] = b]
  <2>1. b \in Buffers /\ s.buf[b].tag = k /\ k # NoBlock /\ ~Holds(p, b)
    BY <1>2, ProcessesDistinct DEF Having, NoBlock
  <2>2. at2 = [pc EXCEPT ![p] = "waitio"]
    OBVIOUS
  <2>3. Found(t, p, b)
    BY <1>2
  <2>4. t = PinBuffer(s, p, b) /\ at2 = [at EXCEPT ![p] = "waitio"] /\ loc2 = [cur EXCEPT ![p] = b]
    OBVIOUS
  <2> HIDE DEF t, at2, loc2
  <2>5. Core(t, at2, loc2, wnt, look, chg) /\ \A c \in Buffers : t.buf[c].tag = s.buf[c].tag
    BY <1>1, <2>1, <2>4, PinCore
  <2>6. /\ Core(Pool', pc', cur', wnt, look, chg)
        /\ \A c \in Buffers : Pool'.buf[c].tag = t.buf[c].tag
        /\ OnlyMoves(p)
    BY <1>1, <2>1, <2>2, <2>3, <2>4, <2>5, FoundStep
  <2> QED
    BY <2>5, <2>6 DEF Moved
<1>3. CASE Having(s, k) = {} /\ GetBuffer(s, p, k)
  <2>1. \A c \in Buffers : s.buf[c].tag # k
    BY <1>3 DEF Having
  <2>2. GetBuffer(s, p, k)
    BY <1>3
  <2>3. Core(Pool', pc', cur', wnt, look, chg)
    BY <2>1, <2>2, GetBufferCore, Zenon
  <2>4. Moved(s, Pool')
    BY <2>1, <2>2, GetBufferCore, Zenon
  <2>5. OnlyMoves(p)
    BY <2>1, <2>2, GetBufferCore, Zenon
  <2> QED
    BY <2>3, <2>4, <2>5
<1> QED
  BY <1>2, <1>3 DEF BufferAlloc

\* ReadBuffer notes the block that it wants.
LEMMA WantCore ==
    ASSUME NEW s, NEW at, NEW loc, NEW wnt, NEW look, NEW chg, Core(s, at, loc, wnt, look, chg),
           NEW p \in Procs, at[p] = "idle", NEW k \in Blocks,
           NEW wnt2, wnt2 = [wnt EXCEPT ![p] = k]
    PROVE  Core(s, at, loc, wnt2, look, chg)
<1>1. Types(s, at, loc, wnt, look, chg)
  BY DEF Core
<1>2. wnt2 \in [Procs -> Blocks \cup {NoBlock}] /\ \A q \in Procs \ {p} : wnt2[q] = wnt[q]
  BY <1>1 DEF Types
<1>3. Types(s, at, loc, wnt2, look, chg)
  BY <1>1, <1>2 DEF Types
<1>4. Places(s, at, loc, wnt2)
  BY <1>2 DEF Core, Places, Doing, Reading, Replacing, Syncing
<1>5. Locks(s, at, loc, wnt2, look, chg)
  BY <1>2 DEF Core, Locks, Replacing
<1> QED
  BY <1>3, <1>4, <1>5 DEF Core

\* WriteBuffer sets BM_DIRTY and BM_JUST_DIRTIED.
SetDirty(s, b) == [s EXCEPT !.buf[b].dirty = TRUE, !.buf[b].just = TRUE]

LEMMA DirtyCore ==
    ASSUME NEW s, NEW at, NEW loc, NEW wnt, NEW look, NEW chg, Core(s, at, loc, wnt, look, chg),
           NEW p \in Procs, NEW b \in Buffers, at[p] = "idle", s.pins[p][b] > 0,
           NEW t, t = SetDirty(s, b)
    PROVE  /\ Core(t, at, loc, wnt, look, chg) /\ t.pins = s.pins
           /\ \A c \in Buffers : t.buf[c].tag = s.buf[c].tag
<1> DEFINE r == [s.buf[b] EXCEPT !.dirty = TRUE, !.just = TRUE]
<1>1. s \in PoolType /\ Counts(s) /\ Types(s, at, loc, wnt, look, chg) /\ s.buf[b] \in BufRec
  BY PoolFields DEF Core, Types
<1>2. /\ r \in BufRec /\ r.ref = s.buf[b].ref /\ r.waiter = s.buf[b].waiter /\ r.tag = s.buf[b].tag
      /\ r.page = s.buf[b].page /\ r.cntx = s.buf[b].cntx
      /\ r.err = s.buf[b].err /\ r.io = s.buf[b].io
  <2>1. r \in BufRec
    BY <1>1 DEF BufRec
  <2> QED
    BY <1>1, <2>1 DEF BufRec
<1>3. t = Put(s, b, r)
  BY <1>1 DEF PoolType, Put, SetDirty
<1> HIDE DEF r
<1>4. /\ t \in PoolType /\ t.buf[b] = r /\ \A c \in Buffers \ {b} : t.buf[c] = s.buf[c]
      /\ t.pins = s.pins /\ t.free = s.free /\ t.sem = s.sem /\ Counts(t)
  BY <1>1, <1>2, <1>3, SetBuffer
<1>5. /\ \A c \in Buffers : /\ t.buf[c].tag = s.buf[c].tag /\ t.buf[c].page = s.buf[c].page
                            /\ t.buf[c].cntx = s.buf[c].cntx /\ t.buf[c].io = s.buf[c].io
                            /\ t.buf[c].err = s.buf[c].err /\ t.buf[c].ref = s.buf[c].ref
                            /\ t.buf[c].waiter = s.buf[c].waiter
                            /\ c # b => t.buf[c].dirty = s.buf[c].dirty
  BY <1>2, <1>4
<1>6. Types(t, at, loc, wnt, look, chg)
  BY <1>1, <1>4 DEF Types
<1>7. Tags(t)
  <2>1. s.buf[b].tag # NoBlock
    BY DEF Core, Tags
  <2> QED
    BY <1>4, <1>5, <2>1 DEF Core, Tags, Unwritten
<1>8. \A q \in Procs : loc[q] \in Buffers
  BY <1>1 DEF Types
<1>9. Places(t, at, loc, wnt)
  BY <1>4, <1>5, <1>8 DEF Core, Places
<1>10. Locks(t, at, loc, wnt, look, chg)
  BY <1>4, <1>5 DEF Core, Locks
<1>11. Signals(t, at, loc) /\ Logs(t, at, loc)
  BY <1>4, <1>5, <1>8 DEF Core, Signals, Logs
<1>12. Contents(t, at, loc)
  <2>1. SUFFICES ASSUME "write" \notin plan.may PROVE Contents(t, at, loc)
    BY DEF Contents
  <2>2. \A c \in Buffers : Bad(t, at, loc, c) <=> Bad(s, at, loc, c)
    BY <1>5 DEF Bad
  <2>3. ~Bad(s, at, loc, b)
    BY <2>1 DEF Core, Contents, Reading
  <2>4. ASSUME NEW c \in Buffers, Bad(t, at, loc, c)
        PROVE  /\ ~Unwritten(t.buf[c])
               /\ \A q \in Procs : t.pins[q][c] > 0 =>
                     \/ at[q] \in Reading \cup {"waitio"} /\ loc[q] = c
                     \/ at[q] \in {"unlock", "unpin"}
    <3>1. c # b /\ Bad(s, at, loc, c)
      BY <2>2, <2>3, <2>4
    <3>2. /\ ~Unwritten(s.buf[c])
          /\ \A q \in Procs : s.pins[q][c] > 0 =>
                \/ at[q] \in Reading \cup {"waitio"} /\ loc[q] = c
                \/ at[q] \in {"unlock", "unpin"}
      BY <2>1, <3>1 DEF Core, Contents
    <3> QED
      BY <1>4, <3>1, <3>2
  <2>5. /\ \A c \in Buffers : s.buf[c].tag # NoBlock =>
              /\ Bad(s, at, loc, c) \/ s.buf[c].page = latest[s.buf[c].tag]
              /\ s.buf[c].cntx \/ disk[s.buf[c].tag] = latest[s.buf[c].tag]
        /\ \A j \in Blocks : disk[j] = latest[j] \/ \E c \in Buffers : s.buf[c].tag = j
        /\ \A q \in Procs : /\ at[q] # "abortout"
                            /\ at[q] = "written" =>
                                  disk[s.buf[loc[q]].tag] = latest[s.buf[loc[q]].tag]
    BY <2>1 DEF Core, Contents
  <2>6. ASSUME NEW c \in Buffers, t.buf[c].tag # NoBlock
        PROVE  /\ Bad(t, at, loc, c) \/ t.buf[c].page = latest[t.buf[c].tag]
               /\ t.buf[c].cntx \/ disk[t.buf[c].tag] = latest[t.buf[c].tag]
    <3>1. /\ Bad(s, at, loc, c) \/ s.buf[c].page = latest[s.buf[c].tag]
          /\ s.buf[c].cntx \/ disk[s.buf[c].tag] = latest[s.buf[c].tag]
      BY <1>5, <2>5, <2>6
    <3> QED
      BY <1>5, <2>2, <3>1
  <2>7. \A j \in Blocks : disk[j] = latest[j] \/ \E c \in Buffers : t.buf[c].tag = j
    BY <1>5, <2>5
  <2>8. \A q \in Procs : /\ at[q] # "abortout"
                         /\ at[q] = "written" =>
                               disk[t.buf[loc[q]].tag] = latest[t.buf[loc[q]].tag]
    BY <1>5, <1>8, <2>5
  <2> QED
    BY <2>4, <2>6, <2>7, <2>8 DEF Contents
<1> QED
  BY <1>4, <1>5, <1>6, <1>7, <1>9, <1>10, <1>11, <1>12 DEF Core

\* An I/O on b is over: the page is as it is on disk, or what is not yet on
\* disk is still marked so.
DoneAt(from, to) == <<from, to>> \in {<<"written", "idle">>, <<"syncdone", "sync">>}

LEMMA DoneCore ==
    ASSUME NEW s, NEW at, NEW loc, NEW wnt, NEW look, NEW chg, Core(s, at, loc, wnt, look, chg),
           NEW p \in Procs, NEW b \in Buffers, loc[p] = b,
           NEW l, DoneAt(at[p], l),
           NEW r \in BufRec, r.tag = s.buf[b].tag, r.ref = s.buf[b].ref, r.page = s.buf[b].page,
           r.err = s.buf[b].err, r.waiter = s.buf[b].waiter, ~r.io,
           r.dirty => s.buf[b].dirty, r.cntx => s.buf[b].cntx,
           at[p] = "syncdone" => r.cntx = s.buf[b].cntx,
           NEW t, t = Put(s, b, r), NEW at2, at2 = [at EXCEPT ![p] = l]
    PROVE  Core(t, at2, loc, wnt, look, chg)
<1>1. s \in PoolType /\ Counts(s) /\ Types(s, at, loc, wnt, look, chg) /\ s.buf[b] \in BufRec
  BY PoolFields DEF Core, Types
<1>2. /\ t \in PoolType /\ t.buf[b] = r /\ \A c \in Buffers \ {b} : t.buf[c] = s.buf[c]
      /\ t.pins = s.pins /\ t.free = s.free /\ t.sem = s.sem /\ Counts(t)
  BY <1>1, SetBuffer
<1>3. /\ \A c \in Buffers : /\ t.buf[c].tag = s.buf[c].tag /\ t.buf[c].page = s.buf[c].page
                            /\ t.buf[c].err = s.buf[c].err /\ t.buf[c].ref = s.buf[c].ref
                            /\ t.buf[c].waiter = s.buf[c].waiter
                            /\ Unwritten(t.buf[c]) => Unwritten(s.buf[c])
                            /\ c # b => t.buf[c] = s.buf[c]
      /\ t.buf[b].cntx = r.cntx
  BY <1>2 DEF Unwritten
<1>4. /\ \A q \in Procs : at[q] \in PCs /\ loc[q] \in Buffers
      /\ at2 \in [Procs -> PCs] /\ at2[p] = l /\ \A q \in Procs \ {p} : at2[q] = at[q]
      /\ at[p] \in {"written", "syncdone"} /\ l \in {"idle", "sync"}
  BY <1>1 DEF Types, PCs, Doing, Replacing, Syncing, DoneAt
<1>5. Types(t, at2, loc, wnt, look, chg)
  BY <1>1, <1>2, <1>4 DEF Types
<1>6. Tags(t)
  BY <1>2, <1>3 DEF Core, Tags
<1>7. Places(t, at2, loc, wnt)
  <2>1. Places(s, at, loc, wnt)
    BY DEF Core
  <2>2. \A q \in Procs \ {p} : at[q] \in Doing => loc[q] # b
    BY <1>4, <2>1 DEF Places, Doing, Replacing, Syncing
  <2>3. ASSUME NEW q \in Procs, q # p
        PROVE  /\ at2[q] \in Doing \cup {"waitio", "cleanup", "sleeping"} => t.pins[q][loc[q]] > 0
               /\ at2[q] \in Doing =>
                     /\ t.buf[loc[q]].io
                     /\ \A o \in Procs : at2[o] \in Doing /\ loc[o] = loc[q] => o = q
               /\ at2[q] \in Replacing =>
                     /\ wnt[q] \in Blocks
                     /\ \A o \in Procs \ {q} : t.pins[o][loc[q]] > 0 => at2[o] = "waitio" /\ loc[o] = loc[q]
               /\ at2[q] \in Syncing => q = Checkpointer /\ loc[q] = next
    <3>1. at2[q] = at[q] /\ loc[q] \in Buffers
      BY <1>4, <2>3
    <3>2. at[q] \in Doing =>
                     /\ t.buf[loc[q]].io
                     /\ \A o \in Procs : at2[o] \in Doing /\ loc[o] = loc[q] => o = q
      BY <1>3, <1>4, <2>1, <2>2, <2>3, <3>1 DEF Places, Doing, Replacing, Syncing, Reading
    <3>3. at[q] \in Replacing =>
                     /\ wnt[q] \in Blocks
                     /\ \A o \in Procs \ {q} : t.pins[o][loc[q]] > 0 => at2[o] = "waitio" /\ loc[o] = loc[q]
      BY <1>2, <1>4, <2>1, <2>3, <3>1 DEF Places
    <3> QED
      BY <1>2, <2>1, <3>1, <3>2, <3>3 DEF Places
  <2>4. l \notin Doing \cup {"waitio", "cleanup", "sleeping"}
    BY <1>4 DEF Doing, Reading, Replacing, Syncing
  <2> QED
    BY <1>4, <2>3, <2>4 DEF Places, Doing
<1>8. Locks(t, at2, loc, wnt, look, chg)
  <2>1. at[p] = "written" => \A q \in Procs : excl[b] # q
    <3>1. at[p] = "written" => \A q \in Procs \ {p} : s.pins[q][b] > 0 => at[q] = "waitio" /\ loc[q] = b
      BY DEF Core, Places, Replacing
    <3> QED
      BY <1>4, <3>1 DEF Core, Locks, Holds, Replacing
  <2>2. \A c \in Buffers : excl[c] # Nobody => t.buf[c].cntx
    <3>1. excl[b] \in Procs \cup {Nobody}
      BY <1>1, <1>4 DEF Types
    <3>2. \A c \in Buffers : excl[c] # Nobody => s.buf[c].cntx
      BY DEF Core, Locks
    <3> QED
      BY <1>3, <1>4, <2>1, <3>1, <3>2
  <2>3. \A q \in Procs : /\ at2[q] = "cleanup" => at[q] = "cleanup"
                         /\ at2[q] \in Replacing => at[q] \in Replacing
                         /\ at2[q] = "sleeping" => at[q] = "sleeping"
                         /\ at2[q] \in {"waitio", "reading"} => at2[q] = at[q]
                         /\ at2[q] \in Failing => at[q] \in Failing
                         /\ at2[q] = "syncwrite" <=> at[q] = "syncwrite"
    BY <1>4 DEF Failing, Replacing
  <2> QED
    BY <1>2, <1>3, <2>2, <2>3 DEF Core, Locks, Procs
<1>9. Signals(t, at2, loc) /\ Logs(t, at2, loc)
  BY <1>2, <1>3, <1>4 DEF Core, Signals, Logs
<1>10. Contents(t, at2, loc)
  <2>1. SUFFICES ASSUME "write" \notin plan.may PROVE Contents(t, at2, loc)
    BY DEF Contents
  <2>2. \A c \in Buffers : Bad(t, at2, loc, c) <=> Bad(s, at, loc, c)
    BY <1>3, <1>4 DEF Bad, Reading
  <2>3. ASSUME NEW c \in Buffers, Bad(t, at2, loc, c)
        PROVE  /\ ~Unwritten(t.buf[c])
               /\ \A q \in Procs : t.pins[q][c] > 0 =>
                     \/ at2[q] \in Reading \cup {"waitio"} /\ loc[q] = c
                     \/ at2[q] \in {"unlock", "unpin"}
    <3>1. /\ ~Unwritten(s.buf[c])
          /\ \A q \in Procs : s.pins[q][c] > 0 =>
                \/ at[q] \in Reading \cup {"waitio"} /\ loc[q] = c
                \/ at[q] \in {"unlock", "unpin"}
      BY <2>1, <2>2, <2>3 DEF Core, Contents
    <3>2. at[p] \notin Reading \cup {"waitio", "unlock", "unpin"}
      BY <1>4 DEF Reading
    <3> QED
      BY <1>2, <1>3, <1>4, <3>1, <3>2
  <2>4. /\ \A c \in Buffers : s.buf[c].tag # NoBlock =>
              /\ Bad(s, at, loc, c) \/ s.buf[c].page = latest[s.buf[c].tag]
              /\ s.buf[c].cntx \/ disk[s.buf[c].tag] = latest[s.buf[c].tag]
        /\ \A j \in Blocks : disk[j] = latest[j] \/ \E c \in Buffers : s.buf[c].tag = j
        /\ \A q \in Procs : /\ at[q] # "abortout"
                            /\ at[q] = "written" =>
                                  disk[s.buf[loc[q]].tag] = latest[s.buf[loc[q]].tag]
    BY <2>1 DEF Core, Contents
  <2>5. ASSUME NEW c \in Buffers, t.buf[c].tag # NoBlock
        PROVE  /\ Bad(t, at2, loc, c) \/ t.buf[c].page = latest[t.buf[c].tag]
               /\ t.buf[c].cntx \/ disk[t.buf[c].tag] = latest[t.buf[c].tag]
    <3>1. /\ Bad(s, at, loc, c) \/ s.buf[c].page = latest[s.buf[c].tag]
          /\ s.buf[c].cntx \/ disk[s.buf[c].tag] = latest[s.buf[c].tag]
          /\ t.buf[c].tag = s.buf[c].tag
      BY <1>3, <2>4, <2>5
    <3>2. t.buf[c].cntx \/ disk[t.buf[c].tag] = latest[t.buf[c].tag]
      <4>1. CASE c = b
        <5>1. CASE at[p] = "syncdone"
          <6>1. t.buf[b].cntx = s.buf[b].cntx
            BY <1>3, <5>1
          <6> QED
            BY <3>1, <4>1, <6>1
        <5>2. CASE at[p] = "written"
          <6>1. disk[s.buf[b].tag] = latest[s.buf[b].tag]
            BY <2>4, <5>2
          <6> QED
            BY <3>1, <4>1, <6>1
        <5> QED
          BY <1>4, <5>1, <5>2
      <4>2. CASE c # b
        BY <1>3, <3>1, <4>2
      <4> QED
        BY <4>1, <4>2
    <3> QED
      BY <1>3, <2>2, <3>1, <3>2
  <2>6. \A j \in Blocks : disk[j] = latest[j] \/ \E c \in Buffers : t.buf[c].tag = j
    BY <1>3, <2>4
  <2>7. \A q \in Procs : /\ at2[q] # "abortout"
                         /\ at2[q] = "written" =>
                               disk[t.buf[loc[q]].tag] = latest[t.buf[loc[q]].tag]
    BY <1>3, <1>4, <2>4
  <2> QED
    BY <2>3, <2>5, <2>6, <2>7 DEF Contents
<1> QED
  BY <1>2, <1>3, <1>5, <1>6, <1>7, <1>8, <1>9, <1>10 DEF Core

\* AtEOXact_Buffers: however often p has b pinned, it is one pin now.
SetPin(s, p, b) == [s EXCEPT !.pins[p][b] = 1]

LEMMA PinsOneCore ==
    ASSUME NEW s, NEW at, NEW loc, NEW wnt, NEW look, NEW chg, Core(s, at, loc, wnt, look, chg),
           NEW p \in Procs, NEW b \in Buffers, s.pins[p][b] > 0,
           NEW t, t = SetPin(s, p, b)
    PROVE  Core(t, at, loc, wnt, look, chg) /\ t.pins[p][b] = 1 /\ t.buf = s.buf
<1>1. s \in PoolType /\ Counts(s) /\ Types(s, at, loc, wnt, look, chg)
  BY DEF Core, Types
<1>2. s = [buf |-> s.buf, free |-> s.free, pins |-> s.pins, sem |-> s.sem]
  BY <1>1 DEF PoolType
<1>3. s.pins \in [Procs -> [Buffers -> Nat]] /\ s.buf \in [Buffers -> BufRec] /\ s.free \in Seq(Buffers)
      /\ s.sem \in [Procs -> Nat]
  BY <1>1, PoolFields
<1>4. t = [buf |-> s.buf, free |-> s.free, pins |-> [s.pins EXCEPT ![p][b] = 1], sem |-> s.sem]
  BY <1>2 DEF SetPin
<1>5. t.buf = s.buf /\ t.free = s.free /\ t.sem = s.sem /\ t.pins = [s.pins EXCEPT ![p][b] = 1]
  BY <1>4
<1>6. t.pins \in [Procs -> [Buffers -> Nat]]
  BY <1>3, <1>5
<1>7. t \in PoolType
  BY <1>3, <1>4, <1>5, <1>6 DEF PoolType
<1>8. /\ t.pins[p][b] = 1
      /\ \A q \in Procs, c \in Buffers : /\ t.pins[q][c] \in Nat /\ s.pins[q][c] \in Nat
                                         /\ t.pins[q][c] > 0 <=> s.pins[q][c] > 0
  BY <1>3, <1>5
<1>9. Counts(t)
  BY <1>1, <1>5, <1>7, <1>8, CountsKept
<1>10. \A q \in Procs : loc[q] \in Buffers
  BY <1>1 DEF Types
<1>11. Types(t, at, loc, wnt, look, chg)
  BY <1>1, <1>7 DEF Types
<1>12. Tags(t)
  BY <1>5, <1>8 DEF Core, Tags
<1>13. Places(t, at, loc, wnt)
  BY <1>5, <1>8, <1>10 DEF Core, Places
<1>14. Locks(t, at, loc, wnt, look, chg)
  BY <1>5, <1>8 DEF Core, Locks
<1>15. Signals(t, at, loc) /\ Logs(t, at, loc)
  BY <1>5 DEF Core, Signals, Logs
<1>16. Contents(t, at, loc)
  BY <1>5, <1>8 DEF Core, Contents, Bad
<1> QED
  BY <1>5, <1>8, <1>9, <1>11, <1>12, <1>13, <1>14, <1>15, <1>16 DEF Core
-----------------------------------------------------------------------------
(***************************************************************************)
(* The actions.                                                            *)
(***************************************************************************)
Env == <<plan, cntx, disk, log, redo, ckpt>>

\* Nothing but the pool, the places and the processes' own sets has changed.
LEMMA EnvCore ==
    ASSUME Core(Pool', pc', cur', want', looked', changed'), UNCHANGED Env,
           next' = next \/ (next' \in Nat /\ pc'[Checkpointer] \notin Syncing)
    PROVE  Core(Pool, pc, cur, want, looked, changed)'
<1>1. /\ plan' = plan /\ share' = share /\ excl' = excl /\ cleaning' = cleaning /\ disk' = disk
      /\ lsn' = lsn /\ flushed' = flushed /\ latest' = latest /\ redo' = redo /\ ckpt' = ckpt
  BY DEF Env, cntx, log
<1>2. Buffers' = Buffers
  BY <1>1 DEF Buffers
<1>3. Types(Pool, pc, cur, want, looked, changed)'
  BY <1>1, <1>2 DEF Core, Types, PoolType
<1>4. Counts(Pool)' /\ Tags(Pool)'
  BY <1>1, <1>2 DEF Core, Counts, Tags, PinnedBy, Unwritten
<1>5. Places(Pool, pc, cur, want)'
  BY <1>1, <1>2 DEF Core, Places
<1>6. Locks(Pool, pc, cur, want, looked, changed)'
  BY <1>1, <1>2 DEF Core, Locks, Holds
<1>7. Signals(Pool, pc, cur)' /\ Logs(Pool, pc, cur)'
  BY <1>1, <1>2 DEF Core, Signals, Logs
<1>8. Contents(Pool, pc, cur)'
  BY <1>1, <1>2 DEF Core, Contents, Bad, Unwritten
<1> QED
  BY <1>3, <1>4, <1>5, <1>6, <1>7, <1>8 DEF Core

LEMMA SyncedKept ==
    ASSUME NEW s, NEW at, Synced(s, at), disk \in [Blocks -> Int], latest \in [Blocks -> Nat],
           redo \in [Blocks -> Nat], NEW t, Moved(s, t), NEW at2,
           at2[Checkpointer] = at[Checkpointer] \/ at2[Checkpointer] \notin Syncing \cup {"sync"}
    PROVE  Synced(t, at2)
<1>1. SUFFICES ASSUME "write" \notin plan.may, at2[Checkpointer] \in Syncing \cup {"sync"},
                      NEW k \in Blocks, disk[k] < redo[k]
               PROVE  \E b \in Buffers : /\ t.buf[b].tag = k /\ b >= next
                                         /\ at2[Checkpointer] = "syncdone" => b > next
  BY DEF Synced
<1>2. at2[Checkpointer] = at[Checkpointer]
  BY <1>1
<1>3. PICK b \in Buffers : /\ s.buf[b].tag = k /\ b >= next
                           /\ at[Checkpointer] = "syncdone" => b > next
  BY <1>1, <1>2 DEF Synced
<1>4. disk[k] # latest[k]
  <2>1. redo[k] <= latest[k] /\ redo[k] \in Nat /\ latest[k] \in Nat /\ disk[k] \in Int
    BY <1>1 DEF Synced
  <2> QED
    BY <1>1, <2>1
<1>5. t.buf[b].tag = k
  BY <1>1, <1>3, <1>4, ProcessesDistinct DEF Moved, NoBlock
<1> QED
  BY <1>3, <1>5, <1>2

LEMMA EnvSynced ==
    ASSUME Synced(Pool', pc'), UNCHANGED Env, next' = next
    PROVE  Synced(Pool, pc)'
<1>1. plan' = plan /\ disk' = disk /\ latest' = latest /\ redo' = redo /\ ckpt' = ckpt
  BY DEF Env, log
<1>2. Buffers' = Buffers
  BY <1>1 DEF Buffers
<1> QED
  BY <1>1, <1>2 DEF Synced

\* An action of p under BufMgrLock.
LEMMA PoolAction ==
    ASSUME Inv, UNCHANGED <<Env, next>>, Core(Pool', pc', cur', want', looked', changed'),
           Moved(Pool, Pool'),
           pc'[Checkpointer] = pc[Checkpointer] \/ pc'[Checkpointer] \notin Syncing \cup {"sync"}
    PROVE  Inv'
<1>1. Core(Pool, pc, cur, want, looked, changed)'
  BY EnvCore
<1>2. Synced(Pool', pc')
  BY SyncedKept DEF Inv, Core, Types
<1> QED
  BY <1>1, <1>2, EnvSynced DEF Inv

LEMMA PoolOf == Pool.buf = buf /\ Pool.free = free /\ Pool.pins = pins /\ Pool.sem = sem
BY DEF Pool

LEMMA Typing ==
    ASSUME Inv
    PROVE  /\ Pool \in PoolType /\ Counts(Pool)
           /\ Types(Pool, pc, cur, want, looked, changed)
           /\ pc \in [Procs -> PCs] /\ cur \in [Procs -> Buffers]
           /\ looked \in [Procs -> SUBSET Buffers] /\ changed \in [Procs -> SUBSET Buffers]
           /\ buf \in [Buffers -> BufRec] /\ pins \in [Procs -> [Buffers -> Nat]] /\ sem \in [Procs -> Nat]
           /\ Checkpointer \in Procs /\ Checkpointer \notin Backends /\ Backends \subseteq Procs
           /\ Nobody \notin Procs /\ NoBlock \notin Blocks
<1>1. Pool \in PoolType /\ Counts(Pool) /\ Types(Pool, pc, cur, want, looked, changed)
  BY DEF Inv, Core, Types
<1>2. /\ Pool.buf \in [Buffers -> BufRec] /\ Pool.pins \in [Procs -> [Buffers -> Nat]]
      /\ Pool.sem \in [Procs -> Nat]
  BY <1>1, PoolFields
<1> QED
  BY <1>1, <1>2, PoolOf, ProcessesDistinct DEF Types, Procs, NoBlock

\* Release: the pool, and the process that forgets.
LEMMA ReleaseCore ==
    ASSUME Inv, NEW p \in Procs, NEW b \in Buffers, MayRelease(p, b), Forget(p, b)
    PROVE  Core(UnpinBuffer(Pool, p, b), pc, cur, want, looked', changed)
           /\ Same(Pool, UnpinBuffer(Pool, p, b))
<1> DEFINE t == UnpinBuffer(Pool, p, b)
<1>1. /\ Pool.pins[p][b] > 0 /\ ~Holds(p, b) /\ pc[p] = "idle" /\ b \notin changed[p]
  BY PoolOf DEF MayRelease
<1>2. /\ looked' \in [Procs -> SUBSET Buffers]
      /\ \A q \in Procs : looked'[q] \subseteq looked[q]
      /\ Pool.pins[p][b] = 1 => b \notin looked'[p]
  BY Typing, PoolOf DEF Forget
<1>3. t = UnpinBuffer(Pool, p, b) /\ Core(Pool, pc, cur, want, looked, changed)
      /\ changed \in [Procs -> SUBSET Buffers]
  BY Typing DEF Inv
<1>4. pc[p] \notin Doing \cup {"waitio", "cleanup", "sleeping"}
  BY <1>1 DEF Doing, Reading, Replacing, Syncing
<1> HIDE DEF t
<1>5. Core(t, pc, cur, want, looked', changed)
  BY <1>1, <1>2, <1>3, <1>4, UnpinCore
<1>6. Same(Pool, t)
  BY <1>1, <1>3, Typing, UnpinPool
<1> QED
  BY <1>5, <1>6 DEF t

LEMMA ReleaseStep ==
    ASSUME Inv, NEW p \in Procs, NEW b \in Buffers, ReleaseBuffer(p, b), UNCHANGED plan
    PROVE  Inv'
<1> DEFINE t == UnpinBuffer(Pool, p, b)
<1>1. MayRelease(p, b) /\ Forget(p, b) /\ SetPool(t) /\ UNCHANGED <<cntx, pc, cur, want, disk, log, sync, changed>>
  BY DEF ReleaseBuffer
<1>2. Core(t, pc, cur, want, looked', changed) /\ Same(Pool, t)
  BY <1>1, ReleaseCore
<1> HIDE DEF t
<1>3. Pool' = t
  BY <1>1, <1>2, PoolSet DEF Core, Types
<1>4. UNCHANGED <<Env, next>> /\ pc' = pc /\ cur' = cur /\ want' = want /\ changed' = changed
  BY <1>1 DEF Env, sync
<1>5. Moved(Pool, Pool')
  BY <1>2, <1>3 DEF Moved, Same
<1> QED
  BY <1>2, <1>3, <1>4, <1>5, PoolAction

LEMMA ReadStep ==
    ASSUME Inv, NEW p \in Procs, NEW k \in Blocks, ReadBuffer(p, k), UNCHANGED plan
    PROVE  Inv'
<1>1. /\ pc[p] = "idle" /\ \A c \in Having(Pool, k) : ~Holds(p, c)
      /\ BufferAlloc(Pool, p, k) /\ want' = [want EXCEPT ![p] = k]
      /\ UNCHANGED <<cntx, disk, log, sync, own>>
  BY DEF ReadBuffer, MayRead
<1>2. Core(Pool, pc, cur, want', looked, changed)
  BY <1>1, WantCore DEF Inv
<1>3. pc = [pc EXCEPT ![p] = "idle"] /\ pc \in [Procs -> PCs] /\ want'[p] = k
  BY <1>1, Typing DEF Types
<1>4. Core(Pool', pc', cur', want', looked, changed) /\ Moved(Pool, Pool') /\ OnlyMoves(p)
  BY <1>1, <1>2, <1>3, AllocCore
<1>5. UNCHANGED <<Env, next>> /\ looked' = looked /\ changed' = changed
  BY <1>1 DEF Env, sync, own
<1>6. pc'[Checkpointer] = pc[Checkpointer] \/ pc'[Checkpointer] \notin Syncing \cup {"sync"}
  BY <1>4, Typing DEF OnlyMoves
<1> QED
  BY <1>4, <1>5, <1>6, PoolAction

LEMMA ReleaseAndReadStep ==
    ASSUME Inv, NEW p \in Procs, NEW b \in Buffers, NEW k \in Blocks, ReleaseAndReadBuffer(p, b, k),
           UNCHANGED plan
    PROVE  Inv'
<1> DEFINE t == UnpinBuffer(Pool, p, b)
<1>1. /\ pc[p] = "idle" /\ \A c \in Having(Pool, k) : ~Holds(p, c)
      /\ BufferAlloc(t, p, k) /\ want' = [want EXCEPT ![p] = k]
      /\ UNCHANGED <<cntx, disk, log, sync, changed>>
  BY DEF ReleaseAndReadBuffer, MayRead
<1>2. MayRelease(p, b) /\ Forget(p, b)
  BY DEF ReleaseAndReadBuffer
<1>3. Core(t, pc, cur, want, looked', changed) /\ Same(Pool, t)
  BY <1>2, ReleaseCore
<1> HIDE DEF t
<1>4. Core(t, pc, cur, want', looked', changed)
  BY <1>1, <1>3, WantCore
<1>5. pc = [pc EXCEPT ![p] = "idle"] /\ pc \in [Procs -> PCs] /\ want'[p] = k
  BY <1>1, Typing DEF Types
<1>6. \A c \in Having(t, k) : ~Holds(p, c)
  BY <1>1, <1>3 DEF Having, Same
<1>7. Core(Pool', pc', cur', want', looked', changed) /\ Moved(t, Pool') /\ OnlyMoves(p)
  BY <1>1, <1>4, <1>5, <1>6, AllocCore
<1>8. UNCHANGED <<Env, next>> /\ changed' = changed
  BY <1>1 DEF Env, sync
<1>9. Moved(Pool, Pool')
  BY <1>3, <1>7 DEF Moved, Same
<1>10. pc'[Checkpointer] = pc[Checkpointer] \/ pc'[Checkpointer] \notin Syncing \cup {"sync"}
  BY <1>7, Typing DEF OnlyMoves
<1> QED
  BY <1>7, <1>8, <1>9, <1>10, PoolAction

LEMMA WriteStep ==
    ASSUME Inv, NEW p \in Procs, NEW b \in Buffers, WriteBuffer(p, b), UNCHANGED plan
    PROVE  Inv'
<1> DEFINE s == SetDirty(Pool, b)
           t == UnpinBuffer(s, p, b)
<1>1. /\ pc[p] = "idle" /\ b \in changed[p] /\ excl[b] # p /\ SetPool(t) /\ Forget(p, b)
      /\ changed' = [changed EXCEPT ![p] = @ \ {b}]
      /\ UNCHANGED <<cntx, pc, cur, want, disk, log, sync>>
  BY DEF WriteBuffer, SetDirty
<1>2. Pool.pins[p][b] > 0 /\ ~Holds(p, b)
  BY <1>1 DEF Inv, Core, Locks, Holds
<1>3. s = SetDirty(Pool, b) /\ t = UnpinBuffer(s, p, b)
  OBVIOUS
<1> HIDE DEF s, t
<1>4. /\ Core(s, pc, cur, want, looked, changed) /\ s.pins = Pool.pins
      /\ \A c \in Buffers : s.buf[c].tag = Pool.buf[c].tag
  BY <1>1, <1>2, <1>3, DirtyCore DEF Inv
<1>5. /\ looked' \in [Procs -> SUBSET Buffers] /\ changed' \in [Procs -> SUBSET Buffers]
      /\ \A q \in Procs : looked'[q] \subseteq looked[q] /\ changed'[q] \subseteq changed[q]
      /\ s.pins[p][b] = 1 => b \notin looked'[p] /\ b \notin changed'[p]
  BY <1>1, <1>4, Typing, PoolOf DEF Forget
<1>6. pc[p] \notin Doing \cup {"waitio", "cleanup", "sleeping"} /\ s.pins[p][b] > 0
  BY <1>1, <1>2, <1>4 DEF Doing, Reading, Replacing, Syncing
<1>7. Core(t, pc, cur, want, looked', changed')
  BY <1>2, <1>3, <1>4, <1>5, <1>6, UnpinCore
<1>8. Same(s, t)
  BY <1>3, <1>4, <1>6, UnpinPool DEF Core, Types
<1>9. Pool' = t
  BY <1>1, <1>7, PoolSet DEF Core, Types
<1>10. UNCHANGED <<Env, next>> /\ pc' = pc /\ cur' = cur /\ want' = want
  BY <1>1 DEF Env, sync
<1>11. Moved(Pool, Pool')
  BY <1>4, <1>8, <1>9 DEF Moved, Same
<1> QED
  BY <1>7, <1>9, <1>10, <1>11, PoolAction

LEMMA WaitIOStep ==
    ASSUME Inv, NEW p \in Procs, WaitIO(p), UNCHANGED plan
    PROVE  Inv'
<1>1. /\ pc[p] = "waitio" /\ Found(Pool, p, cur[p])
      /\ UNCHANGED <<cntx, want, disk, log, sync, own>>
  BY DEF WaitIO
<1>2. /\ pc = [pc EXCEPT ![p] = "waitio"] /\ cur = [cur EXCEPT ![p] = cur[p]] /\ cur[p] \in Buffers
      /\ pc \in [Procs -> PCs] /\ cur \in [Procs -> Buffers]
  BY <1>1, Typing
<1>3. Core(Pool, pc, cur, want, looked, changed)
  BY DEF Inv
<1>4. /\ Core(Pool', pc', cur', want, looked, changed)
      /\ \A c \in Buffers : Pool'.buf[c].tag = Pool.buf[c].tag
      /\ OnlyMoves(p)
  BY <1>1, <1>2, <1>3, FoundStep
<1>5. UNCHANGED <<Env, next>> /\ want' = want /\ looked' = looked /\ changed' = changed
  BY <1>1 DEF Env, sync, own
<1>6. Moved(Pool, Pool')
  BY <1>4 DEF Moved
<1>7. pc'[Checkpointer] = pc[Checkpointer] \/ pc'[Checkpointer] \notin Syncing \cup {"sync"}
  BY <1>4, Typing DEF OnlyMoves
<1> QED
  BY <1>4, <1>5, <1>6, <1>7, PoolAction

LEMMA UnpinStep ==
    ASSUME Inv, NEW p \in Procs, AtEOXact_Buffers(p), UNCHANGED plan, PinsOf(p) # {}
    PROVE  Inv'
<1>1. PICK b \in PinsOf(p) :
        /\ SetPool(UnpinBuffer(SetPin(Pool, p, b), p, b))
        /\ looked' = [looked EXCEPT ![p] = @ \ {b}] /\ changed' = [changed EXCEPT ![p] = @ \ {b}]
        /\ UNCHANGED pc
  BY DEF AtEOXact_Buffers, SetPin
<1>2. pc[p] = "unpin" /\ UNCHANGED <<cntx, cur, want, disk, log, sync>>
  BY DEF AtEOXact_Buffers
<1> DEFINE s == SetPin(Pool, p, b)
           t == UnpinBuffer(s, p, b)
<1>3. b \in Buffers /\ Pool.pins[p][b] > 0 /\ ~Holds(p, b)
  BY <1>2, PoolOf DEF PinsOf, Inv, Core, Locks, Failing
<1>4. s = SetPin(Pool, p, b) /\ t = UnpinBuffer(s, p, b) /\ SetPool(t)
  BY <1>1
<1> HIDE DEF s, t
<1>5. Core(s, pc, cur, want, looked, changed) /\ s.pins[p][b] = 1 /\ s.buf = Pool.buf
  BY <1>3, <1>4, PinsOneCore DEF Inv
<1>6. /\ looked' \in [Procs -> SUBSET Buffers] /\ changed' \in [Procs -> SUBSET Buffers]
      /\ \A q \in Procs : looked'[q] \subseteq looked[q] /\ changed'[q] \subseteq changed[q]
      /\ b \notin looked'[p] /\ b \notin changed'[p]
  BY <1>1, <1>3, Typing
<1>7. pc[p] \notin Doing \cup {"waitio", "cleanup", "sleeping"} /\ s.pins[p][b] > 0
  BY <1>2, <1>5 DEF Doing, Reading, Replacing, Syncing
<1>8. Core(t, pc, cur, want, looked', changed')
  BY <1>3, <1>4, <1>5, <1>6, <1>7, UnpinCore
<1>9. Same(s, t)
  BY <1>3, <1>4, <1>5, <1>7, UnpinPool DEF Core, Types
<1>10. Pool' = t
  BY <1>4, <1>8, PoolSet DEF Core, Types
<1>11. UNCHANGED <<Env, next>> /\ pc' = pc /\ cur' = cur /\ want' = want
  BY <1>1, <1>2 DEF Env, sync
<1>12. Moved(Pool, Pool')
  BY <1>5, <1>9, <1>10 DEF Moved, Same
<1> QED
  BY <1>8, <1>10, <1>11, <1>12, PoolAction

\* The flags that BufferAlloc clears when the old page is written.
SetClean(s, b) == [s EXCEPT !.buf[b].dirty = FALSE, !.buf[b].cntx = FALSE]
ClearIO(s, b) == [s EXCEPT !.buf[b].io = FALSE]

LEMMA CleanPool ==
    ASSUME NEW s \in PoolType, Counts(s), NEW b \in Buffers
    PROVE  /\ SetClean(s, b) \in PoolType /\ Counts(SetClean(s, b)) /\ SetClean(s, b).pins = s.pins
           /\ SetClean(s, b).sem = s.sem
           /\ \A c \in Buffers \ {b} : SetClean(s, b).buf[c] = s.buf[c]
           /\ SetClean(s, b).buf[b].tag = s.buf[b].tag /\ SetClean(s, b).buf[b].ref = s.buf[b].ref
           /\ SetClean(s, b).buf[b].dirty = FALSE /\ SetClean(s, b).buf[b].cntx = FALSE
           /\ \E r \in BufRec :
                 /\ ClearIO(SetClean(s, b), b) = Put(s, b, r)
                 /\ r.tag = s.buf[b].tag /\ r.ref = s.buf[b].ref /\ r.page = s.buf[b].page
                 /\ r.err = s.buf[b].err /\ r.waiter = s.buf[b].waiter
                 /\ r.io = FALSE /\ r.dirty = FALSE /\ r.cntx = FALSE
<1> DEFINE r0 == [s.buf[b] EXCEPT !.dirty = FALSE, !.cntx = FALSE]
           r1 == [r0 EXCEPT !.io = FALSE]
           t == SetClean(s, b)
<1>1. s = [buf |-> s.buf, free |-> s.free, pins |-> s.pins, sem |-> s.sem] /\ s.buf \in [Buffers -> BufRec]
      /\ s.buf[b] \in BufRec
  BY DEF PoolType
<1>2. /\ r0 \in BufRec /\ r0.ref = s.buf[b].ref /\ r0.tag = s.buf[b].tag /\ r0.page = s.buf[b].page
      /\ r0.err = s.buf[b].err /\ r0.waiter = s.buf[b].waiter /\ r0.dirty = FALSE /\ r0.cntx = FALSE
  <2>1. r0 \in BufRec
    BY <1>1 DEF BufRec
  <2> QED
    BY <1>1, <2>1 DEF BufRec
<1>3. t = Put(s, b, r0)
  BY <1>1 DEF SetClean, Put
<1> HIDE DEF r0, t
<1>4. /\ r1 \in BufRec /\ r1.ref = s.buf[b].ref /\ r1.tag = s.buf[b].tag /\ r1.page = s.buf[b].page
      /\ r1.err = s.buf[b].err /\ r1.waiter = s.buf[b].waiter /\ r1.dirty = FALSE /\ r1.cntx = FALSE
      /\ r1.io = FALSE
  <2>1. r1 \in BufRec
    BY <1>2 DEF BufRec
  <2> QED
    BY <1>2, <2>1 DEF BufRec
<1>5. /\ t \in PoolType /\ t.buf[b] = r0 /\ \A c \in Buffers \ {b} : t.buf[c] = s.buf[c]
      /\ t.pins = s.pins /\ t.free = s.free /\ t.sem = s.sem /\ Counts(t)
  BY <1>2, <1>3, SetBuffer
<1>6. ClearIO(t, b) = Put(s, b, r1)
  <2>1. t = [buf |-> [s.buf EXCEPT ![b] = r0], free |-> s.free, pins |-> s.pins, sem |-> s.sem]
    BY <1>1, <1>3 DEF Put
  <2>2. ClearIO(t, b) = [buf |-> [[s.buf EXCEPT ![b] = r0] EXCEPT ![b] = r1], free |-> s.free,
                         pins |-> s.pins, sem |-> s.sem]
    BY <1>1, <2>1 DEF ClearIO
  <2> HIDE DEF r1
  <2>3. Put(s, b, r1) = [buf |-> [s.buf EXCEPT ![b] = r1], free |-> s.free, pins |-> s.pins, sem |-> s.sem]
    BY <1>1 DEF Put
  <2>4. [[s.buf EXCEPT ![b] = r0] EXCEPT ![b] = r1] = [s.buf EXCEPT ![b] = r1]
    BY <1>1
  <2> QED
    BY <2>2, <2>3, <2>4
<1> HIDE DEF r1
<1>7. \E r \in BufRec : /\ ClearIO(t, b) = Put(s, b, r)
                        /\ r.tag = s.buf[b].tag /\ r.ref = s.buf[b].ref /\ r.page = s.buf[b].page
                        /\ r.err = s.buf[b].err /\ r.waiter = s.buf[b].waiter
                        /\ r.io = FALSE /\ r.dirty = FALSE /\ r.cntx = FALSE
  BY <1>4, <1>6
<1> QED
  BY <1>2, <1>5, <1>7 DEF t

LEMMA ReplacedStep ==
    ASSUME Inv, NEW p \in Procs, Replaced(p), UNCHANGED plan
    PROVE  Inv'
<1> DEFINE b == cur[p]
           k == want[p]
           s == SetClean(Pool, b)
           s1 == ClearIO(s, b)
           t == UnpinBuffer(s1, p, b)
           at == [pc EXCEPT ![p] = "idle"]
<1>1. /\ pc[p] = "written" /\ UNCHANGED <<cntx, want, disk, log, sync, own>>
      /\ \/ Having(s, k) # {} /\ BufferAlloc(t, p, k)
         \/ Having(s, k) = {} /\ s.buf[b].ref > 1 /\ GetBuffer(t, p, k)
         \/ Having(s, k) = {} /\ s.buf[b].ref = 1 /\ Retag(s, p, b, k)
  BY DEF Replaced, SetClean, ClearIO
<1>2. /\ b \in Buffers /\ Core(Pool, pc, cur, want, looked, changed)
      /\ pc \in [Procs -> PCs] /\ cur \in [Procs -> Buffers]
      /\ looked \in [Procs -> SUBSET Buffers] /\ changed \in [Procs -> SUBSET Buffers]
      /\ Pool \in PoolType /\ Counts(Pool)
  BY Typing DEF Inv
<1>3. /\ k \in Blocks /\ Pool.pins[p][b] > 0 /\ ~Holds(p, b) /\ b \notin looked[p] /\ b \notin changed[p]
      /\ \A c \in Buffers : Holds(p, c) => Pool.buf[c].tag # k
  <2>1. pc[p] \in Replacing /\ pc[p] \in Doing
    BY <1>1 DEF Replacing, Doing
  <2> QED
    BY <1>2, <2>1 DEF Core, Places, Locks
<1>4. at[p] = "idle" /\ at = [pc EXCEPT ![p] = "idle"] /\ cur[p] = b /\ want[p] = k
  BY <1>2
<1>5. s = SetClean(Pool, b) /\ s1 = ClearIO(s, b) /\ t = UnpinBuffer(s1, p, b)
  OBVIOUS
<1> HIDE DEF b, k, s, s1, t, at
<1>6. /\ s \in PoolType /\ Counts(s) /\ s.pins = Pool.pins /\ s.sem = Pool.sem
      /\ \A c \in Buffers \ {b} : s.buf[c] = Pool.buf[c]
      /\ s.buf[b].tag = Pool.buf[b].tag /\ s.buf[b].ref = Pool.buf[b].ref
      /\ s.buf[b].dirty = FALSE /\ s.buf[b].cntx = FALSE
  BY <1>2, <1>5, CleanPool
<1>7. PICK r \in BufRec :
                 /\ s1 = Put(Pool, b, r)
                 /\ r.tag = Pool.buf[b].tag /\ r.ref = Pool.buf[b].ref /\ r.page = Pool.buf[b].page
                 /\ r.err = Pool.buf[b].err /\ r.waiter = Pool.buf[b].waiter
                 /\ r.io = FALSE /\ r.dirty = FALSE /\ r.cntx = FALSE
  BY <1>2, <1>5, CleanPool
<1>9. s1.buf[b] = r /\ s1.pins = Pool.pins /\ \A c \in Buffers \ {b} : s1.buf[c] = Pool.buf[c]
  BY <1>2, <1>7, SetBuffer
<1>8. /\ Core(s1, at, cur, want, looked, changed) /\ s1.pins = Pool.pins
      /\ \A c \in Buffers : s1.buf[c].tag = Pool.buf[c].tag /\ s1.buf[c].ref = Pool.buf[c].ref
  <2>1. DoneAt(pc[p], "idle")
    BY <1>1 DEF DoneAt
  <2>2. pc[p] # "syncdone" /\ ~r.io /\ (r.dirty => Pool.buf[b].dirty) /\ (r.cntx => Pool.buf[b].cntx)
    BY <1>1, <1>7
  <2>3. /\ cur[p] = b /\ r \in BufRec /\ r.tag = Pool.buf[b].tag /\ r.ref = Pool.buf[b].ref
        /\ r.page = Pool.buf[b].page /\ r.err = Pool.buf[b].err /\ r.waiter = Pool.buf[b].waiter
        /\ s1 = Put(Pool, b, r) /\ at = [pc EXCEPT ![p] = "idle"]
        /\ pc[p] = "syncdone" => r.cntx = Pool.buf[b].cntx
    BY <1>1, <1>4, <1>7
  <2>4. Core(s1, at, cur, want, looked, changed)
    BY <1>2, <2>1, <2>2, <2>3, DoneCore, Zenon
  <2> QED
    BY <1>7, <1>9, <2>4
<1>10. Core(t, at, cur, want, looked, changed) /\ Same(s1, t)
  <2>1. at[p] \notin Doing \cup {"waitio", "cleanup", "sleeping"} /\ s1.pins[p][b] > 0
    BY <1>3, <1>4, <1>8 DEF Doing, Reading, Replacing, Syncing
  <2>2. Core(t, at, cur, want, looked, changed)
    BY <1>2, <1>3, <1>5, <1>8, <2>1, UnpinCore
  <2>3. Same(s1, t)
    BY <1>2, <1>5, <1>8, <2>1, UnpinPool DEF Core, Types
  <2> QED
    BY <2>2, <2>3
<1>11. \A c \in Buffers : t.buf[c].tag = Pool.buf[c].tag /\ s.buf[c].tag = Pool.buf[c].tag
  BY <1>6, <1>8, <1>10 DEF Same
<1>12. CASE BufferAlloc(t, p, k)
  <2>1. \A c \in Having(t, k) : ~Holds(p, c)
    BY <1>3, <1>11 DEF Having
  <2>2. Core(Pool', pc', cur', want, looked, changed) /\ Moved(t, Pool') /\ OnlyMoves(p)
    BY <1>2, <1>3, <1>4, <1>10, <1>12, <2>1, AllocCore
  <2>3. Moved(Pool, Pool')
    BY <1>11, <2>2 DEF Moved
  <2> QED
    BY <1>1, <2>2, <2>3, Typing, PoolAction DEF Env, sync, own, OnlyMoves
<1>13. CASE Having(s, k) = {} /\ GetBuffer(t, p, k)
  <2>1. \A c \in Buffers : t.buf[c].tag # k
    BY <1>11, <1>13 DEF Having
  <2>7. /\ Core(t, at, cur, want, looked, changed) /\ p \in Procs /\ k \in Blocks /\ want[p] = k
        /\ pc \in [Procs -> PCs] /\ at = [pc EXCEPT ![p] = "idle"]
        /\ \A c \in Buffers : t.buf[c].tag # k
        /\ GetBuffer(t, p, k)
    BY <1>2, <1>3, <1>4, <1>10, <1>13, <2>1
  <2>4. Core(Pool', pc', cur', want, looked, changed)
    BY <2>7, GetBufferCore, Zenon
  <2>5. Moved(t, Pool')
    BY <2>7, GetBufferCore, Zenon
  <2>6. OnlyMoves(p)
    BY <2>7, GetBufferCore, Zenon
  <2>2. Core(Pool', pc', cur', want, looked, changed) /\ Moved(t, Pool') /\ OnlyMoves(p)
    BY <2>4, <2>5, <2>6
  <2>3. Moved(Pool, Pool')
    BY <1>11, <2>2 DEF Moved
  <2> QED
    BY <1>1, <2>2, <2>3, Typing, PoolAction DEF Env, sync, own, OnlyMoves
<1>14. CASE Having(s, k) = {} /\ s.buf[b].ref = 1 /\ Retag(s, p, b, k)
  <2> DEFINE u == Pool'
             at2 == [at EXCEPT ![p] = "reading"]
             cur2 == [cur EXCEPT ![p] = b]
  <2>1. pc' = at2 /\ cur' = cur2 /\ OnlyMoves(p)
    BY <1>2, <1>14 DEF Retag, GotoWith, Goto, OnlyMoves, at, Syncing
  <2>2. /\ u \in PoolType /\ Counts(u) /\ u.pins = s.pins /\ u.sem = s.sem
        /\ \A c \in Buffers \ {b} : u.buf[c] = s.buf[c]
        /\ u.buf[b].tag = k /\ u.buf[b].io = TRUE
        /\ u.buf[b].dirty = s.buf[b].dirty /\ u.buf[b].cntx = s.buf[b].cntx
    <3>1. s \in PoolType /\ Counts(s) /\ b \in Buffers /\ k \in Blocks /\ Retag(s, p, b, k)
      BY <1>2, <1>3, <1>6, <1>14
    <3> QED
      BY <3>1, RetagPool
  <2> HIDE DEF u
  <2>3. \A q \in Procs \ {p} : s1.pins[q][b] = 0
    <3>1. \A q \in Procs : s.pins[q][b] > 0 => q = p
      BY <1>2, <1>3, <1>6, <1>14, OnlyPin
    <3> QED
      BY <1>2, <1>6, <1>8, <3>1, PoolFields
  <2>4. Differ(s1, u, p, b)
    BY <1>6, <1>8, <1>9, <2>2 DEF Differ
  <2>5. /\ ~Unwritten(s1.buf[b]) /\ \A c \in Buffers : s1.buf[c].tag # k
        /\ u.pins[p][b] > 0
        /\ u.buf[b].dirty = s1.buf[b].dirty /\ u.buf[b].cntx = s1.buf[b].cntx
    <3>1. ~Unwritten(s1.buf[b])
      BY <1>7, <1>9 DEF Unwritten
    <3>2. \A c \in Buffers : s1.buf[c].tag # k
      BY <1>8, <1>11, <1>14 DEF Having
    <3>3. u.pins[p][b] > 0
      BY <1>3, <1>6, <2>2
    <3>4. u.buf[b].dirty = s1.buf[b].dirty /\ u.buf[b].cntx = s1.buf[b].cntx
      BY <1>6, <1>7, <1>9, <2>2
    <3> QED
      BY <3>1, <3>2, <3>3, <3>4
  <2>6. u.sem = s1.sem
    BY <1>2, <1>6, <1>7, <2>2, SetBuffer
  <2>7. at2 = [at EXCEPT ![p] = "reading"] /\ cur2 = [cur EXCEPT ![p] = b]
    OBVIOUS
  <2> HIDE DEF at2, cur2
  <2>8. Core(u, at2, cur2, want, looked, changed) /\ Moved(s1, u)
    <3>1. Renamed(s1, at, cur, looked, changed, u, at2, cur2, p, b, k)
      BY <1>2, <1>3, <1>4, <1>8, <2>2, <2>3, <2>4, <2>5, <2>6, <2>7 DEF Renamed
    <3>2. Core(s1, at, cur, want, looked, changed) /\ p \in Procs /\ b \in Buffers /\ k \in Blocks
      BY <1>2, <1>3, <1>4, <1>8
    <3> QED
      BY <3>1, <3>2, RenameCore
  <2>9. Moved(Pool, u)
    BY <1>8, <2>8 DEF Moved
  <2> QED
    BY <1>1, <2>1, <2>8, <2>9, Typing, PoolAction DEF Env, sync, own, OnlyMoves, u
<1> QED
  BY <1>1, <1>12, <1>13, <1>14

LEMMA SyncDoneStep ==
    ASSUME Inv, SyncDone, UNCHANGED plan
    PROVE  Inv'
<1> DEFINE p == Checkpointer
           b == cur[p]
           r == [buf[b] EXCEPT !.io = FALSE, !.dirty = buf[b].dirty /\ buf[b].just]
           s == Put(Pool, b, r)
           t == UnpinBuffer(s, p, b)
           at == [pc EXCEPT ![p] = "sync"]
<1>1. /\ pc[p] = "syncdone"
      /\ SetPool(UnpinBuffer([Pool EXCEPT !.buf[b].io = FALSE, !.buf[b].dirty = @ /\ buf[b].just], p, b))
      /\ next' = next + 1 /\ pc' = at
      /\ UNCHANGED <<cntx, cur, want, disk, log, redo, ckpt, own>>
  BY DEF SyncDone, Goto
<1>2. /\ p \in Procs /\ b \in Buffers /\ Core(Pool, pc, cur, want, looked, changed)
      /\ pc \in [Procs -> PCs] /\ cur \in [Procs -> Buffers] /\ next \in Nat
      /\ looked \in [Procs -> SUBSET Buffers] /\ changed \in [Procs -> SUBSET Buffers]
      /\ Pool \in PoolType /\ Counts(Pool) /\ buf[b] \in BufRec /\ Pool.buf = buf
  BY Typing, PoolOf DEF Inv, Types
<1>3. /\ r \in BufRec /\ r.tag = buf[b].tag /\ r.ref = buf[b].ref /\ r.page = buf[b].page
      /\ r.err = buf[b].err /\ r.waiter = buf[b].waiter /\ r.io = FALSE
      /\ r.dirty = (buf[b].dirty /\ buf[b].just) /\ r.cntx = buf[b].cntx
  <2>1. r \in BufRec
    BY <1>2 DEF BufRec
  <2> QED
    BY <1>2, <2>1 DEF BufRec
<1>4. [Pool EXCEPT !.buf[b].io = FALSE, !.buf[b].dirty = @ /\ buf[b].just] = s
  <2>1. Pool = [buf |-> buf, free |-> free, pins |-> pins, sem |-> sem]
    BY DEF Pool
  <2> HIDE DEF b, p
  <2>2. [buf[b] EXCEPT !.io = FALSE].dirty = buf[b].dirty
    BY <1>2 DEF BufRec
  <2> QED
    BY <1>2, <2>1, <2>2, Typing DEF Put, BufRec
<1>5. /\ Pool.pins[p][b] > 0 /\ ~Holds(p, b) /\ looked[p] = {} /\ changed[p] = {} /\ b = next
  <2>1. pc[p] \in Doing /\ pc[p] \in Syncing
    BY <1>1 DEF Doing, Syncing
  <2> QED
    BY <1>1, <1>2, <2>1 DEF Core, Places, Locks, Holds
<1>6. SetPool(t) /\ t = UnpinBuffer(s, p, b) /\ s = Put(Pool, b, r) /\ at = [pc EXCEPT ![p] = "sync"]
      /\ cur[p] = b
  BY <1>1, <1>4
<1> HIDE DEF p, b, r, s, t, at
<1>7. s.buf[b] = r /\ s.pins = Pool.pins /\ \A c \in Buffers \ {b} : s.buf[c] = Pool.buf[c]
  BY <1>2, <1>3, <1>6, SetBuffer
<1>8. Core(s, at, cur, want, looked, changed)
  <2>1. /\ r \in BufRec /\ r.tag = Pool.buf[b].tag /\ r.ref = Pool.buf[b].ref
        /\ r.page = Pool.buf[b].page /\ r.err = Pool.buf[b].err /\ r.waiter = Pool.buf[b].waiter
        /\ pc[p] = "syncdone" => r.cntx = Pool.buf[b].cntx
        /\ ~r.io /\ (r.dirty => Pool.buf[b].dirty) /\ (r.cntx => Pool.buf[b].cntx)
        /\ DoneAt(pc[p], "sync")
    BY <1>1, <1>2, <1>3 DEF DoneAt
  <2> QED
    BY <1>2, <1>6, <2>1, DoneCore, Zenon
<1>9. Core(t, at, cur, want, looked, changed) /\ Same(s, t)
  <2>1. at[p] \notin Doing \cup {"waitio", "cleanup", "sleeping"} /\ s.pins[p][b] > 0
    BY <1>2, <1>5, <1>6, <1>7 DEF Doing, Reading, Replacing, Syncing
  <2>2. \A q \in Procs : looked[q] \subseteq looked[q] /\ changed[q] \subseteq changed[q]
    OBVIOUS
  <2>3. s.pins[p][b] = 1 => b \notin looked[p] /\ b \notin changed[p]
    BY <1>5
  <2>4. Core(t, at, cur, want, looked, changed)
    BY <1>2, <1>5, <1>6, <1>8, <2>1, <2>2, <2>3, UnpinCore
  <2>5. Same(s, t)
    BY <1>2, <1>6, <1>8, <2>1, UnpinPool DEF Core, Types
  <2> QED
    BY <2>4, <2>5
<1>10. Pool' = t
  BY <1>6, <1>9, PoolSet DEF Core, Types
<1>11. UNCHANGED Env /\ cur' = cur /\ want' = want /\ looked' = looked /\ changed' = changed
  BY <1>1 DEF Env, own
<1>12. pc'[Checkpointer] = "sync" /\ next' \in Nat
  BY <1>1, <1>2, <1>6 DEF p
<1>13. Core(Pool, pc, cur, want, looked, changed)'
  <2>1. Core(Pool', pc', cur', want', looked', changed')
    BY <1>1, <1>9, <1>10, <1>11
  <2>2. pc'[Checkpointer] \notin Syncing
    BY <1>12 DEF Syncing
  <2> QED
    BY <1>11, <1>12, <2>1, <2>2, EnvCore
<1>14. Synced(Pool, pc)'
  <2>1. plan' = plan /\ disk' = disk /\ latest' = latest /\ redo' = redo /\ ckpt' = ckpt
    BY <1>11 DEF Env, log
  <2>2. Buffers' = Buffers
    BY <2>1 DEF Buffers
  <2>3. SUFFICES ASSUME "write" \notin plan.may PROVE Synced(Pool, pc)'
    BY <2>1 DEF Synced
  <2>4. ASSUME NEW k \in Blocks, disk[k] < redo[k]
        PROVE  \E c \in Buffers : Pool'.buf[c].tag = k /\ c >= next'
    <3>1. pc[Checkpointer] \in Syncing /\ pc[Checkpointer] = "syncdone"
      BY <1>1 DEF p, Syncing
    <3>2. PICK c \in Buffers : Pool.buf[c].tag = k /\ c > next
      BY <2>3, <2>4, <3>1 DEF Inv, Synced
    <3>3. Pool'.buf[c].tag = k
      BY <1>2, <1>3, <1>7, <1>9, <1>10, <3>2 DEF Same
    <3>4. c >= next'
      BY <1>1, <1>2, <3>2 DEF Buffers
    <3> QED
      BY <3>3, <3>4
  <2>5. \A k \in Blocks : disk[k] <= latest[k] /\ redo[k] <= latest[k] /\ ckpt[k] <= disk[k]
    BY <2>3 DEF Inv, Synced
  <2> QED
    BY <1>12, <2>1, <2>2, <2>4, <2>5 DEF Synced
<1> QED
  BY <1>13, <1>14 DEF Inv

LEMMA ReplaceFlushStep ==
    ASSUME Inv, NEW p \in Procs, ReplaceFlush(p), UNCHANGED plan
    PROVE  Inv'
<1>1. /\ pc[p] = "replace"
      /\ flushed' = (IF buf[cur[p]].page > flushed THEN buf[cur[p]].page ELSE flushed)
      /\ pc' = [pc EXCEPT ![p] = "write"]
      /\ Pool' = Pool /\ share' = share /\ excl' = excl /\ cleaning' = cleaning
      /\ cur' = cur /\ want' = want /\ disk' = disk /\ lsn' = lsn /\ latest' = latest
      /\ next' = next /\ redo' = redo /\ ckpt' = ckpt /\ looked' = looked /\ changed' = changed
      /\ plan' = plan /\ Buffers' = Buffers
  BY DEF ReplaceFlush, Goto, pool, cntx, sync, own, Pool, Buffers
<1>2. Core(Pool, pc, cur, want, looked, changed) /\ Synced(Pool, pc)
  BY DEF Inv
<1>3. /\ pc \in [Procs -> PCs] /\ cur \in [Procs -> Buffers] /\ buf \in [Buffers -> BufRec]
      /\ buf[cur[p]].page \in Int /\ flushed \in Nat /\ Pool.buf = buf
  BY Typing, PoolOf DEF Types, BufRec
<1>4. /\ pc' \in [Procs -> PCs] /\ pc'[p] = "write" /\ \A q \in Procs \ {p} : pc'[q] = pc[q]
  BY <1>1, <1>3 DEF PCs, Doing, Replacing
<1>5. flushed' \in Nat /\ flushed' >= flushed /\ buf[cur[p]].page <= flushed'
  BY <1>1, <1>3
<1>6. Types(Pool, pc, cur, want, looked, changed)'
  BY <1>1, <1>2, <1>4, <1>5 DEF Core, Types, PoolType
<1>7. Counts(Pool)' /\ Tags(Pool)'
  BY <1>1, <1>2 DEF Core, Counts, Tags, PinnedBy
<1>8. Places(Pool, pc, cur, want)'
  BY <1>1, <1>2, <1>4 DEF Core, Places, Doing, Reading, Replacing, Syncing
<1>9. Locks(Pool, pc, cur, want, looked, changed)'
  BY <1>1, <1>2, <1>4 DEF Core, Locks, Holds, Failing, Replacing
<1>10. Signals(Pool, pc, cur)'
  BY <1>1, <1>2, <1>4 DEF Core, Signals
<1>11. Logs(Pool, pc, cur)'
  <2>1. \A k \in Blocks : disk[k] <= flushed /\ disk[k] \in Int /\ latest[k] <= lsn
    BY <1>2 DEF Core, Logs, Types
  <2>2. \A q \in Procs : pc[q] \in {"write", "syncwrite"} =>
          Pool.buf[cur[q]].page <= flushed /\ Pool.buf[cur[q]].page \in Int
    BY <1>2, <1>3 DEF Core, Logs, BufRec
  <2> QED
    BY <1>1, <1>3, <1>4, <1>5, <2>1, <2>2 DEF Logs
<1>12. Contents(Pool, pc, cur)'
  <2>1. \A c \in Buffers : Bad(Pool, pc, cur, c)' <=> Bad(Pool, pc, cur, c)
    BY <1>1, <1>4 DEF Bad, Reading
  <2> QED
    <3>1. Contents(Pool, pc, cur)
      BY <1>2 DEF Core
    <3>2. \A q \in Procs : /\ pc'[q] \in Reading \cup {"waitio"} <=> pc[q] \in Reading \cup {"waitio"}
                           /\ pc'[q] \in {"unlock", "unpin"} <=> pc[q] \in {"unlock", "unpin"}
                           /\ pc'[q] \in {"abortout", "written"} => pc'[q] = pc[q]
      BY <1>1, <1>4 DEF Reading
    <3>3. /\ Pool' = Pool /\ cur' = cur /\ disk' = disk /\ latest' = latest /\ plan' = plan /\ Buffers' = Buffers
      BY <1>1
    <3> QED
      BY <2>1, <3>1, <3>2, <3>3 DEF Contents
<1>13. Synced(Pool, pc)'
  <2>1. pc'[Checkpointer] \in Syncing \cup {"sync"} => pc'[Checkpointer] = pc[Checkpointer]
    BY <1>4, Typing DEF Syncing
  <2> QED
    BY <1>1, <1>2, <2>1 DEF Synced
<1> QED
  BY <1>6, <1>7, <1>8, <1>9, <1>10, <1>11, <1>12, <1>13 DEF Inv, Core

LEMMA ReplaceWriteStep ==
    ASSUME Inv, NEW p \in Procs, ReplaceWrite(p), UNCHANGED plan
    PROVE  Inv'
<1> DEFINE b == cur[p]
           k == buf[b].tag
<1>1. /\ pc[p] = "write" /\ disk' = [disk EXCEPT ![k] = buf[b].page]
      /\ pc' = [pc EXCEPT ![p] = "written"]
      /\ Pool' = Pool /\ share' = share /\ excl' = excl /\ cleaning' = cleaning
      /\ cur' = cur /\ want' = want /\ lsn' = lsn /\ flushed' = flushed /\ latest' = latest
      /\ next' = next /\ redo' = redo /\ ckpt' = ckpt /\ looked' = looked /\ changed' = changed
      /\ plan' = plan /\ Buffers' = Buffers
  BY DEF ReplaceWrite, Goto, pool, cntx, log, sync, own, Pool, Buffers
<1>2. Core(Pool, pc, cur, want, looked, changed) /\ Synced(Pool, pc)
  BY DEF Inv
<1>3. /\ pc \in [Procs -> PCs] /\ cur \in [Procs -> Buffers] /\ buf \in [Buffers -> BufRec]
      /\ b \in Buffers /\ buf[b].page \in Int /\ flushed \in Nat /\ Pool.buf = buf
      /\ disk \in [Blocks -> Int] /\ latest \in [Blocks -> Nat] /\ redo \in [Blocks -> Nat]
      /\ ckpt \in [Blocks -> Nat]
  BY Typing, PoolOf DEF Types, BufRec
<1>4. /\ pc' \in [Procs -> PCs] /\ pc'[p] = "written" /\ \A q \in Procs \ {p} : pc'[q] = pc[q]
  BY <1>1, <1>3 DEF PCs, Doing, Replacing
<1>5. disk' \in [Blocks -> Int] /\ \A j \in Blocks : disk'[j] = IF j = k THEN buf[b].page ELSE disk[j]
  BY <1>1, <1>3
<1>6. Types(Pool, pc, cur, want, looked, changed)'
  BY <1>1, <1>2, <1>4, <1>5 DEF Core, Types, PoolType
<1>7. Counts(Pool)' /\ Tags(Pool)'
  BY <1>1, <1>2 DEF Core, Counts, Tags, PinnedBy
<1>8. Places(Pool, pc, cur, want)'
  BY <1>1, <1>2, <1>4 DEF Core, Places, Doing, Reading, Replacing, Syncing
<1>9. Locks(Pool, pc, cur, want, looked, changed)'
  BY <1>1, <1>2, <1>4 DEF Core, Locks, Holds, Failing, Replacing
<1>10. Signals(Pool, pc, cur)'
  BY <1>1, <1>2, <1>4 DEF Core, Signals
<1>11. Logs(Pool, pc, cur)'
  <2>1. \A j \in Blocks : disk'[j] <= flushed
    BY <1>1, <1>2, <1>3, <1>5 DEF Core, Logs
  <2> QED
    BY <1>1, <1>2, <1>4, <2>1 DEF Core, Logs
<1>12. "write" \notin plan.may => k # NoBlock /\ buf[b].page = latest[k] /\ ~Bad(Pool, pc, cur, b)
  <2>1. Pool.pins[p][b] > 0
    BY <1>1, <1>2 DEF Core, Places, Doing, Replacing
  <2>2. k # NoBlock
    BY <1>2, <1>3, <2>1, Typing, PoolFields DEF Core, Tags
  <2>3. "write" \notin plan.may => ~Bad(Pool, pc, cur, b)
    BY <1>1, <1>2, <1>3, <2>1 DEF Core, Contents, Reading
  <2> QED
    BY <1>2, <1>3, <2>2, <2>3 DEF Core, Contents
<1>13. "write" \notin plan.may => \A j \in Blocks : disk[j] = latest[j] => disk'[j] = latest[j]
  BY <1>5, <1>12
<1>14. "write" \notin plan.may => k \in Blocks /\ disk'[k] = latest[k]
  <2>1. k \in Blocks \cup {NoBlock}
    BY <1>3 DEF BufRec
  <2> QED
    BY <1>5, <1>12, <2>1
<1>15. Contents(Pool, pc, cur)'
  <2>1. SUFFICES ASSUME "write" \notin plan.may PROVE Contents(Pool, pc, cur)'
    BY <1>1 DEF Contents
  <2>2. \A c \in Buffers : Bad(Pool, pc, cur, c)' <=> Bad(Pool, pc, cur, c)
    BY <1>1, <1>4 DEF Bad, Reading
  <2>3. \A c \in Buffers : Bad(Pool, pc, cur, c) =>
                    /\ ~Unwritten(Pool.buf[c])
                    /\ \A q \in Procs : Pool.pins[q][c] > 0 =>
                          \/ pc'[q] \in Reading \cup {"waitio"} /\ cur[q] = c
                          \/ pc'[q] \in {"unlock", "unpin"}
    BY <1>1, <1>2, <1>4, <2>1 DEF Core, Contents, Reading
  <2>4. \A c \in Buffers : Pool.buf[c].tag # NoBlock =>
                    /\ Bad(Pool, pc, cur, c) \/ Pool.buf[c].page = latest[Pool.buf[c].tag]
                    /\ Pool.buf[c].cntx \/ disk'[Pool.buf[c].tag] = latest[Pool.buf[c].tag]
    <3>1. \A c \in Buffers : Pool.buf[c].tag \in Blocks \cup {NoBlock}
      BY <1>3 DEF BufRec
    <3> QED
      BY <1>2, <1>13, <2>1, <3>1 DEF Core, Contents
  <2>5. \A j \in Blocks : disk'[j] = latest[j] \/ \E c \in Buffers : Pool.buf[c].tag = j
    BY <1>2, <1>13, <2>1 DEF Core, Contents
  <2>6. \A q \in Procs : /\ pc'[q] # "abortout"
                         /\ pc'[q] = "written" =>
                               disk'[Pool.buf[cur[q]].tag] = latest[Pool.buf[cur[q]].tag]
    <3>1. ASSUME NEW q \in Procs, q # p, pc[q] = "written"
          PROVE  disk'[Pool.buf[cur[q]].tag] = latest[Pool.buf[cur[q]].tag]
      <4>1. disk[Pool.buf[cur[q]].tag] = latest[Pool.buf[cur[q]].tag]
        BY <1>2, <2>1, <3>1 DEF Core, Contents
      <4>2. Pool.buf[cur[q]].tag \in Blocks
        <5>1. Pool.pins[q][cur[q]] > 0
          BY <1>2, <3>1 DEF Core, Places, Doing, Replacing
        <5> QED
          BY <1>2, <1>3, <5>1, Typing, PoolFields DEF Core, Tags, BufRec
      <4> QED
        BY <1>13, <2>1, <4>1, <4>2
    <3>2. \A q \in Procs : pc'[q] # "abortout"
      BY <1>2, <1>4, <2>1 DEF Core, Contents
    <3> QED
      BY <1>3, <1>4, <1>14, <2>1, <3>1, <3>2
  <2> QED
    <3>1. /\ Pool' = Pool /\ cur' = cur /\ latest' = latest /\ plan' = plan /\ Buffers' = Buffers
      BY <1>1
    <3> QED
      BY <2>2, <2>3, <2>4, <2>5, <2>6, <3>1 DEF Contents
<1>16. Synced(Pool, pc)'
  <2>1. pc'[Checkpointer] \in Syncing \cup {"sync"} => pc'[Checkpointer] = pc[Checkpointer]
    BY <1>4, Typing DEF Syncing
  <2>2. "write" \notin plan.may => \A j \in Blocks : /\ disk[j] <= latest[j] /\ redo[j] <= latest[j] /\ ckpt[j] <= disk[j]
                                                     /\ disk[j] <= disk'[j] /\ disk'[j] <= latest[j]
    BY <1>2, <1>3, <1>5, <1>12 DEF Synced
  <2>3. "write" \notin plan.may => \A j \in Blocks : /\ disk'[j] <= latest[j] /\ redo[j] <= latest[j] /\ ckpt[j] <= disk'[j]
                                                     /\ disk'[j] < redo[j] => disk[j] < redo[j]
    BY <1>3, <1>5, <2>2
  <2>4. SUFFICES ASSUME "write" \notin plan.may PROVE Synced(Pool, pc)'
    BY <1>1 DEF Synced
  <2>5. ASSUME NEW j \in Blocks, pc'[Checkpointer] \in Syncing \cup {"sync"}, disk'[j] < redo[j]
        PROVE  \E c \in Buffers : /\ Pool.buf[c].tag = j /\ c >= next
                                  /\ pc'[Checkpointer] = "syncdone" => c > next
    <3>1. disk[j] < redo[j] /\ pc'[Checkpointer] = pc[Checkpointer]
      BY <2>1, <2>3, <2>4, <2>5
    <3> QED
      BY <1>2, <2>4, <2>5, <3>1 DEF Synced
  <2> QED
    BY <1>1, <2>3, <2>4, <2>5 DEF Synced
<1> QED
  BY <1>6, <1>7, <1>8, <1>9, <1>10, <1>11, <1>15, <1>16 DEF Inv, Core

LEMMA BufSet ==
    ASSUME Inv, NEW b \in Buffers, NEW r \in BufRec, r.ref = buf[b].ref,
           buf' = [buf EXCEPT ![b] = r], UNCHANGED <<free, pins, sem>>
    PROVE  /\ Pool' \in PoolType /\ Counts(Pool') /\ Pool'.buf[b] = r
           /\ \A c \in Buffers \ {b} : Pool'.buf[c] = Pool.buf[c]
           /\ Pool'.pins = Pool.pins /\ Pool'.free = Pool.free /\ Pool'.sem = Pool.sem
<1>1. Pool' = Put(Pool, b, r)
  BY DEF Pool, Put
<1>2. Pool \in PoolType /\ Counts(Pool) /\ r.ref = Pool.buf[b].ref
  BY Typing, PoolOf
<1> QED
  BY <1>1, <1>2, SetBuffer

LEMMA ReadPageStep ==
    ASSUME Inv, NEW p \in Procs, ReadPage(p), UNCHANGED plan
    PROVE  Inv'
<1> DEFINE b == cur[p]
           k == buf[b].tag
           r == [buf[b] EXCEPT !.page = disk[k], !.err = FALSE, !.io = FALSE]
           t == Pool'
<1>1. /\ pc[p] = "reading"
      /\ buf' = [buf EXCEPT ![b].page = disk[k], ![b].err = FALSE, ![b].io = FALSE]
      /\ pc' = [pc EXCEPT ![p] = "idle"] /\ UNCHANGED <<free, pins, sem>>
      /\ UNCHANGED <<Env, next>> /\ cur' = cur /\ want' = want /\ looked' = looked /\ changed' = changed
  BY DEF ReadPage, Goto, Env, sync, own
<1>2. Core(Pool, pc, cur, want, looked, changed)
  BY DEF Inv
<1>3. /\ pc \in [Procs -> PCs] /\ cur \in [Procs -> Buffers] /\ buf \in [Buffers -> BufRec]
      /\ b \in Buffers /\ Pool.buf = buf /\ buf[b] \in BufRec /\ disk \in [Blocks -> Int]
      /\ Types(Pool, pc, cur, want, looked, changed)
  BY Typing, PoolOf DEF Types
<1>4. k \in Blocks
  <2>1. Pool.pins[p][b] > 0
    BY <1>1, <1>2 DEF Core, Places, Doing, Reading
  <2>2. Pool.buf[b].tag # NoBlock
    BY <1>2, <1>3, <2>1, Typing DEF Core, Tags
  <2>3. buf[b].tag \in Blocks \cup {NoBlock}
    BY <1>3 DEF BufRec
  <2> QED
    BY <1>3, <2>2, <2>3
<1>5. /\ r \in BufRec /\ r.tag = k /\ r.ref = buf[b].ref /\ r.page = disk[k]
      /\ r.err = FALSE /\ r.waiter = buf[b].waiter /\ r.io = FALSE
      /\ r.dirty = buf[b].dirty /\ r.cntx = buf[b].cntx
  <2>1. r \in BufRec
    BY <1>3, <1>4 DEF BufRec
  <2> QED
    BY <1>3, <2>1 DEF BufRec
<1>6. buf' = [buf EXCEPT ![b] = r]
  BY <1>1, <1>3
<1> HIDE DEF b, r, t
<1>7. /\ t \in PoolType /\ Counts(t) /\ t.buf[b] = r
      /\ \A c \in Buffers \ {b} : t.buf[c] = Pool.buf[c]
      /\ t.pins = Pool.pins /\ t.free = Pool.free /\ t.sem = Pool.sem
  <2>1. /\ b \in Buffers /\ r \in BufRec /\ r.ref = buf[b].ref
        /\ buf' = [buf EXCEPT ![b] = r] /\ UNCHANGED <<free, pins, sem>>
    BY <1>1, <1>3, <1>5, <1>6
  <2> QED
    BY <2>1, BufSet DEF t
<1>8. \A c \in Buffers : /\ t.buf[c].tag = Pool.buf[c].tag /\ t.buf[c].ref = Pool.buf[c].ref
                         /\ t.buf[c].waiter = Pool.buf[c].waiter
                         /\ t.buf[c].dirty = Pool.buf[c].dirty /\ t.buf[c].cntx = Pool.buf[c].cntx
                         /\ c # b => t.buf[c] = Pool.buf[c]
  BY <1>3, <1>5, <1>7
<1>9. /\ pc' \in [Procs -> PCs] /\ pc'[p] = "idle" /\ \A q \in Procs \ {p} : pc'[q] = pc[q]
      /\ cur[p] = b /\ \A q \in Procs : cur[q] \in Buffers
  BY <1>1, <1>3 DEF PCs, b
<1>10. \A q \in Procs \ {p} : pc[q] \in Doing => cur[q] # b
  BY <1>1, <1>2, <1>9 DEF Core, Places, Doing, Reading
<1>11. Types(t, pc', cur, want, looked, changed)
  BY <1>3, <1>7, <1>9 DEF Types
<1>12. Tags(t)
  BY <1>2, <1>7, <1>8 DEF Core, Tags, Unwritten
<1>13. Places(t, pc', cur, want)
  <2>1. Places(Pool, pc, cur, want)
    BY <1>2 DEF Core
  <2>2. ASSUME NEW q \in Procs, q # p
        PROVE  /\ pc'[q] \in Doing \cup {"waitio", "cleanup", "sleeping"} => t.pins[q][cur[q]] > 0
               /\ pc'[q] \in Doing =>
                     /\ t.buf[cur[q]].io
                     /\ \A o \in Procs : pc'[o] \in Doing /\ cur[o] = cur[q] => o = q
               /\ pc'[q] \in Replacing =>
                     /\ want[q] \in Blocks
                     /\ \A o \in Procs \ {q} : t.pins[o][cur[q]] > 0 => pc'[o] = "waitio" /\ cur[o] = cur[q]
               /\ pc'[q] \in Syncing => q = Checkpointer /\ cur[q] = next
    <3>1. pc'[q] = pc[q] /\ cur[q] \in Buffers
      BY <1>9, <2>2
    <3>2. pc[q] \in Doing =>
                     /\ t.buf[cur[q]].io
                     /\ \A o \in Procs : pc'[o] \in Doing /\ cur[o] = cur[q] => o = q
      BY <1>1, <1>8, <1>9, <1>10, <2>1, <2>2, <3>1 DEF Places, Doing, Reading, Replacing, Syncing
    <3>3. pc[q] \in Replacing =>
                     /\ want[q] \in Blocks
                     /\ \A o \in Procs \ {q} : t.pins[o][cur[q]] > 0 => pc'[o] = "waitio" /\ cur[o] = cur[q]
      BY <1>1, <1>7, <1>9, <2>1, <2>2, <3>1 DEF Places
    <3> QED
      BY <1>7, <2>1, <3>1, <3>2, <3>3 DEF Places
  <2> QED
    BY <1>9, <2>2 DEF Places, Doing, Reading, Replacing, Syncing
<1>14. Locks(t, pc', cur, want, looked, changed)
  BY <1>1, <1>2, <1>7, <1>8, <1>9 DEF Core, Locks, Failing, Replacing
<1>15. Signals(t, pc', cur)
  BY <1>2, <1>7, <1>8, <1>9 DEF Core, Signals
<1>16. Logs(t, pc', cur)
  <2>1. \A q \in Procs \ {p} : pc[q] \in {"write", "syncwrite"} => cur[q] # b
    BY <1>10 DEF Doing, Replacing, Syncing
  <2> QED
    BY <1>2, <1>8, <1>9, <2>1 DEF Core, Logs
<1>17. Contents(t, pc', cur)
  <2>1. SUFFICES ASSUME "write" \notin plan.may PROVE Contents(t, pc', cur)
    BY DEF Contents
  <2>2. \A c \in Buffers \ {b} : Bad(t, pc', cur, c) <=> Bad(Pool, pc, cur, c)
    BY <1>8, <1>9 DEF Bad, Reading
  <2>3. ~Bad(t, pc', cur, b) /\ Bad(Pool, pc, cur, b)
    BY <1>1, <1>5, <1>7, <1>9, <1>10 DEF Bad, Doing, Reading
  <2>4. ASSUME NEW c \in Buffers, Bad(t, pc', cur, c)
        PROVE  /\ ~Unwritten(t.buf[c])
               /\ \A q \in Procs : t.pins[q][c] > 0 =>
                     \/ pc'[q] \in Reading \cup {"waitio"} /\ cur[q] = c
                     \/ pc'[q] \in {"unlock", "unpin"}
    <3>1. c # b /\ Bad(Pool, pc, cur, c)
      BY <2>2, <2>3, <2>4
    <3>2. /\ ~Unwritten(Pool.buf[c])
          /\ \A q \in Procs : Pool.pins[q][c] > 0 =>
                \/ pc[q] \in Reading \cup {"waitio"} /\ cur[q] = c
                \/ pc[q] \in {"unlock", "unpin"}
      BY <1>2, <2>1, <3>1 DEF Core, Contents
    <3>3. t.pins = Pool.pins /\ ~Unwritten(t.buf[c])
      BY <1>7, <1>8, <3>1, <3>2
    <3> QED
      BY <1>1, <1>9, <3>1, <3>2, <3>3 DEF Reading
  <2>5. /\ \A c \in Buffers : Pool.buf[c].tag # NoBlock =>
              /\ Bad(Pool, pc, cur, c) \/ Pool.buf[c].page = latest[Pool.buf[c].tag]
              /\ Pool.buf[c].cntx \/ disk[Pool.buf[c].tag] = latest[Pool.buf[c].tag]
        /\ \A j \in Blocks : disk[j] = latest[j] \/ \E c \in Buffers : Pool.buf[c].tag = j
        /\ \A q \in Procs : /\ pc[q] # "abortout"
                            /\ pc[q] = "written" =>
                                  disk[Pool.buf[cur[q]].tag] = latest[Pool.buf[cur[q]].tag]
    BY <1>2, <2>1 DEF Core, Contents
  <2>6. ASSUME NEW c \in Buffers, t.buf[c].tag # NoBlock
        PROVE  /\ Bad(t, pc', cur, c) \/ t.buf[c].page = latest[t.buf[c].tag]
               /\ t.buf[c].cntx \/ disk[t.buf[c].tag] = latest[t.buf[c].tag]
    <3>1. /\ Bad(Pool, pc, cur, c) \/ Pool.buf[c].page = latest[Pool.buf[c].tag]
          /\ Pool.buf[c].cntx \/ disk[Pool.buf[c].tag] = latest[Pool.buf[c].tag]
          /\ t.buf[c].tag = Pool.buf[c].tag /\ t.buf[c].cntx = Pool.buf[c].cntx
      BY <1>8, <2>5, <2>6
    <3>2. CASE c # b
      <4>1. t.buf[c] = Pool.buf[c]
        BY <1>8, <3>2
      <4> QED
        BY <2>2, <3>1, <3>2, <4>1
    <3>3. CASE c = b
      <4>1. ~Unwritten(Pool.buf[b])
        BY <1>2, <1>9, <2>1, <2>3 DEF Core, Contents
      <4>2. ~Pool.buf[b].cntx
        BY <4>1 DEF Unwritten
      <4>3. t.buf[b].page = disk[t.buf[b].tag]
        BY <1>5, <1>7
      <4> QED
        BY <3>1, <3>3, <4>2, <4>3
    <3> QED
      BY <3>2, <3>3
  <2>7. \A j \in Blocks : disk[j] = latest[j] \/ \E c \in Buffers : t.buf[c].tag = j
    BY <1>8, <2>5
  <2>8. \A q \in Procs : /\ pc'[q] # "abortout"
                         /\ pc'[q] = "written" =>
                               disk[t.buf[cur[q]].tag] = latest[t.buf[cur[q]].tag]
    BY <1>8, <1>9, <2>5
  <2> QED
    BY <2>4, <2>6, <2>7, <2>8 DEF Contents
<1>18. Core(Pool', pc', cur', want', looked', changed')
  BY <1>1, <1>7, <1>11, <1>12, <1>13, <1>14, <1>15, <1>16, <1>17 DEF Core, t
<1>19. Moved(Pool, Pool')
  BY <1>8 DEF Moved, t
<1>20. pc'[Checkpointer] = pc[Checkpointer] \/ pc'[Checkpointer] \notin Syncing \cup {"sync"}
  BY <1>9, Typing DEF Syncing
<1> QED
  BY <1>1, <1>18, <1>19, <1>20, PoolAction

(***************************************************************************)
(* Steps that change the locks on the contents, and a process that gives   *)
(* up: pages, names, pins and I/O flags stay as they are.                  *)
(***************************************************************************)
Waits == {"idle", "failed", "sleeping", "cleanup"}
Goes(p) ==
    \/ pc'[p] = pc[p] /\ cur'[p] = cur[p]
    \/ /\ pc[p] \in Waits /\ pc'[p] \in Waits \cup {"unlock"}
       /\ pc'[p] \in {"sleeping", "cleanup"} => pins[p][cur'[p]] > 0
    \/ pc[p] = "unlock" /\ pc'[p] = "unpin"
    \/ pc[p] = "unpin" /\ pc'[p] = "idle" /\ \A b \in Buffers : pins[p][b] = 0
    \/ cur'[p] = cur[p] /\ pc[p] = "reading" /\ pc'[p] = "abortin"
    \/ cur'[p] = cur[p] /\ pc[p] \in {"write", "syncwrite"} /\ pc'[p] = "abortout" /\ "write" \in plan.may

\* cntxDirty may be set on a page that is used.
Flagged(s, t) ==
    \A c \in Buffers :
        /\ t.buf[c].tag = s.buf[c].tag /\ t.buf[c].page = s.buf[c].page /\ t.buf[c].io = s.buf[c].io
        /\ t.buf[c].dirty = s.buf[c].dirty /\ t.buf[c].err = s.buf[c].err /\ t.buf[c].ref = s.buf[c].ref
        /\ \/ t.buf[c].cntx = s.buf[c].cntx
           \/ t.buf[c].cntx /\ s.buf[c].tag # NoBlock /\ \E q \in Procs : s.pins[q][c] > 0 /\ pc[q] \in Waits

Others(p) == \A q \in Procs \ {p} : pc'[q] = pc[q] /\ cur'[q] = cur[q]

LEMMA LocksMove ==
    ASSUME Inv, NEW p \in Procs, NEW t, t = Pool',
           UNCHANGED <<plan, want, disk, log, sync, changed>>,
           t \in PoolType, Counts(t), t.pins = Pool.pins, Flagged(Pool, t),
           share' \in [Buffers -> SUBSET Procs], excl' \in [Buffers -> Procs \cup {Nobody}],
           cleaning' \in [Buffers -> Procs \cup {Nobody}], looked' \in [Procs -> SUBSET Buffers],
           pc' \in [Procs -> PCs], cur' \in [Procs -> Buffers], Others(p), Goes(p),
           Locks(Pool, pc, cur, want, looked, changed)', Signals(t, pc', cur')
    PROVE  Inv'
<1>1. /\ want' = want /\ disk' = disk /\ lsn' = lsn /\ flushed' = flushed /\ latest' = latest
      /\ next' = next /\ redo' = redo /\ ckpt' = ckpt /\ changed' = changed /\ plan' = plan
      /\ Buffers' = Buffers
  BY DEF log, sync, Buffers
<1>2. Core(Pool, pc, cur, want, looked, changed) /\ Synced(Pool, pc)
  BY DEF Inv
<1>3. /\ Types(Pool, pc, cur, want, looked, changed)
      /\ pc \in [Procs -> PCs] /\ cur \in [Procs -> Buffers] /\ Pool.pins = pins
  BY Typing, PoolOf
<1>4. /\ \A q \in Procs \ {p} : pc'[q] = pc[q] /\ cur'[q] = cur[q]
      /\ t.pins = pins /\ \A q \in Procs : cur[q] \in Buffers /\ cur'[q] \in Buffers
  BY <1>3 DEF Others
<1>5. /\ pc'[p] \in Doing => pc[p] \in Doing /\ cur'[p] = cur[p]
      /\ pc'[p] \in Replacing => pc'[p] = pc[p]
      /\ pc'[p] \in Syncing => pc'[p] = pc[p]
      /\ pc'[p] = "waitio" => pc[p] = "waitio" /\ cur'[p] = cur[p]
      /\ pc[p] = "waitio" => pc'[p] = "waitio" /\ cur'[p] = cur[p]
      /\ pc'[p] \in {"write", "syncwrite", "written"} => pc'[p] = pc[p]
      /\ pc'[p] = "abortout" => pc[p] = "abortout" \/ "write" \in plan.may
  BY DEF Goes, Waits, Doing, Reading, Replacing, Syncing
<1>6. Types(Pool, pc, cur, want, looked, changed)'
  BY <1>1, <1>3 DEF Types, PoolType
<1>7. Counts(Pool)'
  BY <1>1 DEF Counts, PinnedBy
<1>8. Tags(Pool)'
  <2>1. Tags(Pool)
    BY <1>2 DEF Core
  <2>2. ASSUME NEW b \in Buffers, t.buf[b].tag = NoBlock
        PROVE  ~Unwritten(t.buf[b]) /\ \A q \in Procs : t.pins[q][b] = 0
    <3>1. ~Unwritten(Pool.buf[b]) /\ \A q \in Procs : Pool.pins[q][b] = 0
      BY <2>1, <2>2 DEF Tags, Flagged
    <3>2. t.buf[b].dirty = Pool.buf[b].dirty /\ t.buf[b].cntx = Pool.buf[b].cntx
      BY <2>2 DEF Flagged
    <3> QED
      BY <3>1, <3>2 DEF Unwritten
  <2>3. \A b, c \in Buffers : t.buf[b].tag = t.buf[c].tag /\ t.buf[b].tag # NoBlock => b = c
    BY <2>1 DEF Tags, Flagged
  <2> QED
    BY <1>1, <2>2, <2>3 DEF Tags
<1>9. Places(Pool, pc, cur, want)'
  <2>1. Places(Pool, pc, cur, want)
    BY <1>2 DEF Core
  <2>2. ASSUME NEW q \in Procs
        PROVE  pc'[q] \in Doing \cup {"waitio", "cleanup", "sleeping"} => t.pins[q][cur'[q]] > 0
    <3>1. CASE q = p
      BY <1>3, <1>4, <1>5, <2>1, <3>1 DEF Places, Goes, Waits, Doing, Reading, Replacing, Syncing
    <3>2. CASE q # p
      BY <1>3, <1>4, <2>1, <3>2 DEF Places
    <3> QED
      BY <3>1, <3>2
  <2>3. ASSUME NEW q \in Procs, pc'[q] \in Doing
        PROVE  /\ t.buf[cur'[q]].io
               /\ \A o \in Procs : pc'[o] \in Doing /\ cur'[o] = cur'[q] => o = q
    <3>1. \A o \in Procs : pc'[o] \in Doing => pc[o] \in Doing /\ cur'[o] = cur[o]
      BY <1>4, <1>5
    <3> QED
      BY <1>4, <2>1, <2>3, <3>1 DEF Places, Flagged
  <2>4. ASSUME NEW q \in Procs, pc'[q] \in Replacing
        PROVE  /\ want[q] \in Blocks
               /\ \A o \in Procs \ {q} : t.pins[o][cur'[q]] > 0 => pc'[o] = "waitio" /\ cur'[o] = cur'[q]
    <3>1. pc'[q] = pc[q] /\ cur'[q] = cur[q]
      BY <1>4, <1>5, <2>4 DEF Doing, Replacing
    <3> QED
      BY <1>3, <1>4, <1>5, <2>1, <2>4, <3>1 DEF Places
  <2>5. ASSUME NEW q \in Procs, pc'[q] \in Syncing
        PROVE  q = Checkpointer /\ cur'[q] = next
    <3>1. pc'[q] = pc[q] /\ cur'[q] = cur[q]
      BY <1>4, <1>5, <2>5 DEF Doing, Syncing
    <3> QED
      BY <2>1, <2>5, <3>1 DEF Places
  <2> QED
    BY <1>1, <2>2, <2>3, <2>4, <2>5 DEF Places
<1>10. Signals(Pool, pc, cur)'
  BY <1>1 DEF Signals
<1>11. Logs(Pool, pc, cur)'
  <2>1. Logs(Pool, pc, cur)
    BY <1>2 DEF Core
  <2>2. ASSUME NEW q \in Procs, pc'[q] \in {"write", "syncwrite"}
        PROVE  t.buf[cur'[q]].page <= flushed
    <3>1. pc'[q] = pc[q] /\ cur'[q] = cur[q]
      BY <1>4, <1>5, <2>2 DEF Doing, Replacing, Syncing
    <3> QED
      BY <1>4, <2>1, <2>2, <3>1 DEF Logs, Flagged
  <2> QED
    BY <1>1, <2>1, <2>2 DEF Logs
<1>12. Contents(Pool, pc, cur)'
  <2>1. SUFFICES ASSUME "write" \notin plan.may PROVE Contents(Pool, pc, cur)'
    BY <1>1 DEF Contents
  <2>2. \A q \in Procs, c \in Buffers : pc'[q] \in Reading /\ cur'[q] = c <=> pc[q] \in Reading /\ cur[q] = c
    BY <1>4 DEF Goes, Waits, Reading
  <2>3. \A c \in Buffers : Bad(Pool, pc, cur, c)' <=> Bad(Pool, pc, cur, c)
    BY <1>1, <2>2 DEF Bad, Flagged
  <2>4. ASSUME NEW c \in Buffers, Bad(Pool, pc, cur, c)
        PROVE  /\ ~Unwritten(t.buf[c])
               /\ \A q \in Procs : t.pins[q][c] > 0 =>
                     \/ pc'[q] \in Reading \cup {"waitio"} /\ cur'[q] = c
                     \/ pc'[q] \in {"unlock", "unpin"}
    <3>1. /\ ~Unwritten(Pool.buf[c])
          /\ \A q \in Procs : Pool.pins[q][c] > 0 =>
                \/ pc[q] \in Reading \cup {"waitio"} /\ cur[q] = c
                \/ pc[q] \in {"unlock", "unpin"}
      BY <1>2, <2>1, <2>4 DEF Core, Contents
    <3>2. \A q \in Procs : Pool.pins[q][c] > 0 => pc[q] \notin Waits
      BY <3>1 DEF Waits, Reading
    <3>3. ~Unwritten(t.buf[c])
      BY <3>1, <3>2 DEF Flagged, Unwritten
    <3>4. ASSUME NEW q \in Procs, pins[q][c] > 0
          PROVE  \/ pc'[q] \in Reading \cup {"waitio"} /\ cur'[q] = c
                 \/ pc'[q] \in {"unlock", "unpin"}
      <4>1. \/ pc[q] \in Reading \cup {"waitio"} /\ cur[q] = c
            \/ pc[q] \in {"unlock", "unpin"}
        BY <1>3, <3>1, <3>4
      <4>2. CASE q = p
        BY <1>3, <1>4, <3>4, <4>1, <4>2, PoolFields DEF Goes, Waits, Reading
      <4>3. CASE q # p
        BY <1>4, <4>1, <4>3
      <4> QED
        BY <4>2, <4>3
    <3> QED
      BY <1>4, <3>3, <3>4
  <2>5. ASSUME NEW c \in Buffers, t.buf[c].tag # NoBlock
        PROVE  /\ Bad(Pool, pc, cur, c) \/ t.buf[c].page = latest[t.buf[c].tag]
               /\ t.buf[c].cntx \/ disk[t.buf[c].tag] = latest[t.buf[c].tag]
    <3>1. /\ Bad(Pool, pc, cur, c) \/ Pool.buf[c].page = latest[Pool.buf[c].tag]
          /\ Pool.buf[c].cntx \/ disk[Pool.buf[c].tag] = latest[Pool.buf[c].tag]
          /\ t.buf[c].tag = Pool.buf[c].tag /\ t.buf[c].page = Pool.buf[c].page
          /\ Pool.buf[c].cntx => t.buf[c].cntx
      BY <1>2, <2>1, <2>5 DEF Core, Contents, Flagged
    <3> QED
      BY <3>1
  <2>6. \A k \in Blocks : disk[k] = latest[k] \/ \E c \in Buffers : t.buf[c].tag = k
    BY <1>2, <2>1 DEF Core, Contents, Flagged
  <2>7. ASSUME NEW q \in Procs
        PROVE  /\ pc'[q] # "abortout"
               /\ pc'[q] = "written" => disk[t.buf[cur'[q]].tag] = latest[t.buf[cur'[q]].tag]
    <3>1. /\ pc[q] # "abortout"
          /\ pc[q] = "written" => disk[Pool.buf[cur[q]].tag] = latest[Pool.buf[cur[q]].tag]
      BY <1>2, <2>1 DEF Core, Contents
    <3>2. pc'[q] = "written" => pc'[q] = pc[q] /\ cur'[q] = cur[q]
      BY <1>4, <1>5 DEF Doing, Replacing
    <3>3. pc'[q] # "abortout"
      BY <1>4, <1>5, <2>1, <3>1
    <3> QED
      BY <1>4, <3>1, <3>2, <3>3 DEF Flagged
  <2> QED
    BY <1>1, <2>3, <2>4, <2>5, <2>6, <2>7 DEF Contents
<1>13. Synced(Pool, pc)'
  <2>1. pc'[Checkpointer] \in Syncing \cup {"sync"} => pc'[Checkpointer] = pc[Checkpointer]
    BY <1>4, <1>5, Typing DEF Goes, Waits, Syncing
  <2>2. \A c \in Buffers : t.buf[c].tag = Pool.buf[c].tag
    BY DEF Flagged
  <2> QED
    BY <1>1, <1>2, <2>1, <2>2 DEF Synced
<1>14. Locks(Pool, pc, cur, want, looked, changed)'
  OBVIOUS
<1> QED
  BY <1>6, <1>7, <1>8, <1>9, <1>10, <1>11, <1>12, <1>13, <1>14 DEF Inv, Core

LEMMA LockShareStep ==
    ASSUME Inv, NEW p \in Procs, NEW b \in Buffers, LockBufferShare(p, b), UNCHANGED plan
    PROVE  Inv'
<1>1. /\ pc[p] = "idle" /\ p # Checkpointer /\ pins[p][b] > 0 /\ b \notin changed[p] /\ excl[b] = Nobody
      /\ share' = [share EXCEPT ![b] = @ \cup {p}] /\ looked' = [looked EXCEPT ![p] = @ \cup {b}]
      /\ excl' = excl /\ cleaning' = cleaning /\ pc' = pc /\ cur' = cur /\ want' = want
      /\ changed' = changed /\ Pool' = Pool /\ Buffers' = Buffers
      /\ UNCHANGED <<disk, log, sync>>
  BY ProcessesDistinct DEF LockBufferShare, MayLock, pool, Pool, Buffers
<1>2. Locks(Pool, pc, cur, want, looked, changed) /\ Types(Pool, pc, cur, want, looked, changed)
      /\ Signals(Pool, pc, cur) /\ Pool.pins = pins /\ Pool \in PoolType /\ Counts(Pool)
  BY PoolOf, Typing DEF Inv, Core
<1>3. /\ share' \in [Buffers -> SUBSET Procs] /\ excl' \in [Buffers -> Procs \cup {Nobody}]
      /\ cleaning' \in [Buffers -> Procs \cup {Nobody}] /\ looked' \in [Procs -> SUBSET Buffers]
      /\ pc' \in [Procs -> PCs] /\ cur' \in [Procs -> Buffers] /\ pc \in [Procs -> PCs]
  BY <1>1, <1>2 DEF Types
<1>4. \A c \in Buffers : share'[c] = IF c = b THEN share[b] \cup {p} ELSE share[c]
  BY <1>1, <1>2 DEF Types
<1>5. \A q \in Procs : looked'[q] = IF q = p THEN looked[p] \cup {b} ELSE looked[q]
  BY <1>1, <1>2 DEF Types
<1>6. Locks(Pool, pc, cur, want, looked, changed)'
  <2>1. cleaning[b] = Nobody
    BY <1>1, <1>2, Typing DEF Locks
  <2>2. \A c \in Buffers : /\ excl[c] # Nobody => share'[c] = {}
                           /\ Checkpointer \in share'[c] <=> Checkpointer \in share[c]
    BY <1>1, <1>2, <1>4 DEF Locks
  <2>3. \A q \in Procs, c \in Buffers : (q \in share'[c] <=> q \in share[c] \/ (q = p /\ c = b))
                                       /\ (c \in looked'[q] <=> c \in looked[q] \/ (q = p /\ c = b))
    BY <1>4, <1>5
  <2>4. looked'[Checkpointer] = {} /\ changed[Checkpointer] = {}
    BY <1>1, <1>2, <1>5, Typing DEF Locks
  <2>5. ASSUME NEW q \in Procs, NEW c \in Buffers
        PROVE  /\ q \in share'[c] \/ excl[c] = q =>
                            /\ Pool.pins[q][c] > 0 /\ pc[q] \notin Failing
                            /\ pc[q] \in Replacing => Pool.buf[c].tag # want[q]
                            /\ cur[q] = c => pc[q] \notin {"waitio", "reading"} \cup Replacing
               /\ pc[q] = "cleanup" /\ cur[q] = c => excl[c] = q /\ cleaning[c] = Nobody
               /\ c \in changed[q] => Pool.pins[q][c] > 0 /\ q \notin share'[c]
               /\ c \in looked'[q] => Pool.pins[q][c] > 0 /\ (cleaning[c] # Nobody => cleaning[c] = q)
               /\ pc[q] \in Replacing /\ cur[q] = c => c \notin looked'[q] /\ c \notin changed[q]
    BY <1>1, <1>2, <2>1, <2>3 DEF Locks, Holds, Failing, Replacing
  <2> QED
    BY <1>1, <1>2, <2>2, <2>4, <2>5 DEF Locks, Holds
<1>7. Flagged(Pool, Pool) /\ Others(p) /\ Goes(p) /\ Signals(Pool, pc', cur')
  BY <1>1, <1>2 DEF Flagged, Others, Goes
<1> QED
  BY <1>1, <1>2, <1>3, <1>6, <1>7, LocksMove

LEMMA UnlockStep ==
    ASSUME Inv, NEW p \in Procs, NEW b \in Buffers, UnlockBuffer(p, b), UNCHANGED plan
    PROVE  Inv'
<1>1. /\ pc[p] = "idle" /\ p # Checkpointer
      /\ share' = [share EXCEPT ![b] = @ \ {p}]
      /\ excl' = [excl EXCEPT ![b] = IF @ = p THEN Nobody ELSE @]
      /\ cleaning' = [cleaning EXCEPT ![b] = IF @ = p THEN Nobody ELSE @]
      /\ looked' = looked /\ pc' = pc /\ cur' = cur /\ want' = want
      /\ changed' = changed /\ Pool' = Pool /\ Buffers' = Buffers
      /\ UNCHANGED <<disk, log, sync>>
  BY ProcessesDistinct DEF UnlockBuffer, pool, own, Pool, Buffers
<1>2. Locks(Pool, pc, cur, want, looked, changed) /\ Types(Pool, pc, cur, want, looked, changed)
      /\ Signals(Pool, pc, cur) /\ Pool.pins = pins /\ Pool \in PoolType /\ Counts(Pool)
  BY PoolOf, Typing DEF Inv, Core
<1>3. /\ share' \in [Buffers -> SUBSET Procs] /\ excl' \in [Buffers -> Procs \cup {Nobody}]
      /\ cleaning' \in [Buffers -> Procs \cup {Nobody}] /\ looked' \in [Procs -> SUBSET Buffers]
      /\ pc' \in [Procs -> PCs] /\ cur' \in [Procs -> Buffers] /\ pc \in [Procs -> PCs]
  BY <1>1, <1>2 DEF Types
<1>4. \A c \in Buffers : /\ share'[c] = IF c = b THEN share[b] \ {p} ELSE share[c]
                         /\ excl'[c] = IF c = b /\ excl[b] = p THEN Nobody ELSE excl[c]
                         /\ cleaning'[c] = IF c = b /\ cleaning[b] = p THEN Nobody ELSE cleaning[c]
  BY <1>1, <1>2 DEF Types
<1>5. p # Nobody /\ Nobody \notin Procs
  BY Typing
<1>6. Locks(Pool, pc, cur, want, looked, changed)'
  <2>1. \A c \in Buffers : /\ excl'[c] # Nobody => share'[c] = {}
                           /\ cleaning'[c] # Nobody => excl'[c] = cleaning'[c]
                           /\ excl'[c] # Checkpointer
                           /\ excl'[c] # Nobody => Pool.buf[c].cntx
                           /\ Checkpointer \in share'[c] <=> Checkpointer \in share[c]
    BY <1>1, <1>2, <1>4, Typing DEF Locks
  <2>2. ASSUME NEW q \in Procs, NEW c \in Buffers
        PROVE  /\ q \in share'[c] \/ excl'[c] = q =>
                            /\ Pool.pins[q][c] > 0 /\ pc[q] \notin Failing
                            /\ pc[q] \in Replacing => Pool.buf[c].tag # want[q]
                            /\ cur[q] = c => pc[q] \notin {"waitio", "reading"} \cup Replacing
               /\ pc[q] = "cleanup" /\ cur[q] = c => excl'[c] = q /\ cleaning'[c] = Nobody
               /\ c \in changed[q] => Pool.pins[q][c] > 0 /\ q \notin share'[c]
               /\ c \in looked[q] => Pool.pins[q][c] > 0 /\ (cleaning'[c] # Nobody => cleaning'[c] = q)
               /\ pc[q] \in Replacing /\ cur[q] = c => c \notin looked[q] /\ c \notin changed[q]
    BY <1>1, <1>2, <1>4, <1>5 DEF Locks, Holds
  <2> QED
    BY <1>1, <1>2, <2>1, <2>2 DEF Locks, Holds
<1>7. Flagged(Pool, Pool) /\ Others(p) /\ Goes(p) /\ Signals(Pool, pc', cur')
  BY <1>1, <1>2 DEF Flagged, Others, Goes
<1> QED
  BY <1>1, <1>2, <1>3, <1>6, <1>7, LocksMove

\* An error gives up all locks.
LEMMA FailStep ==
    ASSUME Inv, NEW p \in Procs, NEW l \in {"unlock", "abortin", "abortout"}, Fail(p, l),
           \/ l = "unlock" /\ pc[p] \in Waits
           \/ l = "abortin" /\ pc[p] = "reading"
           \/ l = "abortout" /\ pc[p] \in {"write", "syncwrite"} /\ "write" \in plan.may,
           UNCHANGED plan
    PROVE  Inv'
<1>1. /\ share' = [b \in Buffers |-> share[b] \ {p}]
      /\ excl' = [b \in Buffers |-> IF excl[b] = p THEN Nobody ELSE excl[b]]
      /\ cleaning' = [b \in Buffers |-> IF cleaning[b] = p THEN Nobody ELSE cleaning[b]]
      /\ pc' = [pc EXCEPT ![p] = l]
      /\ looked' = looked /\ cur' = cur /\ want' = want
      /\ changed' = changed /\ Pool' = Pool /\ Buffers' = Buffers
      /\ UNCHANGED <<disk, log, sync>>
  BY DEF Fail, Goto, pool, own, Pool, Buffers
<1>2. Locks(Pool, pc, cur, want, looked, changed) /\ Types(Pool, pc, cur, want, looked, changed)
      /\ Signals(Pool, pc, cur) /\ Pool.pins = pins /\ Pool \in PoolType /\ Counts(Pool)
  BY PoolOf, Typing DEF Inv, Core
<1>3. /\ share' \in [Buffers -> SUBSET Procs] /\ excl' \in [Buffers -> Procs \cup {Nobody}]
      /\ cleaning' \in [Buffers -> Procs \cup {Nobody}] /\ looked' \in [Procs -> SUBSET Buffers]
      /\ pc' \in [Procs -> PCs] /\ cur' \in [Procs -> Buffers] /\ pc \in [Procs -> PCs]
  BY <1>1, <1>2 DEF Types, PCs, Doing, Failing, Reading
<1>4. \A c \in Buffers : /\ share'[c] = share[c] \ {p}
                         /\ excl'[c] = IF excl[c] = p THEN Nobody ELSE excl[c]
                         /\ cleaning'[c] = IF cleaning[c] = p THEN Nobody ELSE cleaning[c]
  BY <1>1
<1>5. p # Nobody /\ Nobody \notin Procs /\ pc'[p] = l /\ \A q \in Procs \ {p} : pc'[q] = pc[q]
  BY <1>1, <1>3, Typing
<1>6. Locks(Pool, pc, cur, want, looked, changed)'
  <2>1. \A c \in Buffers : /\ excl'[c] # Nobody => share'[c] = {}
                           /\ cleaning'[c] # Nobody => excl'[c] = cleaning'[c]
                           /\ excl'[c] # Checkpointer
                           /\ excl'[c] # Nobody => Pool.buf[c].cntx
    <3>1. Checkpointer # Nobody
      BY Typing
    <3>2. \A c \in Buffers : /\ excl[c] # Nobody => share[c] = {}
                             /\ cleaning[c] # Nobody => excl[c] = cleaning[c]
                             /\ excl[c] # Checkpointer
                             /\ excl[c] # Nobody => Pool.buf[c].cntx
      BY <1>2 DEF Locks
    <3> QED
      BY <1>4, <3>1, <3>2
  <2>2. \A c \in Buffers : Checkpointer \in share'[c] <=> pc'[Checkpointer] = "syncwrite" /\ cur[Checkpointer] = c
    BY <1>2, <1>4, <1>5, Typing DEF Locks
  <2>3. ASSUME NEW q \in Procs, NEW c \in Buffers
        PROVE  /\ q \in share'[c] \/ excl'[c] = q =>
                            /\ Pool.pins[q][c] > 0 /\ pc'[q] \notin Failing
                            /\ pc'[q] \in Replacing => Pool.buf[c].tag # want[q]
                            /\ cur[q] = c => pc'[q] \notin {"waitio", "reading"} \cup Replacing
               /\ pc'[q] = "cleanup" /\ cur[q] = c => excl'[c] = q /\ cleaning'[c] = Nobody
               /\ c \in changed[q] => Pool.pins[q][c] > 0 /\ q \notin share'[c]
               /\ c \in looked[q] => Pool.pins[q][c] > 0 /\ (cleaning'[c] # Nobody => cleaning'[c] = q)
               /\ pc'[q] \in Replacing /\ cur[q] = c => c \notin looked[q] /\ c \notin changed[q]
    <3>1. CASE q = p
      BY <1>2, <1>4, <1>5, <3>1 DEF Locks, Holds, Replacing
    <3>2. CASE q # p
      BY <1>2, <1>4, <1>5, <3>2 DEF Locks, Holds
    <3> QED
      BY <3>1, <3>2
  <2> QED
    BY <1>1, <1>2, <2>1, <2>2, <2>3 DEF Locks, Holds
<1>7. Signals(Pool, pc', cur')
  BY <1>1, <1>2, <1>5 DEF Signals
<1>8. Flagged(Pool, Pool) /\ Others(p) /\ Goes(p)
  BY <1>1, <1>5 DEF Flagged, Others, Goes, Waits
<1> QED
  BY <1>1, <1>2, <1>3, <1>6, <1>7, <1>8, LocksMove

LEMMA ErrorSteps ==
    ASSUME Inv, NEW p \in Procs, Raised(p) \/ Errors(p), UNCHANGED plan
    PROVE  Inv'
BY FailStep DEF Raised, Errors, ReadFails, WriteFails, Error, Cancel, Waits

\* Flags of one buffer change, or its waiter.
LEMMA FlagPool ==
    ASSUME Inv, NEW b \in Buffers, NEW r \in BufRec, r.tag = buf[b].tag, r.ref = buf[b].ref,
           r.dirty = buf[b].dirty, r.io = buf[b].io, r.err = buf[b].err, r.page = buf[b].page,
           \/ r.cntx = buf[b].cntx
           \/ r.cntx /\ \E q \in Procs : pins[q][b] > 0 /\ pc[q] \in Waits,
           buf' = [buf EXCEPT ![b] = r], free' = free, pins' = pins, sem' \in [Procs -> Nat]
    PROVE  /\ Pool' \in PoolType /\ Counts(Pool') /\ Pool'.pins = Pool.pins /\ Flagged(Pool, Pool')
           /\ Pool'.buf[b] = r /\ \A c \in Buffers \ {b} : Pool'.buf[c] = Pool.buf[c]
           /\ Pool'.sem = sem'
<1>1. /\ Pool \in PoolType /\ Counts(Pool) /\ buf \in [Buffers -> BufRec]
      /\ Pool.buf = buf /\ Pool.pins = pins /\ Pool.free = free /\ Tags(Pool)
  BY Typing, PoolOf DEF Inv, Core
<1> DEFINE t == Pool'
<1>2. t.buf = [buf EXCEPT ![b] = r] /\ t.free = free /\ t.pins = pins /\ t.sem = sem'
  BY DEF Pool
<1>3. t \in PoolType
  BY <1>1 DEF Pool, PoolType
<1> HIDE DEF t
<1>4. t.buf[b] = r /\ \A c \in Buffers \ {b} : t.buf[c] = Pool.buf[c]
  BY <1>1, <1>2
<1>5. \A c \in Buffers : t.buf[c].ref = Pool.buf[c].ref
  BY <1>1, <1>4
<1>6. Counts(t)
  BY <1>1, <1>2, <1>5 DEF Counts, PinnedBy
<1>7. (\E q \in Procs : pins[q][b] > 0) => Pool.buf[b].tag # NoBlock
  BY <1>1 DEF Tags
<1>8. ASSUME NEW c \in Buffers
      PROVE  /\ t.buf[c].tag = Pool.buf[c].tag /\ t.buf[c].page = Pool.buf[c].page /\ t.buf[c].io = Pool.buf[c].io
             /\ t.buf[c].dirty = Pool.buf[c].dirty /\ t.buf[c].err = Pool.buf[c].err /\ t.buf[c].ref = Pool.buf[c].ref
             /\ \/ t.buf[c].cntx = Pool.buf[c].cntx
                \/ t.buf[c].cntx /\ Pool.buf[c].tag # NoBlock /\ \E q \in Procs : Pool.pins[q][c] > 0 /\ pc[q] \in Waits
  <2>1. CASE c = b
    BY <1>1, <1>4, <1>7, <2>1
  <2>2. CASE c # b
    BY <1>4, <2>2
  <2> QED
    BY <2>1, <2>2
<1>9. Flagged(Pool, t)
  BY <1>8 DEF Flagged
<1> QED
  BY <1>1, <1>2, <1>3, <1>4, <1>6, <1>9 DEF t

\* p gets the free lock on a buffer that it has pinned.
LEMMA ExclusiveLocks ==
    ASSUME Inv, NEW p \in Procs, NEW b \in Buffers, p # Checkpointer, LockFree(b), pins[p][b] > 0,
           pc[p] \in {"idle", "sleeping"}, excl' = [excl EXCEPT ![b] = p],
           share' = share, cleaning' = cleaning, want' = want, changed' = changed, plan' = plan,
           Pool'.pins = Pool.pins, Flagged(Pool, Pool'), Others(p), Pool'.buf[b].cntx,
           \/ pc' = pc /\ cur' = cur /\ looked' = [looked EXCEPT ![p] = @ \cup {b}] /\ pc[p] = "idle"
           \/ pc' = [pc EXCEPT ![p] = "cleanup"] /\ cur' = [cur EXCEPT ![p] = b] /\ looked' = looked
    PROVE  Locks(Pool, pc, cur, want, looked, changed)'
<1>1. Locks(Pool, pc, cur, want, looked, changed) /\ Types(Pool, pc, cur, want, looked, changed)
      /\ Pool.pins = pins /\ Buffers' = Buffers /\ p # Nobody /\ Checkpointer \in Procs
  BY PoolOf, Typing DEF Inv, Core, Buffers
<1>2. \A c \in Buffers : excl'[c] = IF c = b THEN p ELSE excl[c]
  BY <1>1 DEF Types
<1>3. \A q \in Procs, c \in Buffers : c \in looked'[q] => c \in looked[q] \/ (q = p /\ c = b)
  BY <1>1 DEF Types
<1>4. excl[b] = Nobody /\ share[b] = {} /\ cleaning[b] = Nobody
  BY <1>1 DEF LockFree, Locks, Types
<1>5. /\ pc'[p] \in {"idle", "cleanup"} /\ (pc'[p] = "cleanup" => cur'[p] = b)
      /\ \A q \in Procs \ {p} : pc'[q] = pc[q] /\ cur'[q] = cur[q]
  BY <1>1 DEF Types, Others
<1>6. \A c \in Buffers : Pool'.buf[c].tag = Pool.buf[c].tag
  BY DEF Flagged
<1>7. looked'[Checkpointer] = {} /\ changed[Checkpointer] = {} /\ pc'[Checkpointer] # "sleeping"
  BY <1>1, <1>5 DEF Locks, Types
<1>8. ASSUME NEW c \in Buffers
      PROVE  /\ excl'[c] # Nobody => share[c] = {}
             /\ cleaning[c] # Nobody => excl'[c] = cleaning[c]
             /\ excl'[c] # Checkpointer
             /\ excl'[c] # Nobody => Pool'.buf[c].cntx
             /\ Checkpointer \in share[c] <=> pc'[Checkpointer] = "syncwrite" /\ cur'[Checkpointer] = c
  BY <1>1, <1>2, <1>4, <1>5 DEF Locks, Flagged
<1>9. ASSUME NEW q \in Procs, NEW c \in Buffers
      PROVE  /\ q \in share[c] \/ excl'[c] = q =>
                            /\ Pool.pins[q][c] > 0 /\ pc'[q] \notin Failing
                            /\ pc'[q] \in Replacing => Pool.buf[c].tag # want[q]
                            /\ cur'[q] = c => pc'[q] \notin {"waitio", "reading"} \cup Replacing
             /\ pc'[q] = "cleanup" /\ cur'[q] = c => excl'[c] = q /\ cleaning[c] = Nobody
             /\ c \in changed[q] => Pool.pins[q][c] > 0 /\ q \notin share[c]
             /\ c \in looked'[q] => Pool.pins[q][c] > 0 /\ (cleaning[c] # Nobody => cleaning[c] = q)
             /\ pc'[q] \in Replacing /\ cur'[q] = c => c \notin looked'[q] /\ c \notin changed[q]
  <2>1. CASE q = p
    BY <1>1, <1>2, <1>3, <1>4, <1>5, <2>1 DEF Locks, Holds, Failing, Replacing
  <2>2. CASE q # p
    <3>1. /\ q \in share[c] \/ excl[c] = q =>
                            /\ Pool.pins[q][c] > 0 /\ pc[q] \notin Failing
                            /\ pc[q] \in Replacing => Pool.buf[c].tag # want[q]
                            /\ cur[q] = c => pc[q] \notin {"waitio", "reading"} \cup Replacing
          /\ pc[q] = "cleanup" /\ cur[q] = c => excl[c] = q /\ cleaning[c] = Nobody
          /\ c \in changed[q] => Pool.pins[q][c] > 0 /\ q \notin share[c]
          /\ c \in looked[q] => Pool.pins[q][c] > 0 /\ (cleaning[c] # Nobody => cleaning[c] = q)
          /\ pc[q] \in Replacing /\ cur[q] = c => c \notin looked[q] /\ c \notin changed[q]
      BY <1>1 DEF Locks, Holds
    <3>2. /\ pc'[q] = pc[q] /\ cur'[q] = cur[q] /\ (c \in looked'[q] => c \in looked[q])
          /\ excl'[c] = q => excl[c] = q
          /\ excl[c] = q => excl'[c] = q
      BY <1>2, <1>3, <1>4, <1>5, <2>2, Typing
    <3> QED
      BY <3>1, <3>2
  <2> QED
    BY <2>1, <2>2
<1> QED
  BY <1>1, <1>6, <1>7, <1>8, <1>9 DEF Locks, Holds

LEMMA LockExclusiveStep ==
    ASSUME Inv, NEW p \in Procs, NEW b \in Buffers,
           LockBufferExclusive(p, b) \/ LockBufferForCleanup(p, b), UNCHANGED plan
    PROVE  Inv'
<1> DEFINE r == [buf[b] EXCEPT !.cntx = TRUE]
<1>1. /\ pc[p] = "idle" /\ p # Checkpointer /\ pins[p][b] > 0 /\ LockFree(b)
      /\ excl' = [excl EXCEPT ![b] = p] /\ buf' = [buf EXCEPT ![b].cntx = TRUE]
      /\ share' = share /\ cleaning' = cleaning /\ want' = want /\ changed' = changed
      /\ free' = free /\ pins' = pins /\ sem' = sem
      /\ UNCHANGED <<disk, log, sync>> /\ Buffers' = Buffers
      /\ \/ pc' = pc /\ cur' = cur /\ looked' = [looked EXCEPT ![p] = @ \cup {b}]
         \/ pc' = [pc EXCEPT ![p] = "cleanup"] /\ cur' = [cur EXCEPT ![p] = b] /\ looked' = looked
  BY ProcessesDistinct DEF LockBufferExclusive, LockBufferForCleanup, MayLock, GotoWith, Goto, own, Buffers
<1>2. /\ Types(Pool, pc, cur, want, looked, changed) /\ Signals(Pool, pc, cur) /\ Pool.pins = pins
      /\ buf \in [Buffers -> BufRec] /\ sem \in [Procs -> Nat] /\ Pool.sem = sem /\ Pool.buf = buf
  BY PoolOf, Typing DEF Inv, Core
<1>3. /\ r \in BufRec /\ r.tag = buf[b].tag /\ r.ref = buf[b].ref /\ r.dirty = buf[b].dirty
      /\ r.io = buf[b].io /\ r.err = buf[b].err /\ r.page = buf[b].page /\ r.cntx
      /\ r.waiter = buf[b].waiter
  <2>1. r \in BufRec
    <3>1. buf[b] \in BufRec
      BY <1>2
    <3> QED
      BY <3>1 DEF BufRec
  <2> QED
    BY <1>2, <2>1 DEF BufRec
<1>4. buf' = [buf EXCEPT ![b] = r] /\ \E q \in Procs : pins[q][b] > 0 /\ pc[q] \in Waits
  BY <1>1, <1>2 DEF Waits
<1> HIDE DEF r
<1>5. /\ Pool' \in PoolType /\ Counts(Pool') /\ Pool'.pins = Pool.pins /\ Flagged(Pool, Pool')
      /\ Pool'.buf[b] = r /\ \A c \in Buffers \ {b} : Pool'.buf[c] = Pool.buf[c]
      /\ Pool'.sem = sem'
  BY <1>1, <1>2, <1>3, <1>4, FlagPool
<1>6. /\ share' \in [Buffers -> SUBSET Procs] /\ excl' \in [Buffers -> Procs \cup {Nobody}]
      /\ cleaning' \in [Buffers -> Procs \cup {Nobody}] /\ looked' \in [Procs -> SUBSET Buffers]
      /\ pc' \in [Procs -> PCs] /\ cur' \in [Procs -> Buffers]
  <2>1. /\ share \in [Buffers -> SUBSET Procs] /\ excl \in [Buffers -> Procs \cup {Nobody}]
        /\ cleaning \in [Buffers -> Procs \cup {Nobody}] /\ looked \in [Procs -> SUBSET Buffers]
        /\ pc \in [Procs -> PCs] /\ cur \in [Procs -> Buffers]
    BY <1>2 DEF Types
  <2>2. excl' \in [Buffers -> Procs \cup {Nobody}]
    BY <1>1, <2>1
  <2>3. looked' \in [Procs -> SUBSET Buffers]
    BY <1>1, <2>1
  <2>4. pc' \in [Procs -> PCs]
    BY <1>1, <2>1 DEF PCs
  <2>5. cur' \in [Procs -> Buffers]
    BY <1>1, <2>1
  <2> QED
    BY <1>1, <2>1, <2>2, <2>3, <2>4, <2>5
<1>7. /\ Others(p) /\ \A q \in Procs : pc'[q] = "sleeping" => pc[q] = "sleeping" /\ cur'[q] = cur[q]
  BY <1>1, <1>2 DEF Others, Types
<1>8. Goes(p)
  BY <1>1, <1>2 DEF Goes, Waits, Types
<1>9. Locks(Pool, pc, cur, want, looked, changed)'
  BY <1>1, <1>3, <1>5, <1>7, ExclusiveLocks
<1>10. Signals(Pool', pc', cur')
  <2>1. \A c \in Buffers : Pool'.buf[c].waiter = Pool.buf[c].waiter /\ Pool'.buf[c].ref = Pool.buf[c].ref
    BY <1>2, <1>3, <1>5
  <2>2. Pool'.sem = sem
    BY <1>1 DEF Pool
  <2> QED
    BY <1>2, <1>6, <1>7, <2>1, <2>2 DEF Signals
<1> QED
  BY <1>1, <1>5, <1>6, <1>7, <1>8, <1>9, <1>10, LocksMove

LEMMA WakeUpStep ==
    ASSUME Inv, NEW p \in Procs, ProcWaitForSignal(p), UNCHANGED plan
    PROVE  Inv'
<1> DEFINE b == cur[p]
           r == [buf[b] EXCEPT !.cntx = TRUE]
<1>1. /\ pc[p] = "sleeping" /\ sem[p] > 0 /\ LockFree(b)
      /\ excl' = [excl EXCEPT ![b] = p] /\ buf' = [buf EXCEPT ![b].cntx = TRUE]
      /\ share' = share /\ cleaning' = cleaning /\ want' = want /\ changed' = changed /\ looked' = looked
      /\ free' = free /\ pins' = pins /\ sem' = [sem EXCEPT ![p] = @ - 1]
      /\ UNCHANGED <<disk, log, sync>> /\ Buffers' = Buffers
      /\ pc' = [pc EXCEPT ![p] = "cleanup"] /\ cur' = cur
  BY DEF ProcWaitForSignal, Goto, own, Buffers
<1>2. /\ Types(Pool, pc, cur, want, looked, changed) /\ Signals(Pool, pc, cur) /\ Pool.pins = pins
      /\ buf \in [Buffers -> BufRec] /\ sem \in [Procs -> Nat] /\ Pool.sem = sem /\ Pool.buf = buf
      /\ b \in Buffers /\ Places(Pool, pc, cur, want)
  BY PoolOf, Typing DEF Inv, Core
<1>3. pins[p][b] > 0 /\ buf[b] \in BufRec
  BY <1>1, <1>2 DEF Places
<1>4. p # Checkpointer /\ ~(pc' = pc)
  BY <1>1, <1>2, Typing DEF Inv, Core, Locks
<1>5. /\ r \in BufRec /\ r.tag = buf[b].tag /\ r.ref = buf[b].ref /\ r.dirty = buf[b].dirty
      /\ r.io = buf[b].io /\ r.err = buf[b].err /\ r.page = buf[b].page /\ r.cntx
      /\ r.waiter = buf[b].waiter
  <2> HIDE DEF b
  <2>1. r \in BufRec
    BY <1>3 DEF BufRec
  <2> QED
    BY <1>3, <2>1 DEF BufRec
<1>6. /\ buf' = [buf EXCEPT ![b] = r] /\ \E q \in Procs : pins[q][b] > 0 /\ pc[q] \in Waits
      /\ sem' \in [Procs -> Nat] /\ \A q \in Procs \ {p} : sem'[q] = sem[q]
  BY <1>1, <1>2, <1>3 DEF Waits
<1>7. cur[p] = b
  OBVIOUS
<1> HIDE DEF r, b
<1>8. /\ Pool' \in PoolType /\ Counts(Pool') /\ Pool'.pins = Pool.pins /\ Flagged(Pool, Pool')
      /\ Pool'.buf[b] = r /\ \A c \in Buffers \ {b} : Pool'.buf[c] = Pool.buf[c]
      /\ Pool'.sem = sem'
  BY <1>1, <1>2, <1>5, <1>6, FlagPool
<1>9. /\ share' \in [Buffers -> SUBSET Procs] /\ excl' \in [Buffers -> Procs \cup {Nobody}]
      /\ cleaning' \in [Buffers -> Procs \cup {Nobody}] /\ looked' \in [Procs -> SUBSET Buffers]
      /\ pc' \in [Procs -> PCs] /\ cur' \in [Procs -> Buffers]
  BY <1>1, <1>2 DEF Types, PCs
<1>10. Others(p) /\ pc'[p] = "cleanup" /\ \A q \in Procs \ {p} : pc'[q] = pc[q]
  BY <1>1, <1>2 DEF Others, Types
<1>11. Goes(p)
  BY <1>1, <1>3, <1>7, <1>10 DEF Goes, Waits
<1>12. cur' = [cur EXCEPT ![p] = b]
  BY <1>1, <1>2, <1>7 DEF Types
<1>13. Locks(Pool, pc, cur, want, looked, changed)'
  BY <1>1, <1>2, <1>3, <1>4, <1>5, <1>8, <1>10, <1>12, ExclusiveLocks
<1>14. Signals(Pool', pc', cur')
  <2>1. \A c \in Buffers : Pool'.buf[c].waiter = Pool.buf[c].waiter /\ Pool'.buf[c].ref = Pool.buf[c].ref
    BY <1>2, <1>5, <1>8
  <2>2. \A q \in Procs : pc'[q] = "sleeping" => pc[q] = "sleeping" /\ Pool'.sem[q] = Pool.sem[q] /\ cur[q] \in Buffers
    BY <1>2, <1>6, <1>8, <1>10 DEF Types
  <2> QED
    BY <1>1, <1>2, <2>1, <2>2 DEF Signals
<1> QED
  BY <1>1, <1>8, <1>9, <1>10, <1>11, <1>13, <1>14, LocksMove

\* p counts the pins: it has the lock for cleanup, or gives the lock up.
LEMMA CountPinsLocks ==
    ASSUME Inv, NEW p \in Procs, NEW b \in Buffers, pc[p] = "cleanup", cur[p] = b,
           share' = share, want' = want, changed' = changed, plan' = plan, cur' = cur,
           Pool'.pins = Pool.pins, Flagged(Pool, Pool'),
           NEW l \in {"idle", "failed", "sleeping"}, pc' = [pc EXCEPT ![p] = l],
           \/ /\ excl' = excl /\ cleaning' = [cleaning EXCEPT ![b] = p] /\ l = "idle"
              /\ looked' = [looked EXCEPT ![p] = @ \cup {b}] /\ buf[b].ref = 1
           \/ excl' = [excl EXCEPT ![b] = Nobody] /\ cleaning' = cleaning /\ looked' = looked
    PROVE  Locks(Pool, pc, cur, want, looked, changed)'
<1>1. Locks(Pool, pc, cur, want, looked, changed) /\ Types(Pool, pc, cur, want, looked, changed)
      /\ Pool.pins = pins /\ Buffers' = Buffers /\ p # Nobody /\ Checkpointer \in Procs
      /\ Pool \in PoolType /\ Counts(Pool) /\ Places(Pool, pc, cur, want) /\ Pool.buf = buf
  BY PoolOf, Typing DEF Inv, Core, Buffers
<1>2. excl[b] = p /\ cleaning[b] = Nobody /\ p # Checkpointer /\ share[b] = {} /\ Pool.pins[p][b] > 0
      /\ Nobody \notin Procs
  BY <1>1, Typing DEF Locks, Places
<1>3. pc'[p] = l /\ \A q \in Procs \ {p} : pc'[q] = pc[q]
  BY <1>1 DEF Types
<1>4. \A c \in Buffers : Pool'.buf[c].tag = Pool.buf[c].tag
  BY DEF Flagged
<1>5. CASE /\ excl' = excl /\ cleaning' = [cleaning EXCEPT ![b] = p] /\ l = "idle"
           /\ looked' = [looked EXCEPT ![p] = @ \cup {b}] /\ buf[b].ref = 1
  <2>1. \A q \in Procs : pins[q][b] > 0 => q = p
    BY <1>1, <1>2, <1>5, OnlyPin
  <2>2. \A q \in Procs \ {p} : b \notin looked[q]
    BY <1>1, <2>1 DEF Locks
  <2>3. \A c \in Buffers : cleaning'[c] = IF c = b THEN p ELSE cleaning[c]
    BY <1>1, <1>5 DEF Types
  <2>4. \A q \in Procs : looked'[q] = IF q = p THEN looked[p] \cup {b} ELSE looked[q]
    BY <1>1, <1>5 DEF Types
  <2>5. looked'[Checkpointer] = {} /\ changed[Checkpointer] = {} /\ pc'[Checkpointer] # "sleeping"
    BY <1>1, <1>2, <1>3, <2>4 DEF Locks
  <2>6. \A c \in Buffers :
          /\ excl[c] # Nobody => share[c] = {}
          /\ cleaning'[c] # Nobody => excl[c] = cleaning'[c]
          /\ excl[c] # Checkpointer
          /\ excl[c] # Nobody => Pool'.buf[c].cntx
          /\ Checkpointer \in share[c] <=> pc'[Checkpointer] = "syncwrite" /\ cur[Checkpointer] = c
    BY <1>1, <1>2, <1>3, <2>3 DEF Locks, Flagged
  <2>7. ASSUME NEW q \in Procs, NEW c \in Buffers
        PROVE  /\ q \in share[c] \/ excl[c] = q =>
                            /\ Pool.pins[q][c] > 0 /\ pc'[q] \notin Failing
                            /\ pc'[q] \in Replacing => Pool.buf[c].tag # want[q]
                            /\ cur[q] = c => pc'[q] \notin {"waitio", "reading"} \cup Replacing
               /\ pc'[q] = "cleanup" /\ cur[q] = c => excl[c] = q /\ cleaning'[c] = Nobody
               /\ c \in changed[q] => Pool.pins[q][c] > 0 /\ q \notin share[c]
               /\ c \in looked'[q] => Pool.pins[q][c] > 0 /\ (cleaning'[c] # Nobody => cleaning'[c] = q)
               /\ pc'[q] \in Replacing /\ cur[q] = c => c \notin looked'[q] /\ c \notin changed[q]
    <3>1. /\ q \in share[c] \/ excl[c] = q =>
                            /\ Pool.pins[q][c] > 0 /\ pc[q] \notin Failing
                            /\ pc[q] \in Replacing => Pool.buf[c].tag # want[q]
                            /\ cur[q] = c => pc[q] \notin {"waitio", "reading"} \cup Replacing
          /\ pc[q] = "cleanup" /\ cur[q] = c => excl[c] = q /\ cleaning[c] = Nobody
          /\ c \in changed[q] => Pool.pins[q][c] > 0 /\ q \notin share[c]
          /\ c \in looked[q] => Pool.pins[q][c] > 0 /\ (cleaning[c] # Nobody => cleaning[c] = q)
          /\ pc[q] \in Replacing /\ cur[q] = c => c \notin looked[q] /\ c \notin changed[q]
      BY <1>1 DEF Locks, Holds
    <3>2. CASE q = p
      BY <1>1, <1>2, <1>3, <1>5, <2>3, <2>4, <3>1, <3>2 DEF Failing, Replacing
    <3>3. CASE q # p
      <4>1. pc'[q] = pc[q] /\ looked'[q] = looked[q] /\ (c = b => c \notin looked[q])
        BY <1>3, <2>2, <2>4, <3>3
      <4>2. pc'[q] = "cleanup" /\ cur[q] = c => excl[c] = q /\ cleaning'[c] = Nobody
        BY <1>2, <2>3, <3>1, <3>3, <4>1
      <4> QED
        BY <2>3, <3>1, <4>1, <4>2
    <3> QED
      BY <3>2, <3>3
  <2> QED
    BY <1>1, <1>4, <1>5, <2>5, <2>6, <2>7 DEF Locks, Holds
<1>6. CASE excl' = [excl EXCEPT ![b] = Nobody] /\ cleaning' = cleaning /\ looked' = looked
  <2>1. \A c \in Buffers : excl'[c] = IF c = b THEN Nobody ELSE excl[c]
    BY <1>1, <1>6 DEF Types
  <2>2. looked[Checkpointer] = {} /\ changed[Checkpointer] = {} /\ pc'[Checkpointer] # "sleeping"
    BY <1>1, <1>2, <1>3 DEF Locks
  <2>3. \A c \in Buffers :
          /\ excl'[c] # Nobody => share[c] = {}
          /\ cleaning[c] # Nobody => excl'[c] = cleaning[c]
          /\ excl'[c] # Checkpointer
          /\ excl'[c] # Nobody => Pool'.buf[c].cntx
          /\ Checkpointer \in share[c] <=> pc'[Checkpointer] = "syncwrite" /\ cur[Checkpointer] = c
    BY <1>1, <1>2, <1>3, <2>1 DEF Locks, Flagged
  <2>4. ASSUME NEW q \in Procs, NEW c \in Buffers
        PROVE  /\ q \in share[c] \/ excl'[c] = q =>
                            /\ Pool.pins[q][c] > 0 /\ pc'[q] \notin Failing
                            /\ pc'[q] \in Replacing => Pool.buf[c].tag # want[q]
                            /\ cur[q] = c => pc'[q] \notin {"waitio", "reading"} \cup Replacing
               /\ pc'[q] = "cleanup" /\ cur[q] = c => excl'[c] = q /\ cleaning[c] = Nobody
               /\ c \in changed[q] => Pool.pins[q][c] > 0 /\ q \notin share[c]
               /\ c \in looked[q] => Pool.pins[q][c] > 0 /\ (cleaning[c] # Nobody => cleaning[c] = q)
               /\ pc'[q] \in Replacing /\ cur[q] = c => c \notin looked[q] /\ c \notin changed[q]
    <3>1. /\ q \in share[c] \/ excl[c] = q =>
                            /\ Pool.pins[q][c] > 0 /\ pc[q] \notin Failing
                            /\ pc[q] \in Replacing => Pool.buf[c].tag # want[q]
                            /\ cur[q] = c => pc[q] \notin {"waitio", "reading"} \cup Replacing
          /\ pc[q] = "cleanup" /\ cur[q] = c => excl[c] = q /\ cleaning[c] = Nobody
          /\ c \in changed[q] => Pool.pins[q][c] > 0 /\ q \notin share[c]
          /\ c \in looked[q] => Pool.pins[q][c] > 0 /\ (cleaning[c] # Nobody => cleaning[c] = q)
          /\ pc[q] \in Replacing /\ cur[q] = c => c \notin looked[q] /\ c \notin changed[q]
      BY <1>1 DEF Locks, Holds
    <3>2. CASE q = p
      BY <1>1, <1>2, <1>3, <2>1, <3>1, <3>2 DEF Failing, Replacing
    <3>3. CASE q # p
      BY <1>2, <1>3, <2>1, <3>1, <3>3
    <3> QED
      BY <3>2, <3>3
  <2> QED
    BY <1>1, <1>4, <1>6, <2>2, <2>3, <2>4 DEF Locks, Holds
<1> QED
  BY <1>5, <1>6

LEMMA CountPinsStep ==
    ASSUME Inv, NEW p \in Procs, CountPins(p), UNCHANGED plan
    PROVE  Inv'
<1> DEFINE b == cur[p]
<1>1. /\ pc[p] = "cleanup" /\ share' = share /\ want' = want /\ changed' = changed /\ cur' = cur
      /\ free' = free /\ pins' = pins /\ sem' = sem /\ UNCHANGED <<disk, log, sync>>
  BY DEF CountPins
<1>2. \/ /\ buf[b].ref = 1 /\ pc' = [pc EXCEPT ![p] = "idle"]
         /\ cleaning' = [cleaning EXCEPT ![b] = p] /\ looked' = [looked EXCEPT ![p] = @ \cup {b}]
         /\ excl' = excl /\ buf' = buf
      \/ /\ pc' = [pc EXCEPT ![p] = "failed"]
         /\ excl' = [excl EXCEPT ![b] = Nobody] /\ buf' = buf /\ cleaning' = cleaning /\ looked' = looked
      \/ /\ buf[b].ref > 1 /\ buf[b].waiter = Nobody /\ pc' = [pc EXCEPT ![p] = "sleeping"]
         /\ buf' = [buf EXCEPT ![b].waiter = p]
         /\ excl' = [excl EXCEPT ![b] = Nobody] /\ cleaning' = cleaning /\ looked' = looked
  BY DEF CountPins, Goto
<1>3. /\ Types(Pool, pc, cur, want, looked, changed) /\ Signals(Pool, pc, cur) /\ Pool.pins = pins
      /\ buf \in [Buffers -> BufRec] /\ sem \in [Procs -> Nat] /\ Pool.sem = sem /\ Pool.buf = buf
      /\ b \in Buffers /\ Places(Pool, pc, cur, want) /\ Pool \in PoolType /\ Counts(Pool)
      /\ pc \in [Procs -> PCs] /\ p # Nobody /\ cur \in [Procs -> Buffers]
  BY PoolOf, Typing DEF Inv, Core
<1>4. cur[p] = b /\ buf[b] \in BufRec /\ pins[p][b] > 0
  BY <1>1, <1>3 DEF Places
<1> DEFINE r == IF buf' = buf THEN buf[b] ELSE [buf[b] EXCEPT !.waiter = p]
<1> HIDE DEF b
<1>5. /\ r \in BufRec /\ r.tag = buf[b].tag /\ r.ref = buf[b].ref /\ r.dirty = buf[b].dirty
      /\ r.io = buf[b].io /\ r.err = buf[b].err /\ r.page = buf[b].page /\ r.cntx = buf[b].cntx
      /\ buf' # buf => r.waiter = p
  <2>1. r \in BufRec
    BY <1>4 DEF BufRec
  <2> QED
    BY <1>4, <2>1 DEF BufRec
<1>6. buf' = [buf EXCEPT ![b] = r] /\ sem' \in [Procs -> Nat]
  BY <1>1, <1>2, <1>3
<1>7. buf' # buf => buf[b].ref > 1 /\ buf[b].waiter = Nobody /\ pc' = [pc EXCEPT ![p] = "sleeping"]
  BY <1>2
<1>8. buf' = buf => r = buf[b]
  OBVIOUS
<1> HIDE DEF r
<1>9. /\ Pool' \in PoolType /\ Counts(Pool') /\ Pool'.pins = Pool.pins /\ Flagged(Pool, Pool')
      /\ Pool'.buf[b] = r /\ \A c \in Buffers \ {b} : Pool'.buf[c] = Pool.buf[c]
      /\ Pool'.sem = sem'
  BY <1>1, <1>3, <1>5, <1>6, FlagPool
<1>10. /\ share' \in [Buffers -> SUBSET Procs] /\ excl' \in [Buffers -> Procs \cup {Nobody}]
       /\ cleaning' \in [Buffers -> Procs \cup {Nobody}] /\ looked' \in [Procs -> SUBSET Buffers]
       /\ cur' \in [Procs -> Buffers]
  BY <1>1, <1>2, <1>3 DEF Types
<1>11. /\ pc' \in [Procs -> PCs] /\ Others(p) /\ pc'[p] \in Waits /\ pc'[p] # "cleanup"
       /\ \A q \in Procs \ {p} : pc'[q] = pc[q]
  BY <1>1, <1>2, <1>3 DEF Others, PCs, Waits
<1>12. Goes(p)
  BY <1>1, <1>4, <1>11 DEF Goes, Waits
<1>13. Locks(Pool, pc, cur, want, looked, changed)'
  <2>1. CASE pc' = [pc EXCEPT ![p] = "idle"]
    BY <1>1, <1>2, <1>3, <1>4, <1>9, <2>1, CountPinsLocks
  <2>2. CASE pc' = [pc EXCEPT ![p] = "failed"]
    BY <1>1, <1>2, <1>3, <1>4, <1>9, <2>2, CountPinsLocks
  <2>3. CASE pc' = [pc EXCEPT ![p] = "sleeping"]
    BY <1>1, <1>2, <1>3, <1>4, <1>9, <2>3, CountPinsLocks
  <2> QED
    BY <1>2, <2>1, <2>2, <2>3
<1>14. Signals(Pool', pc', cur')
  <2>1. ASSUME NEW q \in Procs, pc'[q] = "sleeping", Pool'.sem[q] = 0
        PROVE  Pool'.buf[cur[q]].waiter = q /\ Pool'.buf[cur[q]].ref > 1
    <3>1. CASE q = p
      <4>1. buf' # buf
        <5>1. buf[b].waiter = Nobody /\ buf' = [buf EXCEPT ![b].waiter = p]
          BY <1>2, <1>3, <2>1, <3>1
        <5>2. buf'[b] = [buf[b] EXCEPT !.waiter = p] /\ [buf[b] EXCEPT !.waiter = p].waiter = p
          BY <1>3, <1>4, <5>1 DEF b, BufRec
        <5> QED
          BY <1>3, <5>1, <5>2
      <4> QED
        BY <1>4, <1>5, <1>7, <1>9, <3>1, <4>1
    <3>2. CASE q # p
      <4>1. Pool.buf[cur[q]].waiter = q /\ Pool.buf[cur[q]].ref > 1 /\ cur[q] \in Buffers
        BY <1>1, <1>3, <1>9, <1>11, <2>1, <3>2 DEF Signals
      <4>2. CASE cur[q] = b
        <5>1. buf' = buf
          BY <1>3, <1>7, <4>1, <4>2, Typing
        <5> QED
          BY <1>3, <1>8, <1>9, <4>1, <4>2, <5>1
      <4>3. CASE cur[q] # b
        BY <1>9, <4>1, <4>3
      <4> QED
        BY <4>2, <4>3
    <3> QED
      BY <3>1, <3>2
  <2> QED
    BY <1>1, <2>1 DEF Signals
<1> QED
  BY <1>1, <1>9, <1>10, <1>11, <1>12, <1>13, <1>14, LocksMove

LEMMA UnlockBuffersStep ==
    ASSUME Inv, NEW p \in Procs, UnlockBuffers(p), UNCHANGED plan
    PROVE  Inv'
<1>1. /\ pc[p] = "unlock" /\ pc' = [pc EXCEPT ![p] = "unpin"]
      /\ buf' = [b \in Buffers |-> [buf[b] EXCEPT !.waiter = IF @ = p THEN Nobody ELSE @]]
      /\ sem' = [sem EXCEPT ![p] = 0] /\ free' = free /\ pins' = pins
      /\ share' = share /\ excl' = excl /\ cleaning' = cleaning
      /\ cur' = cur /\ want' = want /\ looked' = looked /\ changed' = changed
      /\ UNCHANGED <<disk, log, sync>> /\ Buffers' = Buffers
  BY DEF UnlockBuffers, Goto, cntx, own, Buffers
<1>2. /\ Types(Pool, pc, cur, want, looked, changed) /\ Signals(Pool, pc, cur) /\ Pool.pins = pins
      /\ buf \in [Buffers -> BufRec] /\ sem \in [Procs -> Nat] /\ Pool.sem = sem /\ Pool.buf = buf
      /\ Pool \in PoolType /\ Counts(Pool) /\ Pool.free = free
      /\ Locks(Pool, pc, cur, want, looked, changed)
      /\ pc \in [Procs -> PCs] /\ p # Nobody /\ cur \in [Procs -> Buffers]
  BY PoolOf, Typing DEF Inv, Core
<1>3. ASSUME NEW b \in Buffers
      PROVE  /\ buf'[b] \in BufRec /\ buf'[b].tag = buf[b].tag /\ buf'[b].ref = buf[b].ref
             /\ buf'[b].dirty = buf[b].dirty /\ buf'[b].io = buf[b].io /\ buf'[b].err = buf[b].err
             /\ buf'[b].page = buf[b].page /\ buf'[b].cntx = buf[b].cntx
             /\ buf'[b].waiter = IF buf[b].waiter = p THEN Nobody ELSE buf[b].waiter
  <2>1. buf[b] \in BufRec /\ buf'[b] = [buf[b] EXCEPT !.waiter = IF buf[b].waiter = p THEN Nobody ELSE buf[b].waiter]
    BY <1>1, <1>2
  <2>2. buf'[b] \in BufRec
    BY <2>1 DEF BufRec
  <2> QED
    BY <2>1, <2>2 DEF BufRec
<1>4. buf' \in [Buffers -> BufRec] /\ sem' \in [Procs -> Nat] /\ sem'[p] = 0 /\ \A q \in Procs \ {p} : sem'[q] = sem[q]
  BY <1>1, <1>2, <1>3
<1>5. /\ Pool'.buf = buf' /\ Pool'.free = Pool.free /\ Pool'.pins = Pool.pins /\ Pool'.sem = sem'
  BY <1>1 DEF Pool
<1>6. Pool' \in PoolType
  BY <1>1, <1>2, <1>4 DEF Pool, PoolType
<1>7. Counts(Pool')
  <2>1. \A c \in Buffers : Pool'.buf[c].ref = Pool.buf[c].ref
    BY <1>2, <1>3, <1>5
  <2>2. \A c \in Buffers : PinnedBy(Pool', c) = PinnedBy(Pool, c)
    BY <1>5 DEF PinnedBy
  <2>3. Counts(Pool) /\ Pool'.free = Pool.free
    BY <1>2, <1>5
  <2> QED
    BY <2>1, <2>2, <2>3 DEF Counts
<1>8. Flagged(Pool, Pool')
  BY <1>2, <1>3, <1>5 DEF Flagged
<1>9. pc' \in [Procs -> PCs] /\ Others(p) /\ Goes(p) /\ pc'[p] = "unpin" /\ \A q \in Procs \ {p} : pc'[q] = pc[q]
  BY <1>1, <1>2 DEF PCs, Failing, Others, Goes
<1>10. Signals(Pool', pc', cur')
  <2>1. ASSUME NEW q \in Procs, pc'[q] = "sleeping", sem'[q] = 0
        PROVE  buf'[cur[q]].waiter = q /\ buf'[cur[q]].ref > 1
    <3>1. q # p /\ pc[q] = "sleeping" /\ sem[q] = 0 /\ cur[q] \in Buffers
      BY <1>2, <1>4, <1>9, <2>1
    <3>2. buf[cur[q]].waiter = q /\ buf[cur[q]].ref > 1
      BY <1>2, <3>1 DEF Signals
    <3> QED
      BY <1>3, <3>1, <3>2
  <2> QED
    BY <1>1, <1>5, <2>1 DEF Signals
<1>11. Locks(Pool, pc, cur, want, looked, changed)'
  <2>1. \A c \in Buffers : Pool'.buf[c].tag = Pool.buf[c].tag /\ Pool'.buf[c].cntx = Pool.buf[c].cntx
    BY <1>2, <1>3, <1>5
  <2>2. \A q \in Procs, c \in Buffers : Holds(q, c) => q # p
    BY <1>1, <1>2 DEF Locks, Failing
  <2>3. pc'[Checkpointer] # "sleeping" /\ \A c \in Buffers :
          Checkpointer \in share[c] <=> pc'[Checkpointer] = "syncwrite" /\ cur[Checkpointer] = c
    BY <1>1, <1>2, <1>9, Typing DEF Locks
  <2>4. \A q \in Procs : /\ pc'[q] \in Replacing => pc'[q] = pc[q]
                         /\ pc'[q] = "cleanup" => pc'[q] = pc[q]
    BY <1>9 DEF Replacing
  <2> QED
    <3>1. Locks(Pool, pc, cur, want, looked, changed)
      BY <1>2
    <3>2. ASSUME NEW q \in Procs, NEW c \in Buffers
          PROVE  /\ Holds(q, c) => /\ Pool.pins[q][c] > 0 /\ pc'[q] \notin Failing
                                   /\ pc'[q] \in Replacing => Pool.buf[c].tag # want[q]
                                   /\ cur[q] = c => pc'[q] \notin {"waitio", "reading"} \cup Replacing
                 /\ pc'[q] = "cleanup" /\ cur[q] = c => excl[c] = q /\ cleaning[c] = Nobody
                 /\ pc'[q] \in Replacing /\ cur[q] = c => c \notin looked[q] /\ c \notin changed[q]
      <4>1. Holds(q, c) => q # p /\ pc'[q] = pc[q]
        BY <1>9, <2>2
      <4> QED
        BY <2>4, <3>1, <4>1 DEF Locks
    <3>3. /\ Pool'.pins = Pool.pins /\ share' = share /\ excl' = excl /\ cleaning' = cleaning /\ cur' = cur
          /\ want' = want /\ looked' = looked /\ changed' = changed /\ Buffers' = Buffers
      BY <1>1, <1>5
    <3> QED
      BY <2>1, <2>3, <3>1, <3>2, <3>3 DEF Locks, Holds
<1> QED
  BY <1>1, <1>2, <1>5, <1>6, <1>7, <1>8, <1>9, <1>10, <1>11, <1>4, LocksMove DEF Types

LEMMA AbortedStep ==
    ASSUME Inv, NEW p \in Procs, AtEOXact_Buffers(p), PinsOf(p) = {}, UNCHANGED plan
    PROVE  Inv'
<1>1. /\ pc[p] = "unpin" /\ pc' = [pc EXCEPT ![p] = "idle"] /\ Pool' = Pool /\ Buffers' = Buffers
      /\ share' = share /\ excl' = excl /\ cleaning' = cleaning
      /\ cur' = cur /\ want' = want /\ looked' = looked /\ changed' = changed
      /\ UNCHANGED <<disk, log, sync>>
  BY DEF AtEOXact_Buffers, Goto, cntx, own, pool, Pool, Buffers
<1>2. /\ Types(Pool, pc, cur, want, looked, changed) /\ Signals(Pool, pc, cur) /\ Pool.pins = pins
      /\ Pool \in PoolType /\ Counts(Pool) /\ Locks(Pool, pc, cur, want, looked, changed)
      /\ pc \in [Procs -> PCs] /\ cur \in [Procs -> Buffers]
  BY PoolOf, Typing DEF Inv, Core
<1>3. \A b \in Buffers : pins[p][b] = 0
  <2>1. \A b \in Buffers : pins[p][b] \in Nat /\ ~(pins[p][b] > 0)
    BY <1>2, PoolFields DEF PinsOf
  <2> QED
    BY <2>1
<1>4. pc' \in [Procs -> PCs] /\ pc'[p] = "idle" /\ \A q \in Procs \ {p} : pc'[q] = pc[q]
  BY <1>1, <1>2 DEF PCs
<1>5. Others(p) /\ Goes(p) /\ Flagged(Pool, Pool)
  BY <1>1, <1>2, <1>3, <1>4 DEF Others, Goes, Flagged
<1>6. Signals(Pool, pc', cur')
  BY <1>1, <1>2, <1>4 DEF Signals
<1>7. Locks(Pool, pc, cur, want, looked, changed)'
  <2>1. \A q \in Procs, c \in Buffers : Holds(q, c) => q # p
    BY <1>1, <1>2 DEF Locks, Failing
  <2>2. pc'[Checkpointer] # "sleeping" /\ \A c \in Buffers :
          Checkpointer \in share[c] <=> pc'[Checkpointer] = "syncwrite" /\ cur[Checkpointer] = c
    BY <1>1, <1>2, <1>4, Typing DEF Locks
  <2>3. \A q \in Procs : /\ pc'[q] \in Replacing => pc'[q] = pc[q]
                         /\ pc'[q] = "cleanup" => pc'[q] = pc[q]
    BY <1>4 DEF Replacing
  <2> QED
    BY <1>1, <1>2, <1>4, <2>1, <2>2, <2>3 DEF Locks, Holds
<1> QED
  BY <1>1, <1>2, <1>4, <1>5, <1>6, <1>7, LocksMove DEF Types

LEMMA ChangePageStep ==
    ASSUME Inv, NEW p \in Procs, NEW b \in Buffers, ChangePage(p, b), UNCHANGED plan
    PROVE  Inv'
<1> DEFINE k == buf[b].tag
           r == [buf[b] EXCEPT !.page = lsn + 1]
           t == Pool'
<1>1. /\ pc[p] = "idle" /\ excl[b] = p /\ lsn' = lsn + 1
      /\ latest' = [latest EXCEPT ![k] = lsn + 1] /\ buf' = [buf EXCEPT ![b].page = lsn + 1]
      /\ changed' = [changed EXCEPT ![p] = @ \cup {b}]
      /\ free' = free /\ pins' = pins /\ sem' = sem /\ share' = share /\ excl' = excl /\ cleaning' = cleaning
      /\ pc' = pc /\ cur' = cur /\ want' = want /\ disk' = disk /\ flushed' = flushed
      /\ next' = next /\ redo' = redo /\ ckpt' = ckpt /\ looked' = looked /\ plan' = plan /\ Buffers' = Buffers
  BY DEF ChangePage, cntx, sync, Buffers
<1>2. Core(Pool, pc, cur, want, looked, changed) /\ Synced(Pool, pc)
  BY DEF Inv
<1>3. /\ pc \in [Procs -> PCs] /\ cur \in [Procs -> Buffers] /\ buf \in [Buffers -> BufRec]
      /\ Pool.buf = buf /\ Pool.pins = pins /\ buf[b] \in BufRec /\ disk \in [Blocks -> Int]
      /\ latest \in [Blocks -> Nat] /\ redo \in [Blocks -> Nat] /\ lsn \in Nat
      /\ changed \in [Procs -> SUBSET Buffers]
      /\ Types(Pool, pc, cur, want, looked, changed)
  BY Typing, PoolOf DEF Types
<1>4. Pool.pins[p][b] > 0 /\ buf[b].cntx /\ p # Checkpointer
  BY <1>1, <1>2, <1>3, Typing DEF Core, Locks, Holds
<1>5. k \in Blocks
  <2>1. Pool.buf[b].tag # NoBlock
    BY <1>2, <1>4 DEF Core, Tags
  <2>2. buf[b].tag \in Blocks \cup {NoBlock}
    BY <1>3 DEF BufRec
  <2> QED
    BY <1>3, <2>1, <2>2
<1>6. /\ r \in BufRec /\ r.tag = k /\ r.ref = buf[b].ref /\ r.page = lsn + 1
      /\ r.err = buf[b].err /\ r.waiter = buf[b].waiter /\ r.io = buf[b].io
      /\ r.dirty = buf[b].dirty /\ r.cntx = buf[b].cntx
  <2>1. r \in BufRec
    BY <1>3 DEF BufRec
  <2> QED
    BY <1>3, <2>1 DEF BufRec
<1>7. buf' = [buf EXCEPT ![b] = r] /\ k = buf[b].tag
  BY <1>1, <1>3
<1> HIDE DEF r, t, k
<1>8. latest' \in [Blocks -> Nat] /\ \A j \in Blocks : latest'[j] = IF j = k THEN lsn + 1 ELSE latest[j]
  <2>1. lsn + 1 \in Nat /\ latest' = [latest EXCEPT ![k] = lsn + 1]
    BY <1>1, <1>3
  <2> QED
    BY <1>3, <2>1
<1>9. /\ t \in PoolType /\ Counts(t) /\ t.buf[b] = r
      /\ \A c \in Buffers \ {b} : t.buf[c] = Pool.buf[c]
      /\ t.pins = Pool.pins /\ t.free = Pool.free /\ t.sem = Pool.sem
  <2>1. /\ b \in Buffers /\ r \in BufRec /\ r.ref = buf[b].ref
        /\ buf' = [buf EXCEPT ![b] = r] /\ UNCHANGED <<free, pins, sem>>
    BY <1>1, <1>3, <1>6, <1>7
  <2> QED
    BY <2>1, BufSet DEF t
<1>10. \A c \in Buffers : /\ t.buf[c].tag = Pool.buf[c].tag /\ t.buf[c].ref = Pool.buf[c].ref
                          /\ t.buf[c].waiter = Pool.buf[c].waiter /\ t.buf[c].io = Pool.buf[c].io
                          /\ t.buf[c].dirty = Pool.buf[c].dirty /\ t.buf[c].cntx = Pool.buf[c].cntx
                          /\ t.buf[c].err = Pool.buf[c].err
                          /\ c # b => t.buf[c] = Pool.buf[c]
  BY <1>3, <1>6, <1>7, <1>9
<1>11. \A q \in Procs : pc[q] \in Replacing \cup {"syncwrite"} => cur[q] # b
  <2>1. ASSUME NEW q \in Procs, pc[q] \in Replacing, cur[q] = b PROVE FALSE
    BY <1>1, <1>2, <1>4, <2>1 DEF Core, Places, Replacing
  <2>2. ASSUME NEW q \in Procs, pc[q] = "syncwrite", cur[q] = b PROVE FALSE
    <3>1. q = Checkpointer
      BY <1>2, <2>2 DEF Core, Places, Syncing
    <3>2. Checkpointer \in share[b] /\ share[b] = {}
      BY <1>1, <1>2, <2>2, <3>1, Typing DEF Core, Locks
    <3> QED
      BY <3>2
  <2> QED
    BY <2>1, <2>2
<1>12. changed' \in [Procs -> SUBSET Buffers]
       /\ \A q \in Procs : changed'[q] = IF q = p THEN changed[p] \cup {b} ELSE changed[q]
  BY <1>1, <1>3
<1>13. Types(Pool, pc, cur, want, looked, changed)'
  BY <1>1, <1>3, <1>8, <1>9, <1>12 DEF Types, PoolType, t
<1>14. Counts(Pool)' /\ Tags(Pool)'
  <2>1. Tags(t)
    BY <1>2, <1>9, <1>10 DEF Core, Tags, Unwritten
  <2> QED
    BY <1>1, <1>9, <2>1 DEF Counts, Tags, PinnedBy, t
<1>15. Places(Pool, pc, cur, want)'
  <2>1. Places(t, pc, cur, want)
    BY <1>2, <1>3, <1>9, <1>10 DEF Core, Places
  <2> QED
    BY <1>1, <2>1 DEF Places, t
<1>16. Locks(Pool, pc, cur, want, looked, changed)'
  <2>1. Locks(Pool, pc, cur, want, looked, changed)
    BY <1>2 DEF Core
  <2>2. ASSUME NEW q \in Procs, NEW c \in Buffers
        PROVE  /\ c \in changed'[q] => Pool.pins[q][c] > 0 /\ q \notin share[c]
               /\ pc[q] \in Replacing /\ cur[q] = c => c \notin looked[q] /\ c \notin changed'[q]
    <3>1. /\ c \in changed[q] => Pool.pins[q][c] > 0 /\ q \notin share[c]
          /\ pc[q] \in Replacing /\ cur[q] = c => c \notin looked[q] /\ c \notin changed[q]
      BY <2>1 DEF Locks
    <3>2. CASE q = p /\ c = b
      <4>1. share[b] = {}
        <5>1. excl[b] # Nobody
          BY <1>1, Typing
        <5> QED
          BY <2>1, <5>1 DEF Locks
      <4> QED
        BY <1>4, <1>11, <3>2, <4>1
    <3>3. CASE ~(q = p /\ c = b)
      <4>1. c \in changed'[q] => c \in changed[q]
        BY <1>12, <3>3
      <4> QED
        BY <3>1, <4>1
    <3> QED
      BY <3>2, <3>3
  <2>3. changed'[Checkpointer] = {}
    BY <1>4, <1>12, <2>1, Typing DEF Locks
  <2> QED
    BY <1>1, <1>9, <1>10, <2>1, <2>2, <2>3 DEF Locks, Holds, t
<1>17. Signals(Pool, pc, cur)'
  <2>1. Signals(t, pc, cur)
    BY <1>2, <1>3, <1>9, <1>10 DEF Core, Signals
  <2> QED
    BY <1>1, <2>1 DEF Signals, t
<1>18. Logs(Pool, pc, cur)'
  <2>1. \A j \in Blocks : disk[j] <= flushed /\ latest[j] <= lsn
    BY <1>2 DEF Core, Logs
  <2>2. \A q \in Procs : pc[q] \in {"write", "syncwrite"} => t.buf[cur[q]].page <= flushed
    BY <1>2, <1>3, <1>10, <1>11 DEF Core, Logs, Replacing
  <2>3. \A j \in Blocks : latest'[j] <= lsn + 1
    BY <1>3, <1>8, <2>1
  <2> QED
    BY <1>1, <2>1, <2>2, <2>3 DEF Logs, t
<1>19. Contents(Pool, pc, cur)'
  <2>1. SUFFICES ASSUME "write" \notin plan.may PROVE Contents(Pool, pc, cur)'
    BY <1>1 DEF Contents
  <2>2. \A c \in Buffers : Bad(Pool, pc, cur, c)' <=> Bad(Pool, pc, cur, c)
    BY <1>1, <1>10 DEF Bad, t
  <2>3. \A c \in Buffers : Bad(Pool, pc, cur, c) =>
               /\ ~Unwritten(t.buf[c])
               /\ \A q \in Procs : t.pins[q][c] > 0 =>
                     \/ pc[q] \in Reading \cup {"waitio"} /\ cur[q] = c
                     \/ pc[q] \in {"unlock", "unpin"}
    BY <1>2, <1>9, <1>10, <2>1 DEF Core, Contents, Unwritten
  <2>4. ASSUME NEW c \in Buffers, t.buf[c].tag # NoBlock
        PROVE  /\ Bad(Pool, pc, cur, c) \/ t.buf[c].page = latest'[t.buf[c].tag]
               /\ t.buf[c].cntx \/ disk[t.buf[c].tag] = latest'[t.buf[c].tag]
    <3>1. CASE c = b
      BY <1>3, <1>4, <1>5, <1>6, <1>8, <1>9, <1>10, <3>1
    <3>2. CASE c # b
      <4>1. t.buf[c] = Pool.buf[c] /\ Pool.buf[c].tag # k /\ Pool.buf[c].tag \in Blocks
        <5>1. Pool.buf[c].tag \in Blocks \cup {NoBlock}
          BY <1>3 DEF BufRec
        <5>2. t.buf[c] = Pool.buf[c]
          BY <1>10, <3>2
        <5>3. Pool.buf[c].tag # Pool.buf[b].tag
          BY <1>2, <2>4, <3>2, <5>2 DEF Core, Tags
        <5> QED
          BY <1>3, <1>7, <2>4, <5>1, <5>2, <5>3
      <4>2. /\ Bad(Pool, pc, cur, c) \/ Pool.buf[c].page = latest[Pool.buf[c].tag]
            /\ Pool.buf[c].cntx \/ disk[Pool.buf[c].tag] = latest[Pool.buf[c].tag]
        BY <1>2, <2>1, <2>4, <4>1 DEF Core, Contents
      <4> QED
        BY <1>8, <4>1, <4>2
    <3> QED
      BY <3>1, <3>2
  <2>5. ASSUME NEW j \in Blocks PROVE disk[j] = latest'[j] \/ \E c \in Buffers : t.buf[c].tag = j
    <3>1. disk[j] = latest[j] \/ \E c \in Buffers : Pool.buf[c].tag = j
      BY <1>2, <2>1 DEF Core, Contents
    <3>2. CASE j = k
      BY <1>6, <1>9, <3>2
    <3>3. CASE j # k
      BY <1>8, <1>10, <3>1, <3>3
    <3> QED
      BY <3>2, <3>3
  <2>6. ASSUME NEW q \in Procs
        PROVE  /\ pc[q] # "abortout"
               /\ pc[q] = "written" => disk[t.buf[cur[q]].tag] = latest'[t.buf[cur[q]].tag]
    <3>1. /\ pc[q] # "abortout"
          /\ pc[q] = "written" => disk[Pool.buf[cur[q]].tag] = latest[Pool.buf[cur[q]].tag]
      BY <1>2, <2>1 DEF Core, Contents
    <3>2. ASSUME pc[q] = "written"
          PROVE  Pool.buf[cur[q]].tag # k /\ Pool.buf[cur[q]].tag \in Blocks
                 /\ t.buf[cur[q]].tag = Pool.buf[cur[q]].tag
      <4>1. cur[q] # b /\ cur[q] \in Buffers
        BY <1>3, <1>11, <3>2 DEF Replacing
      <4>2. Pool.pins[q][cur[q]] > 0
        BY <1>2, <3>2 DEF Core, Places, Doing, Replacing
      <4>3. Pool.buf[cur[q]].tag # NoBlock
        BY <1>2, <4>1, <4>2 DEF Core, Tags
      <4>4. Pool.buf[cur[q]].tag \in Blocks \cup {NoBlock}
        BY <1>3, <4>1 DEF BufRec
      <4>5. Pool.buf[cur[q]].tag # Pool.buf[b].tag
        BY <1>2, <4>1, <4>3 DEF Core, Tags
      <4> QED
        BY <1>3, <1>7, <1>10, <4>1, <4>3, <4>4, <4>5
    <3> QED
      BY <1>8, <3>1, <3>2
  <2> QED
    BY <1>1, <2>2, <2>3, <2>4, <2>5, <2>6 DEF Contents, t
<1>20. Synced(Pool, pc)'
  <2>1. \A j \in Blocks : latest[j] <= latest'[j] /\ latest[j] \in Nat /\ latest'[j] \in Nat
    BY <1>2, <1>3, <1>8 DEF Core, Logs
  <2>2. SUFFICES ASSUME "write" \notin plan.may PROVE Synced(Pool, pc)'
    BY <1>1 DEF Synced
  <2>3. \A j \in Blocks : disk[j] <= latest'[j] /\ redo[j] <= latest'[j] /\ ckpt[j] <= disk[j]
    BY <1>2, <1>3, <2>1, <2>2 DEF Synced
  <2>4. ASSUME NEW j \in Blocks, pc[Checkpointer] \in Syncing \cup {"sync"}, disk[j] < redo[j]
        PROVE  \E c \in Buffers : /\ t.buf[c].tag = j /\ c >= next
                                  /\ pc[Checkpointer] = "syncdone" => c > next
    BY <1>2, <1>10, <2>2, <2>4 DEF Synced
  <2> QED
    BY <1>1, <2>3, <2>4 DEF Synced, t
<1> QED
  BY <1>13, <1>14, <1>15, <1>16, <1>17, <1>18, <1>19, <1>20 DEF Inv, Core

\* The I/O that failed: the page is bad when it was read, and dirty when it was written.
LEMMA AbortBufferIOStep ==
    ASSUME Inv, NEW p \in Procs, AbortBufferIO(p), UNCHANGED plan
    PROVE  Inv'
<1> DEFINE b == cur[p]
           r == [buf[b] EXCEPT !.err = TRUE, !.io = FALSE, !.dirty = buf[b].dirty \/ pc[p] = "abortout"]
           t == Pool'
<1>1. /\ pc[p] \in {"abortin", "abortout"}
      /\ buf' = [buf EXCEPT ![b].err = TRUE, ![b].io = FALSE, ![b].dirty = @ \/ pc[p] = "abortout"]
      /\ pc' = [pc EXCEPT ![p] = "unlock"] /\ UNCHANGED <<free, pins, sem>>
      /\ UNCHANGED <<Env, next>> /\ cur' = cur /\ want' = want /\ looked' = looked /\ changed' = changed
  BY DEF AbortBufferIO, Goto, Env, sync, own
<1>2. Core(Pool, pc, cur, want, looked, changed)
  BY DEF Inv
<1>3. /\ pc \in [Procs -> PCs] /\ cur \in [Procs -> Buffers] /\ buf \in [Buffers -> BufRec]
      /\ b \in Buffers /\ Pool.buf = buf /\ buf[b] \in BufRec
      /\ Types(Pool, pc, cur, want, looked, changed)
  BY Typing, PoolOf DEF Types
<1>4. Pool.pins[p][b] > 0 /\ cur[p] = b
  BY <1>1, <1>2 DEF Core, Places, Doing, Reading
<1> HIDE DEF b
<1>5. /\ r \in BufRec /\ r.tag = buf[b].tag /\ r.ref = buf[b].ref /\ r.page = buf[b].page
      /\ r.err = TRUE /\ r.waiter = buf[b].waiter /\ r.io = FALSE
      /\ r.dirty = (buf[b].dirty \/ pc[p] = "abortout") /\ r.cntx = buf[b].cntx
  <2>1. r \in BufRec
    BY <1>3 DEF BufRec
  <2> QED
    BY <1>3, <2>1 DEF BufRec
<1>6. buf' = [buf EXCEPT ![b] = r]
  <2>1. buf' = [buf EXCEPT ![b] = [[[buf[b] EXCEPT !.err = TRUE] EXCEPT !.io = FALSE]
                                    EXCEPT !.dirty = buf[b].dirty \/ pc[p] = "abortout"]]
    BY <1>1, <1>3 DEF BufRec
  <2> QED
    BY <1>3, <2>1 DEF BufRec
<1> HIDE DEF r, t
<1>7. /\ t \in PoolType /\ Counts(t) /\ t.buf[b] = r
      /\ \A c \in Buffers \ {b} : t.buf[c] = Pool.buf[c]
      /\ t.pins = Pool.pins /\ t.free = Pool.free /\ t.sem = Pool.sem
  <2>1. /\ b \in Buffers /\ r \in BufRec /\ r.ref = buf[b].ref
        /\ buf' = [buf EXCEPT ![b] = r] /\ UNCHANGED <<free, pins, sem>>
    BY <1>1, <1>3, <1>5, <1>6
  <2> QED
    BY <2>1, BufSet DEF t
<1>8. \A c \in Buffers : /\ t.buf[c].tag = Pool.buf[c].tag /\ t.buf[c].ref = Pool.buf[c].ref
                         /\ t.buf[c].waiter = Pool.buf[c].waiter /\ t.buf[c].page = Pool.buf[c].page
                         /\ t.buf[c].cntx = Pool.buf[c].cntx
                         /\ c # b => t.buf[c] = Pool.buf[c]
  BY <1>3, <1>5, <1>7
<1>9. /\ pc' \in [Procs -> PCs] /\ pc'[p] = "unlock" /\ \A q \in Procs \ {p} : pc'[q] = pc[q]
      /\ \A q \in Procs : cur[q] \in Buffers
  BY <1>1, <1>3 DEF PCs, Failing
<1>10. \A q \in Procs \ {p} : pc[q] \in Doing => cur[q] # b
  BY <1>1, <1>2, <1>4, <1>9 DEF Core, Places, Doing, Reading
<1>11. Types(t, pc', cur, want, looked, changed)
  BY <1>3, <1>7, <1>9 DEF Types
<1>12. Tags(t)
  <2>1. Pool.buf[b].tag # NoBlock
    BY <1>2, <1>3, <1>4 DEF Core, Tags
  <2>2. ASSUME NEW c \in Buffers, t.buf[c].tag = NoBlock
        PROVE  ~Unwritten(t.buf[c]) /\ \A q \in Procs : t.pins[q][c] = 0
    <3>1. c # b /\ t.buf[c] = Pool.buf[c]
      BY <1>8, <2>1, <2>2
    <3> QED
      BY <1>2, <1>7, <2>2, <3>1 DEF Core, Tags
  <2>3. \A c, d \in Buffers : t.buf[c].tag = t.buf[d].tag /\ t.buf[c].tag # NoBlock => c = d
    BY <1>2, <1>8 DEF Core, Tags
  <2> QED
    BY <2>2, <2>3 DEF Tags
<1>13. Places(t, pc', cur, want)
  <2>1. Places(Pool, pc, cur, want)
    BY <1>2 DEF Core
  <2>2. ASSUME NEW q \in Procs, q # p
        PROVE  /\ pc'[q] \in Doing \cup {"waitio", "cleanup", "sleeping"} => t.pins[q][cur[q]] > 0
               /\ pc'[q] \in Doing =>
                     /\ t.buf[cur[q]].io
                     /\ \A o \in Procs : pc'[o] \in Doing /\ cur[o] = cur[q] => o = q
               /\ pc'[q] \in Replacing =>
                     /\ want[q] \in Blocks
                     /\ \A o \in Procs \ {q} : t.pins[o][cur[q]] > 0 => pc'[o] = "waitio" /\ cur[o] = cur[q]
               /\ pc'[q] \in Syncing => q = Checkpointer /\ cur[q] = next
    <3>1. pc'[q] = pc[q] /\ cur[q] \in Buffers
      BY <1>9, <2>2
    <3>2. pc[q] \in Doing =>
                     /\ t.buf[cur[q]].io
                     /\ \A o \in Procs : pc'[o] \in Doing /\ cur[o] = cur[q] => o = q
      BY <1>1, <1>8, <1>9, <1>10, <2>1, <2>2, <3>1 DEF Places, Doing, Reading, Replacing, Syncing
    <3>3. pc[q] \in Replacing =>
                     /\ want[q] \in Blocks
                     /\ \A o \in Procs \ {q} : t.pins[o][cur[q]] > 0 => pc'[o] = "waitio" /\ cur[o] = cur[q]
      BY <1>1, <1>7, <1>9, <2>1, <2>2, <3>1 DEF Places
    <3> QED
      BY <1>7, <2>1, <3>1, <3>2, <3>3 DEF Places
  <2> QED
    BY <1>9, <2>2 DEF Places, Doing, Reading, Replacing, Syncing
<1>14. Locks(t, pc', cur, want, looked, changed)
  <2>1. Locks(Pool, pc, cur, want, looked, changed)
    BY <1>2 DEF Core
  <2>2. \A q \in Procs, c \in Buffers : Holds(q, c) => q # p
    BY <1>1, <2>1 DEF Locks, Failing
  <2>3. pc'[Checkpointer] # "sleeping" /\ \A c \in Buffers :
          Checkpointer \in share[c] <=> pc'[Checkpointer] = "syncwrite" /\ cur[Checkpointer] = c
    BY <1>1, <1>9, <2>1, Typing DEF Locks
  <2>4. \A q \in Procs : /\ pc'[q] \in Replacing => pc'[q] = pc[q]
                         /\ pc'[q] = "cleanup" => pc'[q] = pc[q]
    BY <1>9 DEF Replacing
  <2> QED
    BY <1>7, <1>8, <1>9, <2>1, <2>2, <2>3, <2>4 DEF Locks
<1>15. Signals(t, pc', cur)
  BY <1>2, <1>7, <1>8, <1>9 DEF Core, Signals
<1>16. Logs(t, pc', cur)
  BY <1>2, <1>8, <1>9 DEF Core, Logs
<1>17. Contents(t, pc', cur)
  <2>1. SUFFICES ASSUME "write" \notin plan.may PROVE Contents(t, pc', cur)
    BY DEF Contents
  <2>2. pc[p] = "abortin" /\ Bad(Pool, pc, cur, b)
    <3>1. pc[p] # "abortout"
      BY <1>2, <2>1 DEF Core, Contents
    <3> QED
      BY <1>1, <1>4, <3>1 DEF Bad, Reading
  <2>3. \A c \in Buffers : Bad(t, pc', cur, c) => Bad(Pool, pc, cur, c)
    BY <1>8, <1>9, <2>2 DEF Bad, Reading
  <2>4. Bad(t, pc', cur, b) /\ \A c \in Buffers \ {b} : Bad(Pool, pc, cur, c) => Bad(t, pc', cur, c)
    BY <1>4, <1>5, <1>7, <1>8, <1>9 DEF Bad, Reading
  <2>5. ASSUME NEW c \in Buffers, Bad(t, pc', cur, c)
        PROVE  /\ ~Unwritten(t.buf[c])
               /\ \A q \in Procs : t.pins[q][c] > 0 =>
                     \/ pc'[q] \in Reading \cup {"waitio"} /\ cur[q] = c
                     \/ pc'[q] \in {"unlock", "unpin"}
    <3>1. /\ ~Unwritten(Pool.buf[c])
          /\ \A q \in Procs : Pool.pins[q][c] > 0 =>
                \/ pc[q] \in Reading \cup {"waitio"} /\ cur[q] = c
                \/ pc[q] \in {"unlock", "unpin"}
      BY <1>2, <2>1, <2>3, <2>5 DEF Core, Contents
    <3>2. ~Unwritten(t.buf[c])
      <4>1. CASE c = b
        BY <1>3, <1>5, <1>7, <2>2, <3>1, <4>1 DEF Unwritten
      <4>2. CASE c # b
        BY <1>8, <3>1, <4>2
      <4> QED
        BY <4>1, <4>2
    <3> QED
      BY <1>7, <1>9, <3>1, <3>2
  <2>6. ASSUME NEW c \in Buffers, t.buf[c].tag # NoBlock
        PROVE  /\ Bad(t, pc', cur, c) \/ t.buf[c].page = latest[t.buf[c].tag]
               /\ t.buf[c].cntx \/ disk[t.buf[c].tag] = latest[t.buf[c].tag]
    <3>1. /\ Bad(Pool, pc, cur, c) \/ Pool.buf[c].page = latest[Pool.buf[c].tag]
          /\ Pool.buf[c].cntx \/ disk[Pool.buf[c].tag] = latest[Pool.buf[c].tag]
      BY <1>2, <1>8, <2>1, <2>6 DEF Core, Contents
    <3>2. Bad(Pool, pc, cur, c) => Bad(t, pc', cur, c)
      BY <2>4
    <3> QED
      BY <1>8, <3>1, <3>2
  <2>7. \A j \in Blocks : disk[j] = latest[j] \/ \E c \in Buffers : t.buf[c].tag = j
    BY <1>2, <1>8, <2>1 DEF Core, Contents
  <2>8. \A q \in Procs : /\ pc'[q] # "abortout"
                         /\ pc'[q] = "written" =>
                               disk[t.buf[cur[q]].tag] = latest[t.buf[cur[q]].tag]
    BY <1>2, <1>8, <1>9, <2>1 DEF Core, Contents
  <2> QED
    BY <2>5, <2>6, <2>7, <2>8 DEF Contents
<1>18. Core(Pool', pc', cur', want', looked', changed')
  BY <1>1, <1>7, <1>11, <1>12, <1>13, <1>14, <1>15, <1>16, <1>17 DEF Core, t
<1>19. Moved(Pool, Pool')
  BY <1>8 DEF Moved, t
<1>20. pc'[Checkpointer] = pc[Checkpointer] \/ pc'[Checkpointer] \notin Syncing \cup {"sync"}
  BY <1>9, Typing DEF Syncing
<1> QED
  BY <1>1, <1>18, <1>19, <1>20, PoolAction
-----------------------------------------------------------------------------
(***************************************************************************)
(* The checkpoint.                                                         *)
(***************************************************************************)
LEMMA SyncMove ==
    ASSUME Inv, NEW l \in {"idle", "sync"}, pc[Checkpointer] \in {"idle", "sync"},
           pc' = [pc EXCEPT ![Checkpointer] = l],
           UNCHANGED <<plan, pool, cntx, cur, want, disk, log, own>>,
           next' \in Nat, redo' \in [Blocks -> Nat], ckpt' \in [Blocks -> Nat]
    PROVE  Core(Pool, pc, cur, want, looked, changed)'
<1>1. /\ Pool' = Pool /\ share' = share /\ excl' = excl /\ cleaning' = cleaning /\ cur' = cur
      /\ want' = want /\ disk' = disk /\ lsn' = lsn /\ flushed' = flushed /\ latest' = latest
      /\ looked' = looked /\ changed' = changed /\ plan' = plan /\ Buffers' = Buffers
  BY DEF pool, cntx, log, own, Pool, Buffers
<1>2. Core(Pool, pc, cur, want, looked, changed) /\ pc \in [Procs -> PCs] /\ Checkpointer \in Procs
  BY Typing DEF Inv
<1>3. /\ pc' \in [Procs -> PCs] /\ pc'[Checkpointer] \in {"idle", "sync"}
      /\ \A q \in Procs \ {Checkpointer} : pc'[q] = pc[q]
  BY <1>2 DEF PCs
<1>4. \A q \in Procs, x \in PCs \ {"idle", "sync"} : pc'[q] = x <=> pc[q] = x
  BY <1>2, <1>3
<1>5. Types(Pool, pc, cur, want, looked, changed)'
  BY <1>1, <1>2, <1>3 DEF Core, Types, PoolType
<1>6. Counts(Pool)' /\ Tags(Pool)'
  BY <1>1, <1>2 DEF Core, Counts, Tags, PinnedBy
<1>7. Places(Pool, pc, cur, want)'
  <2>1. \A q \in Procs : /\ pc'[q] \in Doing => pc'[q] = pc[q]
                         /\ pc'[q] \in {"waitio", "cleanup", "sleeping"} => pc'[q] = pc[q]
                         /\ pc[q] = "waitio" => pc'[q] = "waitio"
                         /\ pc'[q] \in Syncing => q # Checkpointer
    BY <1>2, <1>3 DEF Doing, Reading, Replacing, Syncing
  <2>2. Places(Pool, pc, cur, want)
    BY <1>2 DEF Core
  <2> QED
    BY <1>1, <2>1, <2>2 DEF Places, Doing, Replacing, Syncing
<1>8. Locks(Pool, pc, cur, want, looked, changed)'
  <2>1. \A q \in Procs : /\ pc'[q] \in Failing => pc'[q] = pc[q]
                         /\ pc'[q] \in Replacing => pc'[q] = pc[q]
                         /\ pc'[q] \in {"waitio", "reading", "cleanup", "sleeping"} => pc'[q] = pc[q]
                         /\ pc'[q] = "syncwrite" <=> pc[q] = "syncwrite"
    BY <1>2, <1>3 DEF Failing, Replacing
  <2>2. Locks(Pool, pc, cur, want, looked, changed)
    BY <1>2 DEF Core
  <2> QED
    BY <1>1, <1>2, <2>1, <2>2 DEF Locks, Holds
<1>9. Signals(Pool, pc, cur)' /\ Logs(Pool, pc, cur)'
  BY <1>1, <1>2, <1>3 DEF Core, Signals, Logs
<1>10. Contents(Pool, pc, cur)'
  <2>1. \A q \in Procs : /\ pc'[q] \in Reading <=> pc[q] \in Reading
                         /\ pc[q] \in Reading \cup {"waitio", "unlock", "unpin"} => pc'[q] = pc[q]
                         /\ pc'[q] \in {"abortout", "written"} => pc'[q] = pc[q]
    BY <1>2, <1>3 DEF Reading
  <2>2. \A c \in Buffers : Bad(Pool, pc, cur, c)' <=> Bad(Pool, pc, cur, c)
    BY <1>1, <2>1 DEF Bad
  <2>3. SUFFICES ASSUME "write" \notin plan.may PROVE Contents(Pool, pc, cur)'
    BY <1>1 DEF Contents
  <2>4. ASSUME NEW c \in Buffers, Bad(Pool, pc, cur, c)
        PROVE  /\ ~Unwritten(Pool.buf[c])
               /\ \A q \in Procs : Pool.pins[q][c] > 0 =>
                     \/ pc'[q] \in Reading \cup {"waitio"} /\ cur[q] = c
                     \/ pc'[q] \in {"unlock", "unpin"}
    <3>1. /\ ~Unwritten(Pool.buf[c])
          /\ \A q \in Procs : Pool.pins[q][c] > 0 =>
                     \/ pc[q] \in Reading \cup {"waitio"} /\ cur[q] = c
                     \/ pc[q] \in {"unlock", "unpin"}
      BY <1>2, <2>3, <2>4 DEF Core, Contents
    <3> QED
      BY <2>1, <3>1
  <2>5. /\ \A c \in Buffers : Pool.buf[c].tag # NoBlock =>
              /\ Bad(Pool, pc, cur, c) \/ Pool.buf[c].page = latest[Pool.buf[c].tag]
              /\ Pool.buf[c].cntx \/ disk[Pool.buf[c].tag] = latest[Pool.buf[c].tag]
        /\ \A k \in Blocks : disk[k] = latest[k] \/ \E c \in Buffers : Pool.buf[c].tag = k
        /\ \A q \in Procs : /\ pc[q] # "abortout"
                            /\ pc[q] = "written" => disk[Pool.buf[cur[q]].tag] = latest[Pool.buf[cur[q]].tag]
    BY <1>2, <2>3 DEF Core, Contents
  <2>6. \A q \in Procs : /\ pc'[q] # "abortout"
                         /\ pc'[q] = "written" => disk[Pool.buf[cur[q]].tag] = latest[Pool.buf[cur[q]].tag]
    BY <2>1, <2>5
  <2> QED
    <3>1. /\ Pool' = Pool /\ cur' = cur /\ disk' = disk /\ latest' = latest /\ plan' = plan /\ Buffers' = Buffers
      BY <1>1
    <3> QED
      <4>1. \A c \in Buffers : Bad(Pool, pc, cur, c)' =>
               /\ ~Unwritten(Pool'.buf[c])
               /\ \A q \in Procs : Pool'.pins[q][c] > 0 =>
                     \/ pc'[q] \in Reading \cup {"waitio"} /\ cur'[q] = c
                     \/ pc'[q] \in {"unlock", "unpin"}
        BY <2>2, <2>4, <3>1
      <4>2. \A c \in Buffers : Pool'.buf[c].tag # NoBlock =>
               /\ Bad(Pool, pc, cur, c)' \/ Pool'.buf[c].page = latest'[Pool'.buf[c].tag]
               /\ Pool'.buf[c].cntx \/ disk'[Pool'.buf[c].tag] = latest'[Pool'.buf[c].tag]
        BY <2>2, <2>5, <3>1
      <4>3. /\ \A k \in Blocks : disk'[k] = latest'[k] \/ \E c \in Buffers : Pool'.buf[c].tag = k
            /\ \A q \in Procs : /\ pc'[q] # "abortout"
                                /\ pc'[q] = "written" =>
                                      disk'[Pool'.buf[cur'[q]].tag] = latest'[Pool'.buf[cur'[q]].tag]
        BY <2>5, <2>6, <3>1
      <4>4. Buffers' = Buffers
        BY <3>1
      <4> QED
        BY <4>1, <4>2, <4>3, <4>4 DEF Contents
<1> QED
  BY <1>5, <1>6, <1>7, <1>8, <1>9, <1>10 DEF Core

LEMMA CreateCheckPointStep ==
    ASSUME Inv, CreateCheckPoint, UNCHANGED plan
    PROVE  Inv'
<1>1. /\ pc[Checkpointer] = "idle" /\ redo' = latest /\ next' = 1
      /\ pc' = [pc EXCEPT ![Checkpointer] = "sync"] /\ ckpt' = ckpt /\ disk' = disk /\ latest' = latest
      /\ Pool' = Pool /\ plan' = plan /\ Buffers' = Buffers
      /\ UNCHANGED <<pool, cntx, cur, want, disk, log, own>>
  BY DEF CreateCheckPoint, Goto, log, pool, Pool, Buffers
<1>2. Types(Pool, pc, cur, want, looked, changed) /\ Contents(Pool, pc, cur) /\ Synced(Pool, pc)
      /\ latest \in [Blocks -> Nat] /\ ckpt \in [Blocks -> Nat] /\ disk \in [Blocks -> Int]
      /\ plan \in Plans /\ pc \in [Procs -> PCs] /\ Checkpointer \in Procs
  BY Typing DEF Inv, Core, Types
<1>3. Core(Pool, pc, cur, want, looked, changed)'
  BY <1>1, <1>2, SyncMove
<1>4. pc'[Checkpointer] = "sync"
  BY <1>1, <1>2
<1>5. Synced(Pool, pc)'
  <2>1. SUFFICES ASSUME "write" \notin plan.may PROVE Synced(Pool, pc)'
    BY <1>1 DEF Synced
  <2>2. ASSUME NEW k \in Blocks, disk[k] < latest[k]
        PROVE  \E b \in Buffers : Pool.buf[b].tag = k /\ b >= 1
    <3>1. PICK b \in Buffers : Pool.buf[b].tag = k
      BY <1>2, <2>1, <2>2 DEF Contents
    <3>2. b >= 1
      BY <3>1 DEF Buffers
    <3> QED
      BY <3>1, <3>2
  <2>3. \A k \in Blocks : disk[k] <= latest[k] /\ latest[k] <= latest[k] /\ ckpt[k] <= disk[k]
    BY <1>2, <2>1 DEF Synced
  <2> QED
    BY <1>1, <1>4, <2>2, <2>3 DEF Synced
<1> QED
  BY <1>3, <1>5 DEF Inv

LEMMA CheckPointEndsStep ==
    ASSUME Inv, CheckPointEnds, UNCHANGED plan
    PROVE  Inv'
<1>1. /\ pc[Checkpointer] = "sync" /\ next = plan.NBuffers + 1
      /\ pc' = [pc EXCEPT ![Checkpointer] = "idle"] /\ ckpt' = redo /\ redo' = redo /\ next' = next
      /\ disk' = disk /\ latest' = latest /\ Pool' = Pool /\ plan' = plan /\ Buffers' = Buffers
      /\ UNCHANGED <<pool, cntx, cur, want, disk, log, own>>
  BY DEF CheckPointEnds, Goto, log, pool, Pool, Buffers
<1>2. Synced(Pool, pc) /\ redo \in [Blocks -> Nat] /\ next \in Nat /\ disk \in [Blocks -> Int]
      /\ plan \in Plans /\ pc \in [Procs -> PCs] /\ Checkpointer \in Procs
  BY Typing DEF Inv, Core, Types
<1>3. Core(Pool, pc, cur, want, looked, changed)'
  BY <1>1, <1>2, SyncMove
<1>4. pc'[Checkpointer] = "idle"
  BY <1>1, <1>2
<1>5. Synced(Pool, pc)'
  <2>1. SUFFICES ASSUME "write" \notin plan.may PROVE Synced(Pool, pc)'
    BY <1>1 DEF Synced
  <2>2. ASSUME NEW k \in Blocks
        PROVE  redo[k] <= disk[k]
    <3>1. plan.NBuffers \in Nat
      BY <1>2, PlansKnown
    <3>2. \A b \in Buffers : ~(b >= next)
      BY <1>1, <3>1 DEF Buffers
    <3>3. ~(disk[k] < redo[k])
      BY <1>1, <1>2, <2>1, <3>2 DEF Synced
    <3> QED
      BY <1>2, <3>3
  <2>3. \A k \in Blocks : disk[k] <= latest[k] /\ redo[k] <= latest[k]
    BY <1>2, <2>1 DEF Synced
  <2> QED
    BY <1>1, <1>4, <2>2, <2>3 DEF Synced, Syncing
<1> QED
  BY <1>3, <1>5 DEF Inv

\* BufferSync passes by a buffer that need not be written.
LEMMA SyncPassStep ==
    ASSUME Inv, pc[Checkpointer] = "sync", next \in Buffers, ~Unwritten(buf[next]), next' = next + 1,
           UNCHANGED <<pool, pc, cur>>, UNCHANGED <<cntx, want, disk, log, redo, ckpt, own>>, UNCHANGED plan
    PROVE  Inv'
<1>1. /\ pc' = pc /\ ckpt' = ckpt /\ redo' = redo
      /\ disk' = disk /\ latest' = latest /\ Pool' = Pool /\ plan' = plan /\ Buffers' = Buffers
      /\ UNCHANGED <<plan, pool, cntx, cur, want, disk, log, own>>
  BY DEF log, pool, Pool, Buffers
<1>2. /\ Synced(Pool, pc) /\ redo \in [Blocks -> Nat] /\ ckpt \in [Blocks -> Nat] /\ next \in Nat
      /\ disk \in [Blocks -> Int] /\ latest \in [Blocks -> Nat] /\ Pool.buf = buf /\ Contents(Pool, pc, cur)
      /\ pc \in [Procs -> PCs] /\ Checkpointer \in Procs
  BY Typing, PoolOf DEF Inv, Core, Types
<1>3. Core(Pool, pc, cur, want, looked, changed)'
  <2>1. pc' = [pc EXCEPT ![Checkpointer] = "sync"] /\ next' \in Nat
    BY <1>1, <1>2
  <2> QED
    BY <1>1, <1>2, <2>1, SyncMove
<1>4. Synced(Pool, pc)'
  <2>1. SUFFICES ASSUME "write" \notin plan.may PROVE Synced(Pool, pc)'
    BY <1>1 DEF Synced
  <2>2. ASSUME NEW k \in Blocks, disk[k] < redo[k]
        PROVE  \E b \in Buffers : Pool.buf[b].tag = k /\ b >= next + 1
    <3>1. PICK b \in Buffers : Pool.buf[b].tag = k /\ b >= next
      BY <1>2, <2>1, <2>2 DEF Synced
    <3>2. redo[k] <= latest[k] /\ redo[k] \in Nat /\ latest[k] \in Nat /\ disk[k] \in Int
      BY <1>2, <2>1 DEF Synced
    <3>3. disk[k] # latest[k]
      BY <2>2, <3>2
    <3>4. b # next
      <4>1. SUFFICES ASSUME b = next PROVE FALSE
        OBVIOUS
      <4>2. ~Pool.buf[b].cntx /\ Pool.buf[b].tag # NoBlock
        BY <1>2, <3>1, <4>1, Typing DEF Unwritten
      <4>3. disk[k] = latest[k]
        BY <1>2, <2>1, <3>1, <4>2 DEF Contents
      <4> QED
        BY <3>3, <4>3
    <3>5. b >= next + 1
      BY <1>2, <3>1, <3>4 DEF Buffers
    <3> QED
      BY <3>1, <3>5
  <2>3. \A k \in Blocks : disk[k] <= latest[k] /\ redo[k] <= latest[k] /\ ckpt[k] <= disk[k]
    BY <1>2, <2>1 DEF Synced
  <2> QED
    BY <1>1, <2>2, <2>3 DEF Synced, Syncing
<1> QED
  BY <1>3, <1>4 DEF Inv

\* BufferSync takes a buffer that has to be written.
LEMMA SyncTakeStep ==
    ASSUME Inv, pc[Checkpointer] = "sync", next \in Buffers, Unwritten(buf[next]), ~buf[next].io,
           SetPool([PinBuffer(Pool, Checkpointer, next) EXCEPT !.buf[next].io = TRUE]),
           GotoWith(Checkpointer, "synclock", next), next' = next,
           UNCHANGED <<cntx, want, disk, log, redo, ckpt, own>>, UNCHANGED plan
    PROVE  Inv'
<1> DEFINE p == Checkpointer
           b == next
           s == PinBuffer(Pool, p, b)
           t == SetIO(s, b)
<1>1. /\ pc' = [pc EXCEPT ![p] = "synclock"] /\ cur' = [cur EXCEPT ![p] = b] /\ SetPool(t)
      /\ UNCHANGED <<Env, next>> /\ want' = want /\ looked' = looked /\ changed' = changed
  BY DEF GotoWith, Goto, Env, own, SetIO
<1>2. /\ p \in Procs /\ b \in Buffers /\ Pool \in PoolType /\ Counts(Pool) /\ Pool.buf = buf
      /\ pc \in [Procs -> PCs] /\ cur \in [Procs -> Buffers]
      /\ Core(Pool, pc, cur, want, looked, changed) /\ Types(Pool, pc, cur, want, looked, changed)
  BY Typing, PoolOf DEF Inv
<1>3. s = PinBuffer(Pool, p, b) /\ t = SetIO(s, b) /\ b = next /\ p = Checkpointer
  OBVIOUS
<1> HIDE DEF s, t, b, p
<1>4. /\ s \in PoolType /\ Counts(s) /\ Differ(Pool, s, p, b) /\ s.sem = Pool.sem
      /\ s.pins[p][b] = Pool.pins[p][b] + 1
      /\ Same(Pool, s) /\ s.buf[b].ref >= Pool.buf[b].ref /\ s.buf[b].waiter = Pool.buf[b].waiter
  BY <1>2, <1>3, PinPool
<1> DEFINE r == [s.buf[b] EXCEPT !.io = TRUE]
<1>5. s.buf[b] \in BufRec /\ s.buf \in [Buffers -> BufRec]
  BY <1>2, <1>4, PoolFields
<1>6. /\ r \in BufRec /\ r.ref = s.buf[b].ref /\ r.waiter = s.buf[b].waiter /\ r.tag = s.buf[b].tag
      /\ r.page = s.buf[b].page /\ r.dirty = s.buf[b].dirty /\ r.cntx = s.buf[b].cntx
      /\ r.err = s.buf[b].err /\ r.io = TRUE
  BY <1>5 DEF BufRec
<1>7. t = Put(s, b, r)
  BY <1>3, <1>4, <1>5 DEF PoolType, Put, SetIO
<1> HIDE DEF r
<1>8. /\ t \in PoolType /\ t.buf[b] = r /\ \A c \in Buffers \ {b} : t.buf[c] = s.buf[c]
      /\ t.pins = s.pins /\ t.free = s.free /\ t.sem = s.sem /\ Counts(t)
  BY <1>2, <1>4, <1>6, <1>7, SetBuffer
<1>9. /\ \A c \in Buffers : /\ t.buf[c].tag = Pool.buf[c].tag /\ t.buf[c].page = Pool.buf[c].page
                            /\ t.buf[c].dirty = Pool.buf[c].dirty /\ t.buf[c].cntx = Pool.buf[c].cntx
                            /\ t.buf[c].err = Pool.buf[c].err
                            /\ c # b => t.buf[c] = Pool.buf[c]
      /\ t.buf[b].io = TRUE /\ t.buf[b].waiter = Pool.buf[b].waiter /\ t.buf[b].ref >= Pool.buf[b].ref
  BY <1>4, <1>6, <1>8 DEF Same, Differ
<1>10. \A q \in Procs, c \in Buffers : /\ q # p \/ c # b => t.pins[q][c] = Pool.pins[q][c]
                                       /\ Pool.pins[q][c] > 0 => t.pins[q][c] > 0
  <2>1. Pool.pins[p][b] \in Nat
    BY <1>2, PoolFields
  <2> QED
    BY <1>4, <1>8, <2>1 DEF Differ
<1>11. t.pins[p][b] > 0 /\ t.sem = Pool.sem
  <2>1. Pool.pins[p][b] \in Nat
    BY <1>2, PoolFields
  <2> QED
    BY <1>4, <1>8, <2>1
<1>12. /\ pc' \in [Procs -> PCs] /\ cur' \in [Procs -> Buffers] /\ pc'[p] = "synclock" /\ cur'[p] = b
       /\ \A q \in Procs \ {p} : pc'[q] = pc[q] /\ cur'[q] = cur[q]
       /\ \A q \in Procs : cur[q] \in Buffers
  BY <1>1, <1>2 DEF PCs, Doing, Syncing
<1>13. ~Pool.buf[b].io /\ Unwritten(Pool.buf[b]) /\ pc[p] = "sync"
  BY <1>2, <1>3
<1>14. Types(t, pc', cur', want, looked, changed)
  BY <1>2, <1>8, <1>12 DEF Types
<1>15. Tags(t)
  <2>1. Pool.buf[b].tag # NoBlock
    BY <1>2, <1>13 DEF Core, Tags
  <2>2. \A c, d \in Buffers : t.buf[c].tag = t.buf[d].tag /\ t.buf[c].tag # NoBlock => c = d
    BY <1>2, <1>9 DEF Core, Tags
  <2>3. ASSUME NEW c \in Buffers, t.buf[c].tag = NoBlock
        PROVE  ~Unwritten(t.buf[c]) /\ \A q \in Procs : t.pins[q][c] = 0
    <3>1. c # b /\ t.buf[c] = Pool.buf[c]
      BY <1>9, <2>1, <2>3
    <3> QED
      BY <1>2, <1>10, <2>3, <3>1 DEF Core, Tags
  <2> QED
    BY <2>2, <2>3 DEF Tags
<1>16. \A q \in Procs : pc[q] \in Doing => q # p /\ cur[q] # b
  BY <1>2, <1>13 DEF Core, Places, Doing, Reading, Replacing, Syncing
<1>17. Places(t, pc', cur', want)
  <2>1. Places(Pool, pc, cur, want)
    BY <1>2 DEF Core
  <2>2. ASSUME NEW q \in Procs, q # p
        PROVE  /\ pc'[q] \in Doing \cup {"waitio", "cleanup", "sleeping"} => t.pins[q][cur'[q]] > 0
               /\ pc'[q] \in Doing =>
                     /\ t.buf[cur'[q]].io
                     /\ \A o \in Procs : pc'[o] \in Doing /\ cur'[o] = cur'[q] => o = q
               /\ pc'[q] \in Replacing =>
                     /\ want[q] \in Blocks
                     /\ \A o \in Procs \ {q} : t.pins[o][cur'[q]] > 0 => pc'[o] = "waitio" /\ cur'[o] = cur'[q]
               /\ pc'[q] \in Syncing => q = Checkpointer /\ cur'[q] = next
    <3>1. pc'[q] = pc[q] /\ cur'[q] = cur[q] /\ cur[q] \in Buffers
      BY <1>12, <2>2
    <3>2. pc[q] \in Doing =>
                     /\ t.buf[cur[q]].io
                     /\ \A o \in Procs : pc'[o] \in Doing /\ cur'[o] = cur[q] => o = q
      <4>1. SUFFICES ASSUME pc[q] \in Doing
                     PROVE  /\ t.buf[cur[q]].io
                            /\ \A o \in Procs : pc'[o] \in Doing /\ cur'[o] = cur[q] => o = q
        OBVIOUS
      <4>2. cur[q] # b
        BY <1>16, <4>1
      <4>3. t.buf[cur[q]].io
        BY <1>9, <2>1, <3>1, <4>1, <4>2 DEF Places
      <4>4. \A o \in Procs : pc'[o] \in Doing /\ cur'[o] = cur[q] => o = q
        BY <1>12, <2>1, <4>1, <4>2 DEF Places
      <4> QED
        BY <4>3, <4>4
    <3>3. ASSUME pc[q] \in Replacing
          PROVE  /\ want[q] \in Blocks
                 /\ \A o \in Procs \ {q} : t.pins[o][cur[q]] > 0 => pc'[o] = "waitio" /\ cur'[o] = cur[q]
      <4>1. cur[q] # b
        BY <1>16, <3>3 DEF Doing
      <4>2. \A o \in Procs \ {q} : t.pins[o][cur[q]] > 0 => pc[o] = "waitio" /\ cur[o] = cur[q]
        BY <1>10, <2>1, <3>1, <3>3, <4>1 DEF Places
      <4>3. \A o \in Procs \ {q} : t.pins[o][cur[q]] > 0 => o # p
        BY <1>13, <4>2
      <4> QED
        BY <1>12, <2>1, <3>3, <4>2, <4>3 DEF Places
    <3>4. pc[q] \in Doing \cup {"waitio", "cleanup", "sleeping"} => t.pins[q][cur[q]] > 0
      BY <1>10, <2>1, <3>1 DEF Places
    <3>5. pc[q] \in Syncing => FALSE
      BY <1>3, <2>1, <2>2 DEF Places
    <3> QED
      BY <3>1, <3>2, <3>3, <3>4, <3>5
  <2>3. \A o \in Procs : pc'[o] \in Doing /\ cur'[o] = b => o = p
    BY <1>12, <1>16
  <2> QED
    BY <1>3, <1>9, <1>11, <1>12, <2>2, <2>3 DEF Places, Doing, Reading, Replacing, Syncing
<1>18. Locks(t, pc', cur', want, looked, changed)
  <2>1. Locks(Pool, pc, cur, want, looked, changed)
    BY <1>2 DEF Core
  <2>2. \A c \in Buffers : ~Holds(p, c) /\ c \notin looked[p] /\ c \notin changed[p]
    BY <1>3, <1>13, <2>1 DEF Locks, Holds
  <2>3. pc'[Checkpointer] # "sleeping" /\ \A c \in Buffers :
          Checkpointer \in share[c] <=> pc'[Checkpointer] = "syncwrite" /\ cur'[Checkpointer] = c
    BY <1>3, <1>12, <2>2 DEF Holds
  <2>4. ASSUME NEW q \in Procs, NEW c \in Buffers
        PROVE  /\ Holds(q, c) => /\ t.pins[q][c] > 0 /\ pc'[q] \notin Failing
                                 /\ pc'[q] \in Replacing => t.buf[c].tag # want[q]
                                 /\ cur'[q] = c => pc'[q] \notin {"waitio", "reading"} \cup Replacing
               /\ pc'[q] = "cleanup" /\ cur'[q] = c => excl[c] = q /\ cleaning[c] = Nobody
               /\ c \in changed[q] => t.pins[q][c] > 0 /\ q \notin share[c]
               /\ c \in looked[q] => t.pins[q][c] > 0 /\ (cleaning[c] # Nobody => cleaning[c] = q)
               /\ pc'[q] \in Replacing /\ cur'[q] = c => c \notin looked[q] /\ c \notin changed[q]
    <3>1. CASE q = p
      BY <1>12, <2>2, <3>1
    <3>2. CASE q # p
      <4>1. pc'[q] = pc[q] /\ cur'[q] = cur[q] /\ t.pins[q][c] = Pool.pins[q][c] /\ t.buf[c].tag = Pool.buf[c].tag
        BY <1>9, <1>10, <1>12, <3>2
      <4> QED
        BY <2>1, <4>1 DEF Locks
    <3> QED
      BY <3>1, <3>2
  <2> QED
    BY <1>9, <2>1, <2>3, <2>4 DEF Locks
<1>19. Signals(t, pc', cur')
  <2>1. ASSUME NEW q \in Procs, pc'[q] = "sleeping", t.sem[q] = 0
        PROVE  t.buf[cur'[q]].waiter = q /\ t.buf[cur'[q]].ref > 1
    <3>1. q # p /\ pc[q] = "sleeping" /\ cur'[q] = cur[q] /\ Pool.sem[q] = 0 /\ cur[q] \in Buffers
      BY <1>11, <1>12, <2>1
    <3>2. Pool.buf[cur[q]].waiter = q /\ Pool.buf[cur[q]].ref > 1
      BY <1>2, <3>1 DEF Core, Signals
    <3>3. t.buf[b].ref \in Nat /\ Pool.buf[b].ref \in Nat
      BY <1>2, <1>8, PoolFields
    <3> QED
      BY <1>9, <3>1, <3>2, <3>3
  <2> QED
    BY <2>1 DEF Signals
<1>20. Logs(t, pc', cur')
  BY <1>2, <1>9, <1>12 DEF Core, Logs
<1>21. Contents(t, pc', cur')
  <2>1. SUFFICES ASSUME "write" \notin plan.may PROVE Contents(t, pc', cur')
    BY DEF Contents
  <2>2. \A c \in Buffers : Bad(t, pc', cur', c) <=> Bad(Pool, pc, cur, c)
    <3>1. pc[p] \notin Reading /\ pc'[p] \notin Reading
      BY <1>12, <1>13 DEF Reading
    <3> QED
      BY <1>9, <1>12, <3>1 DEF Bad
  <2>3. ~Bad(Pool, pc, cur, b)
    BY <1>2, <1>13, <2>1 DEF Core, Contents
  <2>4. ASSUME NEW c \in Buffers, Bad(t, pc', cur', c)
        PROVE  /\ ~Unwritten(t.buf[c])
               /\ \A q \in Procs : t.pins[q][c] > 0 =>
                     \/ pc'[q] \in Reading \cup {"waitio"} /\ cur'[q] = c
                     \/ pc'[q] \in {"unlock", "unpin"}
    <3>1. c # b /\ Bad(Pool, pc, cur, c) /\ t.buf[c] = Pool.buf[c]
      BY <1>9, <2>2, <2>3, <2>4
    <3>2. /\ ~Unwritten(Pool.buf[c])
          /\ \A q \in Procs : Pool.pins[q][c] > 0 =>
                     \/ pc[q] \in Reading \cup {"waitio"} /\ cur[q] = c
                     \/ pc[q] \in {"unlock", "unpin"}
      BY <1>2, <2>1, <3>1 DEF Core, Contents
    <3>3. ~(Pool.pins[p][c] > 0)
      BY <1>2, <1>13, <3>2 DEF Reading
    <3> QED
      BY <1>10, <1>12, <3>1, <3>2, <3>3
  <2>5. /\ \A c \in Buffers : Pool.buf[c].tag # NoBlock =>
              /\ Bad(Pool, pc, cur, c) \/ Pool.buf[c].page = latest[Pool.buf[c].tag]
              /\ Pool.buf[c].cntx \/ disk[Pool.buf[c].tag] = latest[Pool.buf[c].tag]
        /\ \A k \in Blocks : disk[k] = latest[k] \/ \E c \in Buffers : Pool.buf[c].tag = k
        /\ \A q \in Procs : /\ pc[q] # "abortout"
                            /\ pc[q] = "written" => disk[Pool.buf[cur[q]].tag] = latest[Pool.buf[cur[q]].tag]
    BY <1>2, <2>1 DEF Core, Contents
  <2>6. \A c \in Buffers : t.buf[c].tag # NoBlock =>
              /\ Bad(t, pc', cur', c) \/ t.buf[c].page = latest[t.buf[c].tag]
              /\ t.buf[c].cntx \/ disk[t.buf[c].tag] = latest[t.buf[c].tag]
    BY <1>9, <2>2, <2>5
  <2>7. \A k \in Blocks : disk[k] = latest[k] \/ \E c \in Buffers : t.buf[c].tag = k
    BY <1>9, <2>5
  <2>8. \A q \in Procs : /\ pc'[q] # "abortout"
                         /\ pc'[q] = "written" => disk[t.buf[cur'[q]].tag] = latest[t.buf[cur'[q]].tag]
    BY <1>9, <1>12, <2>5
  <2> QED
    BY <2>4, <2>6, <2>7, <2>8 DEF Contents
<1>22. Core(t, pc', cur', want', looked', changed')
  BY <1>1, <1>8, <1>14, <1>15, <1>17, <1>18, <1>19, <1>20, <1>21 DEF Core
<1>23. Pool' = t
  BY <1>1, <1>8, PoolSet
<1>24. Core(Pool, pc, cur, want, looked, changed)'
  BY <1>1, <1>22, <1>23, EnvCore
<1>25. Synced(t, pc')
  <2>1. Synced(Pool, pc)
    BY DEF Inv
  <2>2. pc[Checkpointer] = "sync" /\ pc'[Checkpointer] = "synclock"
    BY <1>3, <1>12, <1>13
  <2> QED
    BY <1>9, <2>1, <2>2 DEF Synced, Syncing
<1>26. Synced(Pool, pc)'
  BY <1>1, <1>23, <1>25, EnvSynced
<1> QED
  BY <1>24, <1>26 DEF Inv

LEMMA SyncBufferStep ==
    ASSUME Inv, SyncBuffer, UNCHANGED plan
    PROVE  Inv'
BY SyncPassStep, SyncTakeStep DEF SyncBuffer

LEMMA SyncLockStep ==
    ASSUME Inv, SyncLock, UNCHANGED plan
    PROVE  Inv'
<1> DEFINE p == Checkpointer
           b == cur[p]
           r == [buf[b] EXCEPT !.just = FALSE]
           t == Pool'
<1>1. /\ pc[p] = "synclock" /\ excl[b] = Nobody
      /\ share' = [share EXCEPT ![b] = @ \cup {p}]
      /\ flushed' = (IF buf[b].page > flushed THEN buf[b].page ELSE flushed)
      /\ buf' = [buf EXCEPT ![b].just = FALSE] /\ pc' = [pc EXCEPT ![p] = "syncwrite"]
      /\ UNCHANGED <<free, pins, sem>> /\ excl' = excl /\ cleaning' = cleaning
      /\ cur' = cur /\ want' = want /\ disk' = disk /\ lsn' = lsn /\ latest' = latest
      /\ next' = next /\ redo' = redo /\ ckpt' = ckpt /\ looked' = looked /\ changed' = changed
      /\ plan' = plan /\ Buffers' = Buffers
  BY DEF SyncLock, Goto, sync, own, Buffers
<1>2. Core(Pool, pc, cur, want, looked, changed) /\ Synced(Pool, pc)
  BY DEF Inv
<1>3. /\ pc \in [Procs -> PCs] /\ cur \in [Procs -> Buffers] /\ buf \in [Buffers -> BufRec]
      /\ b \in Buffers /\ Pool.buf = buf /\ buf[b] \in BufRec /\ flushed \in Nat /\ p \in Procs
      /\ share \in [Buffers -> SUBSET Procs] /\ disk \in [Blocks -> Int]
      /\ Types(Pool, pc, cur, want, looked, changed)
  BY Typing, PoolOf DEF Types
<1>4. cur[p] = b /\ p = Checkpointer
  OBVIOUS
<1> HIDE DEF b, p
<1>5. /\ r \in BufRec /\ r.tag = buf[b].tag /\ r.ref = buf[b].ref /\ r.page = buf[b].page
      /\ r.err = buf[b].err /\ r.waiter = buf[b].waiter /\ r.io = buf[b].io
      /\ r.dirty = buf[b].dirty /\ r.cntx = buf[b].cntx
  <2>1. r \in BufRec
    BY <1>3 DEF BufRec
  <2> QED
    BY <1>3, <2>1 DEF BufRec
<1>6. buf' = [buf EXCEPT ![b] = r] /\ r.page \in Int
  BY <1>1, <1>3, <1>5 DEF BufRec
<1> HIDE DEF r, t
<1>7. /\ t \in PoolType /\ Counts(t) /\ t.buf[b] = r
      /\ \A c \in Buffers \ {b} : t.buf[c] = Pool.buf[c]
      /\ t.pins = Pool.pins /\ t.free = Pool.free /\ t.sem = Pool.sem
  <2>1. /\ b \in Buffers /\ r \in BufRec /\ r.ref = buf[b].ref
        /\ buf' = [buf EXCEPT ![b] = r] /\ UNCHANGED <<free, pins, sem>>
    BY <1>1, <1>3, <1>5, <1>6
  <2> QED
    BY <2>1, BufSet DEF t
<1>8. \A c \in Buffers : /\ t.buf[c].tag = Pool.buf[c].tag /\ t.buf[c].ref = Pool.buf[c].ref
                         /\ t.buf[c].waiter = Pool.buf[c].waiter /\ t.buf[c].page = Pool.buf[c].page
                         /\ t.buf[c].cntx = Pool.buf[c].cntx /\ t.buf[c].dirty = Pool.buf[c].dirty
                         /\ t.buf[c].io = Pool.buf[c].io /\ t.buf[c].err = Pool.buf[c].err
  BY <1>3, <1>5, <1>7
<1>9. /\ pc' \in [Procs -> PCs] /\ pc'[p] = "syncwrite" /\ \A q \in Procs \ {p} : pc'[q] = pc[q]
      /\ \A q \in Procs : cur[q] \in Buffers
  BY <1>1, <1>3 DEF PCs, Doing, Syncing
<1>10. flushed' \in Nat /\ flushed' >= flushed /\ buf[b].page <= flushed'
  BY <1>1, <1>3, <1>5, <1>6
<1>11. \A c \in Buffers : share'[c] = IF c = b THEN share[b] \cup {p} ELSE share[c]
  BY <1>1, <1>3
<1>12. Types(Pool, pc, cur, want, looked, changed)'
  BY <1>1, <1>3, <1>7, <1>9, <1>10 DEF Types, PoolType, t
<1>13. Counts(Pool)' /\ Tags(Pool)'
  <2>1. Tags(t)
    BY <1>2, <1>7, <1>8 DEF Core, Tags, Unwritten
  <2> QED
    BY <1>1, <1>7, <2>1 DEF Counts, Tags, PinnedBy, t
<1>14. Places(Pool, pc, cur, want)'
  <2>1. Places(Pool, pc, cur, want)
    BY <1>2 DEF Core
  <2>2. \A q \in Procs : /\ pc'[q] \in Doing <=> pc[q] \in Doing
                         /\ pc'[q] \in Replacing <=> pc[q] \in Replacing
                         /\ pc'[q] \in Syncing <=> pc[q] \in Syncing
                         /\ pc'[q] \in {"waitio", "cleanup", "sleeping"} => pc'[q] = pc[q]
                         /\ pc[q] = "waitio" => pc'[q] = "waitio"
    BY <1>1, <1>4, <1>9 DEF Doing, Reading, Replacing, Syncing
  <2>3. Places(t, pc', cur, want)
    BY <1>7, <1>8, <1>9, <2>1, <2>2 DEF Places
  <2> QED
    BY <1>1, <2>3 DEF Places, t
<1>15. Locks(Pool, pc, cur, want, looked, changed)'
  <2>1. Locks(Pool, pc, cur, want, looked, changed) /\ Pool.pins[p][b] > 0
    <3>1. Locks(Pool, pc, cur, want, looked, changed) /\ Places(Pool, pc, cur, want)
      BY <1>2 DEF Core
    <3>2. pc[p] \in Doing /\ p \in Procs /\ cur[p] = b
      BY <1>1, <1>3, <1>4 DEF Doing, Syncing
    <3> QED
      BY <3>1, <3>2 DEF Places
  <2>2. \A q \in Procs : /\ pc'[q] \in Failing => pc'[q] = pc[q]
                         /\ pc'[q] \in Replacing => pc'[q] = pc[q]
                         /\ pc'[q] \in {"waitio", "reading", "cleanup", "sleeping"} => pc'[q] = pc[q]
    BY <1>9 DEF Failing, Replacing
  <2>3. looked[p] = {} /\ changed[p] = {} /\ \A c \in Buffers : excl[c] # p /\ p \notin share[c]
    BY <1>1, <1>4, <2>1 DEF Locks
  <2>4. pc'[Checkpointer] # "sleeping"
    BY <1>4, <1>9
  <2>5. ASSUME NEW c \in Buffers
        PROVE  /\ excl[c] # Nobody => share'[c] = {}
               /\ Checkpointer \in share'[c] <=> pc'[Checkpointer] = "syncwrite" /\ cur[Checkpointer] = c
    BY <1>1, <1>4, <1>9, <1>11, <2>1, <2>3 DEF Locks
  <2>6. ASSUME NEW q \in Procs, NEW c \in Buffers
        PROVE  /\ q \in share'[c] \/ excl[c] = q =>
                            /\ Pool.pins[q][c] > 0 /\ pc'[q] \notin Failing
                            /\ pc'[q] \in Replacing => Pool.buf[c].tag # want[q]
                            /\ cur[q] = c => pc'[q] \notin {"waitio", "reading"} \cup Replacing
               /\ pc'[q] = "cleanup" /\ cur[q] = c => excl[c] = q /\ cleaning[c] = Nobody
               /\ c \in changed[q] => Pool.pins[q][c] > 0 /\ q \notin share'[c]
               /\ c \in looked[q] => Pool.pins[q][c] > 0 /\ (cleaning[c] # Nobody => cleaning[c] = q)
               /\ pc'[q] \in Replacing /\ cur[q] = c => c \notin looked[q] /\ c \notin changed[q]
    <3>1. CASE q = p
      BY <1>4, <1>9, <1>11, <2>1, <2>3, <3>1 DEF Failing, Replacing
    <3>2. CASE q # p
      <4>1. pc'[q] = pc[q] /\ (q \in share'[c] <=> q \in share[c])
        BY <1>9, <1>11, <3>2
      <4> QED
        BY <2>1, <4>1 DEF Locks, Holds
    <3> QED
      BY <3>1, <3>2
  <2> QED
    BY <1>1, <1>7, <1>8, <2>1, <2>4, <2>5, <2>6 DEF Locks, Holds, t
<1>16. Signals(Pool, pc, cur)'
  <2>1. Signals(t, pc', cur)
    BY <1>2, <1>7, <1>8, <1>9 DEF Core, Signals
  <2> QED
    BY <1>1, <2>1 DEF Signals, t
<1>17. Logs(Pool, pc, cur)'
  <2>1. \A k \in Blocks : disk[k] <= flushed' /\ latest[k] <= lsn
    BY <1>2, <1>3, <1>10 DEF Core, Logs
  <2>2. ASSUME NEW q \in Procs, pc'[q] \in {"write", "syncwrite"}
        PROVE  t.buf[cur[q]].page <= flushed'
    <3>1. CASE q = p
      BY <1>4, <1>5, <1>7, <1>10, <3>1
    <3>2. CASE q # p
      <4>1. Pool.buf[cur[q]].page <= flushed /\ Pool.buf[cur[q]].page \in Int
        BY <1>2, <1>3, <1>9, <2>2, <3>2 DEF Core, Logs, BufRec
      <4> QED
        BY <1>3, <1>8, <1>9, <1>10, <4>1
    <3> QED
      BY <3>1, <3>2
  <2> QED
    BY <1>1, <2>1, <2>2 DEF Logs, t
<1>18. Contents(Pool, pc, cur)'
  <2>1. SUFFICES ASSUME "write" \notin plan.may PROVE Contents(Pool, pc, cur)'
    BY <1>1 DEF Contents
  <2>2. \A q \in Procs : /\ pc'[q] \in Reading <=> pc[q] \in Reading
                         /\ pc[q] \in Reading \cup {"waitio", "unlock", "unpin"} => pc'[q] = pc[q]
                         /\ pc'[q] \in {"abortout", "written"} => pc'[q] = pc[q]
    BY <1>1, <1>9 DEF Reading
  <2>3. \A c \in Buffers : Bad(Pool, pc, cur, c)' <=> Bad(Pool, pc, cur, c)
    BY <1>1, <1>8, <2>2 DEF Bad, t
  <2>4. ASSUME NEW c \in Buffers, Bad(Pool, pc, cur, c)
        PROVE  /\ ~Unwritten(t.buf[c])
               /\ \A q \in Procs : t.pins[q][c] > 0 =>
                     \/ pc'[q] \in Reading \cup {"waitio"} /\ cur[q] = c
                     \/ pc'[q] \in {"unlock", "unpin"}
    <3>1. /\ ~Unwritten(Pool.buf[c])
          /\ \A q \in Procs : Pool.pins[q][c] > 0 =>
                     \/ pc[q] \in Reading \cup {"waitio"} /\ cur[q] = c
                     \/ pc[q] \in {"unlock", "unpin"}
      BY <1>2, <2>1, <2>4 DEF Core, Contents
    <3> QED
      BY <1>7, <1>8, <2>2, <3>1 DEF Unwritten
  <2>5. /\ \A c \in Buffers : Pool.buf[c].tag # NoBlock =>
              /\ Bad(Pool, pc, cur, c) \/ Pool.buf[c].page = latest[Pool.buf[c].tag]
              /\ Pool.buf[c].cntx \/ disk[Pool.buf[c].tag] = latest[Pool.buf[c].tag]
        /\ \A k \in Blocks : disk[k] = latest[k] \/ \E c \in Buffers : Pool.buf[c].tag = k
        /\ \A q \in Procs : /\ pc[q] # "abortout"
                            /\ pc[q] = "written" => disk[Pool.buf[cur[q]].tag] = latest[Pool.buf[cur[q]].tag]
    BY <1>2, <2>1 DEF Core, Contents
  <2>6. \A c \in Buffers : t.buf[c].tag # NoBlock =>
              /\ Bad(Pool, pc, cur, c) \/ t.buf[c].page = latest[t.buf[c].tag]
              /\ t.buf[c].cntx \/ disk[t.buf[c].tag] = latest[t.buf[c].tag]
    BY <1>8, <2>5
  <2>7. \A k \in Blocks : disk[k] = latest[k] \/ \E c \in Buffers : t.buf[c].tag = k
    BY <1>8, <2>5
  <2>8. \A q \in Procs : /\ pc'[q] # "abortout"
                         /\ pc'[q] = "written" => disk[t.buf[cur[q]].tag] = latest[t.buf[cur[q]].tag]
    BY <1>8, <1>9, <2>2, <2>5
  <2> QED
    BY <1>1, <2>3, <2>4, <2>6, <2>7, <2>8 DEF Contents, t
<1>19. Synced(Pool, pc)'
  <2>1. pc[Checkpointer] = "synclock" /\ pc'[Checkpointer] = "syncwrite"
    BY <1>1, <1>4, <1>9
  <2> QED
    BY <1>1, <1>2, <1>8, <2>1 DEF Synced, Syncing, t
<1> QED
  BY <1>12, <1>13, <1>14, <1>15, <1>16, <1>17, <1>18, <1>19 DEF Inv, Core

LEMMA SyncWriteStep ==
    ASSUME Inv, SyncWrite, UNCHANGED plan
    PROVE  Inv'
<1> DEFINE p == Checkpointer
           b == cur[p]
           k == buf[b].tag
           r == [buf[b] EXCEPT !.cntx = FALSE]
           t == Pool'
<1>1. /\ pc[p] = "syncwrite" /\ disk' = [disk EXCEPT ![k] = buf[b].page]
      /\ share' = [share EXCEPT ![b] = @ \ {p}]
      /\ buf' = [buf EXCEPT ![b].cntx = FALSE] /\ pc' = [pc EXCEPT ![p] = "syncdone"]
      /\ UNCHANGED <<free, pins, sem>> /\ excl' = excl /\ cleaning' = cleaning
      /\ cur' = cur /\ want' = want /\ lsn' = lsn /\ flushed' = flushed /\ latest' = latest
      /\ next' = next /\ redo' = redo /\ ckpt' = ckpt /\ looked' = looked /\ changed' = changed
      /\ plan' = plan /\ Buffers' = Buffers
  BY DEF SyncWrite, Goto, log, sync, own, Buffers
<1>2. Core(Pool, pc, cur, want, looked, changed) /\ Synced(Pool, pc)
  BY DEF Inv
<1>3. /\ pc \in [Procs -> PCs] /\ cur \in [Procs -> Buffers] /\ buf \in [Buffers -> BufRec]
      /\ b \in Buffers /\ Pool.buf = buf /\ buf[b] \in BufRec /\ flushed \in Nat /\ p \in Procs
      /\ share \in [Buffers -> SUBSET Procs] /\ disk \in [Blocks -> Int]
      /\ latest \in [Blocks -> Nat] /\ redo \in [Blocks -> Nat] /\ ckpt \in [Blocks -> Nat]
      /\ Types(Pool, pc, cur, want, looked, changed)
  BY Typing, PoolOf DEF Types
<1>4. cur[p] = b /\ p = Checkpointer /\ k = buf[b].tag
  OBVIOUS
<1> HIDE DEF b, p, k
<1>5. /\ r \in BufRec /\ r.tag = buf[b].tag /\ r.ref = buf[b].ref /\ r.page = buf[b].page
      /\ r.err = buf[b].err /\ r.waiter = buf[b].waiter /\ r.io = buf[b].io
      /\ r.dirty = buf[b].dirty /\ r.cntx = FALSE
  <2>1. r \in BufRec
    BY <1>3 DEF BufRec
  <2> QED
    BY <1>3, <2>1 DEF BufRec
<1>6. buf' = [buf EXCEPT ![b] = r] /\ buf[b].page \in Int
  BY <1>1, <1>3 DEF BufRec
<1> HIDE DEF r, t
<1>7. /\ t \in PoolType /\ Counts(t) /\ t.buf[b] = r
      /\ \A c \in Buffers \ {b} : t.buf[c] = Pool.buf[c]
      /\ t.pins = Pool.pins /\ t.free = Pool.free /\ t.sem = Pool.sem
  <2>1. /\ b \in Buffers /\ r \in BufRec /\ r.ref = buf[b].ref
        /\ buf' = [buf EXCEPT ![b] = r] /\ UNCHANGED <<free, pins, sem>>
    BY <1>1, <1>3, <1>5, <1>6
  <2> QED
    BY <2>1, BufSet DEF t
<1>8. \A c \in Buffers : /\ t.buf[c].tag = Pool.buf[c].tag /\ t.buf[c].ref = Pool.buf[c].ref
                         /\ t.buf[c].waiter = Pool.buf[c].waiter /\ t.buf[c].page = Pool.buf[c].page
                         /\ t.buf[c].dirty = Pool.buf[c].dirty
                         /\ t.buf[c].io = Pool.buf[c].io /\ t.buf[c].err = Pool.buf[c].err
                         /\ c # b => t.buf[c].cntx = Pool.buf[c].cntx
                         /\ Unwritten(t.buf[c]) => Unwritten(Pool.buf[c])
  <2>1. ASSUME NEW c \in Buffers, c # b PROVE t.buf[c] = Pool.buf[c]
    BY <1>7, <2>1
  <2> QED
    BY <1>3, <1>5, <1>7, <2>1 DEF Unwritten
<1>9. /\ pc' \in [Procs -> PCs] /\ pc'[p] = "syncdone" /\ \A q \in Procs \ {p} : pc'[q] = pc[q]
      /\ \A q \in Procs : cur[q] \in Buffers
  BY <1>1, <1>3 DEF PCs, Doing, Syncing
<1>10. Pool.pins[p][b] > 0 /\ b = next /\ k \in Blocks /\ buf[b].page <= flushed
  <2>1. Pool.pins[p][b] > 0 /\ b = next
    BY <1>1, <1>2, <1>3, <1>4 DEF Core, Places, Doing, Syncing
  <2>2. Pool.buf[b].tag # NoBlock
    BY <1>2, <1>3, <2>1 DEF Core, Tags
  <2>3. buf[b].tag \in Blocks \cup {NoBlock}
    BY <1>3 DEF BufRec
  <2>4. buf[b].page <= flushed
    BY <1>1, <1>2, <1>3, <1>4 DEF Core, Logs
  <2> QED
    BY <1>3, <1>4, <2>1, <2>2, <2>3, <2>4
<1>11. \A c \in Buffers : share'[c] = IF c = b THEN share[b] \ {p} ELSE share[c]
  BY <1>1, <1>3
<1>12. disk' \in [Blocks -> Int] /\ \A j \in Blocks : disk'[j] = IF j = k THEN buf[b].page ELSE disk[j]
  BY <1>1, <1>3, <1>6
<1>13. "write" \notin plan.may => ~Bad(Pool, pc, cur, b) /\ disk'[k] = latest[k]
  <2>1. SUFFICES ASSUME "write" \notin plan.may PROVE ~Bad(Pool, pc, cur, b) /\ disk'[k] = latest[k]
    OBVIOUS
  <2>2. ~Bad(Pool, pc, cur, b)
    BY <1>1, <1>2, <1>3, <1>10, <2>1 DEF Core, Contents, Reading
  <2>3. Pool.buf[b].page = latest[Pool.buf[b].tag]
    BY <1>2, <1>3, <1>4, <1>10, <2>1, <2>2, Typing DEF Core, Contents
  <2> QED
    BY <1>3, <1>4, <1>10, <1>12, <2>2, <2>3
<1>14. Types(Pool, pc, cur, want, looked, changed)'
  BY <1>1, <1>3, <1>7, <1>9, <1>12 DEF Types, PoolType, t
<1>15. Counts(Pool)' /\ Tags(Pool)'
  <2>1. Tags(t)
    BY <1>2, <1>7, <1>8 DEF Core, Tags
  <2> QED
    BY <1>1, <1>7, <2>1 DEF Counts, Tags, PinnedBy, t
<1>16. Places(Pool, pc, cur, want)'
  <2>1. Places(Pool, pc, cur, want)
    BY <1>2 DEF Core
  <2>2. \A q \in Procs : /\ pc'[q] \in Doing <=> pc[q] \in Doing
                         /\ pc'[q] \in Replacing <=> pc[q] \in Replacing
                         /\ pc'[q] \in Syncing <=> pc[q] \in Syncing
                         /\ pc'[q] \in {"waitio", "cleanup", "sleeping"} => pc'[q] = pc[q]
                         /\ pc[q] = "waitio" => pc'[q] = "waitio"
    BY <1>1, <1>4, <1>9 DEF Doing, Reading, Replacing, Syncing
  <2>3. Places(t, pc', cur, want)
    BY <1>7, <1>8, <1>9, <2>1, <2>2 DEF Places
  <2> QED
    BY <1>1, <2>3 DEF Places, t
<1>17. Locks(Pool, pc, cur, want, looked, changed)'
  <2>1. Locks(Pool, pc, cur, want, looked, changed)
    BY <1>2 DEF Core
  <2>2. \A q \in Procs : /\ pc'[q] \in Failing => pc'[q] = pc[q]
                         /\ pc'[q] \in Replacing => pc'[q] = pc[q]
                         /\ pc'[q] \in {"waitio", "reading", "cleanup", "sleeping"} => pc'[q] = pc[q]
    BY <1>9 DEF Failing, Replacing
  <2>3. /\ looked[p] = {} /\ changed[p] = {} /\ \A c \in Buffers : excl[c] # p /\ (p \in share[c] <=> c = b)
        /\ excl[b] = Nobody
    BY <1>1, <1>3, <1>4, <2>1 DEF Locks
  <2>4. pc'[Checkpointer] # "sleeping"
    BY <1>4, <1>9
  <2>5. ASSUME NEW c \in Buffers
        PROVE  /\ excl[c] # Nobody => share'[c] = {}
               /\ excl[c] # Nobody => t.buf[c].cntx
               /\ Checkpointer \in share'[c] <=> pc'[Checkpointer] = "syncwrite" /\ cur[Checkpointer] = c
    BY <1>1, <1>4, <1>8, <1>9, <1>11, <2>1, <2>3 DEF Locks
  <2>6. ASSUME NEW q \in Procs, NEW c \in Buffers
        PROVE  /\ q \in share'[c] \/ excl[c] = q =>
                            /\ Pool.pins[q][c] > 0 /\ pc'[q] \notin Failing
                            /\ pc'[q] \in Replacing => Pool.buf[c].tag # want[q]
                            /\ cur[q] = c => pc'[q] \notin {"waitio", "reading"} \cup Replacing
               /\ pc'[q] = "cleanup" /\ cur[q] = c => excl[c] = q /\ cleaning[c] = Nobody
               /\ c \in changed[q] => Pool.pins[q][c] > 0 /\ q \notin share'[c]
               /\ c \in looked[q] => Pool.pins[q][c] > 0 /\ (cleaning[c] # Nobody => cleaning[c] = q)
               /\ pc'[q] \in Replacing /\ cur[q] = c => c \notin looked[q] /\ c \notin changed[q]
    <3>1. CASE q = p
      BY <1>4, <1>9, <1>11, <2>3, <3>1 DEF Failing, Replacing
    <3>2. CASE q # p
      <4>1. pc'[q] = pc[q] /\ (q \in share'[c] <=> q \in share[c])
        BY <1>9, <1>11, <3>2
      <4> QED
        BY <2>1, <4>1 DEF Locks, Holds
    <3> QED
      BY <3>1, <3>2
  <2> QED
    BY <1>1, <1>7, <1>8, <2>1, <2>4, <2>5, <2>6 DEF Locks, Holds, t
<1>18. Signals(Pool, pc, cur)'
  <2>1. Signals(t, pc', cur)
    BY <1>2, <1>7, <1>8, <1>9 DEF Core, Signals
  <2> QED
    BY <1>1, <2>1 DEF Signals, t
<1>19. Logs(Pool, pc, cur)'
  <2>1. \A j \in Blocks : disk'[j] <= flushed /\ latest[j] <= lsn
    BY <1>2, <1>3, <1>10, <1>12 DEF Core, Logs
  <2>2. \A q \in Procs : pc'[q] \in {"write", "syncwrite"} => t.buf[cur[q]].page <= flushed
    BY <1>2, <1>8, <1>9 DEF Core, Logs
  <2> QED
    BY <1>1, <2>1, <2>2 DEF Logs, t
<1>20. "write" \notin plan.may => \A j \in Blocks : disk[j] = latest[j] => disk'[j] = latest[j]
  BY <1>12, <1>13
<1>21. Contents(Pool, pc, cur)'
  <2>1. SUFFICES ASSUME "write" \notin plan.may PROVE Contents(Pool, pc, cur)'
    BY <1>1 DEF Contents
  <2>2. \A q \in Procs : /\ pc'[q] \in Reading <=> pc[q] \in Reading
                         /\ pc[q] \in Reading \cup {"waitio", "unlock", "unpin"} => pc'[q] = pc[q]
                         /\ pc'[q] \in {"abortout", "written"} => pc'[q] = pc[q]
    BY <1>1, <1>9 DEF Reading
  <2>3. \A c \in Buffers : Bad(Pool, pc, cur, c)' <=> Bad(Pool, pc, cur, c)
    BY <1>1, <1>8, <2>2 DEF Bad, t
  <2>4. ASSUME NEW c \in Buffers, Bad(Pool, pc, cur, c)
        PROVE  /\ ~Unwritten(t.buf[c])
               /\ \A q \in Procs : t.pins[q][c] > 0 =>
                     \/ pc'[q] \in Reading \cup {"waitio"} /\ cur[q] = c
                     \/ pc'[q] \in {"unlock", "unpin"}
    <3>1. /\ ~Unwritten(Pool.buf[c])
          /\ \A q \in Procs : Pool.pins[q][c] > 0 =>
                     \/ pc[q] \in Reading \cup {"waitio"} /\ cur[q] = c
                     \/ pc[q] \in {"unlock", "unpin"}
      BY <1>2, <2>1, <2>4 DEF Core, Contents
    <3> QED
      BY <1>7, <1>8, <2>2, <3>1
  <2>5. /\ \A c \in Buffers : Pool.buf[c].tag # NoBlock =>
              /\ Bad(Pool, pc, cur, c) \/ Pool.buf[c].page = latest[Pool.buf[c].tag]
              /\ Pool.buf[c].cntx \/ disk[Pool.buf[c].tag] = latest[Pool.buf[c].tag]
        /\ \A j \in Blocks : disk[j] = latest[j] \/ \E c \in Buffers : Pool.buf[c].tag = j
        /\ \A q \in Procs : /\ pc[q] # "abortout"
                            /\ pc[q] = "written" => disk[Pool.buf[cur[q]].tag] = latest[Pool.buf[cur[q]].tag]
    BY <1>2, <2>1 DEF Core, Contents
  <2>6. ASSUME NEW c \in Buffers, t.buf[c].tag # NoBlock
        PROVE  /\ Bad(Pool, pc, cur, c) \/ t.buf[c].page = latest[t.buf[c].tag]
               /\ t.buf[c].cntx \/ disk'[t.buf[c].tag] = latest[t.buf[c].tag]
    <3>1. t.buf[c].tag = Pool.buf[c].tag /\ Pool.buf[c].tag \in Blocks
      <4>1. buf[c].tag \in Blocks \cup {NoBlock}
        BY <1>3 DEF BufRec
      <4> QED
        BY <1>3, <1>8, <2>6, <4>1
    <3>2. CASE c = b
      <4>1. t.buf[c].tag = k /\ t.buf[c].page = Pool.buf[c].page /\ Pool.buf[c].tag # NoBlock
        BY <1>3, <1>4, <1>8, <2>6, <3>1, <3>2
      <4>2. ~Bad(Pool, pc, cur, c) /\ disk'[k] = latest[k]
        BY <1>13, <2>1, <3>2
      <4>3. Pool.buf[c].page = latest[Pool.buf[c].tag]
        BY <2>5, <4>1, <4>2
      <4> QED
        BY <3>1, <4>1, <4>2, <4>3
    <3>3. CASE c # b
      BY <1>8, <1>20, <2>1, <2>5, <2>6, <3>1, <3>3
    <3> QED
      BY <3>2, <3>3
  <2>7. \A j \in Blocks : disk'[j] = latest[j] \/ \E c \in Buffers : t.buf[c].tag = j
    BY <1>8, <1>20, <2>1, <2>5
  <2>8. ASSUME NEW q \in Procs
        PROVE  /\ pc'[q] # "abortout"
               /\ pc'[q] = "written" => disk'[t.buf[cur[q]].tag] = latest[t.buf[cur[q]].tag]
    <3>1. pc'[q] # "abortout" /\ (pc'[q] = "written" => pc[q] = "written")
      BY <2>2, <2>5
    <3>2. ASSUME pc[q] = "written"
          PROVE  Pool.buf[cur[q]].tag \in Blocks
      <4>1. Pool.pins[q][cur[q]] > 0
        BY <1>2, <3>2 DEF Core, Places, Doing, Replacing
      <4>2. Pool.buf[cur[q]].tag # NoBlock
        BY <1>2, <1>9, <4>1 DEF Core, Tags
      <4>3. buf[cur[q]].tag \in Blocks \cup {NoBlock}
        BY <1>3, <1>9 DEF BufRec
      <4> QED
        BY <1>3, <4>2, <4>3
    <3> QED
      BY <1>8, <1>9, <1>20, <2>1, <2>5, <3>1, <3>2
  <2> QED
    BY <1>1, <2>3, <2>4, <2>6, <2>7, <2>8 DEF Contents, t
<1>22. Synced(Pool, pc)'
  <2>1. SUFFICES ASSUME "write" \notin plan.may PROVE Synced(Pool, pc)'
    BY <1>1 DEF Synced
  <2>2. pc[Checkpointer] = "syncwrite" /\ pc'[Checkpointer] = "syncdone"
    BY <1>1, <1>4, <1>9
  <2>3. \A j \in Blocks : disk[j] <= latest[j] /\ redo[j] <= latest[j] /\ ckpt[j] <= disk[j]
    BY <1>2, <2>1 DEF Synced
  <2>4. ASSUME NEW j \in Blocks
        PROVE  disk'[j] <= latest[j] /\ redo[j] <= latest[j] /\ ckpt[j] <= disk'[j]
    BY <1>3, <1>12, <1>13, <2>1, <2>3
  <2>5. ASSUME NEW j \in Blocks, disk'[j] < redo[j]
        PROVE  \E c \in Buffers : t.buf[c].tag = j /\ c >= next /\ c > next
    <3>1. j # k /\ disk[j] < redo[j]
      BY <1>3, <1>12, <1>13, <2>1, <2>3, <2>5
    <3>2. PICK c \in Buffers : Pool.buf[c].tag = j /\ c >= next
      BY <1>2, <2>1, <2>2, <3>1 DEF Synced, Syncing
    <3>3. c # next
      BY <1>3, <1>4, <1>10, <3>1, <3>2
    <3>4. c > next
      BY <1>3, <1>10, <3>2, <3>3 DEF Buffers
    <3> QED
      BY <1>8, <3>2, <3>4
  <2> QED
    BY <1>1, <2>2, <2>4, <2>5 DEF Synced, t
<1> QED
  BY <1>14, <1>15, <1>16, <1>17, <1>18, <1>19, <1>21, <1>22 DEF Inv, Core
-----------------------------------------------------------------------------
(***************************************************************************)
(* The invariant of the specification.                                     *)
(***************************************************************************)
LEMMA InitInv == Init => Inv
<1> SUFFICES ASSUME Init PROVE Inv
  OBVIOUS
<1> DEFINE n == plan.NBuffers
           r == [tag |-> NoBlock, ref |-> 0, dirty |-> FALSE, just |-> FALSE, cntx |-> FALSE,
                 io |-> FALSE, err |-> FALSE, waiter |-> Nobody, page |-> Garbage]
<1>1. /\ plan \in Plans /\ buf = [b \in Buffers |-> r] /\ free = [i \in Buffers |-> i]
      /\ pins = [p \in Procs |-> [b \in Buffers |-> 0]] /\ sem = [p \in Procs |-> 0]
      /\ share = [b \in Buffers |-> {}] /\ excl = [b \in Buffers |-> Nobody]
      /\ pc = [p \in Procs |-> "idle"] /\ cur = [p \in Procs |-> 1] /\ want = [p \in Procs |-> NoBlock]
      /\ next = 1 /\ disk = [k \in Blocks |-> 0] /\ lsn = 0 /\ flushed = 0
      /\ latest = [k \in Blocks |-> 0] /\ redo = latest /\ ckpt = latest
      /\ looked = [p \in Procs |-> {}] /\ changed = [p \in Procs |-> {}]
      /\ cleaning = [b \in Buffers |-> Nobody]
  BY DEF Init
<1>2. n \in Nat /\ n > 0 /\ Buffers = 1..n /\ 1 \in Buffers
  <2>1. plan \in [NBuffers : Nat \ {0}, may : SUBSET {"read", "write", "error", "cancel", "cleanup"}]
    BY <1>1, PlansKnown
  <2>2. n \in Nat \ {0}
    BY <2>1
  <2> QED
    BY <2>2 DEF Buffers
<1> HIDE DEF n
<1>3. /\ r \in BufRec /\ r.tag = NoBlock /\ r.ref = 0 /\ ~r.dirty /\ ~r.cntx /\ ~r.io /\ ~r.err
      /\ ~Unwritten(r)
  BY DEF BufRec, Unwritten, Garbage
<1> HIDE DEF r
<1>4. Checkpointer \in Procs /\ Nobody \notin Procs /\ NoBlock \notin Blocks
  BY ProcessesDistinct DEF Procs, NoBlock
<1>5. free \in Seq(Buffers) /\ Len(free) = n
  BY <1>1, <1>2
<1>6. Pool \in PoolType
  BY <1>1, <1>3, <1>5 DEF Pool, PoolType
<1>7. Types(Pool, pc, cur, want, looked, changed)
  <2>1. /\ share \in [Buffers -> SUBSET Procs] /\ excl \in [Buffers -> Procs \cup {Nobody}]
        /\ cleaning \in [Buffers -> Procs \cup {Nobody}]
    BY <1>1
  <2>2. pc \in [Procs -> PCs] /\ cur \in [Procs -> Buffers] /\ want \in [Procs -> Blocks \cup {NoBlock}]
    BY <1>1, <1>2 DEF PCs
  <2>3. /\ next \in Nat /\ lsn \in Nat /\ flushed \in Nat /\ disk \in [Blocks -> Int]
        /\ latest \in [Blocks -> Nat] /\ redo \in [Blocks -> Nat] /\ ckpt \in [Blocks -> Nat]
    BY <1>1
  <2>4. looked \in [Procs -> SUBSET Buffers] /\ changed \in [Procs -> SUBSET Buffers]
    BY <1>1
  <2> QED
    BY <1>1, <1>6, <2>1, <2>2, <2>3, <2>4 DEF Types
<1>8. /\ \A b \in Buffers : Pool.buf[b] = r
      /\ \A p \in Procs, b \in Buffers : Pool.pins[p][b] = 0
      /\ Pool.free = free /\ \A i \in 1..n : free[i] = i
      /\ \A p \in Procs : pc[p] = "idle" /\ looked[p] = {} /\ changed[p] = {}
  BY <1>1, <1>2, PoolOf
<1>9. Counts(Pool)
  <2>1. ASSUME NEW b \in Buffers PROVE Pool.buf[b].ref = Cardinality(PinnedBy(Pool, b))
    <3>1. PinnedBy(Pool, b) = {}
      BY <1>8 DEF PinnedBy
    <3> QED
      BY <1>3, <1>8, <3>1, FS_EmptySet
  <2>2. ASSUME NEW b \in Buffers PROVE Pool.buf[b].ref = 0 <=> \E i \in 1..Len(Pool.free) : Pool.free[i] = b
    BY <1>2, <1>3, <1>5, <1>8
  <2>3. \A i, j \in 1..Len(Pool.free) : Pool.free[i] = Pool.free[j] => i = j
    BY <1>5, <1>8
  <2> QED
    BY <2>1, <2>2, <2>3 DEF Counts
<1>10. Tags(Pool)
  BY <1>3, <1>8 DEF Tags
<1>11. Places(Pool, pc, cur, want) /\ Signals(Pool, pc, cur)
  BY <1>8 DEF Places, Signals, Doing, Reading, Replacing, Syncing
<1>12. Locks(Pool, pc, cur, want, looked, changed)
  BY <1>1, <1>4, <1>8 DEF Locks, Holds, Replacing
<1>13. Logs(Pool, pc, cur)
  BY <1>1, <1>8 DEF Logs
<1>14. Contents(Pool, pc, cur)
  <2>1. \A b \in Buffers : ~Bad(Pool, pc, cur, b)
    BY <1>3, <1>8 DEF Bad, Reading
  <2>2. \A k \in Blocks : disk[k] = latest[k]
    BY <1>1
  <2> QED
    BY <1>3, <1>8, <2>1, <2>2 DEF Contents
<1>15. Synced(Pool, pc)
  <2>1. \A k \in Blocks : disk[k] = 0 /\ latest[k] = 0 /\ redo[k] = 0 /\ ckpt[k] = 0
    BY <1>1
  <2> QED
    BY <1>4, <1>8, <2>1 DEF Synced, Syncing
<1> QED
  BY <1>7, <1>9, <1>10, <1>11, <1>12, <1>13, <1>14, <1>15 DEF Inv, Core

LEMMA StutterInv ==
    ASSUME Inv, UNCHANGED vars
    PROVE  Inv'
<1>1. /\ Pool' = Pool /\ Buffers' = Buffers /\ plan' = plan /\ pc' = pc /\ cur' = cur /\ want' = want
      /\ share' = share /\ excl' = excl /\ cleaning' = cleaning /\ looked' = looked /\ changed' = changed
      /\ next' = next /\ disk' = disk /\ lsn' = lsn /\ flushed' = flushed /\ latest' = latest
      /\ redo' = redo /\ ckpt' = ckpt
  BY DEF vars, Pool, Buffers
<1>2. Core(Pool, pc, cur, want, looked, changed) /\ Synced(Pool, pc)
  BY DEF Inv
<1>3. /\ Types(Pool, pc, cur, want, looked, changed)' /\ Counts(Pool)' /\ Tags(Pool)'
      /\ Places(Pool, pc, cur, want)' /\ Signals(Pool, pc, cur)' /\ Logs(Pool, pc, cur)'
  BY <1>1, <1>2 DEF Core, Types, PoolType, Counts, PinnedBy, Tags, Places, Signals, Logs
<1>4. Locks(Pool, pc, cur, want, looked, changed)'
  BY <1>1, <1>2 DEF Core, Locks, Holds
<1>5. Contents(Pool, pc, cur)' /\ Synced(Pool, pc)'
  BY <1>1, <1>2 DEF Core, Contents, Bad, Synced
<1> QED
  BY <1>3, <1>4, <1>5 DEF Inv, Core

LEMMA NextInv ==
    ASSUME Inv, [Next]_vars
    PROVE  Inv'
<1>1. ASSUME UNCHANGED plan, NEW p \in Procs, Work(p)
      PROVE  Inv'
  <2>1. CASE WaitIO(p) \/ ReplaceFlush(p) \/ ReplaceWrite(p) \/ Replaced(p) \/ ReadPage(p)
    BY <1>1, <2>1, WaitIOStep, ReplaceFlushStep, ReplaceWriteStep, ReplacedStep, ReadPageStep
  <2>2. CASE CountPins(p) \/ ProcWaitForSignal(p)
    BY <1>1, <2>2, CountPinsStep, WakeUpStep
  <2>3. CASE Raised(p) \/ AbortBufferIO(p) \/ UnlockBuffers(p)
    BY <1>1, <2>3, ErrorSteps, AbortBufferIOStep, UnlockBuffersStep
  <2>4. CASE AtEOXact_Buffers(p)
    BY <1>1, <2>4, UnpinStep, AbortedStep
  <2> QED
    BY <1>1, <2>1, <2>2, <2>3, <2>4 DEF Work
<1>2. ASSUME UNCHANGED plan, NEW p \in Procs, GiveUp(p)
      PROVE  Inv'
  BY <1>2, UnlockStep, WriteStep, ReleaseStep DEF GiveUp
<1>3. ASSUME UNCHANGED plan, NEW p \in Procs, Calls(p)
      PROVE  Inv'
  <2>1. CASE \E k \in Blocks : ReadBuffer(p, k)
    BY <1>3, <2>1, ReadStep
  <2>2. ASSUME NEW b \in Buffers,
               LockBufferShare(p, b) \/ LockBufferExclusive(p, b) \/ ChangePage(p, b) \/ LockBufferForCleanup(p, b)
        PROVE  Inv'
    BY <1>3, <2>2, LockShareStep, LockExclusiveStep, ChangePageStep
  <2>3. ASSUME NEW b \in Buffers, NEW k \in Blocks, ReleaseAndReadBuffer(p, b, k)
        PROVE  Inv'
    BY <1>3, <2>3, ReleaseAndReadStep
  <2> QED
    BY <1>3, <2>1, <2>2, <2>3 DEF Calls
<1>4. ASSUME UNCHANGED plan, NEW p \in Procs, Errors(p)
      PROVE  Inv'
  BY <1>4, ErrorSteps
<1>5. ASSUME UNCHANGED plan, CreateCheckPoint \/ Sync
      PROVE  Inv'
  BY <1>5, CreateCheckPointStep, SyncBufferStep, SyncLockStep, SyncWriteStep, SyncDoneStep,
     CheckPointEndsStep DEF Sync
<1> QED
  BY <1>1, <1>2, <1>3, <1>4, <1>5, StutterInv DEF Next, Move
-----------------------------------------------------------------------------
(***************************************************************************)
(* What follows from it.                                                   *)
(***************************************************************************)
\* A list without duplicates is as long as the set of its elements.
LEMMA ListCount ==
    ASSUME NEW S, NEW list \in Seq(S), NEW T,
           \A i, j \in 1..Len(list) : list[i] = list[j] => i = j,
           \A e : e \in T <=> \E i \in 1..Len(list) : list[i] = e
    PROVE  Len(list) = Cardinality(T)
<1>1. Len(list) \in Nat /\ list \in [1..Len(list) -> T]
  BY LenProperties
<1>2. list \in Bijection(1..Len(list), T)
  BY <1>1, Fun_IsBij
<1>3. ExistsBijection(1..Len(list), T)
  BY <1>2, Fun_ExistsBij
<1>4. IsFiniteSet(1..Len(list)) /\ Cardinality(1..Len(list)) = Len(list)
  BY <1>1, FS_Interval
<1> QED
  BY <1>3, <1>4, FS_Bijection

LEMMA InvCurrent == Inv => PagesCurrent
<1> SUFFICES ASSUME Inv PROVE PagesCurrent
  OBVIOUS
<1>1. /\ Counts(Pool) /\ Tags(Pool) /\ Contents(Pool, pc, cur)
      /\ Pool.buf = buf /\ Pool.free = free /\ Pool.pins = pins
      /\ buf \in [Buffers -> BufRec] /\ free \in Seq(Buffers) /\ Backends \subseteq Procs
      /\ NoBlock \notin Blocks
  <2>1. free \in Seq(Buffers)
    BY Typing, PoolOf DEF PoolType
  <2> QED
    BY <2>1, Typing, PoolOf DEF Inv, Core
<1>2. OneBufferPerBlock
  <2> SUFFICES ASSUME NEW k \in Blocks PROVE Cardinality(Having(Pool, k)) <= 1
    BY DEF OneBufferPerBlock
  <2>1. CASE Having(Pool, k) = {}
    BY <2>1, FS_EmptySet
  <2>2. CASE Having(Pool, k) # {}
    <3>1. PICK b \in Buffers : Pool.buf[b].tag = k
      BY <2>2 DEF Having
    <3>2. Having(Pool, k) = {b}
      BY <1>1, <3>1 DEF Having, Tags
    <3>3. Cardinality({b}) = 1
      BY FS_Singleton, Zenon
    <3> QED
      BY <3>2, <3>3
  <2> QED
    BY <2>1, <2>2
<1>3. PinsExact
  <2>1. \A b \in Buffers : buf[b].ref = Cardinality({p \in Procs : pins[p][b] > 0})
    BY <1>1 DEF Counts, PinnedBy
  <2> DEFINE T == {b \in Buffers : buf[b].ref = 0}
  <2>2. DOMAIN free = 1..Len(free) /\ \A i \in 1..Len(free) : free[i] \in Buffers
    BY <1>1, LenProperties, ElementOfSeq
  <2>3. \A e : e \in T <=> \E i \in 1..Len(free) : free[i] = e
    BY <1>1, <2>2 DEF Counts
  <2>4. {free[i] : i \in DOMAIN free} = T
    BY <2>2, <2>3
  <2>5. \A i, j \in 1..Len(free) : free[i] = free[j] => i = j
    BY <1>1 DEF Counts
  <2> HIDE DEF T
  <2>6. Len(free) = Cardinality(T)
    BY <1>1, <2>3, <2>5, ListCount
  <2> QED
    BY <2>1, <2>4, <2>6 DEF PinsExact, T
<1>4. ASSUME "write" \notin plan.may, NEW p \in Backends, NEW b \in Buffers, pc[p] = "idle", pins[p][b] > 0
      PROVE  buf[b].tag # NoBlock /\ buf[b].page = latest[buf[b].tag]
  <2>1. buf[b].tag # NoBlock
    <3>1. p \in Procs /\ ~(pins[p][b] = 0)
      BY <1>1, <1>4
    <3> QED
      BY <1>1, <3>1 DEF Tags
  <2>2. ~Bad(Pool, pc, cur, b)
    BY <1>1, <1>4 DEF Contents, Reading
  <2> QED
    BY <1>1, <1>4, <2>1, <2>2 DEF Contents
<1> QED
  BY <1>2, <1>3, <1>4 DEF PagesCurrent

LEMMA InvDurable == Inv => Durable
<1> SUFFICES ASSUME Inv PROVE Durable
  OBVIOUS
<1>1. Logs(Pool, pc, cur) /\ Contents(Pool, pc, cur) /\ Synced(Pool, pc)
  BY DEF Inv, Core
<1>2. WriteAheadLog
  BY <1>1 DEF Logs, WriteAheadLog
<1>3. ASSUME "write" \notin plan.may PROVE EvictedAreWritten /\ CheckpointCovers
  <2>1. EvictedAreWritten
    BY <1>1, <1>3 DEF Contents, EvictedAreWritten, Having
  <2>2. ASSUME NEW k \in Blocks PROVE disk[k] >= ckpt[k]
    <3>1. ckpt[k] <= disk[k]
      BY <1>1, <1>3 DEF Synced
    <3>2. ckpt[k] \in Int /\ disk[k] \in Int
      BY Typing DEF Types
    <3> QED
      BY <3>1, <3>2
  <2> QED
    BY <2>1, <2>2 DEF CheckpointCovers
<1> QED
  BY <1>2, <1>3 DEF Durable

LEMMA InvCleanup == Inv => CleanupSafe
<1> SUFFICES ASSUME Inv PROVE CleanupSafe
  OBVIOUS
<1>1. /\ Locks(Pool, pc, cur, want, looked, changed) /\ Signals(Pool, pc, cur)
      /\ Pool.buf = buf /\ Pool.sem = sem /\ Backends \subseteq Procs
  BY Typing, PoolOf DEF Inv, Core
<1>2. CleanupAlone
  BY <1>1 DEF Locks, CleanupAlone
<1>3. NoLostSignal
  BY <1>1 DEF Signals, NoLostSignal
<1> QED
  BY <1>2, <1>3 DEF CleanupSafe

\* The invariant above holds in every state.
THEOREM Invariant == Spec => []Inv
<1> QED
  BY InitInv, NextInv, PTL DEF Spec

\* A backend that has read a block has its last version, in the only buffer of
\* the block, whose count of pins is exact and which is not on the free list:
\* for every number of buffers, backends and blocks (bufmgr.c, freelist.c).
THEOREM CurrentTheorem == Spec => []PagesCurrent
<1> QED
  BY InitInv, NextInv, InvCurrent, PTL DEF Spec

\* A page is written after its log, a page that leaves the pool has been
\* written, and a checkpoint that has ended has written what was changed before
\* it began (BufferReplace, BufferSync).
THEOREM DurableTheorem == Spec => []Durable
<1> QED
  BY InitInv, NextInv, InvDurable, PTL DEF Spec

\* While a backend has the lock for cleanup nobody else has pointers into the
\* page, and a backend that sleeps for that lock has its signal, or the last
\* other pin to go will send it (LockBufferForCleanup, UnpinBuffer).
THEOREM CleanupTheorem == Spec => []CleanupSafe
<1> QED
  BY InitInv, NextInv, InvCleanup, PTL DEF Spec
=============================================================================
