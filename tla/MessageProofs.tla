---------------------------- MODULE MessageProofs ---------------------------
(***************************************************************************)
(* Proofs about what PostgreSQL's backends tell each other, for any number *)
(* of backends.  The queue of invalidation messages (SInval): the message  *)
(* numbers are bounded for ever, and the circular buffer implements the    *)
(* ordered broadcast of InvalBroadcast.  LISTEN and NOTIFY (Notify): a     *)
(* pending notification is always on its way to its backend, unless a      *)
(* query is cancelled while the notification is being read.                *)
(***************************************************************************)
EXTENDS SInval, Notify, SequenceTheorems, WellFoundedInduction, TLAPS

-----------------------------------------------------------------------------
(***************************************************************************)
(* SInval.                                                                 *)
(***************************************************************************)
Types ==
    /\ minMsgNum \in Nat /\ maxMsgNum \in Nat
    /\ lastBackend \in 0..MaxBackends
    /\ buffer \in [0..(MAXNUMMESSAGES - 1) -> Messages \union {"none"}]
    /\ nextMsgNum \in [Slots -> Int] /\ resetState \in [Slots -> BOOLEAN]
    /\ procStruct \in [Slots -> Procs \union {"none"}]
    /\ MyBackendId \in [Procs -> 0..MaxBackends]
    /\ calls \in [Procs -> Seq(BOOLEAN)] /\ expiring \in [Procs -> BOOLEAN]
    /\ data \in [Procs -> Messages \union {"none", "reset"}]

\* The numbers of a queue: each backend is between the limits, which are one
\* buffer apart, and the lower one is below the wraparound.
Ordered(q) ==
    /\ q.min <= q.max /\ q.max - q.min <= MAXNUMMESSAGES /\ q.min < MSGNUMWRAPAROUND
    /\ \A i \in Slots : q.next[i] = -1 \/ (q.min <= q.next[i] /\ q.next[i] <= q.max)

\* The active slots are below lastBackend, and belong to the backends one to one.
Assigned ==
    /\ \A i \in Slots : nextMsgNum[i] # -1 =>
          i <= lastBackend /\ procStruct[i] \in Procs /\ MyBackendId[procStruct[i]] = i
    /\ \A p \in Procs : MyBackendId[p] # 0 =>
          nextMsgNum[MyBackendId[p]] # -1 /\ procStruct[MyBackendId[p]] = p

\* Only a backend is in a call, and only in a call it releases dead messages.
Calling == \A p \in Procs : (calls[p] # <<>> => Running(p)) /\ (expiring[p] => calls[p] # <<>>)

Inv == Types /\ Ordered(Queue) /\ Assigned /\ Calling
-----------------------------------------------------------------------------
(***************************************************************************)
(* Arithmetic.                                                             *)
(***************************************************************************)
\* Every set of natural numbers that is not empty has a least element.
LEMMA LeastNat ==
    ASSUME NEW S \in SUBSET Nat, S # {}
    PROVE  LeastOf(S) \in S /\ \A y \in S : LeastOf(S) <= y
<1>1. \E x \in S : \A y \in S : ~(<<y, x>> \in OpToRel(<, Nat))
  BY NatLessThanWellFounded, WFMin, Zenon
<1>2. ASSUME NEW x \in Nat, NEW y \in Nat
      PROVE  <<y, x>> \in OpToRel(<, Nat) \/ x <= y
  <2>1. y < x \/ x <= y
    OBVIOUS
  <2> QED
    BY <2>1, Zenon DEF OpToRel
<1>3. \E x \in S : \A y \in S : x <= y
  BY <1>1, <1>2, Zenon
<1> QED
  BY <1>3 DEF LeastOf

\* The wraparound is a positive multiple of the size of the buffer.
LEMMA Sizes ==
    /\ MAXNUMMESSAGES \in Nat \ {0} /\ MSGNUMWRAPAROUND \in Nat /\ MSGNUMWRAPAROUND >= MAXNUMMESSAGES
    /\ MaxBackends \in Nat \ {0} /\ Slots = 1..MaxBackends
<1>1. PICK k \in 1..MSGNUMWRAPAROUND : MSGNUMWRAPAROUND = k * MAXNUMMESSAGES
  BY WraparoundMultiple
<1>2. (k - 1) * MAXNUMMESSAGES >= 0 /\ k * MAXNUMMESSAGES = (k - 1) * MAXNUMMESSAGES + MAXNUMMESSAGES
  BY SizesPositive, WraparoundMultiple
<1> QED
  BY <1>1, <1>2, SizesPositive, WraparoundMultiple DEF Slots
-----------------------------------------------------------------------------
(***************************************************************************)
(* SIDelExpiredDataEntries.                                                *)
(***************************************************************************)
Least == LeastOf({maxMsgNum} \union {nextMsgNum[i] : i \in Active})

LEMMA LeastFacts ==
    ASSUME Types, Ordered(Queue), Assigned
    PROVE  /\ Active = {i \in Slots : nextMsgNum[i] # -1}
           /\ Least \in Nat /\ Least <= maxMsgNum /\ minMsgNum <= Least
           /\ \A i \in Active : Least <= nextMsgNum[i]
           /\ Least = maxMsgNum \/ \E i \in Active : Least = nextMsgNum[i]
<1>1. Active = {i \in Slots : nextMsgNum[i] # -1}
  BY Sizes DEF Types, Ordered, Assigned, Active, Queue
<1> DEFINE S == {maxMsgNum} \union {nextMsgNum[i] : i \in Active}
<1>2. S \in SUBSET Nat /\ \A x \in S : minMsgNum <= x
  BY <1>1, Sizes DEF Types, Ordered, Queue
<1>3. Least \in S /\ \A y \in S : Least <= y
  BY <1>2, LeastNat DEF Least
<1> QED
  BY <1>1, <1>2, <1>3

\* The numbers are lowered by a multiple of the size of the buffer, for all that
\* are active alike, and are ordered as before; if no room is made, somebody is
\* a full buffer behind.
LEMMA ExpiredFacts ==
    ASSUME Types, Ordered(Queue), Assigned
    PROVE  /\ Expired.min \in Nat /\ Expired.max \in Nat /\ Expired.next \in [Slots -> Int]
           /\ Ordered(Expired)
           /\ \E k \in Int :
                /\ Expired.max = maxMsgNum - k * MAXNUMMESSAGES
                /\ \A i \in Slots : Expired.next[i] =
                      IF nextMsgNum[i] # -1 THEN nextMsgNum[i] - k * MAXNUMMESSAGES ELSE -1
           /\ \A i \in Slots : Expired.next[i] = -1 <=> nextMsgNum[i] = -1
           /\ Expired.max - Expired.min >= MAXNUMMESSAGES =>
                \E i \in Slots : nextMsgNum[i] # -1 /\ maxMsgNum - nextMsgNum[i] = MAXNUMMESSAGES
<1>1. CASE maxMsgNum = minMsgNum
  <2>1. Expired = Queue
    BY <1>1 DEF Expired
  <2>2. 0 \in Int /\ 0 * MAXNUMMESSAGES = 0
    BY Sizes
  <2> QED
    BY <1>1, <2>1, <2>2, Sizes DEF Types, Queue, Ordered
<1>2. CASE maxMsgNum # minMsgNum
  <2> DEFINE wrap == IF Least >= MSGNUMWRAPAROUND THEN MSGNUMWRAPAROUND ELSE 0
  <2>1. Expired = [min |-> Least - wrap, max |-> maxMsgNum - wrap,
                   next |-> [i \in Slots |-> IF i \in Active THEN nextMsgNum[i] - wrap ELSE nextMsgNum[i]]]
    BY <1>2 DEF Expired, Least
  <2>2. PICK k \in Int : wrap = k * MAXNUMMESSAGES
    <3>1. 0 \in Int /\ 0 * MAXNUMMESSAGES = 0
      BY Sizes
    <3>2. \E k \in Int : MSGNUMWRAPAROUND = k * MAXNUMMESSAGES
      BY WraparoundMultiple
    <3> QED
      BY <3>1, <3>2
  <2>3. /\ minMsgNum \in Nat /\ maxMsgNum \in Nat /\ nextMsgNum \in [Slots -> Int]
        /\ minMsgNum < MSGNUMWRAPAROUND /\ maxMsgNum <= minMsgNum + MAXNUMMESSAGES
        /\ \A i \in Slots : nextMsgNum[i] # -1 => nextMsgNum[i] <= maxMsgNum
    BY Sizes DEF Types, Ordered, Queue
  <2>4. /\ \A i \in Slots : i \in Active <=> nextMsgNum[i] # -1
        /\ Least \in Nat /\ Least <= maxMsgNum /\ minMsgNum <= Least
        /\ \A i \in Slots : nextMsgNum[i] # -1 => Least <= nextMsgNum[i]
        /\ Least = maxMsgNum \/ \E i \in Slots : nextMsgNum[i] # -1 /\ Least = nextMsgNum[i]
    BY LeastFacts
  <2>5. wrap \in Nat /\ wrap <= Least /\ Least - wrap < MSGNUMWRAPAROUND
    BY <2>3, <2>4, Sizes
  <2> HIDE DEF wrap
  <2>6. /\ Expired.min = Least - wrap /\ Expired.max = maxMsgNum - wrap
        /\ Expired.next \in [Slots -> Int]
        /\ \A i \in Slots : Expired.next[i] =
              IF nextMsgNum[i] # -1 THEN nextMsgNum[i] - wrap ELSE -1
    BY <2>1, <2>3, <2>4, <2>5
  <2>7. Expired.min \in Nat /\ Expired.max \in Nat
    BY <2>3, <2>4, <2>5, <2>6
  <2>8. Ordered(Expired)
    <3>1. \A i \in Slots : Expired.next[i] # -1 => nextMsgNum[i] # -1 /\ Expired.next[i] = nextMsgNum[i] - wrap
      BY <2>6
    <3>2. /\ Expired.min <= Expired.max /\ Expired.max - Expired.min <= MAXNUMMESSAGES
          /\ Expired.min < MSGNUMWRAPAROUND
      BY <2>3, <2>4, <2>5, <2>6, Sizes
    <3>3. ASSUME NEW i \in Slots, Expired.next[i] # -1
          PROVE  Expired.min <= Expired.next[i] /\ Expired.next[i] <= Expired.max
      BY <3>1, <3>3, <2>3, <2>4, <2>5, <2>6
    <3> QED
      BY <3>2, <3>3 DEF Ordered
  <2>9. \A i \in Slots : Expired.next[i] = -1 <=> nextMsgNum[i] = -1
    BY <2>3, <2>4, <2>5, <2>6
  <2>10. ASSUME Expired.max - Expired.min >= MAXNUMMESSAGES
         PROVE  \E i \in Slots : nextMsgNum[i] # -1 /\ maxMsgNum - nextMsgNum[i] = MAXNUMMESSAGES
    <3>1. maxMsgNum - Least >= MAXNUMMESSAGES
      BY <2>3, <2>4, <2>5, <2>6, <2>10, Sizes
    <3>2. maxMsgNum - Least = MAXNUMMESSAGES /\ Least # maxMsgNum
      BY <3>1, <2>3, <2>4, Sizes
    <3> QED
      BY <3>2, <2>4
  <2>11. /\ Expired.max = maxMsgNum - k * MAXNUMMESSAGES
         /\ \A i \in Slots : Expired.next[i] =
               IF nextMsgNum[i] # -1 THEN nextMsgNum[i] - k * MAXNUMMESSAGES ELSE -1
    BY <2>2, <2>6
  <2> QED
    BY <2>6, <2>7, <2>8, <2>9, <2>10, <2>11
<1> QED
  BY <1>1, <1>2
-----------------------------------------------------------------------------
(***************************************************************************)
(* Every action keeps the invariant.                                       *)
(***************************************************************************)
\* SIBackendInit takes a slot that is not active.
LEMMA FreeFacts ==
    ASSUME Inv, NEW i \in FreeSlots
    PROVE  i \in Slots /\ nextMsgNum[i] = -1
<1> DEFINE below == 1..lastBackend \ Active
<1>1. /\ Active = {n \in Slots : nextMsgNum[n] # -1}
      /\ lastBackend \in 0..MaxBackends /\ MaxBackends \in Nat /\ Slots = 1..MaxBackends
      /\ \A n \in Slots : nextMsgNum[n] # -1 => n <= lastBackend
  BY LeastFacts, Sizes DEF Inv, Types, Assigned
<1>2. CASE below # {}
  <2>1. below \in SUBSET Nat
    BY <1>1
  <2>2. LeastOf(below) \in below
    BY <1>2, <2>1, LeastNat
  <2> QED
    BY <1>1, <1>2, <2>2 DEF FreeSlots
<1>3. CASE below = {}
  BY <1>1, <1>3 DEF FreeSlots
<1> QED
  BY <1>2, <1>3

\* CleanupInvalidationState finds the last of the slots that stay active.
LEMMA LastFacts ==
    ASSUME NEW n \in Nat, NEW A \in SUBSET (1..n)
    PROVE  LET last == CHOOSE l \in 0..n : (\A i \in A : i <= l) /\ (l = 0 \/ l \in A)
           IN  last \in 0..n /\ \A i \in A : i <= last
<1> DEFINE U == {l \in 0..n : \A i \in A : i <= l}
           m == LeastOf(U)
<1>1. U \in SUBSET Nat /\ n \in U
  OBVIOUS
<1>2. m \in U /\ \A l \in U : m <= l
  BY <1>1, LeastNat
<1>3. ASSUME m # 0, m \notin A
      PROVE  FALSE
  <2>1. m \in 0..n /\ \A i \in A : i <= m /\ i # m /\ i \in Nat
    BY <1>2, <1>3
  <2>2. m - 1 \in 0..n /\ \A i \in A : i <= m - 1
    BY <1>3, <2>1
  <2> QED
    BY <1>2, <2>1, <2>2
<1>4. \E l \in 0..n : (\A i \in A : i <= l) /\ (l = 0 \/ l \in A)
  BY <1>2, <1>3
<1> QED
  BY <1>4

\* As long as the same slots are active they belong to the same backends.
LEMMA SameOwners ==
    ASSUME Inv, \A i \in Slots : nextMsgNum'[i] = -1 <=> nextMsgNum[i] = -1,
           procStruct' = procStruct, UNCHANGED backends
    PROVE  Assigned'
<1>1. lastBackend' = lastBackend /\ MyBackendId' = MyBackendId
  BY DEF backends
<1>2. \A p \in Procs : MyBackendId[p] # 0 => MyBackendId[p] \in Slots
  BY Sizes DEF Inv, Types
<1> QED
  BY <1>1, <1>2 DEF Inv, Assigned

LEMMA InitInv == Init => Inv
<1> SUFFICES ASSUME Init PROVE Inv
  OBVIOUS
<1>1. Types
  BY Sizes DEF Init, Types
<1>2. Ordered(Queue)
  BY Sizes DEF Init, Ordered, Queue
<1> QED
  BY <1>1, <1>2 DEF Init, Inv, Assigned, Calling

LEMMA StartInv ==
    ASSUME Inv, NEW p \in Procs, SIBackendInit(p)
    PROVE  Inv'
<1>1. PICK i \in FreeSlots :
         /\ MyBackendId' = [MyBackendId EXCEPT ![p] = i]
         /\ lastBackend' = IF i > lastBackend THEN i ELSE lastBackend
         /\ nextMsgNum' = [nextMsgNum EXCEPT ![i] = maxMsgNum]
         /\ resetState' = [resetState EXCEPT ![i] = FALSE]
         /\ procStruct' = [procStruct EXCEPT ![i] = p]
  BY DEF SIBackendInit
<1>2. i \in Slots /\ nextMsgNum[i] = -1 /\ MyBackendId[p] = 0
  BY FreeFacts DEF SIBackendInit, Running
<1>3. UNCHANGED <<counters, buffer, local, signals>>
  BY DEF SIBackendInit
<1>4. Types'
  BY <1>1, <1>2, <1>3, Sizes DEF Inv, Types, counters, local
<1>5. Ordered(Queue)'
  BY <1>1, <1>2, <1>3, Sizes DEF Inv, Types, Ordered, Queue, counters
<1>6. Assigned'
  BY <1>1, <1>2, Sizes DEF Inv, Types, Assigned
<1>7. Calling'
  BY <1>1, <1>2, <1>3, Sizes DEF Inv, Types, Calling, Running, local
<1> QED
  BY <1>4, <1>5, <1>6, <1>7 DEF Inv

LEMMA ExitInv ==
    ASSUME Inv, NEW p \in Procs, CleanupInvalidationState(p)
    PROVE  Inv'
<1> DEFINE me == MyBackendId[p]
           A == Active \ {me}
<1>1. /\ Active = {n \in Slots : nextMsgNum[n] # -1}
      /\ lastBackend \in 0..MaxBackends /\ MaxBackends \in Nat /\ Slots = 1..MaxBackends
      /\ \A n \in Slots : nextMsgNum[n] # -1 => n <= lastBackend
      /\ me \in Slots /\ nextMsgNum[me] # -1 /\ procStruct[me] = p
  <2>1. Active = {n \in Slots : nextMsgNum[n] # -1}
    BY LeastFacts DEF Inv
  <2>2. me \in Slots /\ nextMsgNum[me] # -1 /\ procStruct[me] = p
    BY Sizes DEF Inv, Types, Assigned, CleanupInvalidationState, Running
  <2>3. lastBackend \in 0..MaxBackends /\ \A n \in Slots : nextMsgNum[n] # -1 => n <= lastBackend
    BY DEF Inv, Types, Assigned
  <2> QED
    BY <2>1, <2>2, <2>3, Sizes
<1>2. A \in SUBSET (1..lastBackend) /\ lastBackend \in Nat
  BY <1>1
<1>3. lastBackend' = CHOOSE l \in 0..lastBackend : (\A i \in A : i <= l) /\ (l = 0 \/ l \in A)
  BY DEF CleanupInvalidationState
<1>4. lastBackend' \in 0..lastBackend /\ \A i \in A : i <= lastBackend'
  <2> HIDE DEF A
  <2> QED
    BY <1>2, <1>3, LastFacts
<1>5. /\ nextMsgNum' = [nextMsgNum EXCEPT ![me] = -1]
      /\ resetState' = [resetState EXCEPT ![me] = FALSE]
      /\ procStruct' = [procStruct EXCEPT ![me] = "none"]
      /\ MyBackendId' = [MyBackendId EXCEPT ![p] = 0]
      /\ calls' = [calls EXCEPT ![p] = <<>>]
      /\ expiring' = [expiring EXCEPT ![p] = FALSE]
      /\ UNCHANGED <<counters, buffer, data, wakenChildren>>
  BY DEF CleanupInvalidationState
<1> HIDE DEF me
<1>6. Types'
  BY <1>1, <1>4, <1>5, Sizes DEF Inv, Types, counters
<1>7. Ordered(Queue)'
  BY <1>1, <1>5, Sizes DEF Inv, Types, Ordered, Queue, counters
<1>8. Assigned'
  BY <1>1, <1>4, <1>5 DEF Inv, Types, Assigned, me
<1>9. Calling'
  BY <1>5 DEF Inv, Types, Calling, Running
<1> QED
  BY <1>6, <1>7, <1>8, <1>9 DEF Inv

LEMMA SendInv ==
    ASSUME Inv, NEW p \in Procs, NEW m \in Messages, SendSharedInvalidMessage(p, m)
    PROVE  Inv'
<1> DEFINE q == IF maxMsgNum - minMsgNum >= MAXNUMMESSAGES THEN Expired ELSE Queue
<1>1. /\ q.min \in Nat /\ q.max \in Nat /\ q.next \in [Slots -> Int] /\ Ordered(q)
      /\ \A i \in Slots : q.next[i] = -1 <=> nextMsgNum[i] = -1
  <2>1. CASE q = Queue
    BY <2>1 DEF Inv, Types, Queue
  <2>2. CASE q = Expired
    BY <2>2, ExpiredFacts DEF Inv
  <2> QED
    BY <2>1, <2>2
<1>2. UNCHANGED <<procStruct, backends, local, notified>> /\ SIInsertDataEntry(m)
  BY DEF SendSharedInvalidMessage
<1>3. CASE q.max - q.min >= MAXNUMMESSAGES
  <2>1. SISetProcStateInvalid
    BY <1>2, <1>3 DEF SIInsertDataEntry
  <2>2. Active = {i \in Slots : nextMsgNum[i] # -1}
    BY LeastFacts DEF Inv
  <2>3. Types'
    BY <1>2, <2>1, Sizes DEF Inv, Types, SISetProcStateInvalid, backends, local
  <2>4. Ordered(Queue)'
    BY <2>1, <2>2, Sizes DEF Inv, Types, Ordered, Queue, SISetProcStateInvalid
  <2>5. Assigned'
    <3>1. nextMsgNum' = [i \in Slots |-> IF i \in Active THEN 0 ELSE nextMsgNum[i]]
      BY <2>1 DEF SISetProcStateInvalid
    <3>2. \A i \in Slots : nextMsgNum'[i] = -1 <=> nextMsgNum[i] = -1
      BY <2>2, <3>1
    <3> QED
      BY <1>2, <3>2, SameOwners
  <2>6. Calling'
    BY <1>2 DEF Inv, Calling, Running, backends, local
  <2> QED
    BY <2>3, <2>4, <2>5, <2>6 DEF Inv
<1>4. CASE ~(q.max - q.min >= MAXNUMMESSAGES)
  <2>1. Insert(q, m)
    BY <1>2, <1>4 DEF SIInsertDataEntry
  <2> HIDE DEF q
  <2>2. wakenChildren' = (wakenChildren \/ q.max - q.min = (MAXNUMMESSAGES * 70) \div 100)
    BY <2>1 DEF Insert
  <2>3. Types'
    <3>1. buffer' \in [0..(MAXNUMMESSAGES - 1) -> Messages \union {"none"}]
      BY <2>1 DEF Inv, Types, Insert
    <3> QED
      BY <1>1, <1>2, <2>1, <3>1 DEF Inv, Types, Insert, backends, local
  <2>4. Ordered(Queue)'
    <3>1. /\ minMsgNum' = q.min /\ maxMsgNum' = q.max + 1 /\ nextMsgNum' = q.next
      BY <2>1 DEF Insert
    <3>2. \A i \in Slots : q.next[i] \in Int
      BY <1>1
    <3> QED
      <4>1. q.min <= q.max + 1 /\ (q.max + 1) - q.min <= MAXNUMMESSAGES /\ q.min < MSGNUMWRAPAROUND
        BY <1>1, <1>4, Sizes DEF Ordered
      <4>2. \A i \in Slots : q.next[i] = -1 \/ (q.min <= q.next[i] /\ q.next[i] <= q.max + 1)
        BY <1>1, <3>2 DEF Ordered
      <4> QED
        BY <3>1, <4>1, <4>2 DEF Ordered, Queue
  <2>5. Assigned'
    BY <1>1, <1>2, <2>1, SameOwners DEF Insert
  <2>6. Calling'
    BY <1>2 DEF Inv, Calling, Running, backends, local
  <2> QED
    BY <2>3, <2>4, <2>5, <2>6 DEF Inv
<1> QED
  BY <1>3, <1>4

\* The actions of a receive call that leave the numbers alone.
LEMMA CallInv ==
    ASSUME Inv, NEW p \in Procs,
           ReceiveSharedInvalidMessages(p) \/ ProcessIncomingNotify(p) \/ Recurse(p)
    PROVE  Inv'
<1>1. /\ UNCHANGED <<counters, buffer, procState, backends, expiring, data>>
      /\ calls' = calls \/ calls' = [calls EXCEPT ![p] = <<FALSE>>]
                       \/ calls' = [calls EXCEPT ![p] = Append(@, FALSE)]
      /\ calls' = calls \/ Idle(p) \/ Recurse(p)
  BY DEF ReceiveSharedInvalidMessages, ProcessIncomingNotify, Recurse
<1>2. calls' = calls \/ Running(p)
  BY <1>1 DEF Recurse, Idle, Inv, Calling
<1>3. calls' \in [Procs -> Seq(BOOLEAN)] /\ (calls' = calls \/ calls'[p] # <<>>)
  <2>1. calls[p] \in Seq(BOOLEAN) /\ calls \in [Procs -> Seq(BOOLEAN)]
    BY DEF Inv, Types
  <2>2. Append(calls[p], FALSE) \in Seq(BOOLEAN) /\ Append(calls[p], FALSE) # <<>>
    <3>1. FALSE \in BOOLEAN
      OBVIOUS
    <3> QED
      BY <2>1, <3>1, AppendProperties, Zenon
  <2>3. <<FALSE>> \in Seq(BOOLEAN) /\ <<FALSE>> # <<>>
    <3>1. <<>> \in Seq(BOOLEAN) /\ Append(<<>>, FALSE) = <<FALSE>>
      OBVIOUS
    <3> QED
      BY <3>1, AppendProperties
  <2> QED
    BY <1>1, <2>1, <2>2, <2>3
<1>4. Types'
  BY <1>1, <1>3 DEF Inv, Types, counters, procState, backends
<1>5. Ordered(Queue)' /\ Assigned'
  BY <1>1 DEF Inv, Ordered, Queue, Assigned, counters, procState, backends
<1>6. Calling'
  BY <1>1, <1>2, <1>3 DEF Inv, Types, Calling, Running, backends
<1> QED
  BY <1>4, <1>5, <1>6 DEF Inv

\* A call that returns was the innermost one.
LEMMA LeaveFacts ==
    ASSUME Types, NEW p \in Procs, calls[p] # <<>>, Leave(p)
    PROVE  calls' \in [Procs -> Seq(BOOLEAN)] /\ \A r \in Procs \ {p} : calls'[r] = calls[r]
<1>1. calls \in [Procs -> Seq(BOOLEAN)] /\ Len(calls[p]) \in Nat /\ Len(calls[p]) >= 1
  BY DEF Types
<1>2. SubSeq(calls[p], 1, Len(calls[p]) - 1) \in Seq(BOOLEAN)
  BY <1>1
<1> QED
  BY <1>1, <1>2 DEF Leave

LEMMA ReadInv ==
    ASSUME Inv, NEW p \in Procs, SIGetDataEntry(p)
    PROVE  Inv'
<1> DEFINE me == MyBackendId[p]
<1>1. /\ calls[p] # <<>> /\ ~expiring[p] /\ UNCHANGED <<counters, buffer, procStruct, backends, signals>>
      /\ ReadReset(p) \/ ReadMessage(p) \/ ReadNothing(p)
  BY DEF SIGetDataEntry
<1>2. me \in Slots /\ nextMsgNum[me] # -1 /\ procStruct[me] = p
  BY <1>1, Sizes DEF Inv, Types, Calling, Assigned, Running
<1>3. /\ calls' \in [Procs -> Seq(BOOLEAN)]
      /\ \A r \in Procs \ {p} : calls'[r] = calls[r] /\ expiring'[r] = expiring[r]
      /\ expiring' \in [Procs -> BOOLEAN] /\ (expiring'[p] => calls'[p] # <<>>)
  <2>1. calls \in [Procs -> Seq(BOOLEAN)] /\ expiring \in [Procs -> BOOLEAN]
    BY DEF Inv, Types
  <2>2. CASE ReadReset(p) \/ ReadMessage(p)
    <3>1. calls' = [calls EXCEPT ![p][Len(calls[p])] = TRUE] /\ expiring' = expiring
      BY <2>2 DEF ReadReset, ReadMessage, Got
    <3>2. Len(calls[p]) \in 1..Len(calls[p]) /\ calls[p] \in Seq(BOOLEAN)
      BY <1>1, <2>1
    <3>3. [calls[p] EXCEPT ![Len(calls[p])] = TRUE] \in Seq(BOOLEAN)
      BY <3>2, ExceptSeq
    <3> QED
      BY <1>1, <2>1, <3>1, <3>3
  <2>3. CASE ReadNothing(p)
    <3>1. CASE Innermost(p)
      BY <1>1, <2>1, <2>3, <3>1 DEF ReadNothing
    <3>2. CASE ~Innermost(p)
      BY <1>1, <2>1, <2>3, <3>2, LeaveFacts DEF ReadNothing, Inv
    <3> QED
      BY <3>1, <3>2
  <2> QED
    BY <1>1, <2>2, <2>3
<1>4. /\ data' \in [Procs -> Messages \union {"none", "reset"}]
      /\ resetState' \in [Slots -> BOOLEAN]
      /\ \/ nextMsgNum' = nextMsgNum
         \/ nextMsgNum' = [nextMsgNum EXCEPT ![me] = maxMsgNum]
         \/ nextMsgNum[me] < maxMsgNum /\ nextMsgNum' = [nextMsgNum EXCEPT ![me] = @ + 1]
  <2>1. CASE ReadReset(p)
    BY <2>1 DEF ReadReset, Got, Inv, Types
  <2>2. CASE ReadMessage(p)
    <3>1. nextMsgNum[me] \in Int /\ nextMsgNum[me] % MAXNUMMESSAGES \in 0..(MAXNUMMESSAGES - 1)
      BY <1>2, Sizes DEF Inv, Types
    <3> QED
      BY <2>2, <3>1 DEF ReadMessage, Got, Inv, Types
  <2>3. CASE ReadNothing(p)
    BY <2>3 DEF ReadNothing, Inv, Types
  <2> QED
    BY <1>1, <2>1, <2>2, <2>3
<1>5. minMsgNum <= nextMsgNum[me] /\ nextMsgNum[me] <= maxMsgNum /\ nextMsgNum[me] \in Int
  BY <1>2 DEF Inv, Types, Ordered, Queue
<1> HIDE DEF me
<1>6. Types'
  BY <1>1, <1>2, <1>3, <1>4 DEF Inv, Types, counters, backends
<1>7. Ordered(Queue)'
  <2>1. minMsgNum \in Nat /\ maxMsgNum \in Nat /\ nextMsgNum \in [Slots -> Int]
    BY DEF Inv, Types
  <2>2. minMsgNum' = minMsgNum /\ maxMsgNum' = maxMsgNum
    BY <1>1 DEF counters
  <2>3. \A i \in Slots : nextMsgNum[i] = -1 \/ (minMsgNum <= nextMsgNum[i] /\ nextMsgNum[i] <= maxMsgNum)
    BY DEF Inv, Ordered, Queue
  <2>4. \A i \in Slots : nextMsgNum'[i] = -1 \/ (minMsgNum <= nextMsgNum'[i] /\ nextMsgNum'[i] <= maxMsgNum)
    BY <1>2, <1>4, <1>5, <2>1, <2>3
  <2> QED
    BY <2>2, <2>4 DEF Inv, Ordered, Queue
<1>8. Assigned'
  <2>1. minMsgNum \in Nat /\ maxMsgNum \in Nat /\ nextMsgNum \in [Slots -> Int]
    BY DEF Inv, Types
  <2>2. \A i \in Slots : nextMsgNum'[i] = -1 <=> nextMsgNum[i] = -1
    BY <1>2, <1>4, <1>5, <2>1
  <2> QED
    BY <1>1, <2>2, SameOwners
<1>9. Calling'
  BY <1>1, <1>3 DEF Inv, Calling, Running, backends
<1> QED
  BY <1>6, <1>7, <1>8, <1>9 DEF Inv

LEMMA ReleaseInv ==
    ASSUME Inv, NEW p \in Procs, SIDelExpiredDataEntries(p)
    PROVE  Inv'
<1>1. /\ minMsgNum' = Expired.min /\ maxMsgNum' = Expired.max /\ nextMsgNum' = Expired.next
      /\ expiring' = [expiring EXCEPT ![p] = FALSE] /\ Leave(p) /\ calls[p] # <<>>
      /\ UNCHANGED <<buffer, resetState, procStruct, backends, data, signals>>
  BY DEF SIDelExpiredDataEntries, Inv, Calling
<1>2. calls' \in [Procs -> Seq(BOOLEAN)] /\ \A r \in Procs \ {p} : calls'[r] = calls[r]
  BY <1>1, LeaveFacts DEF Inv
<1>3. /\ Expired.min \in Nat /\ Expired.max \in Nat /\ Expired.next \in [Slots -> Int]
      /\ Ordered(Expired) /\ \A i \in Slots : Expired.next[i] = -1 <=> nextMsgNum[i] = -1
  BY ExpiredFacts DEF Inv
<1>4. Types'
  BY <1>1, <1>2, <1>3 DEF Inv, Types, backends
<1>5. Ordered(Queue)'
  BY <1>1, <1>3 DEF Ordered, Queue
<1>6. Assigned'
  BY <1>1, <1>3, SameOwners
<1>7. Calling'
  BY <1>1, <1>2 DEF Inv, Types, Calling, Running, backends
<1> QED
  BY <1>4, <1>5, <1>6, <1>7 DEF Inv

LEMMA NextInv ==
    ASSUME Inv, [Next]_vars
    PROVE  Inv'
<1>1. CASE UNCHANGED vars
  BY <1>1 DEF Inv, Types, Ordered, Queue, Assigned, Calling, Running, vars, counters,
              procState, backends, local
<1>2. CASE WakenChildren
  <2>1. UNCHANGED <<counters, buffer, procState, backends, local>>
    BY <1>2 DEF WakenChildren
  <2> QED
    BY <2>1 DEF Inv, Types, Ordered, Queue, Assigned, Calling, Running, counters,
                procState, backends, local
<1>3. ASSUME NEW p \in Procs,
             \/ SIBackendInit(p) \/ CleanupInvalidationState(p)
             \/ \E m \in Messages : SendSharedInvalidMessage(p, m)
             \/ ReceiveSharedInvalidMessages(p) \/ ProcessIncomingNotify(p)
             \/ Recurse(p) \/ SIGetDataEntry(p) \/ SIDelExpiredDataEntries(p)
      PROVE  Inv'
  BY <1>3, StartInv, ExitInv, SendInv, CallInv, ReadInv, ReleaseInv
<1> QED
  BY <1>1, <1>2, <1>3 DEF Next, Receive

\* The numbers of the messages stay below the wraparound limit and one buffer,
\* for ever: SIDelExpiredDataEntries lowers them in time.
THEOREM MessageNumbers == Spec => []NumbersBounded
<1>1. Inv => NumbersBounded
  BY Sizes DEF Inv, Types, Ordered, Queue, NumbersBounded
<1> QED
  BY <1>1, InitInv, NextInv, PTL DEF Spec
-----------------------------------------------------------------------------
(***************************************************************************)
(* Remainders.                                                             *)
(***************************************************************************)
LEMMA MultipleLarge ==
    ASSUME NEW d \in Nat \ {0}, NEW x \in Int, x >= 1
    PROVE  d * x >= d
<1>1. d * (x - 1) >= 0 /\ d * x = d * (x - 1) + d
  OBVIOUS
<1> QED
  BY <1>1

LEMMA Division ==
    ASSUME NEW m \in Int, NEW d \in Nat \ {0}
    PROVE  m % d \in 0..(d - 1) /\ (m \div d) \in Int /\ m = d * (m \div d) + (m % d)
OBVIOUS

LEMMA DivisionUnique ==
    ASSUME NEW d \in Nat \ {0}, NEW q1 \in Int, NEW q2 \in Int,
           NEW r1 \in 0..(d - 1), NEW r2 \in 0..(d - 1), d * q1 + r1 = d * q2 + r2
    PROVE  q1 = q2 /\ r1 = r2
<1>1. d * (q1 - q2) = d * q1 - d * q2 /\ d * (q2 - q1) = d * q2 - d * q1
  OBVIOUS
<1>2. d * (q1 - q2) = r2 - r1 /\ d * (q2 - q1) = r1 - r2
  BY <1>1
<1>3. ~(q1 - q2 >= 1) /\ ~(q2 - q1 >= 1)
  BY <1>2, MultipleLarge
<1>4. q1 = q2
  BY <1>3
<1> QED
  BY <1>4

\* A multiple of the divisor does not change the remainder.
LEMMA ModShift ==
    ASSUME NEW m \in Int, NEW k \in Int, NEW d \in Nat \ {0}
    PROVE  (m - k * d) % d = m % d
<1> DEFINE a == m - k * d
<1>1. a \in Int
  OBVIOUS
<1>2. a % d \in 0..(d - 1) /\ a \div d \in Int /\ a = d * (a \div d) + (a % d)
  BY <1>1, Division
<1>3. m % d \in 0..(d - 1) /\ m \div d \in Int /\ m = d * (m \div d) + (m % d)
  BY Division
<1> HIDE DEF a
<1>4. a = m - k * d
  BY DEF a
<1> DEFINE qa == a \div d
           qm == m \div d
           ra == a % d
           rm == m % d
<1>5. /\ a = d * qa + ra /\ m = d * qm + rm /\ qa \in Int /\ qm \in Int
      /\ ra \in 0..(d - 1) /\ rm \in 0..(d - 1)
  BY <1>2, <1>3
<1> HIDE DEF qa, qm, ra, rm
<1>6. d * (qa + k) = d * qa + k * d
  BY <1>5
<1>7. d * (qa + k) + ra = d * qm + rm
  BY <1>4, <1>5, <1>6
<1>8. ra = rm
  BY <1>5, <1>7, DivisionUnique
<1> QED
  BY <1>8 DEF ra, rm, a

\* Numbers that are less than the divisor apart have different remainders.
LEMMA ModApart ==
    ASSUME NEW m \in Int, NEW n \in Int, NEW d \in Nat \ {0}, m < n, n < m + d
    PROVE  m % d # n % d
<1> SUFFICES ASSUME m % d = n % d PROVE FALSE
  OBVIOUS
<1>1. m % d \in 0..(d - 1) /\ m \div d \in Int /\ m = d * (m \div d) + (m % d)
  BY Division
<1>2. n % d \in 0..(d - 1) /\ n \div d \in Int /\ n = d * (n \div d) + (n % d)
  BY Division
<1> DEFINE qm == m \div d
           qn == n \div d
           r == m % d
<1>3. m = d * qm + r /\ n = d * qn + r /\ qm \in Int /\ qn \in Int /\ r \in 0..(d - 1)
  BY <1>1, <1>2
<1> HIDE DEF qm, qn, r
<1>4. d * (qn - qm) = d * qn - d * qm /\ d * (qm - qn) = d * qm - d * qn
  BY <1>3
<1>5. d * (qn - qm) = n - m
  BY <1>3, <1>4
<1>6. ~(qn - qm >= 1)
  BY <1>3, <1>5, MultipleLarge
<1>7. ~(qm - qn >= 1)
  BY <1>3, <1>4, MultipleLarge
<1>8. qm = qn
  BY <1>3, <1>6, <1>7
<1> QED
  BY <1>3, <1>8
-----------------------------------------------------------------------------
(***************************************************************************)
(* The part of the conceptual array from n up to max, in the buffer b.     *)
(***************************************************************************)
Window(b, n, max) == [j \in 1..(max - n) |-> b[(n + j - 1) % MAXNUMMESSAGES]]

Buffers == [0..(MAXNUMMESSAGES - 1) -> Messages \union {"none"}]

LEMMA WindowSeq ==
    ASSUME NEW b \in Buffers, NEW n \in Int, NEW max \in Int, n <= max
    PROVE  /\ Window(b, n, max) \in Seq(Messages \union {"none"})
           /\ Len(Window(b, n, max)) = max - n
           /\ \A j \in 1..(max - n) : Window(b, n, max)[j] = b[(n + j - 1) % MAXNUMMESSAGES]
<1>1. MAXNUMMESSAGES \in Nat \ {0} /\ max - n \in Nat
  BY Sizes
<1>2. \A j \in 1..(max - n) : (n + j - 1) % MAXNUMMESSAGES \in 0..(MAXNUMMESSAGES - 1)
  BY <1>1, Division
<1>3. \A j \in 1..(max - n) : b[(n + j - 1) % MAXNUMMESSAGES] \in Messages \union {"none"}
  BY <1>2 DEF Buffers
<1> QED
  BY <1>1, <1>3 DEF Window

\* Messages are neither the sign of a reset nor that of an absent backend.
LEMMA WindowOrdinary ==
    ASSUME NEW b \in Buffers, NEW n \in Int, NEW max \in Int, n <= max
    PROVE  Window(b, n, max) # <<"out">> /\ Window(b, n, max) # <<"reset">>
<1> DEFINE W == Window(b, n, max)
<1>1. W \in Seq(Messages \union {"none"})
  BY WindowSeq
<1>2. Len(W) = 1 => W[1] \in Messages \union {"none"}
  BY <1>1
<1>3. Len(<<"out">>) = 1 /\ <<"out">>[1] = "out" /\ Len(<<"reset">>) = 1 /\ <<"reset">>[1] = "reset"
  OBVIOUS
<1>4. "out" \notin Messages \union {"none"} /\ "reset" \notin Messages \union {"none"}
  BY MessagesOrdinary
<1> QED
  BY <1>2, <1>3, <1>4

LEMMA WindowEmpty ==
    ASSUME NEW b \in Buffers, NEW n \in Int
    PROVE  Window(b, n, n) = <<>>
<1>1. Window(b, n, n) \in Seq(Messages \union {"none"}) /\ Len(Window(b, n, n)) = 0
  BY WindowSeq
<1> QED
  BY <1>1

LEMMA WindowShift ==
    ASSUME NEW b \in Buffers, NEW n \in Int, NEW max \in Int, n <= max, NEW k \in Int
    PROVE  Window(b, n - k * MAXNUMMESSAGES, max - k * MAXNUMMESSAGES) = Window(b, n, max)
<1>1. MAXNUMMESSAGES \in Nat \ {0}
  BY Sizes
<1> DEFINE c == k * MAXNUMMESSAGES
<1>2. c \in Int /\ \A j \in 1..(max - n) : (n + j - 1 - c) % MAXNUMMESSAGES = (n + j - 1) % MAXNUMMESSAGES
  <2>1. \A i \in Int : (i - c) % MAXNUMMESSAGES = i % MAXNUMMESSAGES
    BY <1>1, ModShift
  <2>2. c \in Int /\ \A j \in 1..(max - n) : n + j - 1 \in Int
    BY <1>1
  <2> HIDE DEF c
  <2> QED
    BY <2>1, <2>2
<1> HIDE DEF c
<1>3. (max - c) - (n - c) = max - n
  BY <1>2
<1>4. \A j \in 1..(max - n) : (n - c) + j - 1 = n + j - 1 - c
  BY <1>2
<1>5. Window(b, n - c, max - c) = Window(b, n, max)
  BY <1>2, <1>3, <1>4 DEF Window
<1> QED
  BY <1>5 DEF c

LEMMA WindowAppend ==
    ASSUME NEW b \in Buffers, NEW n \in Int, NEW max \in Int, n <= max,
           max - n < MAXNUMMESSAGES, NEW m \in Messages
    PROVE  Window([b EXCEPT ![max % MAXNUMMESSAGES] = m], n, max + 1) = Append(Window(b, n, max), m)
<1> DEFINE c == [b EXCEPT ![max % MAXNUMMESSAGES] = m]
           V == Messages \union {"none"}
           W == Window(b, n, max)
           X == Window(c, n, max + 1)
<1>1. MAXNUMMESSAGES \in Nat \ {0} /\ c \in Buffers
  BY Sizes DEF Buffers
<1>2. max % MAXNUMMESSAGES \in 0..(MAXNUMMESSAGES - 1)
  BY <1>1, Division
<1>3. c[max % MAXNUMMESSAGES] = m /\ \A x \in 0..(MAXNUMMESSAGES - 1) \ {max % MAXNUMMESSAGES} : c[x] = b[x]
  BY <1>2 DEF Buffers
<1> HIDE DEF c
<1>4. W \in Seq(V) /\ Len(W) = max - n /\ \A j \in 1..(max - n) : W[j] = b[(n + j - 1) % MAXNUMMESSAGES]
  BY WindowSeq
<1>5. X \in Seq(V) /\ Len(X) = max + 1 - n
      /\ \A j \in 1..(max + 1 - n) : X[j] = c[(n + j - 1) % MAXNUMMESSAGES]
  <2>1. max + 1 \in Int /\ n <= max + 1
    OBVIOUS
  <2> QED
    <3> HIDE DEF V
    <3>1. /\ Window(c, n, max + 1) \in Seq(Messages \union {"none"})
          /\ Len(Window(c, n, max + 1)) = (max + 1) - n
          /\ \A j \in 1..((max + 1) - n) : Window(c, n, max + 1)[j] = c[(n + j - 1) % MAXNUMMESSAGES]
      BY <1>1, <2>1, WindowSeq
    <3> QED
      BY <3>1 DEF V
<1> HIDE DEF W, X
<1>6. /\ Append(W, m) \in Seq(V) /\ Len(Append(W, m)) = max + 1 - n
      /\ \A j \in 1..(max - n) : Append(W, m)[j] = W[j]
      /\ Append(W, m)[max + 1 - n] = m
  BY <1>4, AppendProperties
<1>7. ASSUME NEW j \in 1..(max - n)
      PROVE  X[j] = W[j]
  <2>1. n + j - 1 \in Int /\ n + j - 1 < max /\ max < n + j - 1 + MAXNUMMESSAGES
    BY <1>1
  <2>2. (n + j - 1) % MAXNUMMESSAGES # max % MAXNUMMESSAGES
    BY <1>1, <2>1, ModApart
  <2>3. (n + j - 1) % MAXNUMMESSAGES \in 0..(MAXNUMMESSAGES - 1)
    BY <1>1, <2>1, Division
  <2> QED
    <3>1. j \in 1..(max + 1 - n)
      OBVIOUS
    <3>2. X[j] = c[(n + j - 1) % MAXNUMMESSAGES] /\ W[j] = b[(n + j - 1) % MAXNUMMESSAGES]
      BY <1>4, <1>5, <3>1
    <3>3. c[(n + j - 1) % MAXNUMMESSAGES] = b[(n + j - 1) % MAXNUMMESSAGES]
      BY <1>3, <2>2, <2>3, Zenon
    <3> QED
      BY <3>2, <3>3
<1>8. X[max + 1 - n] = m
  <2>1. n + (max + 1 - n) - 1 = max /\ max + 1 - n \in 1..(max + 1 - n)
    OBVIOUS
  <2> QED
    BY <1>3, <1>5, <2>1
<1>9. \A j \in 1..(max + 1 - n) : j \in 1..(max - n) \/ j = max + 1 - n
  OBVIOUS
<1>10. \A j \in 1..Len(X) : X[j] = Append(W, m)[j]
  BY <1>5, <1>6, <1>7, <1>8, <1>9
<1>11. X = Append(W, m)
  BY <1>5, <1>6, <1>10, SeqEqual, Zenon
<1> QED
  BY <1>11 DEF X, W, c

LEMMA WindowHead ==
    ASSUME NEW b \in Buffers, NEW n \in Int, NEW max \in Int, n < max
    PROVE  /\ Window(b, n, max) # <<>>
           /\ Head(Window(b, n, max)) = b[n % MAXNUMMESSAGES]
           /\ Tail(Window(b, n, max)) = Window(b, n + 1, max)
<1> DEFINE V == Messages \union {"none"}
           W == Window(b, n, max)
           X == Window(b, n + 1, max)
<1>1. W \in Seq(V) /\ Len(W) = max - n /\ \A j \in 1..(max - n) : W[j] = b[(n + j - 1) % MAXNUMMESSAGES]
  <2>1. n <= max
    OBVIOUS
  <2>2. /\ Window(b, n, max) \in Seq(Messages \union {"none"})
        /\ Len(Window(b, n, max)) = max - n
        /\ \A j \in 1..(max - n) : Window(b, n, max)[j] = b[(n + j - 1) % MAXNUMMESSAGES]
    BY <2>1, WindowSeq, Zenon
  <2> QED
    BY <2>2, Zenon
<1>2. X \in Seq(V) /\ Len(X) = max - n - 1
      /\ \A j \in 1..(max - n - 1) : X[j] = b[(n + j) % MAXNUMMESSAGES]
  <2>1. n + 1 \in Int /\ n + 1 <= max /\ max - (n + 1) = max - n - 1
    OBVIOUS
  <2>2. \A j \in 1..(max - n - 1) : (n + 1) + j - 1 = n + j
    OBVIOUS
  <2>3. PICK k : k = n + 1
    OBVIOUS
  <2>4. k \in Int /\ k <= max
    BY <2>1, <2>3
  <2>5. /\ Window(b, k, max) \in Seq(Messages \union {"none"})
        /\ Len(Window(b, k, max)) = max - k
        /\ \A j \in 1..(max - k) : Window(b, k, max)[j] = b[(k + j - 1) % MAXNUMMESSAGES]
    BY <2>4, WindowSeq, Zenon
  <2>6. \A j \in 1..(max - n - 1) : X[j] = b[((n + 1) + j - 1) % MAXNUMMESSAGES]
    BY <2>1, <2>3, <2>5
  <2>7. X \in Seq(V) /\ Len(X) = max - n - 1
    BY <2>1, <2>3, <2>5
  <2> QED
    BY <2>2, <2>6, <2>7
<1> HIDE DEF W, X
<1>3. W # <<>> /\ Head(W) = W[1] /\ n + 1 - 1 = n
  BY <1>1
<1>4. Tail(W) \in Seq(V) /\ Len(Tail(W)) = max - n - 1
      /\ \A j \in 1..(max - n - 1) : Tail(W)[j] = W[j + 1]
  BY <1>1
<1>5. \A j \in 1..Len(X) : Tail(W)[j] = X[j]
  <2>1. \A j \in 1..(max - n - 1) : j + 1 \in 1..(max - n) /\ n + (j + 1) - 1 = n + j
    OBVIOUS
  <2> QED
    BY <1>1, <1>2, <1>4, <2>1
<1>6. Tail(W) = X
  BY <1>2, <1>4, <1>5, SeqEqual, Zenon
<1> QED
  BY <1>1, <1>3, <1>6 DEF W, X
-----------------------------------------------------------------------------
(***************************************************************************)
(* Every step of the circular buffer is a step of the ordered broadcast.   *)
(***************************************************************************)
P == [p \in Procs |-> Pending(p)]

LEMMA PendingIs ==
    ASSUME NEW p \in Procs
    PROVE  /\ Pending(p) = IF MyBackendId[p] = 0 THEN <<"out">>
                           ELSE IF resetState[MyBackendId[p]] THEN <<"reset">>
                           ELSE Window(buffer, nextMsgNum[MyBackendId[p]], maxMsgNum)
           /\ Pending(p)' = IF MyBackendId'[p] = 0 THEN <<"out">>
                            ELSE IF resetState'[MyBackendId'[p]] THEN <<"reset">>
                            ELSE Window(buffer', nextMsgNum'[MyBackendId'[p]], maxMsgNum')
BY DEF Pending, Running, Unread, Window

LEMMA PendingFacts ==
    ASSUME Inv, NEW p \in Procs
    PROVE  /\ buffer \in Buffers /\ minMsgNum \in Nat /\ maxMsgNum \in Nat
           /\ MyBackendId[p] # 0 =>
                /\ MyBackendId[p] \in Slots /\ nextMsgNum[MyBackendId[p]] \in Int
                /\ nextMsgNum[MyBackendId[p]] # -1
                /\ minMsgNum <= nextMsgNum[MyBackendId[p]]
                /\ nextMsgNum[MyBackendId[p]] <= maxMsgNum
           /\ MyBackendId[p] # 0 <=> Pending(p) # <<"out">>
           /\ \A r \in Procs : MyBackendId[p] # 0 /\ MyBackendId[r] = MyBackendId[p] => r = p
<1>1. buffer \in Buffers /\ minMsgNum \in Nat /\ maxMsgNum \in Nat
  BY DEF Inv, Types, Buffers
<1>2. MyBackendId[p] # 0 =>
        /\ MyBackendId[p] \in Slots /\ nextMsgNum[MyBackendId[p]] \in Int
        /\ nextMsgNum[MyBackendId[p]] # -1
        /\ minMsgNum <= nextMsgNum[MyBackendId[p]]
        /\ nextMsgNum[MyBackendId[p]] <= maxMsgNum
  BY Sizes DEF Inv, Types, Assigned, Ordered, Queue
<1>3. MyBackendId[p] # 0 <=> Pending(p) # <<"out">>
  <2>1. MyBackendId[p] # 0 => Window(buffer, nextMsgNum[MyBackendId[p]], maxMsgNum) # <<"out">>
    BY <1>1, <1>2, WindowOrdinary
  <2>2. <<"reset">> # <<"out">>
    OBVIOUS
  <2> QED
    BY <2>1, <2>2, PendingIs
<1>4. \A r \in Procs : MyBackendId[p] # 0 /\ MyBackendId[r] = MyBackendId[p] => r = p
  BY DEF Inv, Assigned
<1> QED
  BY <1>1, <1>2, <1>3, <1>4

\* A step of one backend that leaves what the others have to read alone.
LEMMA OnlyOne ==
    ASSUME Inv, NEW p \in Procs, buffer' = buffer, maxMsgNum' = maxMsgNum,
           NEW i \in Slots, i = MyBackendId[p] \/ nextMsgNum[i] = -1,
           \A n \in Slots \ {i} : nextMsgNum'[n] = nextMsgNum[n] /\ resetState'[n] = resetState[n],
           \A r \in Procs \ {p} : MyBackendId'[r] = MyBackendId[r]
    PROVE  \A r \in Procs \ {p} : Pending(r)' = Pending(r)
<1> TAKE r \in Procs \ {p}
<1>1. CASE MyBackendId[r] = 0
  BY <1>1, PendingIs
<1>2. CASE MyBackendId[r] # 0
  <2>1. MyBackendId[r] \in Slots \ {i}
    BY <1>2, PendingFacts
  <2> QED
    BY <1>2, <2>1, PendingIs
<1> QED
  BY <1>1, <1>2

LEMMA StartRefines ==
    ASSUME Inv, NEW p \in Procs, SIBackendInit(p)
    PROVE  Broadcast!Join(p)
<1>1. PICK i \in FreeSlots :
         /\ MyBackendId' = [MyBackendId EXCEPT ![p] = i]
         /\ nextMsgNum' = [nextMsgNum EXCEPT ![i] = maxMsgNum]
         /\ resetState' = [resetState EXCEPT ![i] = FALSE]
  BY DEF SIBackendInit
<1>2. i \in Slots /\ nextMsgNum[i] = -1 /\ MyBackendId[p] = 0 /\ i # 0
  BY FreeFacts, Sizes DEF SIBackendInit, Running
<1>3. buffer' = buffer /\ maxMsgNum' = maxMsgNum /\ data' = data
  BY DEF SIBackendInit, counters, local
<1>4. /\ MyBackendId \in [Procs -> 0..MaxBackends] /\ nextMsgNum \in [Slots -> Int]
      /\ resetState \in [Slots -> BOOLEAN]
  BY DEF Inv, Types
<1>5. \A r \in Procs \ {p} : Pending(r)' = Pending(r)
  BY <1>1, <1>2, <1>3, <1>4, OnlyOne
<1>6. Pending(p) = <<"out">> /\ Pending(p)' = <<>>
  <2>1. MyBackendId'[p] = i /\ nextMsgNum'[i] = maxMsgNum /\ resetState'[i] = FALSE
    BY <1>1, <1>2, <1>4
  <2>2. Window(buffer, maxMsgNum, maxMsgNum) = <<>>
    BY PendingFacts, WindowEmpty
  <2> QED
    BY <1>2, <1>3, <2>1, <2>2, PendingIs
<1>7. P' = [P EXCEPT ![p] = <<>>]
  BY <1>5, <1>6 DEF P
<1> QED
  BY <1>3, <1>6, <1>7 DEF Broadcast!Join, Broadcast!Out, P

LEMMA ExitRefines ==
    ASSUME Inv, NEW p \in Procs, CleanupInvalidationState(p)
    PROVE  Broadcast!Leave(p)
<1> DEFINE me == MyBackendId[p]
<1>1. /\ nextMsgNum' = [nextMsgNum EXCEPT ![me] = -1]
      /\ resetState' = [resetState EXCEPT ![me] = FALSE]
      /\ MyBackendId' = [MyBackendId EXCEPT ![p] = 0]
      /\ buffer' = buffer /\ maxMsgNum' = maxMsgNum /\ data' = data /\ me # 0
  BY DEF CleanupInvalidationState, counters, Running
<1>2. /\ MyBackendId \in [Procs -> 0..MaxBackends] /\ nextMsgNum \in [Slots -> Int]
      /\ resetState \in [Slots -> BOOLEAN] /\ me \in Slots
  BY <1>1, PendingFacts DEF Inv, Types
<1>3. \A r \in Procs \ {p} : Pending(r)' = Pending(r)
  BY <1>1, <1>2, OnlyOne
<1>4. Pending(p) # <<"out">> /\ Pending(p)' = <<"out">>
  BY <1>1, <1>2, PendingFacts, PendingIs
<1>5. P' = [P EXCEPT ![p] = <<"out">>]
  BY <1>3, <1>4 DEF P
<1> QED
  BY <1>1, <1>4, <1>5 DEF Broadcast!Leave, Broadcast!Running, Broadcast!Out, P

LEMMA ReadRefines ==
    ASSUME Inv, NEW p \in Procs, SIGetDataEntry(p)
    PROVE  Broadcast!Receive(p) \/ (P' = P /\ data' = data)
<1> DEFINE me == MyBackendId[p]
<1>1. /\ calls[p] # <<>> /\ buffer' = buffer /\ maxMsgNum' = maxMsgNum /\ MyBackendId' = MyBackendId
      /\ ReadReset(p) \/ ReadMessage(p) \/ ReadNothing(p)
  BY DEF SIGetDataEntry, counters, backends
<1>2. /\ nextMsgNum \in [Slots -> Int] /\ resetState \in [Slots -> BOOLEAN]
      /\ data \in [Procs -> Messages \union {"none", "reset"}]
      /\ me # 0 /\ me \in Slots /\ nextMsgNum[me] <= maxMsgNum /\ maxMsgNum \in Nat /\ buffer \in Buffers
      /\ nextMsgNum[me] \in Int
  BY <1>1, PendingFacts DEF Inv, Types, Calling, Running
<1>3. Pending(p) # <<"out">>
  BY <1>2, PendingFacts
<1>4. CASE ReadReset(p)
  <2>1. /\ resetState[me] /\ resetState' = [resetState EXCEPT ![me] = FALSE]
        /\ nextMsgNum' = [nextMsgNum EXCEPT ![me] = maxMsgNum]
        /\ data' = [data EXCEPT ![p] = "reset"]
    BY <1>4 DEF ReadReset, Got
  <2>2. \A r \in Procs \ {p} : Pending(r)' = Pending(r)
    BY <1>1, <1>2, <2>1, OnlyOne
  <2>3. Pending(p) = <<"reset">> /\ Pending(p)' = <<>>
    BY <1>1, <1>2, <2>1, PendingIs, WindowEmpty
  <2>4. Head(<<"reset">>) = "reset" /\ Tail(<<"reset">>) = <<>> /\ <<"reset">> # <<>>
    OBVIOUS
  <2>5. P' = [P EXCEPT ![p] = Tail(@)] /\ P[p] = <<"reset">>
    BY <2>2, <2>3, <2>4 DEF P
  <2> QED
    BY <1>3, <2>1, <2>3, <2>4, <2>5 DEF Broadcast!Receive, Broadcast!Running, Broadcast!Out, P
<1>5. CASE ReadMessage(p)
  <2>1. /\ ~resetState[me] /\ resetState' = resetState /\ nextMsgNum[me] < maxMsgNum
        /\ nextMsgNum' = [nextMsgNum EXCEPT ![me] = @ + 1]
        /\ data' = [data EXCEPT ![p] = buffer[nextMsgNum[me] % MAXNUMMESSAGES]]
    BY <1>5 DEF ReadMessage, Got
  <2>2. \A r \in Procs \ {p} : Pending(r)' = Pending(r)
    BY <1>1, <1>2, <2>1, OnlyOne
  <2>3. /\ Pending(p) = Window(buffer, nextMsgNum[me], maxMsgNum)
        /\ Pending(p)' = Window(buffer, nextMsgNum[me] + 1, maxMsgNum)
    BY <1>1, <1>2, <2>1, PendingIs
  <2>4. /\ Pending(p) # <<>> /\ Head(Pending(p)) = buffer[nextMsgNum[me] % MAXNUMMESSAGES]
        /\ Tail(Pending(p)) = Pending(p)'
    BY <1>2, <2>1, <2>3, WindowHead
  <2>5. P' = [P EXCEPT ![p] = Tail(@)] /\ P[p] = Pending(p)
    BY <2>2, <2>4 DEF P
  <2> QED
    BY <1>3, <2>1, <2>4, <2>5 DEF Broadcast!Receive, Broadcast!Running, Broadcast!Out, P
<1>6. CASE ReadNothing(p)
  <2>1. nextMsgNum' = nextMsgNum /\ resetState' = resetState /\ data' = data
    BY <1>6 DEF ReadNothing
  <2>2. \A r \in Procs : Pending(r)' = Pending(r)
    BY <1>1, <2>1, PendingIs
  <2> QED
    BY <2>1, <2>2 DEF P
<1> QED
  BY <1>1, <1>4, <1>5, <1>6

LEMMA ReleaseRefines ==
    ASSUME Inv, NEW p \in Procs, SIDelExpiredDataEntries(p)
    PROVE  P' = P /\ data' = data
<1>1. /\ maxMsgNum' = Expired.max /\ nextMsgNum' = Expired.next
      /\ buffer' = buffer /\ resetState' = resetState /\ MyBackendId' = MyBackendId /\ data' = data
  BY DEF SIDelExpiredDataEntries, backends
<1>2. PICK k \in Int :
        /\ Expired.max = maxMsgNum - k * MAXNUMMESSAGES
        /\ \A i \in Slots : Expired.next[i] =
              IF nextMsgNum[i] # -1 THEN nextMsgNum[i] - k * MAXNUMMESSAGES ELSE -1
  BY ExpiredFacts DEF Inv
<1>3. ASSUME NEW r \in Procs
      PROVE  Pending(r)' = Pending(r)
  <2>1. CASE MyBackendId[r] = 0
    BY <1>1, <2>1, PendingIs
  <2>2. CASE MyBackendId[r] # 0
    <3>1. nextMsgNum'[MyBackendId[r]] = nextMsgNum[MyBackendId[r]] - k * MAXNUMMESSAGES
      BY <1>1, <1>2, <2>2, PendingFacts
    <3>2. Window(buffer, nextMsgNum[MyBackendId[r]] - k * MAXNUMMESSAGES, maxMsgNum - k * MAXNUMMESSAGES)
          = Window(buffer, nextMsgNum[MyBackendId[r]], maxMsgNum)
      BY <2>2, PendingFacts, WindowShift
    <3> QED
      BY <1>1, <1>2, <3>1, <3>2, PendingIs
  <2> QED
    BY <2>1, <2>2
<1> QED
  BY <1>1, <1>3 DEF P

LEMMA SendRefines ==
    ASSUME Inv, NEW p \in Procs, NEW m \in Messages, SendSharedInvalidMessage(p, m)
    PROVE  Broadcast!Send(m) \/ Broadcast!Overflow
<1> DEFINE q == IF maxMsgNum - minMsgNum >= MAXNUMMESSAGES THEN Expired ELSE Queue
<1>1. /\ MyBackendId' = MyBackendId /\ data' = data /\ SIInsertDataEntry(m)
      /\ nextMsgNum \in [Slots -> Int] /\ resetState \in [Slots -> BOOLEAN]
  BY DEF SendSharedInvalidMessage, backends, local, Inv, Types
<1>2. CASE q.max - q.min >= MAXNUMMESSAGES
  <2>1. /\ nextMsgNum' = [i \in Slots |-> IF i \in Active THEN 0 ELSE nextMsgNum[i]]
        /\ resetState' = [i \in Slots |-> i \in Active \/ resetState[i]]
    BY <1>1, <1>2 DEF SIInsertDataEntry, SISetProcStateInvalid
  <2>2. Active = {i \in Slots : nextMsgNum[i] # -1}
    BY LeastFacts DEF Inv
  <2>3. \A r \in Procs : Pending(r)' = IF Pending(r) # <<"out">> THEN <<"reset">> ELSE <<"out">>
    BY <1>1, <2>1, <2>2, PendingFacts, PendingIs
  <2>4. q = Expired
    BY <1>2 DEF Queue
  <2>5. PICK i \in Slots : nextMsgNum[i] # -1 /\ maxMsgNum - nextMsgNum[i] = MAXNUMMESSAGES
    BY <1>2, <2>4, ExpiredFacts DEF Inv
  <2>6. procStruct[i] \in Procs /\ MyBackendId[procStruct[i]] = i /\ i # 0
    BY <2>5, Sizes DEF Inv, Assigned
  <2>7. Pending(procStruct[i]) = <<"reset">> \/ Len(Pending(procStruct[i])) = MAXNUMMESSAGES
    <3>1. PICK r \in Procs : r = procStruct[i] /\ MyBackendId[r] = i
      BY <2>6
    <3>2. buffer \in Buffers /\ maxMsgNum \in Int /\ nextMsgNum[i] \in Int /\ nextMsgNum[i] <= maxMsgNum
      BY <2>6, <3>1, PendingFacts
    <3>3. Len(Window(buffer, nextMsgNum[i], maxMsgNum)) = maxMsgNum - nextMsgNum[i]
      BY <3>2, WindowSeq, Zenon
    <3>4. Pending(r) = IF resetState[i] THEN <<"reset">> ELSE Window(buffer, nextMsgNum[i], maxMsgNum)
      BY <2>6, <3>1, PendingIs, Zenon
    <3> QED
      BY <2>5, <3>1, <3>3, <3>4
  <2>8. P' = [r \in Procs |-> IF P[r] # <<"out">> THEN <<"reset">> ELSE <<"out">>]
    BY <2>3 DEF P
  <2>9. \E r \in Procs : P[r] = <<"reset">> \/ Len(P[r]) = MAXNUMMESSAGES
    BY <2>6, <2>7 DEF P
  <2> QED
    BY <1>1, <2>8, <2>9 DEF Broadcast!Overflow, Broadcast!Running, Broadcast!Out, Broadcast!Reset, P
<1>3. CASE ~(q.max - q.min >= MAXNUMMESSAGES)
  <2>1. /\ maxMsgNum' = q.max + 1 /\ nextMsgNum' = q.next /\ resetState' = resetState
        /\ buffer' = [buffer EXCEPT ![q.max % MAXNUMMESSAGES] = m]
    BY <1>1, <1>3 DEF SIInsertDataEntry, Insert
  <2>2. PICK k \in Int :
          /\ q.max = maxMsgNum - k * MAXNUMMESSAGES
          /\ \A i \in Slots : q.next[i] =
                IF nextMsgNum[i] # -1 THEN nextMsgNum[i] - k * MAXNUMMESSAGES ELSE -1
    <3>1. CASE q = Expired
      BY <3>1, ExpiredFacts DEF Inv
    <3>2. CASE q = Queue
      <4>1. 0 \in Int /\ 0 * MAXNUMMESSAGES = 0 /\ maxMsgNum \in Nat
        BY Sizes DEF Inv, Types
      <4> QED
        BY <1>1, <3>2, <4>1 DEF Queue
    <3> QED
      BY <3>1, <3>2
  <2>3. /\ q.min \in Nat /\ q.max \in Nat /\ q.next \in [Slots -> Int]
        /\ Ordered(q) /\ \A i \in Slots : q.next[i] = -1 <=> nextMsgNum[i] = -1
    <3>1. CASE q = Expired
      BY <3>1, ExpiredFacts DEF Inv
    <3>2. CASE q = Queue
      BY <3>2 DEF Inv, Types, Queue
    <3> QED
      BY <3>1, <3>2
  <2> HIDE DEF q
  <2>4. ASSUME NEW r \in Procs
        PROVE  Pending(r)' = IF Pending(r) \in {<<"out">>, <<"reset">>} THEN Pending(r)
                             ELSE Append(Pending(r), m)
    <3> DEFINE n == MyBackendId[r]
    <3>1. CASE n = 0 \/ resetState[n]
      BY <1>1, <2>1, <3>1, PendingIs
    <3>2. CASE n # 0 /\ ~resetState[n]
      <4>1. /\ n \in Slots /\ nextMsgNum[n] # -1 /\ nextMsgNum[n] \in Int /\ maxMsgNum \in Nat
            /\ nextMsgNum[n] <= maxMsgNum /\ buffer \in Buffers
        BY <3>2, PendingFacts
      <4>2. /\ q.next[n] \in Int /\ q.next[n] <= q.max /\ q.max \in Int
            /\ q.max - q.next[n] < MAXNUMMESSAGES /\ q.next[n] = nextMsgNum[n] - k * MAXNUMMESSAGES
        <5>1. q.next[n] = nextMsgNum[n] - k * MAXNUMMESSAGES /\ q.next[n] # -1 /\ q.next[n] \in Int
          BY <2>2, <2>3, <4>1
        <5>2. q.min <= q.next[n] /\ q.next[n] <= q.max
          BY <2>3, <4>1, <5>1 DEF Ordered
        <5>3. q.max - q.next[n] < MAXNUMMESSAGES
          <6> DEFINE x == q.next[n]
          <6>1. x \in Int /\ q.min <= x
            BY <5>1, <5>2
          <6> HIDE DEF x
          <6>2. q.max - x < MAXNUMMESSAGES
            BY <1>3, <2>3, <6>1, Sizes
          <6> QED
            BY <6>2 DEF x
        <5> QED
          BY <2>3, <5>1, <5>2, <5>3
      <4>3. Window(buffer', q.next[n], q.max + 1) = Append(Window(buffer, q.next[n], q.max), m)
        BY <2>1, <4>1, <4>2, WindowAppend
      <4>4. Window(buffer, q.next[n], q.max) = Window(buffer, nextMsgNum[n], maxMsgNum)
        BY <2>2, <4>1, <4>2, WindowShift
      <4>5. Pending(r) = Window(buffer, nextMsgNum[n], maxMsgNum)
        BY <3>2, PendingIs
      <4>6. Pending(r)' = Window(buffer', q.next[n], q.max + 1)
        BY <1>1, <2>1, <3>2, PendingIs
      <4>7. Pending(r) \notin {<<"out">>, <<"reset">>}
        BY <4>1, <4>5, WindowOrdinary
      <4> QED
        BY <4>3, <4>4, <4>5, <4>6, <4>7
    <3> QED
      BY <3>1, <3>2
  <2>5. P' = [r \in Procs |-> IF P[r] \in {<<"out">>, <<"reset">>} THEN P[r] ELSE Append(P[r], m)]
    BY <2>4 DEF P
  <2> QED
    BY <1>1, <2>5 DEF Broadcast!Send, Broadcast!Out, Broadcast!Reset, P
<1> QED
  BY <1>2, <1>3

LEMMA NextRefines ==
    ASSUME Inv, [Next]_vars
    PROVE  [Broadcast!Next]_<<P, data>>
<1>1. CASE UNCHANGED <<counters, buffer, procState, backends, data>>
  <2>1. /\ maxMsgNum' = maxMsgNum /\ buffer' = buffer /\ nextMsgNum' = nextMsgNum
        /\ resetState' = resetState /\ MyBackendId' = MyBackendId /\ data' = data
    BY <1>1 DEF counters, procState, backends
  <2>2. \A r \in Procs : Pending(r)' = Pending(r)
    BY <2>1, PendingIs
  <2> QED
    BY <2>1, <2>2 DEF P
<1>2. CASE UNCHANGED vars
  BY <1>1, <1>2 DEF vars, local
<1>3. CASE WakenChildren
  BY <1>1, <1>3 DEF WakenChildren, local
<1>4. ASSUME NEW p \in Procs,
             ReceiveSharedInvalidMessages(p) \/ ProcessIncomingNotify(p) \/ Recurse(p)
      PROVE  [Broadcast!Next]_<<P, data>>
  BY <1>1, <1>4 DEF ReceiveSharedInvalidMessages, ProcessIncomingNotify, Recurse
<1>5. ASSUME NEW p \in Procs,
             \/ SIBackendInit(p) \/ CleanupInvalidationState(p)
             \/ \E m \in Messages : SendSharedInvalidMessage(p, m)
             \/ SIGetDataEntry(p) \/ SIDelExpiredDataEntries(p)
      PROVE  [Broadcast!Next]_<<P, data>>
  BY <1>5, StartRefines, ExitRefines, SendRefines, ReadRefines, ReleaseRefines DEF Broadcast!Next
<1> QED
  BY <1>2, <1>3, <1>4, <1>5 DEF Next, Receive

\* The circular buffer implements the ordered broadcast: every backend reads each
\* message sent since it started, once and in order, or a reset in place of all
\* it missed, whatever the size of the buffer and however the numbers wrap around.
THEOREM ImplementsBroadcast == Spec => BroadcastSpec
<1>1. Init => Broadcast!Init
  BY DEF Init, Broadcast!Init, Broadcast!Out, Pending, Running
<1>2. Inv /\ [Next]_vars => [Broadcast!Next]_<<[p \in Procs |-> Pending(p)], data>>
  BY NextRefines DEF P
<1> QED
  BY <1>1, <1>2, InitInv, NextInv, PTL DEF Spec, BroadcastSpec, Broadcast!Spec
-----------------------------------------------------------------------------
(***************************************************************************)
(* Notify.                                                                 *)
(***************************************************************************)
NotifyTypes ==
    /\ row \in [Backends -> {"none", Nobody} \cup Backends]
    /\ mine \in [Backends -> {"same", "listen", "unlisten"}]
    /\ pending \in [Backends -> BOOLEAN] /\ marks \in [Backends -> SUBSET Backends]
    /\ signal \in [Backends -> BOOLEAN] /\ enabled \in [Backends -> BOOLEAN]
    /\ occurred \in [Backends -> BOOLEAN] /\ owed \in [Backends -> BOOLEAN]
    /\ pc \in [Backends -> Places] /\ proc \in [Backends -> {"none", "lock", "commit"}]
    /\ handler \in [Backends -> BOOLEAN] /\ seen \in [Backends -> {"none", Nobody} \cup Backends]
    /\ lock \in Backends \cup {Nobody} /\ plan \subseteq Events

\* The sections between the scan of pg_listener and the end of the transaction.
InSection(b) == proc[b] = "commit" \/ pc[b] \in {"commit", "unlock"}
Locked == \A b \in Backends : InSection(b) <=> lock = b

\* The handler may read notifications only where the main loop waits.
Enabled == \A b \in Backends : enabled[b] => pc[b] \in {"test", "disable", "idle"} /\ ~handler[b]

Base == NotifyTypes /\ Locked /\ Enabled /\ NotReentered

\* b will look at its row, or is looking.
Alert(b) == signal[b] \/ occurred[b] \/ proc[b] # "none"

PendingAlert == \A b \in Backends : RowPending(b) /\ pc[b] # "exit" => Alert(b)

\* What has been read is still there, as long as the lock is held.
SeenIsThere == \A b \in Backends : proc[b] = "commit" => seen[b] = row[b]

\* Whom a commit is about to notify has been signalled before, and stays alert.
MarksSignalled ==
    \A b \in Backends : \A l \in marks[b] :
        pc[b] = "commit" /\ l # b /\ (pc[l] = "exit" \/ Alert(l))

Signalled == SeenIsThere /\ MarksSignalled /\ PendingAlert /\ \A b \in Backends : row[b] # b

\* Any step of b but the cancel of a query.
Move(b) ==
    \/ Async_Notify(b) \/ Async_Listen(b) \/ Async_Unlisten(b)
    \/ CommitQuietly(b) \/ AtCommit_Notify(b) \/ Abort(b) \/ FailedCommit(b)
    \/ RecordCommit(b) \/ Unlock(b) \/ Scan(b) \/ Finish(b)
    \/ SetEnabled(b) \/ TestOccurred(b) \/ ClearEnabled(b) \/ Retest(b)
    \/ ReceiveCommand(b) \/ Handle(b) \/ Exit(b) \/ UnlistenOnExit(b)

\* Every step is a move of one backend, or the cancel of a query.
LEMMA NextMoves == NotifyNext => (\E b \in Backends : Move(b) \/ Cancel(b)) /\ plan' = plan
BY DEF NotifyNext, EndXact, Loop, Move
-----------------------------------------------------------------------------
\* The values of the variables.
LEMMA TypesStep ==
    ASSUME Base, NEW b \in Backends, Move(b), plan' = plan
    PROVE  NotifyTypes'
<1> USE DEF Base, NotifyTypes, Places, Goto, At, xact, flags, inbound
<1>1. CASE Async_Notify(b)
  BY <1>1 DEF Async_Notify
<1>2. CASE Async_Listen(b)
  BY <1>2 DEF Async_Listen
<1>3. CASE Async_Unlisten(b)
  BY <1>3 DEF Async_Unlisten
<1>4. CASE CommitQuietly(b)
  BY <1>4 DEF CommitQuietly, OwnRow
<1>5. CASE AtCommit_Notify(b)
  BY <1>5 DEF AtCommit_Notify, Listeners
<1>6. CASE Abort(b)
  BY <1>6 DEF Abort
<1>7. CASE FailedCommit(b)
  BY <1>7 DEF FailedCommit
<1>8. CASE RecordCommit(b)
  BY <1>8 DEF RecordCommit, OwnRow
<1>9. CASE Unlock(b)
  BY <1>9 DEF Unlock
<1>10. CASE Scan(b)
  BY <1>10 DEF Scan
<1>11. CASE Finish(b)
  BY <1>11 DEF Finish
<1>12. CASE SetEnabled(b)
  BY <1>12 DEF SetEnabled
<1>13. CASE TestOccurred(b)
  BY <1>13 DEF TestOccurred
<1>14. CASE ClearEnabled(b)
  BY <1>14 DEF ClearEnabled
<1>15. CASE Retest(b)
  BY <1>15 DEF Retest, StartProcess
<1>16. CASE ReceiveCommand(b)
  BY <1>16 DEF ReceiveCommand
<1>17. CASE Handle(b)
  BY <1>17 DEF Handle, StartProcess
<1>18. CASE Exit(b)
  BY <1>18 DEF Exit
<1>19. CASE UnlistenOnExit(b)
  BY <1>19 DEF UnlistenOnExit
<1> QED
  BY <1>1, <1>2, <1>3, <1>4, <1>5, <1>6, <1>7, <1>8, <1>9, <1>10, <1>11, <1>12, <1>13, <1>14, <1>15, <1>16, <1>17, <1>18, <1>19 DEF Move

\* Who has the lock on pg_listener is in a section, and only one is.
LEMMA LockedStep ==
    ASSUME Base, NEW b \in Backends, Move(b), plan' = plan
    PROVE  Locked'
<1> SUFFICES ASSUME NEW c \in Backends PROVE InSection(c)' <=> lock' = c
  BY DEF Locked
<1> USE DEF Base, NotifyTypes, Places, Locked, InSection, NotReentered, Goto, At, xact, flags, inbound
<1>1. CASE Async_Notify(b)
  BY <1>1 DEF Async_Notify
<1>2. CASE Async_Listen(b)
  BY <1>2 DEF Async_Listen
<1>3. CASE Async_Unlisten(b)
  BY <1>3 DEF Async_Unlisten
<1>4. CASE CommitQuietly(b)
  BY <1>4 DEF CommitQuietly, OwnRow
<1>5. CASE AtCommit_Notify(b)
  <2>1. CASE c = b
    BY <1>5, <2>1, NobodyIsNoBackend DEF AtCommit_Notify, Listeners
  <2>2. CASE c # b
    BY <1>5, <2>2, NobodyIsNoBackend DEF AtCommit_Notify, Listeners
  <2> QED
    BY <2>1, <2>2
<1>6. CASE Abort(b)
  BY <1>6 DEF Abort
<1>7. CASE FailedCommit(b)
  <2>1. CASE c = b
    BY <1>7, <2>1, NobodyIsNoBackend DEF FailedCommit
  <2>2. CASE c # b
    BY <1>7, <2>2, NobodyIsNoBackend DEF FailedCommit
  <2> QED
    BY <2>1, <2>2
<1>8. CASE RecordCommit(b)
  BY <1>8 DEF RecordCommit, OwnRow
<1>9. CASE Unlock(b)
  <2>1. CASE c = b
    BY <1>9, <2>1, NobodyIsNoBackend DEF Unlock
  <2>2. CASE c # b
    BY <1>9, <2>2, NobodyIsNoBackend DEF Unlock
  <2> QED
    BY <2>1, <2>2
<1>10. CASE Scan(b)
  <2>1. CASE c = b
    BY <1>10, <2>1, NobodyIsNoBackend DEF Scan
  <2>2. CASE c # b
    BY <1>10, <2>2, NobodyIsNoBackend DEF Scan
  <2> QED
    BY <2>1, <2>2
<1>11. CASE Finish(b)
  <2>1. CASE c = b
    BY <1>11, <2>1, NobodyIsNoBackend DEF Finish
  <2>2. CASE c # b
    BY <1>11, <2>2, NobodyIsNoBackend DEF Finish
  <2> QED
    BY <2>1, <2>2
<1>12. CASE SetEnabled(b)
  BY <1>12 DEF SetEnabled
<1>13. CASE TestOccurred(b)
  BY <1>13 DEF TestOccurred
<1>14. CASE ClearEnabled(b)
  BY <1>14 DEF ClearEnabled
<1>15. CASE Retest(b)
  BY <1>15 DEF Retest, StartProcess
<1>16. CASE ReceiveCommand(b)
  BY <1>16 DEF ReceiveCommand
<1>17. CASE Handle(b)
  <2>1. CASE c = b
    <3>1. CASE enabled[b]
      <4>1. pc[b] \in {"test", "disable", "idle"} /\ proc[b] = "none"
        BY <1>17, <3>1 DEF Handle, Enabled
      <4>2. proc'[b] = "lock" /\ pc' = pc /\ lock' = lock
        BY <1>17, <3>1 DEF Handle, StartProcess
      <4> QED
        BY <2>1, <4>1, <4>2
    <3>2. CASE ~enabled[b]
      BY <1>17, <2>1, <3>2 DEF Handle
    <3> QED
      BY <3>1, <3>2
  <2>2. CASE c # b
    BY <1>17, <2>2, NobodyIsNoBackend DEF Handle, StartProcess
  <2> QED
    BY <2>1, <2>2
<1>18. CASE Exit(b)
  BY <1>18 DEF Exit
<1>19. CASE UnlistenOnExit(b)
  BY <1>19 DEF UnlistenOnExit
<1> QED
  BY <1>1, <1>2, <1>3, <1>4, <1>5, <1>6, <1>7, <1>8, <1>9, <1>10, <1>11, <1>12, <1>13, <1>14, <1>15, <1>16, <1>17, <1>18, <1>19 DEF Move

\* The handler is enabled only while the main loop waits.
LEMMA EnabledStep ==
    ASSUME Base, NEW b \in Backends, Move(b), plan' = plan
    PROVE  Enabled'
<1> USE DEF Base, NotifyTypes, Places, Enabled, NotReentered, Goto, At, xact, flags, inbound
<1>1. CASE Async_Notify(b)
  BY <1>1 DEF Async_Notify
<1>2. CASE Async_Listen(b)
  BY <1>2 DEF Async_Listen
<1>3. CASE Async_Unlisten(b)
  BY <1>3 DEF Async_Unlisten
<1>4. CASE CommitQuietly(b)
  BY <1>4 DEF CommitQuietly, OwnRow
<1>5. CASE AtCommit_Notify(b)
  BY <1>5 DEF AtCommit_Notify, Listeners
<1>6. CASE Abort(b)
  BY <1>6 DEF Abort
<1>7. CASE FailedCommit(b)
  BY <1>7 DEF FailedCommit
<1>8. CASE RecordCommit(b)
  BY <1>8 DEF RecordCommit, OwnRow
<1>9. CASE Unlock(b)
  BY <1>9 DEF Unlock
<1>10. CASE Scan(b)
  BY <1>10 DEF Scan
<1>11. CASE Finish(b)
  BY <1>11 DEF Finish
<1>12. CASE SetEnabled(b)
  BY <1>12 DEF SetEnabled
<1>13. CASE TestOccurred(b)
  BY <1>13 DEF TestOccurred
<1>14. CASE ClearEnabled(b)
  BY <1>14 DEF ClearEnabled
<1>15. CASE Retest(b)
  BY <1>15 DEF Retest, StartProcess
<1>16. CASE ReceiveCommand(b)
  BY <1>16 DEF ReceiveCommand
<1>17. CASE Handle(b)
  BY <1>17 DEF Handle, StartProcess
<1>18. CASE Exit(b)
  BY <1>18 DEF Exit
<1>19. CASE UnlistenOnExit(b)
  BY <1>19 DEF UnlistenOnExit
<1> QED
  BY <1>1, <1>2, <1>3, <1>4, <1>5, <1>6, <1>7, <1>8, <1>9, <1>10, <1>11, <1>12, <1>13, <1>14, <1>15, <1>16, <1>17, <1>18, <1>19 DEF Move

\* Notifications are read by the handler or the main loop, never by both.
LEMMA ReenteredStep ==
    ASSUME Base, NEW b \in Backends, Move(b), plan' = plan
    PROVE  NotReentered'
<1> USE DEF Base, NotifyTypes, Places, Enabled, NotReentered, Goto, At, xact, flags, inbound
<1>1. CASE Async_Notify(b)
  BY <1>1 DEF Async_Notify
<1>2. CASE Async_Listen(b)
  BY <1>2 DEF Async_Listen
<1>3. CASE Async_Unlisten(b)
  BY <1>3 DEF Async_Unlisten
<1>4. CASE CommitQuietly(b)
  BY <1>4 DEF CommitQuietly, OwnRow
<1>5. CASE AtCommit_Notify(b)
  BY <1>5 DEF AtCommit_Notify, Listeners
<1>6. CASE Abort(b)
  BY <1>6 DEF Abort
<1>7. CASE FailedCommit(b)
  BY <1>7 DEF FailedCommit
<1>8. CASE RecordCommit(b)
  BY <1>8 DEF RecordCommit, OwnRow
<1>9. CASE Unlock(b)
  BY <1>9 DEF Unlock
<1>10. CASE Scan(b)
  BY <1>10 DEF Scan
<1>11. CASE Finish(b)
  BY <1>11 DEF Finish
<1>12. CASE SetEnabled(b)
  BY <1>12 DEF SetEnabled
<1>13. CASE TestOccurred(b)
  BY <1>13 DEF TestOccurred
<1>14. CASE ClearEnabled(b)
  BY <1>14 DEF ClearEnabled
<1>15. CASE Retest(b)
  BY <1>15 DEF Retest, StartProcess
<1>16. CASE ReceiveCommand(b)
  BY <1>16 DEF ReceiveCommand
<1>17. CASE Handle(b)
  BY <1>17 DEF Handle, StartProcess
<1>18. CASE Exit(b)
  BY <1>18 DEF Exit
<1>19. CASE UnlistenOnExit(b)
  BY <1>19 DEF UnlistenOnExit
<1> QED
  BY <1>1, <1>2, <1>3, <1>4, <1>5, <1>6, <1>7, <1>8, <1>9, <1>10, <1>11, <1>12, <1>13, <1>14, <1>15, <1>16, <1>17, <1>18, <1>19 DEF Move

\* The cancel of a query while it waits for the lock.
LEMMA CancelStep ==
    ASSUME Base, NEW b \in Backends, Cancel(b), plan' = plan
    PROVE  Base'
<1> USE DEF Base, NotifyTypes, Cancel, Goto, xact
<1>1. proc[b] = "lock" /\ pc' = [pc EXCEPT ![b] = "enable"] /\ proc' = [proc EXCEPT ![b] = "none"]
  OBVIOUS
<1>2. pc[b] \notin {"commit", "unlock"}
  BY <1>1 DEF NotReentered
<1>3. NotifyTypes'
  BY DEF Places
<1>4. ASSUME NEW c \in Backends PROVE InSection(c)' <=> lock' = c
  <2>1. CASE c = b
    BY <1>1, <1>2, <2>1 DEF Locked, InSection
  <2>2. CASE c # b
    BY <2>2 DEF Locked, InSection
  <2> QED
    BY <2>1, <2>2
<1>5. Enabled' /\ NotReentered'
  BY DEF Enabled, NotReentered
<1> QED
  BY <1>3, <1>4, <1>5 DEF Locked

\* Every step keeps types, lock and flags as they should be.
THEOREM BaseStep == Base /\ [NotifyNext]_notifyVars => Base'
<1>1. ASSUME Base, NEW b \in Backends, Move(b), plan' = plan PROVE Base'
  BY <1>1, TypesStep, LockedStep, EnabledStep, ReenteredStep DEF Base
<1>2. ASSUME Base, UNCHANGED notifyVars PROVE Base'
  BY <1>2 DEF notifyVars, Base, NotifyTypes, Locked, InSection, Enabled, NotReentered
<1> QED
  BY <1>1, <1>2, NextMoves, CancelStep

\* They are so at first.
LEMMA BaseInit == NotifyInit => Base
BY NobodyIsNoBackend, PlansKnown DEF NotifyInit, Base, NotifyTypes, Places, Locked, InSection, Enabled, NotReentered

\* Incoming notifications are read by one of the handler and the main loop, and
\* by the handler only where the main loop waits (NotReentered).
THEOREM ReenteredInvariant == NotifySpec => []NotReentered
<1>1. Base => NotReentered
  BY DEF Base
<1> QED
  BY <1>1, BaseInit, BaseStep, PTL DEF NotifySpec
-----------------------------------------------------------------------------
(***************************************************************************)
(* The signal before the row.                                              *)
(***************************************************************************)
\* What a scan has read cannot change before its transaction ends.
LEMMA SeenStep ==
    ASSUME Base, Signalled, NEW b \in Backends, Move(b), plan' = plan
    PROVE  SeenIsThere'
<1> SUFFICES ASSUME NEW c \in Backends, proc'[c] = "commit" PROVE seen'[c] = row'[c]
  BY DEF SeenIsThere
<1> USE NobodyIsNoBackend DEF Base, NotifyTypes, Locked, InSection, NotReentered, Signalled, Goto, At, xact, flags, inbound, SeenIsThere
<1>1. CASE Async_Notify(b)
  BY <1>1 DEF Async_Notify
<1>2. CASE Async_Listen(b)
  BY <1>2 DEF Async_Listen
<1>3. CASE Async_Unlisten(b)
  BY <1>3 DEF Async_Unlisten
<1>4. CASE CommitQuietly(b)
  BY <1>4 DEF CommitQuietly, OwnRow
<1>5. CASE AtCommit_Notify(b)
  BY <1>5 DEF AtCommit_Notify, Listeners
<1>6. CASE Abort(b)
  BY <1>6 DEF Abort
<1>7. CASE FailedCommit(b)
  BY <1>7 DEF FailedCommit
<1>8. CASE RecordCommit(b)
  BY <1>8 DEF RecordCommit, OwnRow
<1>9. CASE Unlock(b)
  BY <1>9 DEF Unlock
<1>10. CASE Scan(b)
  BY <1>10 DEF Scan
<1>11. CASE Finish(b)
  BY <1>11 DEF Finish
<1>12. CASE SetEnabled(b)
  BY <1>12 DEF SetEnabled
<1>13. CASE TestOccurred(b)
  BY <1>13 DEF TestOccurred
<1>14. CASE ClearEnabled(b)
  BY <1>14 DEF ClearEnabled
<1>15. CASE Retest(b)
  BY <1>15 DEF Retest, StartProcess
<1>16. CASE ReceiveCommand(b)
  BY <1>16 DEF ReceiveCommand
<1>17. CASE Handle(b)
  BY <1>17 DEF Handle, StartProcess
<1>18. CASE Exit(b)
  BY <1>18 DEF Exit
<1>19. CASE UnlistenOnExit(b)
  BY <1>19 DEF UnlistenOnExit
<1> QED
  BY <1>1, <1>2, <1>3, <1>4, <1>5, <1>6, <1>7, <1>8, <1>9, <1>10, <1>11, <1>12, <1>13, <1>14, <1>15, <1>16, <1>17, <1>18, <1>19 DEF Move

\* Who is to be notified stays alert until the row is set.
LEMMA MarksStep ==
    ASSUME Base, Signalled, NEW b \in Backends, Move(b), plan' = plan
    PROVE  MarksSignalled'
<1> SUFFICES ASSUME NEW c \in Backends, NEW l \in marks'[c] PROVE pc'[c] = "commit" /\ l # c /\ (pc'[l] = "exit" \/ Alert(l)')
  BY DEF MarksSignalled
<1> USE NobodyIsNoBackend DEF Base, NotifyTypes, Locked, InSection, NotReentered, Signalled, Goto, At, xact, flags, inbound, MarksSignalled, Alert
<1>1. CASE Async_Notify(b)
  BY <1>1 DEF Async_Notify
<1>2. CASE Async_Listen(b)
  BY <1>2 DEF Async_Listen
<1>3. CASE Async_Unlisten(b)
  BY <1>3 DEF Async_Unlisten
<1>4. CASE CommitQuietly(b)
  BY <1>4 DEF CommitQuietly, OwnRow
<1>5. CASE AtCommit_Notify(b)
  BY <1>5 DEF AtCommit_Notify, Listeners
<1>6. CASE Abort(b)
  BY <1>6 DEF Abort
<1>7. CASE FailedCommit(b)
  BY <1>7 DEF FailedCommit
<1>8. CASE RecordCommit(b)
  BY <1>8 DEF RecordCommit, OwnRow
<1>9. CASE Unlock(b)
  BY <1>9 DEF Unlock
<1>10. CASE Scan(b)
  BY <1>10 DEF Scan
<1>11. CASE Finish(b)
  BY <1>11 DEF Finish
<1>12. CASE SetEnabled(b)
  BY <1>12 DEF SetEnabled
<1>13. CASE TestOccurred(b)
  BY <1>13 DEF TestOccurred
<1>14. CASE ClearEnabled(b)
  BY <1>14 DEF ClearEnabled
<1>15. CASE Retest(b)
  BY <1>15 DEF Retest, StartProcess
<1>16. CASE ReceiveCommand(b)
  BY <1>16 DEF ReceiveCommand
<1>17. CASE Handle(b)
  BY <1>17 DEF Handle, StartProcess
<1>18. CASE Exit(b)
  BY <1>18 DEF Exit
<1>19. CASE UnlistenOnExit(b)
  BY <1>19 DEF UnlistenOnExit
<1> QED
  BY <1>1, <1>2, <1>3, <1>4, <1>5, <1>6, <1>7, <1>8, <1>9, <1>10, <1>11, <1>12, <1>13, <1>14, <1>15, <1>16, <1>17, <1>18, <1>19 DEF Move

\* A row is set only for a backend that is alert.
LEMMA PendingStep ==
    ASSUME Base, Signalled, NEW b \in Backends, Move(b), plan' = plan
    PROVE  PendingAlert'
<1> SUFFICES ASSUME NEW c \in Backends, RowPending(c)', pc'[c] # "exit" PROVE Alert(c)'
  BY DEF PendingAlert, Alert
<1> USE NobodyIsNoBackend DEF Base, NotifyTypes, Locked, InSection, NotReentered, Signalled, Goto, At, xact, flags, inbound, SeenIsThere, MarksSignalled, PendingAlert, RowPending, Alert
<1>1. CASE Async_Notify(b)
  BY <1>1 DEF Async_Notify
<1>2. CASE Async_Listen(b)
  BY <1>2 DEF Async_Listen
<1>3. CASE Async_Unlisten(b)
  BY <1>3 DEF Async_Unlisten
<1>4. CASE CommitQuietly(b)
  BY <1>4 DEF CommitQuietly, OwnRow
<1>5. CASE AtCommit_Notify(b)
  BY <1>5 DEF AtCommit_Notify, Listeners
<1>6. CASE Abort(b)
  BY <1>6 DEF Abort
<1>7. CASE FailedCommit(b)
  BY <1>7 DEF FailedCommit
<1>8. CASE RecordCommit(b)
  BY <1>8 DEF RecordCommit, OwnRow
<1>9. CASE Unlock(b)
  BY <1>9 DEF Unlock
<1>10. CASE Scan(b)
  BY <1>10 DEF Scan
<1>11. CASE Finish(b)
  BY <1>11 DEF Finish
<1>12. CASE SetEnabled(b)
  BY <1>12 DEF SetEnabled
<1>13. CASE TestOccurred(b)
  BY <1>13 DEF TestOccurred
<1>14. CASE ClearEnabled(b)
  BY <1>14 DEF ClearEnabled
<1>15. CASE Retest(b)
  BY <1>15 DEF Retest, StartProcess
<1>16. CASE ReceiveCommand(b)
  BY <1>16 DEF ReceiveCommand
<1>17. CASE Handle(b)
  BY <1>17 DEF Handle, StartProcess
<1>18. CASE Exit(b)
  BY <1>18 DEF Exit
<1>19. CASE UnlistenOnExit(b)
  BY <1>19 DEF UnlistenOnExit
<1> QED
  BY <1>1, <1>2, <1>3, <1>4, <1>5, <1>6, <1>7, <1>8, <1>9, <1>10, <1>11, <1>12, <1>13, <1>14, <1>15, <1>16, <1>17, <1>18, <1>19 DEF Move

\* No backend notifies itself through its row.
LEMMA OthersStep ==
    ASSUME Base, Signalled, NEW b \in Backends, Move(b), plan' = plan
    PROVE  \A c \in Backends : row'[c] # c
<1> SUFFICES ASSUME NEW c \in Backends PROVE row'[c] # c
  BY DEF Signalled
<1> USE NobodyIsNoBackend DEF Base, NotifyTypes, Locked, InSection, NotReentered, Signalled, Goto, At, xact, flags, inbound, MarksSignalled
<1>1. CASE Async_Notify(b)
  BY <1>1 DEF Async_Notify
<1>2. CASE Async_Listen(b)
  BY <1>2 DEF Async_Listen
<1>3. CASE Async_Unlisten(b)
  BY <1>3 DEF Async_Unlisten
<1>4. CASE CommitQuietly(b)
  BY <1>4 DEF CommitQuietly, OwnRow
<1>5. CASE AtCommit_Notify(b)
  BY <1>5 DEF AtCommit_Notify, Listeners
<1>6. CASE Abort(b)
  BY <1>6 DEF Abort
<1>7. CASE FailedCommit(b)
  BY <1>7 DEF FailedCommit
<1>8. CASE RecordCommit(b)
  BY <1>8 DEF RecordCommit, OwnRow
<1>9. CASE Unlock(b)
  BY <1>9 DEF Unlock
<1>10. CASE Scan(b)
  BY <1>10 DEF Scan
<1>11. CASE Finish(b)
  BY <1>11 DEF Finish
<1>12. CASE SetEnabled(b)
  BY <1>12 DEF SetEnabled
<1>13. CASE TestOccurred(b)
  BY <1>13 DEF TestOccurred
<1>14. CASE ClearEnabled(b)
  BY <1>14 DEF ClearEnabled
<1>15. CASE Retest(b)
  BY <1>15 DEF Retest, StartProcess
<1>16. CASE ReceiveCommand(b)
  BY <1>16 DEF ReceiveCommand
<1>17. CASE Handle(b)
  BY <1>17 DEF Handle, StartProcess
<1>18. CASE Exit(b)
  BY <1>18 DEF Exit
<1>19. CASE UnlistenOnExit(b)
  BY <1>19 DEF UnlistenOnExit
<1> QED
  BY <1>1, <1>2, <1>3, <1>4, <1>5, <1>6, <1>7, <1>8, <1>9, <1>10, <1>11, <1>12, <1>13, <1>14, <1>15, <1>16, <1>17, <1>18, <1>19 DEF Move

\* Every step but the cancel of a scan keeps the signal ahead of the row.
THEOREM SignalledStep == "cancel" \notin plan /\ Base /\ Signalled /\ [NotifyNext]_notifyVars => Signalled'
<1>1. ASSUME Base, Signalled, NEW b \in Backends, Move(b), plan' = plan PROVE Signalled'
  BY <1>1, SeenStep, MarksStep, PendingStep, OthersStep DEF Signalled
<1>2. ASSUME Signalled, UNCHANGED notifyVars PROVE Signalled'
  BY <1>2 DEF notifyVars, Signalled, SeenIsThere, MarksSignalled, PendingAlert, RowPending, Alert
<1> QED
  BY <1>1, <1>2, NextMoves DEF Cancel

\* Nothing is pending at first.
LEMMA SignalledInit == NotifyInit => Signalled
BY NobodyIsNoBackend DEF NotifyInit, Signalled, SeenIsThere, MarksSignalled, PendingAlert, RowPending

\* What a behaviour may do is chosen at the start.
LEMMA PlanStep == [NotifyNext]_notifyVars => plan' = plan
BY DEF NotifyNext, notifyVars

\* Where no scan is cancelled the signal is ahead of the row.
SignalledUncancelled == "cancel" \notin plan => Signalled

LEMMA UncancelledStep == Base /\ SignalledUncancelled /\ [NotifyNext]_notifyVars => SignalledUncancelled'
BY SignalledStep, PlanStep DEF SignalledUncancelled

\* Whoever has a notification in its row will look at it (PendingIsSignalled),
\* however commits, signals and scans interleave, and whatever fails but a scan.
THEOREM SignalledInvariant == NotifySpec => []PendingIsSignalled
<1>1. SignalledUncancelled => PendingIsSignalled
  BY DEF SignalledUncancelled, Signalled, PendingAlert, PendingIsSignalled, Alert
<1>2. NotifyInit => SignalledUncancelled
  BY SignalledInit DEF SignalledUncancelled
<1> QED
  BY <1>1, <1>2, BaseInit, BaseStep, UncancelledStep, PTL DEF NotifySpec
-----------------------------------------------------------------------------
(***************************************************************************)
(* Every listener, where nobody begins or ceases to listen.                *)
(***************************************************************************)
Settled == \A b \in Backends : mine[b] = "same"

\* A commit that notifies has found every listener, or found it notified.
MarksComplete ==
    \A b, l \in Backends :
        pc[b] = "commit" /\ l # b /\ row[l] # "none" => l \in marks[b] \/ RowPending(l)

\* What has been read is not owed any more.
ReadIsPaid == \A b \in Backends : proc[b] = "commit" => ~owed[b]

OwedPending == \A b \in Backends : owed[b] => RowPending(b)

Reached == Settled /\ MarksComplete /\ ReadIsPaid /\ OwedPending

Fixed == plan \cap {"listen", "unlisten", "cancel"} = {}

\* No transaction has done anything to its own row.
LEMMA SettledStep ==
    ASSUME Fixed, Base, Reached, NEW b \in Backends, Move(b), plan' = plan
    PROVE  Settled'
<1> SUFFICES ASSUME NEW c \in Backends PROVE mine'[c] = "same"
  BY DEF Settled
<1> USE NobodyIsNoBackend DEF Base, NotifyTypes, Locked, InSection, NotReentered, Reached, Settled, Goto, At, xact, flags, inbound
<1>1. CASE Async_Notify(b)
  BY <1>1 DEF Async_Notify
<1>2. CASE Async_Listen(b)
  BY <1>2 DEF Async_Listen, Fixed
<1>3. CASE Async_Unlisten(b)
  BY <1>3 DEF Async_Unlisten, Fixed
<1>4. CASE CommitQuietly(b)
  BY <1>4 DEF CommitQuietly, OwnRow
<1>5. CASE AtCommit_Notify(b)
  BY <1>5 DEF AtCommit_Notify, Listeners
<1>6. CASE Abort(b)
  BY <1>6 DEF Abort
<1>7. CASE FailedCommit(b)
  BY <1>7 DEF FailedCommit
<1>8. CASE RecordCommit(b)
  BY <1>8 DEF RecordCommit, OwnRow
<1>9. CASE Unlock(b)
  BY <1>9 DEF Unlock
<1>10. CASE Scan(b)
  BY <1>10 DEF Scan
<1>11. CASE Finish(b)
  BY <1>11 DEF Finish
<1>12. CASE SetEnabled(b)
  BY <1>12 DEF SetEnabled
<1>13. CASE TestOccurred(b)
  BY <1>13 DEF TestOccurred
<1>14. CASE ClearEnabled(b)
  BY <1>14 DEF ClearEnabled
<1>15. CASE Retest(b)
  BY <1>15 DEF Retest, StartProcess
<1>16. CASE ReceiveCommand(b)
  BY <1>16 DEF ReceiveCommand
<1>17. CASE Handle(b)
  BY <1>17 DEF Handle, StartProcess
<1>18. CASE Exit(b)
  BY <1>18 DEF Exit
<1>19. CASE UnlistenOnExit(b)
  BY <1>19 DEF UnlistenOnExit
<1> QED
  BY <1>1, <1>2, <1>3, <1>4, <1>5, <1>6, <1>7, <1>8, <1>9, <1>10, <1>11, <1>12, <1>13, <1>14, <1>15, <1>16, <1>17, <1>18, <1>19 DEF Move

\* Nobody's row changes while another one commits its notification.
LEMMA CompleteStep ==
    ASSUME Fixed, Base, Reached, NEW b \in Backends, Move(b), plan' = plan
    PROVE  MarksComplete'
<1> SUFFICES ASSUME NEW c \in Backends, NEW l \in Backends, pc'[c] = "commit", l # c, row'[l] # "none" PROVE l \in marks'[c] \/ RowPending(l)'
  BY DEF MarksComplete
<1> USE NobodyIsNoBackend DEF Base, NotifyTypes, Locked, InSection, NotReentered, Reached, Settled, Goto, At, xact, flags, inbound, MarksComplete, RowPending
<1>1. CASE Async_Notify(b)
  BY <1>1 DEF Async_Notify
<1>2. CASE Async_Listen(b)
  BY <1>2 DEF Async_Listen, Fixed
<1>3. CASE Async_Unlisten(b)
  BY <1>3 DEF Async_Unlisten, Fixed
<1>4. CASE CommitQuietly(b)
  BY <1>4 DEF CommitQuietly, OwnRow
<1>5. CASE AtCommit_Notify(b)
  BY <1>5 DEF AtCommit_Notify, Listeners
<1>6. CASE Abort(b)
  BY <1>6 DEF Abort
<1>7. CASE FailedCommit(b)
  BY <1>7 DEF FailedCommit
<1>8. CASE RecordCommit(b)
  BY <1>8 DEF RecordCommit, OwnRow
<1>9. CASE Unlock(b)
  BY <1>9 DEF Unlock
<1>10. CASE Scan(b)
  BY <1>10 DEF Scan
<1>11. CASE Finish(b)
  BY <1>11 DEF Finish
<1>12. CASE SetEnabled(b)
  BY <1>12 DEF SetEnabled
<1>13. CASE TestOccurred(b)
  BY <1>13 DEF TestOccurred
<1>14. CASE ClearEnabled(b)
  BY <1>14 DEF ClearEnabled
<1>15. CASE Retest(b)
  BY <1>15 DEF Retest, StartProcess
<1>16. CASE ReceiveCommand(b)
  BY <1>16 DEF ReceiveCommand
<1>17. CASE Handle(b)
  BY <1>17 DEF Handle, StartProcess
<1>18. CASE Exit(b)
  BY <1>18 DEF Exit
<1>19. CASE UnlistenOnExit(b)
  BY <1>19 DEF UnlistenOnExit
<1> QED
  BY <1>1, <1>2, <1>3, <1>4, <1>5, <1>6, <1>7, <1>8, <1>9, <1>10, <1>11, <1>12, <1>13, <1>14, <1>15, <1>16, <1>17, <1>18, <1>19 DEF Move

\* A commit that would owe again waits for the lock.
LEMMA PaidStep ==
    ASSUME Fixed, Base, Reached, NEW b \in Backends, Move(b), plan' = plan
    PROVE  ReadIsPaid'
<1> SUFFICES ASSUME NEW c \in Backends, proc'[c] = "commit" PROVE ~owed'[c]
  BY DEF ReadIsPaid
<1> USE NobodyIsNoBackend DEF Base, NotifyTypes, Locked, InSection, NotReentered, Reached, Settled, Goto, At, xact, flags, inbound, ReadIsPaid
<1>1. CASE Async_Notify(b)
  BY <1>1 DEF Async_Notify
<1>2. CASE Async_Listen(b)
  BY <1>2 DEF Async_Listen, Fixed
<1>3. CASE Async_Unlisten(b)
  BY <1>3 DEF Async_Unlisten, Fixed
<1>4. CASE CommitQuietly(b)
  BY <1>4 DEF CommitQuietly, OwnRow
<1>5. CASE AtCommit_Notify(b)
  BY <1>5 DEF AtCommit_Notify, Listeners
<1>6. CASE Abort(b)
  BY <1>6 DEF Abort
<1>7. CASE FailedCommit(b)
  BY <1>7 DEF FailedCommit
<1>8. CASE RecordCommit(b)
  BY <1>8 DEF RecordCommit, OwnRow
<1>9. CASE Unlock(b)
  BY <1>9 DEF Unlock
<1>10. CASE Scan(b)
  BY <1>10 DEF Scan
<1>11. CASE Finish(b)
  BY <1>11 DEF Finish
<1>12. CASE SetEnabled(b)
  BY <1>12 DEF SetEnabled
<1>13. CASE TestOccurred(b)
  BY <1>13 DEF TestOccurred
<1>14. CASE ClearEnabled(b)
  BY <1>14 DEF ClearEnabled
<1>15. CASE Retest(b)
  BY <1>15 DEF Retest, StartProcess
<1>16. CASE ReceiveCommand(b)
  BY <1>16 DEF ReceiveCommand
<1>17. CASE Handle(b)
  BY <1>17 DEF Handle, StartProcess
<1>18. CASE Exit(b)
  BY <1>18 DEF Exit
<1>19. CASE UnlistenOnExit(b)
  BY <1>19 DEF UnlistenOnExit
<1> QED
  BY <1>1, <1>2, <1>3, <1>4, <1>5, <1>6, <1>7, <1>8, <1>9, <1>10, <1>11, <1>12, <1>13, <1>14, <1>15, <1>16, <1>17, <1>18, <1>19 DEF Move

\* A row is cleared only after it has been read.
LEMMA ReachedStep ==
    ASSUME Fixed, Base, Reached, Signalled, NEW b \in Backends, Move(b), plan' = plan
    PROVE  OwedPending'
<1> SUFFICES ASSUME NEW c \in Backends, owed'[c] PROVE RowPending(c)'
  BY DEF OwedPending
<1> USE NobodyIsNoBackend DEF Base, NotifyTypes, Locked, InSection, NotReentered, Reached, Settled, Goto, At, xact, flags, inbound, MarksComplete, ReadIsPaid, OwedPending, RowPending, Signalled, SeenIsThere
<1>1. CASE Async_Notify(b)
  BY <1>1 DEF Async_Notify
<1>2. CASE Async_Listen(b)
  BY <1>2 DEF Async_Listen, Fixed
<1>3. CASE Async_Unlisten(b)
  BY <1>3 DEF Async_Unlisten, Fixed
<1>4. CASE CommitQuietly(b)
  BY <1>4 DEF CommitQuietly, OwnRow
<1>5. CASE AtCommit_Notify(b)
  BY <1>5 DEF AtCommit_Notify, Listeners
<1>6. CASE Abort(b)
  BY <1>6 DEF Abort
<1>7. CASE FailedCommit(b)
  BY <1>7 DEF FailedCommit
<1>8. CASE RecordCommit(b)
  BY <1>8 DEF RecordCommit, OwnRow
<1>9. CASE Unlock(b)
  BY <1>9 DEF Unlock
<1>10. CASE Scan(b)
  BY <1>10 DEF Scan
<1>11. CASE Finish(b)
  BY <1>11 DEF Finish
<1>12. CASE SetEnabled(b)
  BY <1>12 DEF SetEnabled
<1>13. CASE TestOccurred(b)
  BY <1>13 DEF TestOccurred
<1>14. CASE ClearEnabled(b)
  BY <1>14 DEF ClearEnabled
<1>15. CASE Retest(b)
  BY <1>15 DEF Retest, StartProcess
<1>16. CASE ReceiveCommand(b)
  BY <1>16 DEF ReceiveCommand
<1>17. CASE Handle(b)
  BY <1>17 DEF Handle, StartProcess
<1>18. CASE Exit(b)
  BY <1>18 DEF Exit
<1>19. CASE UnlistenOnExit(b)
  BY <1>19 DEF UnlistenOnExit
<1> QED
  BY <1>1, <1>2, <1>3, <1>4, <1>5, <1>6, <1>7, <1>8, <1>9, <1>10, <1>11, <1>12, <1>13, <1>14, <1>15, <1>16, <1>17, <1>18, <1>19 DEF Move

\* Where nobody begins or ceases to listen, every listener is reached.
ReachedFixed == Fixed => Reached

LEMMA FixedStep == Base /\ SignalledUncancelled /\ ReachedFixed /\ [NotifyNext]_notifyVars => ReachedFixed'
<1>1. ASSUME Fixed, Base, Signalled, Reached, NEW b \in Backends, Move(b), plan' = plan PROVE Reached'
  BY <1>1, SettledStep, CompleteStep, PaidStep, ReachedStep DEF Reached
<1>2. ASSUME Reached, UNCHANGED notifyVars PROVE Reached'
  BY <1>2 DEF notifyVars, Reached, Settled, MarksComplete, ReadIsPaid, OwedPending, RowPending
<1>3. ASSUME Fixed, Base, Signalled, Reached, [NotifyNext]_notifyVars PROVE Reached'
  BY <1>1, <1>2, <1>3, NextMoves DEF Cancel, Fixed
<1> QED
  BY <1>3, PlanStep DEF ReachedFixed, SignalledUncancelled, Fixed

\* A client that listens when a NOTIFY commits is notified (ListenersReached),
\* with any number of them, as long as nobody begins or ceases to listen.
THEOREM ListenersInvariant == NotifySpec => []ListenersReached
<1>1. NotifyInit => SignalledUncancelled /\ ReachedFixed
  BY SignalledInit, NobodyIsNoBackend
     DEF NotifyInit, SignalledUncancelled, ReachedFixed, Reached, Settled, MarksComplete, ReadIsPaid, OwedPending
<1>2. ReachedFixed => ListenersReached
  BY DEF ReachedFixed, Fixed, Reached, OwedPending, ListenersReached
<1> QED
  BY <1>1, <1>2, BaseInit, BaseStep, UncancelledStep, FixedStep, PTL DEF NotifySpec
=============================================================================
